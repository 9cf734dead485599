------------------------ MODULE PluginRegistryProofs ------------------------
(***************************************************************************)
(* destroy() keeps the inductive invariant; the theorems about the         *)
(* registry, for any number of threads, slots, lease slots and plugins; it *)
(* implements PluginLeases.                                                *)
(***************************************************************************)
EXTENDS PluginRegistryCallbacks, FiniteSetTheorems

USE ZenonT(4), SMTT(30), ZenonT(30), SMTT(31)

\* destroy() bars every other operation.
LEMMA DestroyRegistryKeeps == ASSUME IInv, NEW t \in Threads,
    DestroyRegistry(t) PROVE IInv'
<1> TypeOK /\ CallShape /\ CallbackOwner /\ UnloadOwner /\ LibraryOpen /\
      LeaseOwner /\ DestroyRun /\ GenerationBound /\ RefAge /\ TokenAge /\
      Counts /\ DestroyWalk
  BY DEF IInv
<1>s. /\ \A u \in Threads : pc[u] \notin Loading
      /\ \A u \in Threads : ~whole[u]
      /\ pc'[t] = "destroy_next" /\ slotOf'[t] = 1 /\ whole'[t]
      /\ \A u \in Threads \ {t} : pc'[u] = pc[u] /\ slotOf'[u] = slotOf[u] /\ ~whole'[u]
  <2>1. \A u \in Threads : pc[u] \notin Loading
    BY LoadingCounted DEF slotVars, implVars, threadVars, ghostVars, DestroyRegistry,
         Unloadable
  <2>2. \A u \in Threads : ~whole[u]
    BY DEF DestroyWalk, slotVars, implVars, threadVars, ghostVars, DestroyRegistry,
         Unloadable
  <2>3. /\ pc'[t] = "destroy_next" /\ slotOf'[t] = 1 /\ whole'[t]
        /\ \A u \in Threads \ {t} : pc'[u] = pc[u] /\ slotOf'[u] = slotOf[u] /\ whole'[u] = whole[u]
    BY DEF TypeOK, slotVars, implVars, threadVars, ghostVars, DestroyRegistry,
         Unloadable
  <2> QED BY <2>1, <2>2, <2>3
<1>i. \A u \in Threads : pc[u] = "idle"
  <2>1. ASSUME NEW u \in Threads PROVE pc[u] \notin InCallback \cup Closing
    <3>1. ASSUME pc[u] \in InCallback \cup Closing PROVE FALSE
      <4>1. slotOf[u] \in Slots /\ occupied(slotOf[u])
        BY <3>1 DEF CallShape
      <4>2. callbacks[slotOf[u]] = 0 /\ ~unloading[slotOf[u]]
        BY <4>1 DEF slotVars, implVars, threadVars, ghostVars, DestroyRegistry,
             Unloadable
      <4> QED BY <3>1, <4>2 DEF CallbackOwner, UnloadOwner
    <3> QED BY <3>1
  <2>2. \A u \in Threads : pc[u] # "destroy_next"
    BY <1>s DEF CallShape
  <2> QED BY <1>s, <2>1, <2>2 DEF TypeOK, PCs
<1>w. LeaseOwner' /\ GenerationBound' /\ RefAge' /\ TokenAge'
  BY Frame DEF slotVars, implVars, threadVars, ghostVars, DestroyRegistry, Unloadable
<1>1. TypeOK'
  <2>1. 1 \in 1 .. Capacity + 1
    BY CapacityAssumption
  <2>2. pc' \in [Threads -> PCs] /\ slotOf' \in [Threads -> 1 .. Capacity + 1]
    BY <2>1 DEF TypeOK, PCs, slotVars, implVars, threadVars, ghostVars, DestroyRegistry,
         Unloadable
  <2>3. whole' \in [Threads -> BOOLEAN] /\ destroying' \in BOOLEAN
    BY DEF TypeOK, slotVars, implVars, threadVars, ghostVars, DestroyRegistry,
         Unloadable
  <2> QED BY <2>2, <2>3 DEF TypeOK, slotVars, implVars, threadVars, ghostVars,
       DestroyRegistry, Unloadable
<1>2. CallShape'
  BY <1>s, <1>i, ZenonT(30) DEF CallShape, Loading, InCallback, Closing
<1>3. CallbackOwner'
  <2>1. \A u \in Threads : pc'[u] \notin InCallback
    BY <1>s, <1>i, ZenonT(30) DEF InCallback
  <2>2. callbacks' = callbacks /\ state' = state /\ unloading' = unloading
    BY ZenonT(30) DEF slotVars, implVars, threadVars, ghostVars, DestroyRegistry, Unloadable
  <2> QED BY <2>1, <2>2, ZenonT(30) DEF CallbackOwner
<1>4. UnloadOwner'
  <2>1. \A u \in Threads : pc'[u] \notin Closing /\ pc[u] \notin Closing
    BY <1>s, <1>i DEF Closing
  <2>2. unloading' = unloading
    BY ZenonT(30) DEF slotVars, implVars, threadVars, ghostVars, DestroyRegistry, Unloadable
  <2> QED BY ZenonT(30), <2>1, <2>2 DEF UnloadOwner
<1>5. LibraryOpen'
  <2>0. library' = library /\ manifest' = manifest
    BY ZenonT(30) DEF slotVars, implVars, threadVars, ghostVars, DestroyRegistry, Unloadable
  <2>1. \A u \in Threads : (pc'[u] = "closed" <=> pc[u] = "closed")
                         /\ (pc[u] = "closed" => slotOf'[u] = slotOf[u])
    BY <1>s, <1>i, ZenonT(30) DEF TypeOK
  <2> QED BY ZenonT(30), <2>0, <2>1 DEF LibraryOpen, occupied
<1>6. DestroyRun'
  <2>1. \A u \in Threads : pc[u] # "destroy"
    BY <1>i
  <2>2. /\ destroyCalled' = destroyCalled /\ state' = state /\ manifest' = manifest
        /\ destroyRuns' = destroyRuns
    BY DEF slotVars, implVars, threadVars, ghostVars, DestroyRegistry, Unloadable
  <2> QED BY <2>1, <2>2 DEF DestroyRun, occupied
<1>7. Counts'
  <2>1. {u \in Threads : pc'[u] \in Loading} = {u \in Threads : pc[u] \in Loading}
    BY <1>s, <1>i DEF Loading
  <2>2. count' = count /\ loadsInflight' = loadsInflight /\ manifest' = manifest
    BY DEF slotVars, implVars, threadVars, ghostVars, DestroyRegistry, Unloadable
  <2> QED BY <2>1, <2>2 DEF Counts, occupied
<1>8. DestroyWalk'
  <2>1. \A s \in Slots : ~(s < 1)
    BY CapacityAssumption DEF Slots
  <2>2. \A s \in Slots : occupied(s) => state[s] \in {"LOADED", "QUIESCENT"} /\ activeLeases[s] = 0
    BY ZenonT(30) DEF slotVars, implVars, threadVars, ghostVars, DestroyRegistry, Unloadable
  <2>3. /\ manifest' = manifest /\ destroying' = TRUE /\ impl' = TRUE /\ impl
        /\ loadsInflight' = 0 /\ state' = state /\ activeLeases' = activeLeases
    BY DEF TypeOK, slotVars, implVars, threadVars, ghostVars, DestroyRegistry,
         Unloadable
  <2> QED BY <1>s, <1>i, <2>1, <2>2, <2>3 DEF DestroyWalk, occupied
<1> QED BY <1>w, <1>1, <1>2, <1>3, <1>4, <1>5, <1>6, <1>7, <1>8 DEF IInv

\* destroy() passes over a free slot.
LEMMA DestroySkipKeeps == ASSUME IInv, NEW t \in Threads, DestroySkip(t) PROVE
    IInv'
<1> TypeOK /\ CallShape /\ CallbackOwner /\ UnloadOwner /\ LibraryOpen /\
      LeaseOwner /\ DestroyRun /\ GenerationBound /\ RefAge /\ TokenAge /\
      Counts /\ DestroyWalk
  BY DEF IInv
<1>s. /\ whole[t] /\ destroying /\ impl /\ slotOf'[t] = slotOf[t] + 1
      /\ \A u \in Threads \ {t} : slotOf'[u] = slotOf[u] /\ ~whole[u]
  BY DEF TypeOK, CallShape, DestroyWalk, slotVars, implVars, threadVars, ghostVars,
       DestroySkip
<1>v. slotOf' \in [Threads -> 1 .. Capacity + 1]
  <2>1. slotOf[t] + 1 \in 1 .. Capacity + 1
    <3>1. slotOf[t] \in Slots
      BY DEF DestroySkip
    <3> QED BY <3>1, CapacityAssumption DEF Slots
  <2> QED BY <2>1 DEF TypeOK, slotVars, implVars, threadVars, ghostVars, DestroySkip
<1>w. LeaseOwner' /\ GenerationBound' /\ RefAge' /\ TokenAge' /\ Counts'
  BY Frame DEF slotVars, implVars, threadVars, ghostVars, DestroySkip
<1>1. TypeOK'
  BY <1>v DEF TypeOK, slotVars, implVars, threadVars, ghostVars, DestroySkip
<1>2. CallShape'
  BY <1>s DEF CallShape, TypeOK, occupied, Loading, InCallback, Closing, slotVars,
       implVars, threadVars, ghostVars, DestroySkip
<1>3. CallbackOwner'
  BY <1>s DEF CallbackOwner, TypeOK, InCallback, CallShape, slotVars, implVars,
       threadVars, ghostVars, DestroySkip
<1>4. UnloadOwner'
  BY <1>s DEF UnloadOwner, TypeOK, Closing, occupied, CallShape, slotVars, implVars,
       threadVars, ghostVars, DestroySkip
<1>5. LibraryOpen'
  BY <1>s DEF LibraryOpen, TypeOK, occupied, CallShape, slotVars, implVars, threadVars,
       ghostVars, DestroySkip
<1>6. DestroyRun'
  BY <1>s DEF DestroyRun, TypeOK, occupied, CallShape, slotVars, implVars, threadVars,
       ghostVars, DestroySkip
<1>7. DestroyWalk'
  <2>1. \A s \in Slots : s < slotOf[t] + 1 => s = slotOf[t] \/ s < slotOf[t]
    BY CapacityAssumption DEF Slots, slotVars, implVars, threadVars, ghostVars,
         DestroySkip
  <2>2. \A s \in Slots : s < slotOf'[t] => ~occupied(s)
    BY <1>s, <2>1 DEF DestroyWalk, slotVars, implVars, threadVars, ghostVars,
         DestroySkip
  <2>3. /\ manifest' = manifest /\ whole' = whole /\ pc' = pc /\ implVars' = implVars
        /\ state' = state /\ activeLeases' = activeLeases
    BY DEF slotVars, implVars, threadVars, ghostVars, DestroySkip
  <2> QED BY <1>s, <2>2, <2>3 DEF DestroyWalk, occupied, slotVars, implVars, threadVars,
       ghostVars, DestroySkip
<1> QED BY <1>w, <1>1, <1>2, <1>3, <1>4, <1>5, <1>6, <1>7 DEF IInv

\* destroy() begins to close an occupied slot.
LEMMA DestroySlotKeeps == ASSUME IInv, NEW t \in Threads, DestroySlot(t) PROVE IInv'
<1>1. /\ whole[t] /\ destroying /\ slotOf[t] \in Slots /\ occupied(slotOf[t])
      /\ pc[t] = "destroy_next"
  BY DEF IInv, DestroySlot, CallShape, DestroyWalk
<1>2. \A u \in Threads : pc[u] \notin InCallback \cup Closing
  BY <1>1 DEF IInv, DestroyWalk, InCallback, Closing
<1>3. ~unloading[slotOf[t]] /\ Unloadable(slotOf[t])
  BY <1>1, <1>2, ZenonT(30) DEF IInv, DestroyWalk, CallbackOwner, UnloadOwner, Unloadable
<1> QED BY <1>1, <1>3, BeginCloseKeeps DEF DestroySlot

\* destroy() frees the registry, or reopens it when a slot is left.
LEMMA DestroyFinishKeeps == ASSUME IInv, NEW t \in Threads, DestroyFinish(t)
    PROVE IInv'
<1> TypeOK /\ CallShape /\ CallbackOwner /\ UnloadOwner /\ LibraryOpen /\
      LeaseOwner /\ DestroyRun /\ GenerationBound /\ RefAge /\ TokenAge /\
      Counts /\ DestroyWalk
  BY DEF IInv, slotVars, implVars, threadVars, ghostVars, DestroyFinish
<1>s. /\ whole[t] /\ destroying /\ pc'[t] = "idle" /\ ~whole'[t]
      /\ \A u \in Threads \ {t} : /\ pc[u] = "idle" /\ ~whole[u]
                                     /\ pc'[u] = "idle" /\ ~whole'[u]
  BY DEF TypeOK, CallShape, DestroyWalk, slotVars, implVars, threadVars, ghostVars,
       DestroyFinish
<1>o. \A s \in Slots : ~occupied(s)
  <2>1. slotOf[t] = Capacity + 1
    BY CapacityAssumption DEF TypeOK, Slots, slotVars, implVars, threadVars, ghostVars,
         DestroyFinish
  <2>2. \A s \in Slots : s < slotOf[t]
    BY <2>1, CapacityAssumption DEF Slots, slotVars, implVars, threadVars, ghostVars,
         DestroyFinish
  <2> QED BY <1>s, <2>2 DEF DestroyWalk, slotVars, implVars, threadVars, ghostVars,
       DestroyFinish
<1>w. LeaseOwner' /\ GenerationBound' /\ RefAge' /\ TokenAge'
  BY Frame DEF slotVars, implVars, threadVars, ghostVars, DestroyFinish
<1>1. TypeOK'
  <2>1. 1 \in 1 .. Capacity + 1
    BY CapacityAssumption DEF slotVars, implVars, threadVars, ghostVars, DestroyFinish
  <2>2. pc' \in [Threads -> PCs] /\ slotOf' \in [Threads -> 1 .. Capacity + 1]
    BY <2>1 DEF TypeOK, PCs, slotVars, implVars, threadVars, ghostVars, DestroyFinish
  <2>3. whole' \in [Threads -> BOOLEAN] /\ impl' \in BOOLEAN
    BY ZenonT(30) DEF TypeOK, slotVars, implVars, threadVars, ghostVars, DestroyFinish
  <2> QED BY <2>2, <2>3, ZenonT(30) DEF TypeOK, slotVars, implVars, threadVars, ghostVars,
       DestroyFinish
<1>2. CallShape'
  BY <1>s DEF CallShape, TypeOK, occupied, Loading, InCallback, Closing, slotVars,
       implVars, threadVars, ghostVars, DestroyFinish
<1>3. CallbackOwner'
  BY <1>s DEF CallbackOwner, TypeOK, InCallback, CallShape, slotVars, implVars,
       threadVars, ghostVars, DestroyFinish
<1>4. UnloadOwner'
  BY <1>s DEF UnloadOwner, TypeOK, Closing, occupied, CallShape, slotVars, implVars,
       threadVars, ghostVars, DestroyFinish
<1>5. LibraryOpen'
  BY <1>s DEF LibraryOpen, TypeOK, occupied, CallShape, slotVars, implVars, threadVars,
       ghostVars, DestroyFinish
<1>6. DestroyRun'
  BY <1>s DEF DestroyRun, TypeOK, occupied, CallShape, slotVars, implVars, threadVars,
       ghostVars, DestroyFinish
<1>7. Counts'
  BY <1>s, ZenonT(30) DEF Counts, TypeOK, occupied, Loading, slotVars, implVars, threadVars,
       ghostVars, DestroyFinish
<1>8. DestroyWalk'
  <2>1. /\ manifest' = manifest /\ destroying' = destroying /\ impl' = FALSE
        /\ loadsInflight' = loadsInflight
    BY DEF slotVars, implVars, threadVars, ghostVars, DestroyFinish
  <2>2. \A u \in Threads : pc'[u] = "idle" /\ ~whole'[u]
    BY <1>s DEF slotVars, implVars, threadVars, ghostVars, DestroyFinish
  <2>3. loadsInflight = 0
    BY <1>s DEF DestroyWalk, slotVars, implVars, threadVars, ghostVars, DestroyFinish
  <2> QED BY <1>s, <1>o, <2>1, <2>2, <2>3 DEF DestroyWalk, occupied, slotVars, implVars,
       threadVars, ghostVars, DestroyFinish
<1> QED BY <1>w, <1>1, <1>2, <1>3, <1>4, <1>5, <1>6, <1>7, <1>8 DEF IInv, slotVars,
     implVars, threadVars, ghostVars, DestroyFinish

-----------------------------------------------------------------------------
(* The inductive invariant holds, and the properties follow from it.       *)

\* The finite sets of the registry can be counted.
LEMMA FiniteCounted == ASSUME NEW X, IsFiniteSet(X) PROVE Counted(X)
<1>1. ASSUME NEW S \in SUBSET X
      PROVE  /\ IsFiniteSet(S) /\ Cardinality(S) \in Nat
             /\ Cardinality(S) = 0 => S = {}
  BY FS_Subset, FS_CardinalityType, FS_EmptySet
<1>2. ASSUME NEW S \in SUBSET X, NEW x \in X \ S
      PROVE  Cardinality(S \cup {x}) = Cardinality(S) + 1
  BY <1>1, FS_AddElement
<1>3. Cardinality({}) = 0
  BY FS_EmptySet
<1> QED BY ZenonT(30), <1>1, <1>2, <1>3 DEF Counted

\* The slots of a registry.
LEMMA SlotsFinite == IsFiniteSet(Slots) /\ Cardinality(Slots) = Capacity
BY FS_Interval, CapacityAssumption DEF Slots

\* The lease slots of a slot.
LEMMA LeaseSlotsFinite == IsFiniteSet(LeaseSlots)
BY FS_Interval, LeasesAssumption DEF LeaseSlots

\* The initial states satisfy the invariant.
LEMMA InitIInv == ASSUME Init PROVE IInv
<1>1. TypeOK
  <2>1. 1 \in 1 .. Capacity + 1
    BY CapacityAssumption DEF Init
  <2>2. /\ manifest \in [Slots -> Plugins \cup {NoPlugin}] /\ state \in [Slots -> States]
        /\ pc \in [Threads -> PCs] /\ slotOf \in [Threads -> 1 .. Capacity + 1]
        /\ candidate \in [Threads -> Plugins \cup {NoPlugin}]
    BY <2>1 DEF States, PCs, Init
  <2>3. /\ generation \in [Slots -> Nat \ {0}]
        /\ leaseGeneration \in [Slots -> [LeaseSlots -> Nat \ {0}]]
        /\ leaseMask \in [Slots -> SUBSET LeaseSlots]
    BY DEF Init
  <2> QED BY <2>2, <2>3, ZenonT(30) DEF TypeOK, Init
<1>2. CallShape /\ CallbackOwner /\ UnloadOwner /\ LibraryOpen /\ DestroyRun
  BY DEF CallShape, CallbackOwner, UnloadOwner, LibraryOpen, DestroyRun, occupied,
       Loading, InCallback, Closing, Init
<1>3. LeaseOwner /\ RefAge /\ TokenAge /\ DestroyWalk
  BY FS_EmptySet DEF LeaseOwner, RefAge, TokenAge, DestroyWalk, occupied, Init
<1>4. GenerationBound
  BY NoWrapAssumption DEF GenerationBound, occupied, Init
<1>5. Counts
  <2>1. {s \in Slots : occupied(s)} = {} /\ {t \in Threads : pc[t] \in Loading} = {}
    BY DEF occupied, Loading, Init
  <2>2. count = Cardinality({s \in Slots : occupied(s)})
    BY <2>1, FS_EmptySet, ZenonT(30) DEF Init
  <2>3. loadsInflight = Cardinality({t \in Threads : pc[t] \in Loading})
    BY <2>1, FS_EmptySet, ZenonT(30) DEF Init
  <2>4. count + loadsInflight <= Capacity
    BY CapacityAssumption DEF Init
  <2>5. Counted(Slots) /\ Counted(Threads) /\ Counted(LeaseSlots)
    BY ZenonT(30), FiniteCounted, SlotsFinite, LeaseSlotsFinite, ThreadsAssumption
  <2> QED BY ZenonT(30), <2>2, <2>3, <2>4, <2>5 DEF Counts
<1> QED BY <1>1, <1>2, <1>3, <1>4, <1>5 DEF IInv, Init

\* Every step of the registry preserves the invariant.
LEMMA NextIInv == ASSUME IInv, [Next]_vars PROVE IInv'
<1>1. CASE RegistryInit
  BY <1>1, RegistryInitKeeps
<1>2. ASSUME NEW t \in Threads, Call(t) PROVE IInv'
  <2>1. ASSUME NEW p \in Plugins, LoadReserve(t, p) PROVE IInv'
    BY <2>1, LoadReserveKeeps
  <2>2. ASSUME NEW r \in refs, Start(t, r) \/ RequestStop(t, r) \/ PollQuiescent(t, r)
        PROVE  IInv'
    BY <2>2, StartKeeps, RequestStopKeeps, PollQuiescentKeeps
  <2>3. ASSUME NEW r \in refs, Unload(t, r) PROVE IInv'
    BY <2>3, UnloadKeeps
  <2>4. ASSUME NEW r \in refs, NEW i \in LeaseSlots, Acquire(t, r, i) PROVE IInv'
    BY <2>4, AcquireKeeps
  <2>5. ASSUME NEW k \in tokens, Release(t, k) PROVE IInv'
    BY <2>5, ReleaseKeeps
  <2>6. CASE DestroyRegistry(t)
    BY <2>6, DestroyRegistryKeeps
  <2> QED BY <1>2, <2>1, <2>2, <2>3, <2>4, <2>5, <2>6 DEF Call
<1>3. ASSUME NEW t \in Threads, Continue(t) PROVE IInv'
  <2>1. ASSUME NEW ok \in BOOLEAN, LoadOpen(t, ok) \/ StartReturns(t, ok)
        PROVE  IInv'
    BY <2>1, LoadOpenKeeps, StartReturnsKeeps
  <2>2. ASSUME NEW ok \in BOOLEAN, PollQuiescentReturns(t, ok) \/ PlatformClose(t, ok)
        PROVE  IInv'
    BY <2>2, PollQuiescentReturnsKeeps, PlatformCloseKeeps
  <2>3. ASSUME NEW s \in Slots, LoadPublish(t, s) PROVE IInv'
    BY <2>3, LoadPublishKeeps
  <2>4. CASE LoadQueryRejected(t) \/ LoadPublishRejected(t) \/ LoadCloseRejected(t)
               \/ LoadUnreserve(t)
    BY <2>4, LoadQueryRejectedKeeps, LoadPublishRejectedKeeps, LoadCloseRejectedKeeps,
         LoadUnreserveKeeps
  <2>5. CASE RequestStopReturns(t) \/ DestroyReturns(t) \/ ClearClosed(t) \/ KeepUnclosed(t)
    BY <2>5, RequestStopReturnsKeeps, DestroyReturnsKeeps, ClearClosedKeeps,
         KeepUnclosedKeeps
  <2>6. CASE DestroySkip(t) \/ DestroySlot(t) \/ DestroyFinish(t)
    BY <2>6, DestroySkipKeeps, DestroySlotKeeps, DestroyFinishKeeps
  <2> QED BY <1>3, <2>1, <2>2, <2>3, <2>4, <2>5, <2>6 DEF Continue
<1>4. CASE UNCHANGED vars
  <2> USE <1>4 DEF vars, slotVars, implVars, threadVars, ghostVars
  <2>0. TypeOK /\ CallShape /\ CallbackOwner /\ UnloadOwner /\ LibraryOpen /\ LeaseOwner
        /\ DestroyRun /\ GenerationBound /\ RefAge /\ TokenAge /\ Counts /\ DestroyWalk
    BY DEF IInv
  <2>1. TypeOK'
    BY <2>0 DEF TypeOK
  <2> QED BY <2>1, Frame DEF IInv
<1> QED BY <1>1, <1>2, <1>3, <1>4 DEF Next

\* The inductive invariant of the registry: who owns each callback, each
\* close and each lease, and how the counters and generations follow.
THEOREM Inductive == Spec => []IInv
BY InitIInv, NextIInv, PTL DEF Spec

\* Every field of the registry and every call under way keeps its type.
THEOREM TypeCorrect == Spec => []TypeOK
<1>1. IInv => TypeOK
  BY DEF IInv
<1> QED BY <1>1, Inductive, PTL

\* A lease that is out keeps its plugin loaded, open and undestroyed.
THEOREM LeasePins == Spec => []LeasePinsPlugin
<1>1. ASSUME IInv PROVE LeasePinsPlugin
  <2>0. TypeOK /\ LeaseOwner /\ UnloadOwner /\ LibraryOpen /\ DestroyRun /\ CallShape
    BY <1>1 DEF IInv
  <2>1. ASSUME NEW k \in held
        PROVE  /\ lease_live(k) /\ load[k.slot] = k.load
               /\ library[k.slot] /\ ~unloading[k.slot]
               /\ destroyRuns[k.slot] = 0
               /\ state[k.slot] \in {"STARTED", "STOPPING"}
    <3>1. k.slot \in Slots /\ lease_live(k) /\ load[k.slot] = k.load
      BY <2>0 DEF TypeOK, Token, LeaseOwner
    <3>2. occupied(k.slot) /\ leaseMask[k.slot] # {} /\ state[k.slot] \in {"STARTED", "STOPPING"}
      BY <2>0, <3>1, ZenonT(30) DEF lease_live, LeaseOwner
    <3>3. ~unloading[k.slot] /\ ~destroyCalled[k.slot]
      BY <2>0, <3>1, <3>2 DEF UnloadOwner, DestroyRun
    <3>4. \A t \in Threads : pc[t] \in Closing => slotOf[t] # k.slot
      BY <2>0, <3>3 DEF UnloadOwner
    <3>5. library[k.slot] /\ destroyRuns[k.slot] = 0
      BY <2>0, <3>1, <3>2, <3>3, <3>4 DEF LibraryOpen, DestroyRun, Closing
    <3> QED BY <3>1, <3>2, <3>3, <3>5
  <2> QED BY <2>1 DEF LeasePinsPlugin
<1> QED BY <1>1, Inductive, PTL

\* References and tokens that outlived what they name are refused.
THEOREM StaleRejected == Spec => []StaleTokensRejected
<1>1. IInv => StaleTokensRejected
  BY DEF IInv, StaleTokensRejected, RefAge, TokenAge, slot_for_ref, lease_live
<1> QED BY <1>1, Inductive, PTL

\* One callback of a plugin at a time, inside an open DSO.
THEOREM OneCallback == Spec => []CallbacksExclusive
<1>1. ASSUME IInv PROVE CallbacksExclusive
  <2>0. CallShape /\ CallbackOwner /\ UnloadOwner /\ LibraryOpen /\ TypeOK
    BY <1>1 DEF IInv
  <2>1. ASSUME NEW t \in Threads, pc[t] \in InCallback
        PROVE  /\ occupied(slotOf[t]) /\ library[slotOf[t]]
               /\ callbacks[slotOf[t]] = 1
               /\ \A u \in Threads \ {t} :
                      pc[u] \in InCallback \cup Closing => slotOf[u] # slotOf[t]
    <3>1. slotOf[t] \in Slots /\ occupied(slotOf[t]) /\ callbacks[slotOf[t]] = 1
      BY <2>0, <2>1 DEF CallShape, CallbackOwner
    <3>2. \A u \in Threads \ {t} : pc[u] \in InCallback => slotOf[u] # slotOf[t]
      BY <2>0, <2>1 DEF CallbackOwner
    <3>3. ASSUME NEW u \in Threads \ {t}, pc[u] \in Closing, slotOf[u] = slotOf[t]
          PROVE  FALSE
      <4>1. pc[u] = "destroy"
        BY <2>0, <3>1, <3>3 DEF UnloadOwner
      <4> QED BY <3>2, <3>3, <4>1 DEF InCallback
    <3>4. library[slotOf[t]]
      <4>1. pc[t] # "closed"
        BY <2>1 DEF InCallback
      <4> QED BY <2>0, <3>1, <3>3, <4>1 DEF LibraryOpen, Closing
    <3> QED BY <3>1, <3>2, <3>3, <3>4
  <2> QED BY <2>1 DEF CallbacksExclusive
<1> QED BY <1>1, Inductive, PTL

\* The destroy callback of a load runs at most once and last.
THEOREM DestroyedOnce == Spec => []DestroyOnce
<1>1. ASSUME IInv PROVE DestroyOnce
  <2>0. CallShape /\ CallbackOwner /\ UnloadOwner /\ LeaseOwner /\ DestroyRun /\ TypeOK
    BY <1>1 DEF IInv
  <2>1. ASSUME NEW s \in Slots, occupied(s), destroyRuns[s] = 1
        PROVE  /\ state[s] \in {"LOADED", "QUIESCENT"}
               /\ \A t \in Threads : pc[t] \in {"start", "request_stop", "is_quiescent"} => slotOf[t] # s
    <3>1. CASE destroyCalled[s]
      <4>1. state[s] = "QUIESCENT"
        BY <2>0, <3>1 DEF DestroyRun
      <4> QED BY <2>0, <4>1 DEF CallbackOwner, InCallback
    <3>2. CASE ~destroyCalled[s]
      <4>1. PICK u \in Threads : pc[u] = "destroy" /\ slotOf[u] = s
        BY <2>0, <2>1, <3>2 DEF DestroyRun
      <4>2. state[s] \in {"LOADED", "QUIESCENT"}
        BY <2>0, <4>1 DEF UnloadOwner, Closing
      <4> QED BY <2>0, <4>2 DEF CallbackOwner, InCallback
    <3> QED BY <3>1, <3>2
  <2>2. \A s \in Slots : occupied(s) => destroyRuns[s] <= 1
    BY <2>0 DEF DestroyRun
  <2>3. \A s \in Slots : occupied(s) /\ destroyRuns[s] = 1 => leaseMask[s] = {}
    BY <2>0, <2>1 DEF LeaseOwner
  <2> QED BY <2>1, <2>2, <2>3 DEF DestroyOnce, InCallback
<1> QED BY <1>1, Inductive, PTL

\* active_leases is the number of leases that are really out.
THEOREM LeasesCounted == Spec => []LeaseCountExact
<1>1. IInv => LeaseCountExact
  <2> SUFFICES ASSUME IInv, NEW s \in Slots
      PROVE /\ activeLeases[s] = Cardinality(leaseMask[s])
            /\ leaseMask[s] = {k.index : k \in {h \in held : h.slot = s}}
    BY DEF LeaseCountExact
  <2>0. LeaseOwner
    BY DEF IInv
  <2>1. \A i \in leaseMask[s] : \E k \in held : k.slot = s /\ k.index = i
    BY <2>0 DEF LeaseOwner
  <2>2. \A k \in held : k.slot = s => k.index \in leaseMask[s]
    BY <2>0 DEF LeaseOwner, lease_live
  <2>3. activeLeases[s] = Cardinality(leaseMask[s])
    BY <2>0 DEF LeaseOwner
  <2> QED BY <2>1, <2>2, <2>3
<1> QED BY <1>1, Inductive, PTL

\* A thread that opened a DSO finds the free slot it reserved.
THEOREM Reserved == Spec => []ReservationHonoured
<1>1. ASSUME IInv PROVE ReservationHonoured
  <2>0. TypeOK /\ Counts
    BY <1>1 DEF IInv
  <2>1. ASSUME NEW t \in Threads, pc[t] = "query" PROVE \E s \in Slots : ~occupied(s)
    <3>1. loadsInflight \in Nat \ {0}
      BY <2>0, <2>1, LoadingCounted DEF Loading
    <3>2. Cardinality({s \in Slots : occupied(s)}) < Capacity
      BY <2>0, <3>1, Numbers DEF Counts
    <3>3. ASSUME \A s \in Slots : occupied(s) PROVE FALSE
      <4>1. {s \in Slots : occupied(s)} = Slots
        BY <3>3
      <4> QED BY <3>2, <4>1, SlotsFinite, CapacityAssumption
    <3> QED BY <3>3
  <2> QED BY <2>0, <2>1 DEF Counts, ReservationHonoured
<1> QED BY <1>1, Inductive, PTL

\* Nothing is under way in a registry that has been freed.
THEOREM FreedQuietly == Spec => []NoUseAfterFree
<1>1. IInv => NoUseAfterFree
  BY DEF IInv, TypeOK, Token, NoUseAfterFree, DestroyWalk, LibraryOpen, LeaseOwner,
       lease_live
<1> QED BY <1>1, Inductive, PTL

\* destroy() walks the slots alone.
THEOREM DestroyAlone == Spec => []DestroyExclusive
<1>1. IInv => DestroyExclusive
  BY DEF IInv, DestroyExclusive, DestroyWalk
<1> QED BY <1>1, Inductive, PTL

\* The check for a duplicate id and the publication are one locked section.
LEMMA StepIds == ASSUME TypeOK, UniqueIds, [Next]_vars PROVE UniqueIds'
<1>1. ASSUME NEW t \in Threads, NEW s \in Slots, LoadPublish(t, s) PROVE UniqueIds'
  BY <1>1 DEF LoadPublish, LoadRefused, FirstFree, UniqueIds, occupied, TypeOK
<1>2. ASSUME NEW t \in Threads, ClearClosed(t) PROVE UniqueIds'
  BY <1>2 DEF ClearClosed, clear_slot_locked, UniqueIds, occupied, TypeOK
<1>3. CASE UNCHANGED manifest
  BY <1>3 DEF UniqueIds, occupied
<1> USE DEF slotVars
<1>4. RegistryInit => UNCHANGED manifest
  BY DEF RegistryInit
<1>5. ASSUME NEW t \in Threads, Call(t) PROVE UNCHANGED manifest
  <2>1. \A p \in Plugins : LoadReserve(t, p) => UNCHANGED manifest
    BY DEF LoadReserve
  <2>2. \A r \in refs : Start(t, r) \/ RequestStop(t, r) \/ PollQuiescent(t, r)
                           \/ Unload(t, r) => UNCHANGED manifest
    BY ZenonT(30) DEF Start, RequestStop, PollQuiescent, Unload, BeginClose
  <2>3. \A r \in refs : \A i \in LeaseSlots : Acquire(t, r, i) => UNCHANGED manifest
    BY ZenonT(30) DEF Acquire
  <2>4. \A k \in tokens : Release(t, k) => UNCHANGED manifest
    BY DEF Release
  <2>5. DestroyRegistry(t) => UNCHANGED manifest
    BY DEF DestroyRegistry
  <2> QED BY <1>5, <2>1, <2>2, <2>3, <2>4, <2>5 DEF Call
<1>6. ASSUME NEW t \in Threads, Continue(t)
      PROVE  (\E s \in Slots : LoadPublish(t, s)) \/ ClearClosed(t) \/ UNCHANGED manifest
  BY <1>6, ZenonT(30) DEF Continue, LoadOpen, StartReturns, PollQuiescentReturns,
       PlatformClose, LoadQueryRejected, LoadPublishRejected, LoadCloseRejected,
       LoadUnreserve, RequestStopReturns, DestroyReturns, KeepUnclosed, DestroySkip,
       DestroySlot, BeginClose, DestroyFinish
<1> QED BY <1>1, <1>2, <1>3, <1>4, <1>5, <1>6 DEF Next, vars

\* No plugin id is loaded twice, although the check and the publication are
\* separated from the query by unlocked code.
THEOREM IdsUnique == Spec => []UniqueIds
<1>1. Init => UniqueIds
  BY DEF Init, UniqueIds, occupied
<1> QED BY <1>1, StepIds, TypeCorrect, PTL DEF Spec

\* What load() promises under races: unique ids, and a slot for every DSO.
THEOREM LoadsAdmitted == Spec => []AdmissionSound
BY IdsUnique, Reserved, PTL DEF AdmissionSound

\* What unload() and destroy() promise under races and failed closes.
THEOREM DestroysSafely == Spec => []DestructionSafe
BY DestroyedOnce, DestroyAlone, FreedQuietly, PTL DEF DestructionSafe

-----------------------------------------------------------------------------
(* The registry implements PluginLeases.                                    *)

\* Leases and the bits of a mask: as many of the ones as of the others.
LEMMA LeasesAreBits ==
    ASSUME NEW T, NEW M \in SUBSET LeaseSlots,
           \A k \in T : k.index \in M,
           \A k, h \in T : k.index = h.index => k = h,
           \A i \in M : \E k \in T : k.index = i
    PROVE  Cardinality(T) = Cardinality(M)
<1> DEFINE g == [i \in M |-> CHOOSE k \in T : k.index = i]
<1>1. IsFiniteSet(M)
  BY ZenonT(30), LeaseSlotsFinite, FS_Subset
<1>2. \A i \in M : g[i] \in T /\ g[i].index = i
  OBVIOUS
<1>3. \A k \in T : g[k.index] = k
  BY <1>2
<1>4. g \in [M -> T]
  BY <1>2
<1> HIDE DEF g
<1>5. g \in Injection(M, T)
  BY <1>2, <1>4 DEF Injection, IsInjective
<1>6. g \in Surjection(M, T)
  BY <1>3, <1>4 DEF Surjection
<1>7. ExistsBijection(M, T)
  BY ZenonT(30), <1>5, <1>6 DEF ExistsBijection, Bijection
<1> QED BY ZenonT(30), <1>1, <1>7, FS_Bijection

\* What the promise sees of a plugin, from the slot that holds it.
Seen(p) ==
    /\ \A s \in Slots : manifest[s] = p =>
         /\ PhaseBar[p] = IF library[s] THEN PhaseOf(state[s]) ELSE "OUT"
         /\ OutstandingBar[p] = activeLeases[s]
    /\ (\A s \in Slots : manifest[s] # p) => PhaseBar[p] = "OUT" /\ OutstandingBar[p] = 0

\* The registry is seen through its slots.
LEMMA SeenNow == ASSUME IInv, UniqueIds, NEW p \in Plugins PROVE Seen(p)
<1>0. (TypeOK /\ LeaseOwner)
  BY DEF IInv
<1>1. held \subseteq Token /\ leaseMask \in [Slots -> SUBSET LeaseSlots]
  BY <1>0 DEF TypeOK
<1>2. ASSUME NEW s \in Slots, manifest[s] = p
      PROVE  /\ PhaseBar[p] = IF library[s] THEN PhaseOf(state[s]) ELSE "OUT"
             /\ OutstandingBar[p] = activeLeases[s]
  <2>1. \A r \in Slots : manifest[r] = p => r = s
    BY <1>2, PluginAssumption DEF UniqueIds, occupied
  <2> DEFINE T == {k \in held : manifest[k.slot] = p}
  <2>2. \A k \in T : k \in held /\ k.slot = s
    BY <1>1, <2>1 DEF Token
  <2>3. \A k \in held : k.slot = s => k \in T
    BY <1>2
  <2>4. OutstandingBar[p] = Cardinality(T)
    BY DEF OutstandingBar
  <2> HIDE DEF T
  <2>5. \A k \in T : k.index \in leaseMask[s]
    BY <1>0, <2>2 DEF LeaseOwner, lease_live
  <2>6. \A k, h \in T : k.index = h.index => k = h
    BY <1>0, <2>2 DEF LeaseOwner
  <2>7. \A i \in leaseMask[s] : \E k \in T : k.index = i
    BY <1>0, <2>3 DEF LeaseOwner
  <2>8. leaseMask[s] \in SUBSET LeaseSlots
    BY <1>1
  <2>9. Cardinality(T) = Cardinality(leaseMask[s])
    BY ZenonT(30), <2>5, <2>6, <2>7, <2>8, LeasesAreBits
  <2>10. OutstandingBar[p] = activeLeases[s]
    BY <1>0, <2>4, <2>9 DEF LeaseOwner
  <2>11. CASE library[s]
    <3>1. HolderOf(p) = {s}
      BY <1>2, <2>1, <2>11 DEF HolderOf
    <3>2. PhaseBar[p] = PhaseOf(state[s])
      BY <3>1 DEF PhaseBar
    <3> QED BY <2>10, <2>11, <3>2
  <2>12. CASE ~library[s]
    <3>1. HolderOf(p) = {}
      BY <1>2, <2>1, <2>12 DEF HolderOf
    <3>2. PhaseBar[p] = "OUT"
      BY <3>1 DEF PhaseBar
    <3> QED BY <2>10, <2>12, <3>2
  <2> QED BY <2>11, <2>12
<1>3. ASSUME \A s \in Slots : manifest[s] # p
      PROVE  PhaseBar[p] = "OUT" /\ OutstandingBar[p] = 0
  <2>1. {k \in held : manifest[k.slot] = p} = {}
    BY <1>1, <1>3 DEF Token
  <2>2. OutstandingBar[p] = 0
    BY <2>1, FS_EmptySet DEF OutstandingBar
  <2>3. HolderOf(p) = {}
    BY <1>3 DEF HolderOf
  <2> QED BY <2>2, <2>3 DEF PhaseBar
<1> QED BY ZenonT(30), <1>2, <1>3 DEF Seen

\* So is the registry after a step.
LEMMA SeenNext == ASSUME IInv', UniqueIds', NEW p \in Plugins PROVE Seen(p)'
<1>0. (TypeOK /\ LeaseOwner)'
  BY DEF IInv
<1>1. held' \subseteq Token /\ leaseMask' \in [Slots -> SUBSET LeaseSlots]
  BY <1>0 DEF TypeOK
<1>2. ASSUME NEW s \in Slots, manifest'[s] = p
      PROVE  /\ PhaseBar'[p] = IF library'[s] THEN PhaseOf(state'[s]) ELSE "OUT"
             /\ OutstandingBar'[p] = activeLeases'[s]
  <2>1. \A r \in Slots : manifest'[r] = p => r = s
    BY <1>2, PluginAssumption DEF UniqueIds, occupied
  <2> DEFINE T == {k \in held' : manifest'[k.slot] = p}
  <2>2. \A k \in T : k \in held' /\ k.slot = s
    BY <1>1, <2>1 DEF Token
  <2>3. \A k \in held' : k.slot = s => k \in T
    BY <1>2
  <2>4. OutstandingBar'[p] = Cardinality(T)
    BY DEF OutstandingBar
  <2> HIDE DEF T
  <2>5. \A k \in T : k.index \in leaseMask'[s]
    BY <1>0, <2>2 DEF LeaseOwner, lease_live
  <2>6. \A k, h \in T : k.index = h.index => k = h
    BY <1>0, <2>2 DEF LeaseOwner
  <2>7. \A i \in leaseMask'[s] : \E k \in T : k.index = i
    BY <1>0, <2>3 DEF LeaseOwner
  <2>8. leaseMask'[s] \in SUBSET LeaseSlots
    BY <1>1
  <2>9. Cardinality(T) = Cardinality(leaseMask'[s])
    BY ZenonT(30), <2>5, <2>6, <2>7, <2>8, LeasesAreBits
  <2>10. OutstandingBar'[p] = activeLeases'[s]
    BY <1>0, <2>4, <2>9 DEF LeaseOwner
  <2>11. CASE library'[s]
    <3>1. HolderOf(p)' = {s}
      BY <1>2, <2>1, <2>11 DEF HolderOf
    <3>2. PhaseBar'[p] = PhaseOf(state'[s])
      BY <3>1 DEF PhaseBar
    <3> QED BY <2>10, <2>11, <3>2
  <2>12. CASE ~library'[s]
    <3>1. HolderOf(p)' = {}
      BY <1>2, <2>1, <2>12 DEF HolderOf
    <3>2. PhaseBar'[p] = "OUT"
      BY <3>1 DEF PhaseBar
    <3> QED BY <2>10, <2>12, <3>2
  <2> QED BY <2>11, <2>12
<1>3. ASSUME \A s \in Slots : manifest'[s] # p
      PROVE  PhaseBar'[p] = "OUT" /\ OutstandingBar'[p] = 0
  <2>1. {k \in held' : manifest'[k.slot] = p} = {}
    BY <1>1, <1>3 DEF Token
  <2>2. OutstandingBar'[p] = 0
    BY <2>1, FS_EmptySet DEF OutstandingBar
  <2>3. HolderOf(p)' = {}
    BY <1>3 DEF HolderOf
  <2> QED BY <2>2, <2>3 DEF PhaseBar
<1> QED BY ZenonT(30), <1>2, <1>3 DEF Seen

\* A step that changes what the promise sees of slot s only, which holds p
\* before or after it, changes what the promise sees of p only.
LEMMA OneSlot ==
    ASSUME IInv, UniqueIds, IInv', UniqueIds', NEW s \in Slots, NEW p \in Plugins,
           \A r \in Slots \ {s} :
               /\ manifest'[r] = manifest[r] /\ library'[r] = library[r]
               /\ activeLeases'[r] = activeLeases[r] /\ state'[r] = state[r],
           manifest[s] \in {p, NoPlugin}, manifest'[s] \in {p, NoPlugin}
    PROVE  /\ PhaseBar' = [PhaseBar EXCEPT ![p] = PhaseBar'[p]]
           /\ OutstandingBar' = [OutstandingBar EXCEPT ![p] = OutstandingBar'[p]]
<1>1. ASSUME NEW q \in Plugins, q # p
      PROVE  PhaseBar'[q] = PhaseBar[q] /\ OutstandingBar'[q] = OutstandingBar[q]
  <2>1. Seen(q) /\ Seen(q)'
    BY SeenNow, SeenNext
  <2>2. manifest[s] # q /\ manifest'[s] # q
    BY <1>1, PluginAssumption
  <2>3. CASE \E r \in Slots : manifest[r] = q
    <3>1. PICK r \in Slots : manifest[r] = q
      BY <2>3
    <3>2. r # s
      BY <2>2, <3>1
    <3>3. manifest'[r] = q
      BY <3>1, <3>2
    <3> QED BY <2>1, <3>1, <3>2, <3>3 DEF Seen
  <2>4. CASE \A r \in Slots : manifest[r] # q
    <3>1. \A r \in Slots : manifest'[r] # q
      BY <2>2, <2>4
    <3> QED BY <2>1, <2>4, <3>1 DEF Seen
  <2> QED BY <2>3, <2>4
<1>2. /\ PhaseBar = [q \in Plugins |-> PhaseBar[q]] /\ PhaseBar' = [q \in Plugins |-> PhaseBar'[q]]
      /\ OutstandingBar = [q \in Plugins |-> OutstandingBar[q]]
      /\ OutstandingBar' = [q \in Plugins |-> OutstandingBar'[q]]
  BY DEF PhaseBar, OutstandingBar
<1>3. PhaseBar' = [PhaseBar EXCEPT ![p] = PhaseBar'[p]]
  BY <1>1, <1>2
<1>4. OutstandingBar' = [OutstandingBar EXCEPT ![p] = OutstandingBar'[p]]
  BY <1>1, <1>2
<1> QED BY <1>3, <1>4

\* A slot that no thread is closing has its DSO open.
LEMMA Open ==
    ASSUME IInv, NEW s \in Slots, occupied(s), ~unloading[s]
    PROVE  library[s] /\ manifest[s] \in Plugins
<1>0. TypeOK /\ UnloadOwner /\ LibraryOpen
  BY DEF IInv
<1>1. manifest[s] \in Plugins
  BY <1>0 DEF TypeOK, occupied
<1>2. ASSUME ~library[s] PROVE FALSE
  <2>1. PICK t \in Threads : pc[t] = "closed" /\ slotOf[t] = s
    BY <1>0, <1>2 DEF LibraryOpen
  <2> QED BY <1>0, <2>1 DEF UnloadOwner, Closing
<1> QED BY <1>1, <1>2

\* So has a slot whose closing thread has not closed it yet.
LEMMA OpenUntilClosed ==
    ASSUME IInv, NEW t \in Threads, pc[t] \in {"destroy", "close"}
    PROVE  /\ slotOf[t] \in Slots /\ occupied(slotOf[t]) /\ library[slotOf[t]]
           /\ activeLeases[slotOf[t]] = 0 /\ state[slotOf[t]] \in {"LOADED", "QUIESCENT"}
<1>0. TypeOK /\ CallShape /\ UnloadOwner /\ LibraryOpen
  BY DEF IInv
<1>1. slotOf[t] \in Slots /\ occupied(slotOf[t])
  BY <1>0 DEF CallShape, Closing
<1>2. unloading[slotOf[t]]
  BY <1>0 DEF UnloadOwner, Closing
<1>3. ASSUME ~library[slotOf[t]] PROVE FALSE
  <2>1. PICK u \in Threads : pc[u] = "closed" /\ slotOf[u] = slotOf[t]
    BY <1>0, <1>1, <1>3 DEF LibraryOpen
  <2>2. u = t
    BY <1>0, <2>1 DEF UnloadOwner, Closing
  <2> QED BY <2>1, <2>2
<1> QED BY <1>0, <1>1, <1>2, <1>3 DEF UnloadOwner

\* A step that leaves slots and leases alone is a stutter of the promise.
LEMMA Quiet ==
    ASSUME UNCHANGED <<manifest, library, state, held>>
    PROVE  UNCHANGED <<PhaseBar, OutstandingBar>>
BY DEF PhaseBar, OutstandingBar, HolderOf

\* A step of a slot's lifecycle moves the phase of the plugin it holds.
LEMMA StateMoves ==
    ASSUME IInv, UniqueIds, IInv', UniqueIds', NEW s \in Slots, NEW x, occupied(s), library[s],
           state' = [state EXCEPT ![s] = x], UNCHANGED <<manifest, library, activeLeases, held>>
    PROVE  \E p \in Plugins : /\ PhaseBar[p] = PhaseOf(state[s]) /\ OutstandingBar[p] = activeLeases[s]
                              /\ PhaseBar' = [PhaseBar EXCEPT ![p] = PhaseOf(x)]
                              /\ UNCHANGED OutstandingBar
<1> DEFINE p == manifest[s]
<1>0. TypeOK /\ TypeOK'
  BY DEF IInv
<1>1. p \in Plugins
  BY <1>0 DEF TypeOK, occupied
<1>2. state'[s] = x /\ \A r \in Slots \ {s} : state'[r] = state[r]
  BY <1>0 DEF TypeOK
<1>3. Seen(p) /\ Seen(p)'
  BY ZenonT(30), <1>1, SeenNow, SeenNext
<1>4. PhaseBar' = [PhaseBar EXCEPT ![p] = PhaseBar'[p]]
  BY <1>1, <1>2, OneSlot
<1>5. PhaseBar[p] = PhaseOf(state[s]) /\ OutstandingBar[p] = activeLeases[s]
  BY <1>3 DEF Seen
<1>6. PhaseBar'[p] = PhaseOf(x)
  BY <1>2, <1>3 DEF Seen
<1>7. UNCHANGED OutstandingBar
  BY DEF OutstandingBar
<1> QED BY ZenonT(30), <1>1, <1>4, <1>5, <1>6, <1>7

\* The phases of the states.
LEMMA Phases ==
    /\ PhaseOf("LOADED") = "LOADED" /\ PhaseOf("STARTING") = "LOADED" /\ PhaseOf("STARTED") = "UP"
    /\ PhaseOf("STOPPING") = "STOPPING" /\ PhaseOf("QUIESCENT") = "QUIET"
BY DEF PhaseOf

\* Writing a plugin's own phase back changes nothing.
LEMMA SamePhase ==
    ASSUME NEW p \in Plugins, PhaseBar' = [PhaseBar EXCEPT ![p] = PhaseBar[p]]
    PROVE  UNCHANGED PhaseBar
BY DEF PhaseBar

\* Nor does writing its own count back.
LEMMA SameCount ==
    ASSUME NEW p \in Plugins, OutstandingBar' = [OutstandingBar EXCEPT ![p] = OutstandingBar[p]]
    PROVE  UNCHANGED OutstandingBar
BY DEF OutstandingBar

\* A publication loads its plugin.
LEMMA PublishLoads ==
    ASSUME IInv, UniqueIds, IInv', UniqueIds', NEW t \in Threads, NEW s \in Slots, LoadPublish(t, s)
    PROVE  P!Next
<1>0. TypeOK /\ CallShape /\ TypeOK'
  BY DEF IInv
<1>p. PICK p \in Plugins : p = candidate[t]
  BY <1>0 DEF LoadPublish, CallShape, Loading
<1>1. manifest[s] = NoPlugin /\ \A r \in Slots : manifest[r] # p
  BY <1>p DEF LoadPublish, LoadRefused, FirstFree, occupied
<1>2. manifest'[s] = p /\ library'[s] /\ state'[s] = "LOADED" /\ activeLeases'[s] = 0
  BY <1>0, <1>p DEF LoadPublish, TypeOK
<1>3. \A r \in Slots \ {s} : /\ manifest'[r] = manifest[r] /\ library'[r] = library[r]
                             /\ activeLeases'[r] = activeLeases[r] /\ state'[r] = state[r]
  BY <1>0 DEF LoadPublish, TypeOK
<1>4. Seen(p) /\ Seen(p)'
  BY ZenonT(30), <1>1, SeenNow, SeenNext
<1>5. /\ PhaseBar' = [PhaseBar EXCEPT ![p] = PhaseBar'[p]]
      /\ OutstandingBar' = [OutstandingBar EXCEPT ![p] = OutstandingBar'[p]]
  BY <1>1, <1>2, <1>3, OneSlot
<1>6. PhaseBar[p] = "OUT" /\ OutstandingBar[p] = 0
  BY <1>1, <1>4 DEF Seen
<1>7. PhaseBar'[p] = "LOADED" /\ OutstandingBar'[p] = 0
  BY <1>2, <1>4, Phases DEF Seen
<1>8. UNCHANGED OutstandingBar
  BY <1>5, <1>6, <1>7, SameCount
<1> QED BY <1>1, <1>5, <1>6, <1>7, <1>8 DEF P!Next, P!Load, P!Move

\* start(), request_stop() and poll_quiescent(), before and after the callback.
LEMMA LifecycleMoves ==
    ASSUME IInv, UniqueIds, IInv', UniqueIds', NEW t \in Threads, NEW r \in refs,
           Start(t, r) \/ RequestStop(t, r) \/ PollQuiescent(t, r)
    PROVE  [P!Next]_<<PhaseBar, OutstandingBar>>
<1> DEFINE s == r.slot
<1>0. TypeOK
  BY DEF IInv
<1>1. s \in Slots /\ occupied(s) /\ ~unloading[s]
  BY <1>0 DEF TypeOK, Ref, Start, RequestStop, PollQuiescent, Admits, slot_for_ref
<1>2. library[s]
  BY <1>1, Open
<1>3. CASE Start(t, r)
  <2>1. state[s] = "LOADED" /\ UNCHANGED <<manifest, library, activeLeases, held>>
    BY <1>3 DEF Start, ghostVars
  <2>2. CASE state' = [state EXCEPT ![s] = "STARTING"]
    <3>1. PICK p \in Plugins : /\ PhaseBar[p] = PhaseOf(state[s]) /\ OutstandingBar[p] = activeLeases[s]
                               /\ PhaseBar' = [PhaseBar EXCEPT ![p] = PhaseOf("STARTING")]
                               /\ UNCHANGED OutstandingBar
      BY ZenonT(30), <1>1, <1>2, <2>1, <2>2, StateMoves
    <3> QED BY <2>1, <3>1, Phases, SamePhase
  <2>3. CASE state' = [state EXCEPT ![s] = "STARTED"]
    <3>1. PICK p \in Plugins : /\ PhaseBar[p] = PhaseOf(state[s]) /\ OutstandingBar[p] = activeLeases[s]
                               /\ PhaseBar' = [PhaseBar EXCEPT ![p] = PhaseOf("STARTED")]
                               /\ UNCHANGED OutstandingBar
      BY ZenonT(30), <1>1, <1>2, <2>1, <2>3, StateMoves
    <3> QED BY <2>1, <3>1, Phases DEF P!Next, P!Start, P!Move
  <2> QED BY <1>3, <2>2, <2>3 DEF Start
<1>4. CASE RequestStop(t, r)
  <2>1. state' = [state EXCEPT ![s] = "STOPPING"]
    BY <1>4 DEF RequestStop
  <2>2. state[s] = "STARTED" /\ UNCHANGED <<manifest, library, activeLeases, held>>
    BY <1>4 DEF RequestStop, ghostVars
  <2>3. PICK p \in Plugins : /\ PhaseBar[p] = PhaseOf(state[s]) /\ OutstandingBar[p] = activeLeases[s]
                             /\ PhaseBar' = [PhaseBar EXCEPT ![p] = PhaseOf("STOPPING")]
                             /\ UNCHANGED OutstandingBar
    BY ZenonT(30), <1>1, <1>2, <2>1, <2>2, StateMoves
  <2> QED BY <2>2, <2>3, Phases DEF P!Next, P!RequestStop, P!Move
<1>5. CASE PollQuiescent(t, r)
  <2>1. state[s] = "STOPPING" /\ activeLeases[s] = 0 /\ UNCHANGED <<manifest, library, activeLeases, held>>
    BY <1>5 DEF PollQuiescent, ghostVars
  <2>2. CASE UNCHANGED state
    BY <2>1, <2>2, Quiet
  <2>3. CASE state' = [state EXCEPT ![s] = "QUIESCENT"]
    <3>1. PICK p \in Plugins : /\ PhaseBar[p] = PhaseOf(state[s]) /\ OutstandingBar[p] = activeLeases[s]
                               /\ PhaseBar' = [PhaseBar EXCEPT ![p] = PhaseOf("QUIESCENT")]
                               /\ UNCHANGED OutstandingBar
      BY ZenonT(30), <1>1, <1>2, <2>1, <2>3, StateMoves
    <3> QED BY <2>1, <3>1, Phases DEF P!Next, P!Quiesce, P!Move
  <2> QED BY <1>5, <2>2, <2>3 DEF PollQuiescent
<1> QED BY <1>3, <1>4, <1>5

\* The callbacks of start and of the poll return.
LEMMA ReturnsMove ==
    ASSUME IInv, UniqueIds, IInv', UniqueIds', NEW t \in Threads, NEW ok \in BOOLEAN,
           StartReturns(t, ok) \/ PollQuiescentReturns(t, ok)
    PROVE  [P!Next]_<<PhaseBar, OutstandingBar>>
<1> DEFINE s == slotOf[t]
<1>0. TypeOK /\ CallShape /\ CallbackOwner /\ UnloadOwner
  BY DEF IInv
<1>1. /\ pc[t] \in {"start", "is_quiescent"}
      /\ UNCHANGED <<manifest, library, activeLeases, held>>
  BY DEF StartReturns, PollQuiescentReturns, LeaveCallback, ghostVars
<1>2. s \in Slots /\ occupied(s) /\ state[s] \in {"STARTING", "STOPPING"}
  BY <1>0, <1>1 DEF CallShape, CallbackOwner, InCallback
<1>3. library[s]
  BY <1>0, <1>2, Open DEF UnloadOwner
<1>4. CASE StartReturns(t, ok)
  <2>1. pc[t] = "start" /\ state' = [state EXCEPT ![s] = IF ok THEN "STARTED" ELSE "QUIESCENT"]
    BY <1>4 DEF StartReturns, LeaveCallback
  <2>2. state[s] = "STARTING"
    BY <1>0, <2>1 DEF CallbackOwner, InCallback
  <2>3. PICK x \in {"STARTED", "QUIESCENT"} : state' = [state EXCEPT ![s] = x]
    BY <2>1
  <2>4. PICK p \in Plugins : /\ PhaseBar[p] = PhaseOf(state[s])
                             /\ PhaseBar' = [PhaseBar EXCEPT ![p] = PhaseOf(x)]
                             /\ UNCHANGED OutstandingBar
    BY ZenonT(30), <1>1, <1>2, <1>3, <2>3, StateMoves
  <2>5. CASE x = "STARTED"
    BY <2>2, <2>4, <2>5, Phases DEF P!Next, P!Start, P!Move
  <2>6. CASE x = "QUIESCENT"
    BY <2>2, <2>4, <2>6, Phases DEF P!Next, P!Retire, P!Move
  <2> QED BY <2>3, <2>5, <2>6
<1>5. CASE PollQuiescentReturns(t, ok)
  <2>1. pc[t] = "is_quiescent"
    BY <1>5 DEF PollQuiescentReturns, LeaveCallback
  <2>2. state[s] = "STOPPING" /\ activeLeases[s] = 0
    BY <1>0, <2>1 DEF CallbackOwner, InCallback
  <2>3. CASE UNCHANGED state
    BY <1>1, <2>3, Quiet
  <2>4. CASE state' = [state EXCEPT ![s] = "QUIESCENT"]
    <3>1. PICK p \in Plugins : /\ PhaseBar[p] = PhaseOf(state[s]) /\ OutstandingBar[p] = activeLeases[s]
                               /\ PhaseBar' = [PhaseBar EXCEPT ![p] = PhaseOf("QUIESCENT")]
                               /\ UNCHANGED OutstandingBar
      BY ZenonT(30), <1>1, <1>2, <1>3, <2>4, StateMoves
    <3> QED BY <2>2, <3>1, Phases DEF P!Next, P!Quiesce, P!Move
  <2> QED BY <1>5, <2>3, <2>4 DEF PollQuiescentReturns
<1> QED BY <1>4, <1>5

\* acquire() and release() move the count of one plugin by one.
LEMMA LeasesMove ==
    ASSUME IInv, UniqueIds, IInv', UniqueIds', NEW s \in Slots, occupied(s), library[s],
           UNCHANGED <<manifest, library, state>>,
           \A r \in Slots \ {s} : activeLeases'[r] = activeLeases[r]
    PROVE  \E p \in Plugins : /\ PhaseBar[p] = PhaseOf(state[s]) /\ OutstandingBar[p] = activeLeases[s]
                              /\ OutstandingBar' = [OutstandingBar EXCEPT ![p] = activeLeases'[s]]
                              /\ UNCHANGED PhaseBar
<1> DEFINE p == manifest[s]
<1>0. TypeOK
  BY DEF IInv
<1>1. p \in Plugins
  BY <1>0 DEF TypeOK, occupied
<1>2. Seen(p) /\ Seen(p)'
  BY ZenonT(30), <1>1, SeenNow, SeenNext
<1>3. OutstandingBar' = [OutstandingBar EXCEPT ![p] = OutstandingBar'[p]]
  BY <1>1, OneSlot
<1>4. PhaseBar[p] = PhaseOf(state[s]) /\ OutstandingBar[p] = activeLeases[s]
  BY <1>2 DEF Seen
<1>5. OutstandingBar'[p] = activeLeases'[s]
  BY <1>2 DEF Seen
<1>6. UNCHANGED PhaseBar
  BY DEF PhaseBar, HolderOf
<1> QED BY ZenonT(30), <1>1, <1>3, <1>4, <1>5, <1>6

\* acquire() takes a lease of a started plugin.
LEMMA AcquireTakes ==
    ASSUME IInv, UniqueIds, IInv', UniqueIds', NEW t \in Threads, NEW r \in refs,
           NEW i \in LeaseSlots, Acquire(t, r, i)
    PROVE  P!Next
<1> DEFINE s == r.slot
<1>0. TypeOK
  BY DEF IInv
<1>1. s \in Slots /\ occupied(s) /\ ~unloading[s] /\ state[s] = "STARTED"
  BY <1>0 DEF TypeOK, Ref, Acquire, Admits, slot_for_ref
<1>2. library[s]
  BY <1>1, Open
<1>3. /\ activeLeases'[s] = activeLeases[s] + 1
      /\ \A q \in Slots \ {s} : activeLeases'[q] = activeLeases[q]
      /\ UNCHANGED <<manifest, library, state>>
  BY <1>0, <1>1 DEF Acquire, TypeOK
<1>4. PICK p \in Plugins : /\ PhaseBar[p] = PhaseOf(state[s]) /\ OutstandingBar[p] = activeLeases[s]
                           /\ OutstandingBar' = [OutstandingBar EXCEPT ![p] = activeLeases'[s]]
                           /\ UNCHANGED PhaseBar
  BY ZenonT(30), <1>1, <1>2, <1>3, LeasesMove
<1> QED BY <1>1, <1>3, <1>4, Phases DEF P!Next, P!Acquire

\* release() gives back a lease of a plugin that has one out.
LEMMA ReleaseGives ==
    ASSUME IInv, UniqueIds, IInv', UniqueIds', NEW t \in Threads, NEW k \in tokens, Release(t, k)
    PROVE  P!Next
<1> DEFINE s == k.slot
<1>0. TypeOK /\ LeaseOwner /\ UnloadOwner /\ Counts
  BY DEF IInv
<1>1. s \in Slots /\ occupied(s) /\ k.index \in leaseMask[s]
  BY <1>0 DEF TypeOK, Token, Release, lease_live
<1>2. activeLeases[s] # 0 /\ activeLeases[s] \in Nat
  <2>1. leaseMask[s] \in SUBSET LeaseSlots /\ activeLeases[s] = Cardinality(leaseMask[s])
    BY <1>0, <1>1 DEF TypeOK, LeaseOwner
  <2>2. Cardinality(leaseMask[s]) = 0 => leaseMask[s] = {}
    BY ZenonT(30), <1>0, <2>1 DEF Counts, Counted
  <2> QED BY <1>0, <1>1, <2>1, <2>2 DEF TypeOK
<1>3. library[s]
  BY <1>0, <1>1, <1>2, Open DEF UnloadOwner
<1>4. /\ activeLeases'[s] = activeLeases[s] - 1
      /\ \A q \in Slots \ {s} : activeLeases'[q] = activeLeases[q]
      /\ UNCHANGED <<manifest, library, state>>
  BY <1>0, <1>1, <1>2 DEF Release, TypeOK
<1>5. PICK p \in Plugins : /\ PhaseBar[p] = PhaseOf(state[s]) /\ OutstandingBar[p] = activeLeases[s]
                           /\ OutstandingBar' = [OutstandingBar EXCEPT ![p] = activeLeases'[s]]
                           /\ UNCHANGED PhaseBar
  BY ZenonT(30), <1>1, <1>3, <1>4, LeasesMove
<1>6. OutstandingBar[p] > 0 /\ OutstandingBar' = [OutstandingBar EXCEPT ![p] = OutstandingBar[p] - 1]
  BY <1>2, <1>4, <1>5
<1> QED BY <1>5, <1>6 DEF P!Next, P!Release

\* The destroy callback returns, and the DSO is closed.
LEMMA CloseMoves ==
    ASSUME IInv, UniqueIds, IInv', UniqueIds', NEW t \in Threads,
           DestroyReturns(t) \/ \E ok \in BOOLEAN : PlatformClose(t, ok)
    PROVE  [P!Next]_<<PhaseBar, OutstandingBar>>
<1>0. TypeOK
  BY DEF IInv
<1>1. pc[t] \in {"destroy", "close"} /\ UNCHANGED <<manifest, activeLeases, held>>
  BY DEF DestroyReturns, PlatformClose, ghostVars
<1>s. PICK s \in Slots : s = slotOf[t]
  BY <1>1, OpenUntilClosed
<1>2. /\ occupied(s) /\ library[s] /\ activeLeases[s] = 0
      /\ state[s] \in {"LOADED", "QUIESCENT"}
  BY <1>1, <1>s, OpenUntilClosed
<1>3. CASE DestroyReturns(t)
  <2>1. state' = [state EXCEPT ![s] = "QUIESCENT"] /\ UNCHANGED <<manifest, library, activeLeases, held>>
    BY <1>1, <1>s, <1>3 DEF DestroyReturns
  <2>2. PICK p \in Plugins : /\ PhaseBar[p] = PhaseOf(state[s])
                             /\ PhaseBar' = [PhaseBar EXCEPT ![p] = PhaseOf("QUIESCENT")]
                             /\ UNCHANGED OutstandingBar
    BY ZenonT(30), <1>2, <2>1, StateMoves
  <2>3. CASE state[s] = "LOADED"
    BY <2>2, <2>3, Phases DEF P!Next, P!Retire, P!Move
  <2>4. CASE state[s] = "QUIESCENT"
    BY <2>2, <2>4, SamePhase
  <2> QED BY <1>2, <2>3, <2>4
<1>4. ASSUME NEW ok \in BOOLEAN, PlatformClose(t, ok) PROVE [P!Next]_<<PhaseBar, OutstandingBar>>
  <2>1. UNCHANGED state
    BY <1>4 DEF PlatformClose
  <2>2. CASE UNCHANGED library
    BY <1>1, <2>1, <2>2, Quiet
  <2>3. CASE library' = [library EXCEPT ![s] = FALSE]
    <3>0. PICK p \in Plugins : p = manifest[s]
      BY <1>0, <1>2 DEF TypeOK, occupied
    <3>1. manifest[s] = p /\ manifest'[s] = p
      BY <1>1, <3>0
    <3>2. ~library'[s] /\ \A r \in Slots \ {s} : library'[r] = library[r]
      BY <1>0, <1>2, <2>3 DEF TypeOK
    <3>3. Seen(p) /\ Seen(p)'
      BY ZenonT(30), <3>1, SeenNow, SeenNext
    <3>4. PhaseBar' = [PhaseBar EXCEPT ![p] = PhaseBar'[p]]
      BY <1>1, <1>2, <2>1, <3>1, <3>2, OneSlot
    <3>5. PhaseBar[p] = PhaseOf(state[s]) /\ OutstandingBar[p] = 0
      BY <1>2, <3>1, <3>3 DEF Seen
    <3>6. PhaseBar'[p] = "OUT"
      BY <1>2, <3>1, <3>2, <3>3 DEF Seen
    <3>7. UNCHANGED OutstandingBar
      BY <1>1 DEF OutstandingBar
    <3>8. PhaseBar[p] \in {"LOADED", "QUIET"}
      BY <1>2, <3>5, Phases
    <3> QED BY <3>1, <3>4, <3>5, <3>6, <3>7, <3>8 DEF P!Next, P!Unload, P!Move
  <2> QED BY <1>4, <1>s, <2>2, <2>3 DEF PlatformClose
<1> QED BY <1>3, <1>4

\* Clearing a slot whose DSO is closed is not seen.
LEMMA ClearUnseen ==
    ASSUME IInv, UniqueIds, IInv', UniqueIds', NEW t \in Threads, ClearClosed(t)
    PROVE  UNCHANGED <<PhaseBar, OutstandingBar>>
<1>0. TypeOK /\ CallShape /\ UnloadOwner /\ LibraryOpen
  BY DEF IInv
<1>s. PICK s \in Slots : s = slotOf[t]
  BY <1>0 DEF ClearClosed, CallShape, Closing
<1>p. PICK p \in Plugins : p = manifest[s]
  BY <1>0, <1>s DEF ClearClosed, CallShape, Closing, TypeOK, occupied
<1>1. manifest[s] = p /\ occupied(s) /\ ~library[s] /\ activeLeases[s] = 0
  BY <1>0, <1>s, <1>p, PluginAssumption DEF ClearClosed, UnloadOwner, LibraryOpen, Closing, occupied
<1>2. manifest'[s] = NoPlugin /\ UNCHANGED library
  BY <1>0, <1>s DEF ClearClosed, clear_slot_locked, TypeOK
<1>3. \A r \in Slots \ {s} : /\ manifest'[r] = manifest[r] /\ library'[r] = library[r]
                             /\ activeLeases'[r] = activeLeases[r] /\ state'[r] = state[r]
  BY <1>0, <1>s DEF ClearClosed, clear_slot_locked, TypeOK
<1>4. \A r \in Slots : manifest'[r] # p
  BY <1>1, <1>2, <1>3, PluginAssumption DEF UniqueIds
<1>5. Seen(p) /\ Seen(p)'
  BY ZenonT(30), <1>1, SeenNow, SeenNext
<1>6. /\ PhaseBar' = [PhaseBar EXCEPT ![p] = PhaseBar'[p]]
      /\ OutstandingBar' = [OutstandingBar EXCEPT ![p] = OutstandingBar'[p]]
  BY <1>1, <1>2, <1>3, OneSlot
<1>7. PhaseBar[p] = "OUT" /\ OutstandingBar[p] = 0
  BY <1>1, <1>5 DEF Seen
<1>8. PhaseBar'[p] = "OUT" /\ OutstandingBar'[p] = 0
  BY <1>4, <1>5 DEF Seen
<1> QED BY <1>6, <1>7, <1>8, SamePhase, SameCount

\* Every step of the registry is a step of the promise, or unseen.
LEMMA StepLeases ==
    ASSUME IInv, UniqueIds, IInv', UniqueIds', [Next]_vars
    PROVE  [P!Next]_<<PhaseBar, OutstandingBar>>
<1> DEFINE Unseen == UNCHANGED <<manifest, library, state, held>>
<1> USE DEF slotVars, ghostVars
<1>1. RegistryInit => Unseen
  BY DEF RegistryInit
<1>2. ASSUME NEW t \in Threads, Call(t) PROVE [P!Next]_<<PhaseBar, OutstandingBar>>
  <2>1. \A p \in Plugins : LoadReserve(t, p) => Unseen
    BY DEF LoadReserve
  <2>2. \A r \in refs : Unload(t, r) => Unseen
    BY DEF Unload, BeginClose
  <2>3. DestroyRegistry(t) => Unseen
    BY DEF DestroyRegistry
  <2>4. CASE Unseen
    BY <2>4, Quiet
  <2>5. ASSUME NEW r \in refs, Start(t, r) \/ RequestStop(t, r) \/ PollQuiescent(t, r)
        PROVE  [P!Next]_<<PhaseBar, OutstandingBar>>
    BY ZenonT(30), <2>5, LifecycleMoves
  <2>6. ASSUME NEW r \in refs, NEW i \in LeaseSlots, Acquire(t, r, i) PROVE P!Next
    BY ZenonT(30), <2>6, AcquireTakes
  <2>7. ASSUME NEW k \in tokens, Release(t, k) PROVE P!Next
    BY ZenonT(30), <2>7, ReleaseGives
  <2> HIDE DEF Unseen
  <2> QED BY ZenonT(30), <1>2, <2>1, <2>2, <2>3, <2>4, <2>5, <2>6, <2>7 DEF Call
<1>3. ASSUME NEW t \in Threads, Continue(t) PROVE [P!Next]_<<PhaseBar, OutstandingBar>>
  <2>1. \A ok \in BOOLEAN : LoadOpen(t, ok) => Unseen
    BY DEF LoadOpen
  <2>2. LoadQueryRejected(t) \/ LoadPublishRejected(t) \/ LoadCloseRejected(t) \/ LoadUnreserve(t) => Unseen
    BY DEF LoadQueryRejected, LoadPublishRejected, LoadCloseRejected, LoadUnreserve
  <2>3. RequestStopReturns(t) \/ KeepUnclosed(t) \/ DestroySkip(t) \/ DestroySlot(t) \/ DestroyFinish(t) => Unseen
    BY DEF RequestStopReturns, KeepUnclosed, DestroySkip, DestroySlot, DestroyFinish, BeginClose
  <2>4. CASE Unseen
    BY <2>4, Quiet
  <2>5. ASSUME NEW s \in Slots, LoadPublish(t, s) PROVE P!Next
    BY ZenonT(30), <2>5, PublishLoads
  <2>6. ASSUME NEW ok \in BOOLEAN, StartReturns(t, ok) \/ PollQuiescentReturns(t, ok)
        PROVE  [P!Next]_<<PhaseBar, OutstandingBar>>
    BY ZenonT(30), <2>6, ReturnsMove
  <2>7. CASE DestroyReturns(t) \/ \E ok \in BOOLEAN : PlatformClose(t, ok)
    BY ZenonT(30), <2>7, CloseMoves
  <2>8. CASE ClearClosed(t)
    BY ZenonT(30), <2>8, ClearUnseen
  <2> HIDE DEF Unseen
  <2> QED BY ZenonT(30), <1>3, <2>1, <2>2, <2>3, <2>4, <2>5, <2>6, <2>7, <2>8 DEF Continue
<1>4. CASE UNCHANGED vars
  BY <1>4, Quiet DEF vars
<1>5. CASE Unseen
  BY <1>5, Quiet
<1> HIDE DEF Unseen
<1> QED BY ZenonT(30), <1>1, <1>2, <1>3, <1>4, <1>5 DEF Next

\* An empty registry holds no plugin and has no lease out.
LEMMA InitLeases == ASSUME Init PROVE P!Init
<1>1. \A p \in Plugins : HolderOf(p) = {}
  BY DEF Init, HolderOf
<1>2. PhaseBar = [p \in Plugins |-> "OUT"]
  BY <1>1 DEF PhaseBar
<1>3. \A p \in Plugins : {k \in held : manifest[k.slot] = p} = {}
  BY DEF Init
<1>4. OutstandingBar = [p \in Plugins |-> 0]
  BY <1>3, FS_EmptySet DEF OutstandingBar
<1> QED BY <1>2, <1>4 DEF P!Init

\* The registry implements its promise: whatever stop, poll, unload and
\* destroy race with, the code of a plugin stays in the process while a lease
\* of it is out, and its phases follow one another.
THEOREM LeasesImplemented == Spec => ImplementsLeases
BY InitLeases, StepLeases, Inductive, IdsUnique, PTL DEF Spec, ImplementsLeases, P!Spec
=============================================================================
