----------------------- MODULE PluginRegistryCallbacks -----------------------
(* The steps of PluginRegistry that run callbacks, and those of unload.        *)
EXTENDS PluginRegistryInvariant

-----------------------------------------------------------------------------
(***************************************************************************)
(* start(), request_stop() and poll_quiescent(), up to their callbacks and *)
(* after them, keep the inductive invariant of PluginRegistry.             *)
(***************************************************************************)

USE ZenonT(4), SMTT(30), ZenonT(30), SMTT(31)

\* start(), request_stop() and poll_quiescent() of a managed plugin enter a
\* callback of a slot that is not unloading and runs no other callback.
LEMMA EnterKeeps ==
    ASSUME IInv, NEW t \in Threads, NEW s \in Slots, NEW c, NEW st,
           pc[t] = "idle", occupied(s), ~unloading[s], ~destroying, callbacks[s] = 0,
           \/ c = "start" /\ st = "STARTING" /\ state[s] = "LOADED" /\ activeLeases[s] = 0
           \/ c = "request_stop" /\ st = "STOPPING" /\ state[s] = "STARTED"
           \/ c = "is_quiescent" /\ st = "STOPPING" /\ state[s] = "STOPPING"
                /\ activeLeases[s] = 0,
           EnterCallback(t, s, c),
           state' = [state EXCEPT ![s] = st],
           UNCHANGED <<manifest, library, generation, activeLeases, leaseMask,
                     leaseGeneration, unloading, destroyCalled, implVars,
                     candidate, whole, ghostVars>>
    PROVE  IInv'
<1> TypeOK /\ CallShape /\ CallbackOwner /\ UnloadOwner /\ LibraryOpen /\
      LeaseOwner /\ DestroyRun /\ GenerationBound /\ RefAge /\ TokenAge /\
      Counts /\ DestroyWalk
  BY DEF IInv
<1>u. /\ manifest' = manifest /\ library' = library /\ generation' = generation
      /\ activeLeases' = activeLeases /\ leaseMask' = leaseMask
      /\ leaseGeneration' = leaseGeneration /\ unloading' = unloading
      /\ destroyCalled' = destroyCalled /\ impl' = impl /\ count' = count
      /\ loadsInflight' = loadsInflight /\ destroying' = destroying
      /\ candidate' = candidate /\ whole' = whole /\ load' = load /\ held' = held
      /\ destroyRuns' = destroyRuns
  BY DEF slotVars, implVars, threadVars, ghostVars, EnterCallback
<1>p. /\ pc'[t] = c /\ slotOf'[t] = s /\ callbacks'[s] = 1 /\ state'[s] = st /\ ~whole[t]
      /\ c \in {"start", "request_stop", "is_quiescent"} /\ st \in {"STARTING", "STOPPING"}
      /\ \A u \in Threads \ {t} : pc'[u] = pc[u] /\ slotOf'[u] = slotOf[u]
      /\ \A x \in Slots \ {s} : callbacks'[x] = callbacks[x] /\ state'[x] = state[x]
  <2>1. ~whole[t]
    BY DEF CallShape, Closing
  <2> QED BY <2>1 DEF TypeOK, slotVars, implVars, threadVars, ghostVars, EnterCallback
<1>o. \A u \in Threads : pc[u] \in InCallback \cup Closing => slotOf[u] \in Slots \ {s}
  BY SMTT(40) DEF CallShape, CallbackOwner, UnloadOwner
<1>w. GenerationBound' /\ RefAge' /\ TokenAge'
  BY Frame DEF slotVars, implVars, threadVars, ghostVars, EnterCallback
<1>1. TypeOK'
  <2>1. c \in PCs /\ st \in States
    BY DEF PCs, InCallback, States
  <2>2. pc' \in [Threads -> PCs] /\ state' \in [Slots -> States]
    BY <2>1 DEF TypeOK, slotVars, implVars, threadVars, ghostVars, EnterCallback
  <2>3. callbacks' \in [Slots -> Nat]
    BY DEF TypeOK, slotVars, implVars, threadVars, ghostVars, EnterCallback
  <2>4. s \in 1 .. Capacity + 1
    BY CapacityAssumption DEF Slots
  <2>5. slotOf' \in [Threads -> 1 .. Capacity + 1]
    BY <2>4 DEF TypeOK, slotVars, implVars, threadVars, ghostVars, EnterCallback
  <2> QED BY <2>2, <2>3, <2>5 DEF TypeOK, slotVars, implVars, threadVars, ghostVars,
       EnterCallback
<1>2. CallShape'
  BY <1>p, <1>u, SMTT(40) DEF CallShape, Loading, InCallback, Closing, occupied
<1>3. CallbackOwner'
  <2>1. \A x \in Slots : /\ callbacks'[x] \in {0, 1}
                         /\ callbacks'[x] = 1 => state'[x] \in {"STARTING", "STOPPING"} \/ unloading'[x]
    BY <1>p, <1>u DEF CallbackOwner
  <2>2. \A u \in Threads \ {t} : pc'[u] \in InCallback =>
          /\ callbacks'[slotOf'[u]] = callbacks[slotOf[u]] /\ state'[slotOf'[u]] = state[slotOf[u]]
          /\ slotOf'[u] # slotOf'[t]
    BY <1>p, <1>o
  <2>3. c = "start" => st = "STARTING"
    OBVIOUS
  <2>4. c \in {"request_stop", "is_quiescent"} => st = "STOPPING"
    OBVIOUS
  <2>5. c = "is_quiescent" => activeLeases[s] = 0
    OBVIOUS
  <2> QED BY <1>p, <1>u, <2>1, <2>2, <2>3, <2>4, <2>5, SMTT(40) DEF CallbackOwner, InCallback
<1>4. UnloadOwner'
  <2>1. pc'[t] \notin Closing /\ pc[t] \notin Closing
    BY <1>p DEF Closing
  <2>2. \A u \in Threads : pc'[u] \in Closing <=> pc[u] \in Closing
    BY <1>p, <2>1
  <2>3. \A u \in Threads : pc[u] \in Closing =>
          /\ pc'[u] = pc[u] /\ slotOf'[u] = slotOf[u] /\ callbacks'[slotOf[u]] = callbacks[slotOf[u]]
    BY <1>p, <1>o, <2>1
  <2>4. \A x \in Slots : unloading[x] => state'[x] = state[x]
    BY <1>p
  <2> QED BY <1>u, <2>2, <2>3, <2>4, SMTT(40) DEF UnloadOwner, occupied
<1>5. LibraryOpen'
  <2>1. \A u \in Threads : (pc'[u] = "closed" <=> pc[u] = "closed")
                         /\ (pc[u] = "closed" => slotOf'[u] = slotOf[u])
    BY <1>p
  <2> QED BY <1>u, <2>1, SMTT(40) DEF LibraryOpen, occupied
<1>6. LeaseOwner'
  <2>1. \A x \in Slots : leaseMask[x] # {} => state'[x] \in {"STARTED", "STOPPING"}
    <3>1. ASSUME NEW x \in Slots, leaseMask[x] # {}
          PROVE  state[x] \in {"STARTED", "STOPPING"} /\ activeLeases[x] # 0
      BY <3>1, NoLease DEF LeaseOwner
    <3>2. leaseMask[s] # {} => st = "STOPPING"
      BY <3>1
    <3> QED BY <1>p, <3>1, <3>2
  <2> QED BY <1>u, <2>1, SMTT(40) DEF LeaseOwner, lease_live, occupied
<1>7. DestroyRun'
  <2>1. \A u \in Threads : pc[u] = "destroy" => pc'[u] = "destroy" /\ slotOf'[u] = slotOf[u]
    BY <1>p
  <2>2. \A x \in Slots : destroyCalled[x] => state'[x] = "QUIESCENT"
    BY <1>p DEF DestroyRun
  <2> QED BY <1>u, <2>1, <2>2 DEF DestroyRun, occupied
<1>8. Counts'
  <2>1. {u \in Threads : pc'[u] \in Loading} = {u \in Threads : pc[u] \in Loading}
    BY <1>p DEF Loading
  <2> QED BY <1>u, <2>1, ZenonT(30) DEF Counts, occupied
<1>9. DestroyWalk'
  <2>1. ~destroying /\ \A u \in Threads : ~whole[u]
    BY DEF DestroyWalk
  <2>2. impl
    BY <2>1 DEF DestroyWalk
  <2> QED BY <1>u, <2>1, <2>2 DEF DestroyWalk
<1> QED BY <1>w, <1>1, <1>2, <1>3, <1>4, <1>5, <1>6, <1>7, <1>8, <1>9 DEF IInv

\* The same calls on a passive plugin only change its state.
LEMMA PassiveKeeps ==
    ASSUME IInv, NEW s \in Slots, NEW st,
           occupied(s), ~unloading[s], ~destroying, callbacks[s] = 0,
           \/ st = "STARTED" /\ state[s] = "LOADED" /\ activeLeases[s] = 0
           \/ st = "STOPPING" /\ state[s] = "STARTED"
           \/ st = "QUIESCENT" /\ state[s] = "STOPPING" /\ activeLeases[s] = 0,
           state' = [state EXCEPT ![s] = st],
           UNCHANGED <<callbacks, pc, slotOf, manifest, library, generation, activeLeases, leaseMask,
                     leaseGeneration, unloading, destroyCalled, implVars,
                     candidate, whole, ghostVars>>
    PROVE  IInv'
<1> TypeOK /\ CallShape /\ CallbackOwner /\ UnloadOwner /\ LibraryOpen /\
      LeaseOwner /\ DestroyRun /\ GenerationBound /\ RefAge /\ TokenAge /\
      Counts /\ DestroyWalk
  BY DEF IInv
<1>u. /\ manifest' = manifest /\ library' = library /\ generation' = generation
      /\ activeLeases' = activeLeases /\ leaseMask' = leaseMask
      /\ leaseGeneration' = leaseGeneration /\ unloading' = unloading
      /\ destroyCalled' = destroyCalled /\ impl' = impl /\ count' = count
      /\ loadsInflight' = loadsInflight /\ destroying' = destroying
      /\ candidate' = candidate /\ whole' = whole /\ load' = load /\ held' = held
      /\ destroyRuns' = destroyRuns
  BY DEF slotVars, implVars, threadVars, ghostVars
<1>q. pc' = pc /\ slotOf' = slotOf /\ callbacks' = callbacks
  OBVIOUS
<1>p. state'[s] = st /\ \A x \in Slots \ {s} : state'[x] = state[x]
  BY DEF TypeOK
<1>o. \A u \in Threads : pc[u] \in InCallback \cup Closing => slotOf[u] \in Slots \ {s}
  BY SMTT(40) DEF CallShape, CallbackOwner, UnloadOwner
<1>w. CallShape' /\ LibraryOpen' /\ GenerationBound' /\ RefAge' /\ TokenAge'
      /\ Counts'
  BY Frame DEF slotVars, implVars, threadVars, ghostVars
<1>1. TypeOK'
  BY DEF TypeOK, PCs, Loading, InCallback, Closing, States, Ref, Token, CallShape,
       slotVars, implVars, threadVars, ghostVars
<1>2. CallbackOwner'
  <2>1. \A x \in Slots : callbacks[x] = 1 => state'[x] = state[x]
    BY <1>p, SMTT(40)
  <2>2. \A u \in Threads : pc[u] \in InCallback => state'[slotOf[u]] = state[slotOf[u]]
    BY <1>p, <1>o
  <2> QED BY <1>u, <1>q, <2>1, <2>2, SMTT(40) DEF CallbackOwner
<1>3. UnloadOwner'
  <2>1. \A x \in Slots : unloading[x] => state'[x] = state[x]
    BY <1>p
  <2> QED BY <1>u, <1>q, <2>1 DEF UnloadOwner, occupied
<1>4. LeaseOwner'
  <2>1. \A x \in Slots : leaseMask[x] # {} => state'[x] \in {"STARTED", "STOPPING"}
    <3>1. ASSUME NEW x \in Slots, leaseMask[x] # {}
          PROVE  state[x] \in {"STARTED", "STOPPING"} /\ activeLeases[x] # 0
      BY <3>1, NoLease DEF LeaseOwner
    <3>2. leaseMask[s] # {} => st \in {"STARTED", "STOPPING"}
      BY <3>1
    <3> QED BY <1>p, <3>1, <3>2
  <2> QED BY <1>u, <2>1 DEF LeaseOwner, lease_live, occupied
<1>5. DestroyRun'
  <2>1. \A x \in Slots : destroyCalled[x] => state'[x] = "QUIESCENT"
    BY <1>p DEF DestroyRun
  <2> QED BY <1>u, <1>q, <2>1 DEF DestroyRun, occupied
<1>6. DestroyWalk'
  <2>1. ~destroying /\ \A u \in Threads : ~whole[u]
    BY DEF DestroyWalk
  <2>2. impl
    BY <2>1 DEF DestroyWalk
  <2> QED BY <1>u, <2>1, <2>2 DEF DestroyWalk
<1> QED BY <1>w, <1>1, <1>2, <1>3, <1>4, <1>5, <1>6 DEF IInv

\* A callback other than destroy returns.
LEMMA LeaveKeeps ==
    ASSUME IInv, NEW t \in Threads, NEW c, NEW st,
           \/ c = "start" /\ st \in {"STARTED", "QUIESCENT"}
           \/ c = "request_stop" /\ st = "STOPPING"
           \/ c = "is_quiescent" /\ st \in {"STOPPING", "QUIESCENT"},
           LeaveCallback(t, c),
           state' = [state EXCEPT ![slotOf[t]] = st],
           UNCHANGED <<manifest, library, generation, activeLeases, leaseMask,
                       leaseGeneration, unloading, destroyCalled, implVars, ghostVars>>
    PROVE  IInv'
<1> TypeOK /\ CallShape /\ CallbackOwner /\ UnloadOwner /\ LibraryOpen /\
      LeaseOwner /\ DestroyRun /\ GenerationBound /\ RefAge /\ TokenAge /\
      Counts /\ DestroyWalk
  BY DEF IInv
<1>u. /\ manifest' = manifest /\ library' = library /\ generation' = generation
      /\ activeLeases' = activeLeases /\ leaseMask' = leaseMask
      /\ leaseGeneration' = leaseGeneration /\ unloading' = unloading
      /\ destroyCalled' = destroyCalled /\ impl' = impl /\ count' = count
      /\ loadsInflight' = loadsInflight /\ destroying' = destroying
      /\ candidate' = candidate /\ whole' = whole /\ slotOf' = slotOf /\ load' = load /\ held' = held
      /\ destroyRuns' = destroyRuns
  BY DEF slotVars, implVars, threadVars, ghostVars, LeaveCallback
<1> DEFINE s == slotOf[t]
<1>s. /\ s \in Slots /\ occupied(s) /\ callbacks[s] = 1
      /\ pc[t] = c /\ ~whole[t] /\ ~destroying /\ ~unloading[s] /\ ~destroyCalled[s]
      /\ c \in {"start", "request_stop", "is_quiescent"}
      /\ state[s] \in {"STARTING", "STOPPING"}
      /\ (leaseMask[s] # {} => st \in {"STARTED", "STOPPING"})
  <2>1. pc[t] = c /\ c \in {"start", "request_stop", "is_quiescent"}
    BY DEF slotVars, implVars, threadVars, ghostVars, LeaveCallback
  <2>2. s \in Slots /\ occupied(s) /\ callbacks[s] = 1 /\ ~whole[t]
    BY <2>1 DEF CallShape, CallbackOwner, InCallback, Closing
  <2>3. /\ c = "start" => state[s] = "STARTING"
        /\ c \in {"request_stop", "is_quiescent"} => state[s] = "STOPPING"
        /\ c = "is_quiescent" => activeLeases[s] = 0
    BY <2>1 DEF CallbackOwner, InCallback
  <2>4. ~destroying /\ ~unloading[s] /\ ~destroyCalled[s]
    BY <2>1, <2>2, <2>3 DEF DestroyWalk, UnloadOwner, DestroyRun
  <2>5. leaseMask[s] # {} => activeLeases[s] # 0 /\ state[s] = "STOPPING"
    BY <2>1, <2>2, <2>3, NoLease DEF LeaseOwner
  <2>6. c = "start" => state[s] = "STARTING"
    BY <2>3
  <2> QED BY <2>1, <2>2, <2>3, <2>4, <2>5
<1>p. /\ pc'[t] = "idle" /\ callbacks'[s] = 0 /\ state'[s] = st
      /\ st \in {"STARTED", "STOPPING", "QUIESCENT"}
      /\ \A u \in Threads \ {t} : pc'[u] = pc[u]
      /\ \A x \in Slots \ {s} : callbacks'[x] = callbacks[x] /\ state'[x] = state[x]
  BY <1>s DEF TypeOK, slotVars, implVars, threadVars, ghostVars, LeaveCallback
<1>o. \A u \in Threads \ {t} : pc[u] \in InCallback \cup Closing => slotOf[u] \in Slots \ {s}
  <2>1. \A u \in Threads \ {t} : pc[u] \in InCallback => slotOf[u] # s
    BY <1>s DEF CallbackOwner, InCallback
  <2> QED BY <1>s, <2>1 DEF CallShape, UnloadOwner
<1> HIDE DEF s
<1>w. GenerationBound' /\ RefAge' /\ TokenAge'
  BY Frame DEF slotVars, implVars, threadVars, ghostVars, LeaveCallback
<1>1. TypeOK'
  <2>1. pc' \in [Threads -> PCs] /\ state' \in [Slots -> States] /\ callbacks' \in [Slots -> Nat]
    BY <1>s DEF TypeOK, PCs, States, s, slotVars, implVars, threadVars, ghostVars,
         LeaveCallback
  <2> QED BY <2>1 DEF TypeOK, slotVars, implVars, threadVars, ghostVars, LeaveCallback
<1>2. CallShape'
  BY <1>p, <1>u, <1>s DEF CallShape, Loading, InCallback, Closing, occupied
<1>3. CallbackOwner'
  <2>1. \A x \in Slots : /\ callbacks'[x] \in {0, 1}
                         /\ callbacks'[x] = 1 => state'[x] \in {"STARTING", "STOPPING"} \/ unloading'[x]
    BY <1>p, <1>u, SMTT(40) DEF CallbackOwner
  <2>2. pc'[t] \notin InCallback
    BY <1>p DEF InCallback
  <2>3. \A u \in Threads \ {t} : pc[u] \in InCallback =>
          /\ callbacks'[slotOf[u]] = callbacks[slotOf[u]] /\ state'[slotOf[u]] = state[slotOf[u]]
    BY <1>p, <1>o
  <2> QED BY <1>p, <1>u, <2>1, <2>2, <2>3, SMTT(40) DEF CallbackOwner
<1>4. UnloadOwner'
  <2>1. pc'[t] \notin Closing /\ pc[t] \notin Closing
    BY <1>p, <1>s, ZenonT(30) DEF Closing
  <2>2. \A u \in Threads : pc'[u] \in Closing <=> pc[u] \in Closing
    BY <1>p, <2>1
  <2>3. \A u \in Threads : pc[u] \in Closing =>
          /\ pc'[u] = pc[u] /\ callbacks'[slotOf[u]] = callbacks[slotOf[u]]
    BY <1>p, <1>o, <2>1
  <2>4. \A x \in Slots : unloading[x] => state'[x] = state[x]
    BY <1>p, <1>s
  <2> QED BY <1>u, <2>2, <2>3, <2>4, SMTT(40) DEF UnloadOwner, occupied
<1>5. LibraryOpen'
  <2>1. \A u \in Threads : pc'[u] = "closed" <=> pc[u] = "closed"
    BY <1>p, <1>s
  <2> QED BY <1>u, <2>1 DEF LibraryOpen, occupied
<1>6. LeaseOwner'
  <2>1. \A x \in Slots : leaseMask[x] # {} => state'[x] \in {"STARTED", "STOPPING"}
    BY <1>p, <1>s, ZenonT(30) DEF LeaseOwner
  <2> QED BY <1>u, <2>1 DEF LeaseOwner, lease_live, occupied
<1>7. DestroyRun'
  <2>1. \A u \in Threads : pc[u] = "destroy" => pc'[u] = "destroy"
    BY <1>p, <1>s
  <2>2. \A x \in Slots : destroyCalled[x] => state'[x] = "QUIESCENT"
    BY <1>p, <1>s DEF DestroyRun
  <2> QED BY <1>u, <2>1, <2>2 DEF DestroyRun, occupied
<1>8. Counts'
  <2>1. {u \in Threads : pc'[u] \in Loading} = {u \in Threads : pc[u] \in Loading}
    BY <1>p, <1>s DEF Loading
  <2> QED BY <1>u, <2>1 DEF Counts, occupied
<1>9. DestroyWalk'
  <2>1. \A u \in Threads : ~whole[u]
    BY <1>s, ZenonT(30) DEF DestroyWalk
  <2>2. impl
    BY <1>s, ZenonT(30) DEF DestroyWalk
  <2> QED BY <1>u, <1>s, <2>1, <2>2 DEF DestroyWalk
<1> QED BY <1>w, <1>1, <1>2, <1>3, <1>4, <1>5, <1>6, <1>7, <1>8, <1>9 DEF IInv

\* start() reserves the callback under the lock.
LEMMA StartKeeps ==
    ASSUME IInv, NEW t \in Threads, NEW r \in refs, Start(t, r) PROVE IInv'
<1> TypeOK /\ CallShape /\ CallbackOwner
  BY DEF IInv
<1>1. r.slot \in Slots /\ occupied(r.slot) /\ ~unloading[r.slot] /\ ~destroying /\ pc[t] = "idle"
  BY DEF Start, Admits, slot_for_ref, TypeOK, Ref
<1>2. callbacks[r.slot] = 0
  BY <1>1 DEF Start, CallbackOwner
<1>3. state \in [Slots -> States]
  BY DEF TypeOK
<1>4. CASE manifest[r.slot] \in Managed
  <2>1. EnterCallback(t, r.slot, "start") /\ state' = [state EXCEPT ![r.slot] = "STARTING"]
    BY <1>1, <1>3, <1>4 DEF Start
  <2> QED BY <1>1, <1>2, <2>1, EnterKeeps, ZenonT(30) DEF Start
<1>5. CASE manifest[r.slot] \notin Managed
  BY <1>1, <1>2, <1>5, PassiveKeeps DEF Start
<1> QED BY <1>4, <1>5

\* start() records what the callback answered.
LEMMA StartReturnsKeeps ==
    ASSUME IInv, NEW t \in Threads, NEW ok \in BOOLEAN, StartReturns(t, ok) PROVE IInv'
<1> DEFINE st == IF ok THEN "STARTED" ELSE "QUIESCENT"
<1>1. /\ state \in [Slots -> States] /\ slotOf[t] \in Slots
      /\ "start" \in {"request_stop", "is_quiescent"} => state[slotOf[t]] = "STOPPING"
  BY DEF IInv, TypeOK, CallShape, CallbackOwner, InCallback, StartReturns, LeaveCallback
<1>2. state' = [state EXCEPT ![slotOf[t]] = st]
  BY <1>1 DEF StartReturns
<1> QED BY <1>2, LeaveKeeps, ZenonT(30) DEF StartReturns

\* request_stop() closes admission and reserves the callback.
LEMMA RequestStopKeeps ==
    ASSUME IInv, NEW t \in Threads, NEW r \in refs, RequestStop(t, r) PROVE IInv'
<1> TypeOK /\ CallShape /\ CallbackOwner
  BY DEF IInv
<1>1. r.slot \in Slots /\ occupied(r.slot) /\ ~unloading[r.slot] /\ ~destroying /\ pc[t] = "idle"
  BY DEF RequestStop, Admits, slot_for_ref, TypeOK, Ref
<1>2. callbacks[r.slot] = 0
  BY <1>1 DEF RequestStop, CallbackOwner
<1>3. state \in [Slots -> States]
  BY DEF TypeOK
<1>4. CASE manifest[r.slot] \in Managed
  <2>1. EnterCallback(t, r.slot, "request_stop") /\ state' = [state EXCEPT ![r.slot] = "STOPPING"]
    BY <1>1, <1>3, <1>4 DEF RequestStop
  <2> QED BY <1>1, <1>2, <2>1, EnterKeeps, ZenonT(30) DEF RequestStop
<1>5. CASE manifest[r.slot] \notin Managed
  BY <1>1, <1>2, <1>5, PassiveKeeps, ZenonT(30) DEF RequestStop
<1> QED BY <1>4, <1>5

\* The request_stop callback returns.
LEMMA RequestStopReturnsKeeps ==
    ASSUME IInv, NEW t \in Threads, RequestStopReturns(t) PROVE IInv'
<1> DEFINE st == "STOPPING"
<1>1. /\ state \in [Slots -> States] /\ slotOf[t] \in Slots
      /\ "request_stop" \in {"request_stop", "is_quiescent"} => state[slotOf[t]] = "STOPPING"
  BY DEF IInv, TypeOK, CallShape, CallbackOwner, InCallback, RequestStopReturns,
       LeaveCallback
<1>2. state' = [state EXCEPT ![slotOf[t]] = st]
  BY <1>1 DEF RequestStopReturns
<1> QED BY <1>2, LeaveKeeps, ZenonT(30) DEF RequestStopReturns

\* poll_quiescent() reserves the callback once no lease is out.
LEMMA PollQuiescentKeeps ==
    ASSUME IInv, NEW t \in Threads, NEW r \in refs, PollQuiescent(t, r) PROVE IInv'
<1> TypeOK /\ CallShape /\ CallbackOwner
  BY DEF IInv
<1>1. r.slot \in Slots /\ occupied(r.slot) /\ ~unloading[r.slot] /\ ~destroying /\ pc[t] = "idle"
  BY DEF PollQuiescent, Admits, slot_for_ref, TypeOK, Ref
<1>2. callbacks[r.slot] = 0
  BY <1>1 DEF PollQuiescent, CallbackOwner
<1>3. state \in [Slots -> States]
  BY DEF TypeOK
<1>4. CASE manifest[r.slot] \in Managed
  <2>1. EnterCallback(t, r.slot, "is_quiescent") /\ state' = [state EXCEPT ![r.slot] = "STOPPING"]
    BY <1>1, <1>3, <1>4 DEF PollQuiescent
  <2> QED BY <1>1, <1>2, <2>1, EnterKeeps, ZenonT(30) DEF PollQuiescent
<1>5. CASE manifest[r.slot] \notin Managed
  BY <1>1, <1>2, <1>5, PassiveKeeps DEF PollQuiescent
<1> QED BY <1>4, <1>5

\* poll_quiescent() records what the plugin answered.
LEMMA PollQuiescentReturnsKeeps ==
    ASSUME IInv, NEW t \in Threads, NEW ok \in BOOLEAN, PollQuiescentReturns(t, ok) PROVE IInv'
<1> DEFINE st == IF ok THEN "QUIESCENT" ELSE "STOPPING"
<1>1. /\ state \in [Slots -> States] /\ slotOf[t] \in Slots
      /\ "is_quiescent" \in {"request_stop", "is_quiescent"} => state[slotOf[t]] = "STOPPING"
  BY DEF IInv, TypeOK, CallShape, CallbackOwner, InCallback, PollQuiescentReturns,
       LeaveCallback
<1>2. state' = [state EXCEPT ![slotOf[t]] = st]
  BY <1>1, ZenonT(30) DEF PollQuiescentReturns
<1> QED BY <1>2, LeaveKeeps, ZenonT(30) DEF PollQuiescentReturns

-----------------------------------------------------------------------------
(* unload() and destroy(), up to the close of the DSO, keep the inductive  *)
(* invariant of PluginRegistry.                                            *)

\* unload(), and destroy() for each slot, begin to close an idle slot.
LEMMA BeginCloseKeeps ==
    ASSUME IInv, NEW t \in Threads, NEW s \in Slots,
           \/ pc[t] = "idle" /\ ~destroying
           \/ pc[t] = "destroy_next" /\ slotOf[t] = s,
           occupied(s), ~unloading[s], Unloadable(s),
           BeginClose(t, s),
           UNCHANGED <<implVars, whole>>
    PROVE  IInv'
<1>i. /\ TypeOK /\ CallShape /\ CallbackOwner /\ UnloadOwner /\ LibraryOpen
      /\ LeaseOwner /\ DestroyRun /\ Counts /\ DestroyWalk
  BY DEF IInv
<1>u. /\ manifest' = manifest /\ library' = library /\ generation' = generation
      /\ state' = state /\ activeLeases' = activeLeases /\ leaseMask' = leaseMask
      /\ leaseGeneration' = leaseGeneration /\ destroyCalled' = destroyCalled
      /\ candidate' = candidate /\ load' = load /\ refs' = refs /\ tokens' = tokens
      /\ held' = held /\ loads' = loads /\ acquires' = acquires /\ impl' = impl
      /\ count' = count /\ loadsInflight' = loadsInflight
      /\ destroying' = destroying /\ whole' = whole
  BY ZenonT(30) DEF BeginClose, implVars
<1>d. /\ state[s] \in {"LOADED", "QUIESCENT"} /\ activeLeases[s] = 0 /\ callbacks[s] = 0
  BY DEF Unloadable
<1>s. /\ pc'[t] \in {"destroy", "close"} /\ slotOf'[t] = s /\ unloading'[s]
      /\ \A u \in Threads \ {t} : pc'[u] = pc[u] /\ slotOf'[u] = slotOf[u]
      /\ pc'[t] = "destroy" => callbacks'[s] = 1 /\ destroyRuns'[s] = destroyRuns[s] + 1
                                /\ ~destroyCalled[s]
      /\ pc'[t] = "close" => callbacks'[s] = 0 /\ destroyRuns'[s] = destroyRuns[s]
      /\ \A x \in Slots \ {s} : callbacks'[x] = callbacks[x] /\ unloading'[x] = unloading[x]
                                 /\ destroyRuns'[x] = destroyRuns[x]
  BY <1>i, <1>d DEF TypeOK, BeginClose
<1>o. \A u \in Threads : pc[u] \in InCallback \cup Closing => u # t /\ slotOf[u] \in Slots \ {s}
  <2>1. pc[t] \notin InCallback \cup Closing
    BY DEF InCallback, Closing
  <2>2. \A u \in Threads : pc[u] \in InCallback => slotOf[u] # s
    BY <1>i, <1>d DEF CallbackOwner
  <2>3. \A u \in Threads : pc[u] \in Closing => slotOf[u] # s
    BY <1>i DEF UnloadOwner
  <2> QED BY ZenonT(30), <1>i, <2>1, <2>2, <2>3 DEF CallShape
<1>c. /\ pc'[t] \in Closing /\ pc'[t] \notin Loading /\ pc[t] \notin Loading
      /\ pc'[t] \in InCallback => pc'[t] = "destroy"
  BY <1>s DEF Closing, Loading, InCallback
<1>w. LeaseOwner' /\ GenerationBound' /\ RefAge' /\ TokenAge'
  BY ZenonT(30), <1>u, Frame
<1>1. TypeOK'
  <2>1. s \in 1 .. Capacity + 1
    BY CapacityAssumption DEF Slots
  <2>2. slotOf' \in [Threads -> 1 .. Capacity + 1] /\ unloading' \in [Slots -> BOOLEAN]
    BY <1>i, <2>1 DEF TypeOK, BeginClose
  <2>3. /\ "destroy" \in PCs /\ "close" \in PCs
        /\ pc \in [Threads -> PCs] /\ callbacks \in [Slots -> Nat] /\ destroyRuns \in [Slots -> Nat]
    BY <1>i DEF TypeOK, PCs, Closing
  <2>4. /\ pc' \in [Threads -> PCs]
        /\ callbacks' \in [Slots -> Nat] /\ destroyRuns' \in [Slots -> Nat]
    <3>1. CASE pc' = [pc EXCEPT ![t] = "destroy"] /\ callbacks' = [callbacks EXCEPT ![s] = @ + 1]
               /\ destroyRuns' = [destroyRuns EXCEPT ![s] = @ + 1]
      BY <2>3, <3>1
    <3>2. CASE pc' = [pc EXCEPT ![t] = "close"] /\ callbacks' = callbacks
               /\ destroyRuns' = destroyRuns
      BY <2>3, <3>2
    <3> QED BY ZenonT(30), <3>1, <3>2 DEF BeginClose
  <2> QED BY <1>i, <1>u, <2>2, <2>4 DEF TypeOK
<1>2. CallShape'
  BY <1>i, <1>u, <1>s, <1>c DEF CallShape, occupied
<1>3. CallbackOwner'
  <2>1. \A x \in Slots : /\ callbacks'[x] \in {0, 1}
                         /\ callbacks'[x] = 1 => state[x] \in {"STARTING", "STOPPING"} \/ unloading'[x]
    BY ZenonT(30), <1>i, <1>s DEF CallbackOwner
  <2>2. ASSUME NEW u \in Threads, pc'[u] \in InCallback, u # t
        PROVE  /\ callbacks'[slotOf'[u]] = 1
               /\ \A v \in Threads : pc'[v] \in InCallback /\ slotOf'[v] = slotOf'[u] => v = u
               /\ pc'[u] = "start" => state[slotOf'[u]] = "STARTING"
               /\ pc'[u] \in {"request_stop", "is_quiescent"} => state[slotOf'[u]] = "STOPPING"
               /\ pc'[u] = "is_quiescent" => activeLeases[slotOf'[u]] = 0
    <3>1. pc'[u] = pc[u] /\ slotOf'[u] = slotOf[u] /\ slotOf[u] \in Slots \ {s}
          /\ callbacks'[slotOf[u]] = callbacks[slotOf[u]]
      BY ZenonT(30), <1>s, <1>o, <2>2
    <3>2. ASSUME NEW v \in Threads, pc'[v] \in InCallback, slotOf'[v] = slotOf'[u]
          PROVE  v = u
      <4>1. v # t
        BY ZenonT(30), <1>s, <3>1, <3>2
      <4>2. pc[v] \in InCallback /\ slotOf[v] = slotOf[u] /\ pc[u] \in InCallback
        BY ZenonT(30), <1>s, <2>2, <3>1, <3>2, <4>1
      <4> QED BY ZenonT(30), <1>i, <4>2 DEF CallbackOwner
    <3> QED BY ZenonT(30), <1>i, <2>2, <3>1, <3>2 DEF CallbackOwner
  <2>3. pc'[t] \in InCallback =>
          \A v \in Threads : pc'[v] \in InCallback /\ slotOf'[v] = s => v = t
    BY ZenonT(30), <1>s, <1>o
  <2> QED BY <1>u, <1>s, <1>c, <2>1, <2>2, <2>3 DEF CallbackOwner
<1>4. UnloadOwner'
  <2>1. ASSUME NEW x \in Slots, unloading'[x]
        PROVE  /\ occupied(x)' /\ state[x] \in {"LOADED", "QUIESCENT"} /\ activeLeases[x] = 0
               /\ \E u \in Threads : pc'[u] \in Closing /\ slotOf'[u] = x
    <3>1. CASE x = s
      BY ZenonT(30), <1>u, <1>d, <1>s, <1>c, <3>1 DEF occupied
    <3>2. CASE x # s
      <4>1. unloading[x]
        BY ZenonT(30), <1>s, <2>1, <3>2
      <4>2. PICK u \in Threads : pc[u] \in Closing /\ slotOf[u] = x
        BY ZenonT(30), <1>i, <4>1 DEF UnloadOwner
      <4>3. pc'[u] \in Closing /\ slotOf'[u] = x
        BY ZenonT(30), <1>s, <1>o, <4>2
      <4> QED BY ZenonT(30), <1>i, <1>u, <4>1, <4>3 DEF UnloadOwner, occupied
    <3> QED BY ZenonT(30), <3>1, <3>2
  <2>2. ASSUME NEW u \in Threads, pc'[u] \in Closing
        PROVE  /\ unloading'[slotOf'[u]]
               /\ pc'[u] # "destroy" => callbacks'[slotOf'[u]] = 0
               /\ \A v \in Threads : pc'[v] \in Closing /\ slotOf'[v] = slotOf'[u] => v = u
    <3>1. CASE u = t
      BY <1>s, <1>o, <3>1
    <3>2. CASE u # t
      <4>1. pc'[u] = pc[u] /\ slotOf'[u] = slotOf[u] /\ slotOf[u] \in Slots \ {s}
        BY ZenonT(30), <1>s, <1>o, <2>2, <3>2
      <4>2. pc[u] \in Closing
        BY ZenonT(30), <2>2, <4>1
      <4>3. /\ unloading[slotOf[u]] /\ (pc[u] # "destroy" => callbacks[slotOf[u]] = 0)
            /\ \A v \in Threads : pc[v] \in Closing /\ slotOf[v] = slotOf[u] => v = u
        BY ZenonT(30), <1>i, <4>2 DEF UnloadOwner
      <4>4. /\ unloading'[slotOf[u]] = unloading[slotOf[u]]
            /\ callbacks'[slotOf[u]] = callbacks[slotOf[u]]
        BY ZenonT(30), <1>s, <4>1
      <4>5. ASSUME NEW v \in Threads, pc'[v] \in Closing, slotOf'[v] = slotOf'[u]
            PROVE  v = u
        <5>1. v # t
          BY ZenonT(30), <1>s, <4>1, <4>5
        <5>2. pc[v] \in Closing /\ slotOf[v] = slotOf[u]
          BY ZenonT(30), <1>s, <4>1, <4>5, <5>1
        <5> QED BY ZenonT(30), <4>3, <5>2
      <4> QED BY ZenonT(30), <4>1, <4>3, <4>4, <4>5
    <3> QED BY ZenonT(30), <3>1, <3>2
  <2> QED BY ZenonT(30), <1>u, <2>1, <2>2 DEF UnloadOwner
<1>5. LibraryOpen'
  <2>1. \A u \in Threads : (pc'[u] = "closed" <=> pc[u] = "closed")
                         /\ (pc[u] = "closed" => slotOf'[u] = slotOf[u])
    BY ZenonT(30), <1>s, <1>o DEF Closing
  <2>2. /\ \A x \in Slots : library[x] => occupied(x)
        /\ \A x \in Slots : occupied(x) /\ ~library[x] =>
             \E u \in Threads : pc[u] = "closed" /\ slotOf[u] = x
        /\ \A u \in Threads : pc[u] = "closed" => ~library[slotOf[u]]
    BY ZenonT(30), <1>i DEF LibraryOpen
  <2>3. \A x \in Slots : occupied(x)' <=> occupied(x)
    BY ZenonT(30), <1>u DEF occupied
  <2>4. \A x \in Slots : library'[x] => occupied(x)'
    BY ZenonT(30), <1>u, <2>2, <2>3
  <2>5. ASSUME NEW x \in Slots, occupied(x)', ~library'[x]
        PROVE  \E u \in Threads : pc'[u] = "closed" /\ slotOf'[u] = x
    <3>1. PICK u \in Threads : pc[u] = "closed" /\ slotOf[u] = x
      BY ZenonT(30), <1>u, <2>2, <2>3, <2>5
    <3>2. pc'[u] = "closed" /\ slotOf'[u] = x
      BY ZenonT(30), <2>1, <3>1
    <3> QED BY ZenonT(30), <3>2
  <2>6. ASSUME NEW u \in Threads, pc'[u] = "closed" PROVE ~library'[slotOf'[u]]
    <3>1. pc[u] = "closed" /\ slotOf'[u] = slotOf[u]
      BY ZenonT(30), <2>1, <2>6
    <3> QED BY ZenonT(30), <1>u, <2>2, <3>1
  <2> QED BY ZenonT(30), <2>4, <2>5, <2>6 DEF LibraryOpen
<1>6. DestroyRun'
  <2>1. ASSUME NEW x \in Slots, x # s, NEW u \in Threads, pc[u] = "destroy", slotOf[u] = x
        PROVE  pc'[u] = "destroy" /\ slotOf'[u] = x
    BY ZenonT(30), <1>s, <1>o, <2>1 DEF Closing
  <2>2. ASSUME NEW x \in Slots, occupied(x)
        PROVE  \/ destroyRuns'[x] = 0
               \/ destroyRuns'[x] = 1 /\
                    (destroyCalled[x] \/ \E u \in Threads : pc'[u] = "destroy" /\ slotOf'[u] = x)
    <3>1. CASE x = s
      <4>1. destroyRuns[s] = 0 \/ (destroyRuns[s] = 1 /\ destroyCalled[s])
        <5>1. \/ destroyRuns[s] = 0
              \/ destroyRuns[s] = 1 /\
                   (destroyCalled[s] \/ \E u \in Threads : pc[u] = "destroy" /\ slotOf[u] = s)
          BY ZenonT(30), <1>i DEF DestroyRun
        <5>2. ASSUME NEW u \in Threads, pc[u] = "destroy", slotOf[u] = s PROVE FALSE
          BY ZenonT(30), <1>o, <5>2 DEF Closing
        <5> QED BY ZenonT(30), <5>1, <5>2
      <4> QED BY <1>s, <3>1, <4>1
    <3>2. CASE x # s
      <4>1. \/ destroyRuns[x] = 0
            \/ destroyRuns[x] = 1 /\
                 (destroyCalled[x] \/ \E u \in Threads : pc[u] = "destroy" /\ slotOf[u] = x)
        BY ZenonT(30), <1>i, <2>2 DEF DestroyRun
      <4>2. destroyRuns'[x] = destroyRuns[x]
        BY ZenonT(30), <1>s, <3>2
      <4> QED BY ZenonT(30), <2>1, <3>2, <4>1, <4>2
    <3> QED BY <3>1, <3>2
  <2> QED BY ZenonT(30), <1>i, <1>u, <2>2 DEF DestroyRun, occupied
<1>7. Counts'
  <2>1. {u \in Threads : pc'[u] \in Loading} = {u \in Threads : pc[u] \in Loading}
    BY ZenonT(30), <1>s, <1>c
  <2> QED BY ZenonT(30), <1>i, <1>u, <2>1 DEF Counts, occupied
<1>8. DestroyWalk'
  <2>1. \A u \in Threads : whole[u] => slotOf'[u] = slotOf[u]
    <3>1. whole[t] => pc[t] = "destroy_next"
      BY <1>i DEF CallShape, Closing
    <3> QED BY ZenonT(30), <1>s, <3>1
  <2>2. destroying => \A u \in Threads : pc'[u] = "idle" \/ whole[u]
    <3>1. destroying => whole[t]
      BY ZenonT(30), <1>i DEF CallShape
    <3>2. destroying => \A u \in Threads : pc[u] = "idle" \/ whole[u]
      BY ZenonT(30), <1>i DEF DestroyWalk
    <3>3. \A u \in Threads \ {t} : pc'[u] = pc[u]
      BY ZenonT(30), <1>s
    <3> QED BY ZenonT(30), <3>1, <3>2, <3>3
  <2>3. impl
    BY <1>i DEF DestroyWalk
  <2> QED BY <1>i, <1>u, <2>1, <2>2, <2>3 DEF DestroyWalk, occupied
<1> QED BY <1>w, <1>1, <1>2, <1>3, <1>4, <1>5, <1>6, <1>7, <1>8, ZenonT(30) DEF IInv

\* unload() admits the slot its reference names.
LEMMA UnloadKeeps ==
    ASSUME IInv, NEW t \in Threads, NEW r \in refs, Unload(t, r) PROVE IInv'
<1>1. r.slot \in Slots /\ occupied(r.slot) /\ ~unloading[r.slot] /\ ~destroying /\ pc[t] = "idle"
  BY DEF IInv, Unload, Admits, slot_for_ref, TypeOK, Ref
<1> QED BY <1>1, BeginCloseKeeps, ZenonT(30) DEF Unload

\* The destroy callback returns: the callback count drops and destroy_called is
\* recorded before the DSO is closed.
LEMMA DestroyReturnsKeeps ==
    ASSUME IInv, NEW t \in Threads, DestroyReturns(t)
    PROVE  IInv'
<1>i. /\ TypeOK /\ CallShape /\ CallbackOwner /\ UnloadOwner /\ LibraryOpen
      /\ LeaseOwner /\ DestroyRun /\ Counts /\ DestroyWalk
  BY DEF IInv
<1>u. /\ manifest' = manifest /\ library' = library /\ generation' = generation
      /\ activeLeases' = activeLeases /\ leaseMask' = leaseMask
      /\ leaseGeneration' = leaseGeneration /\ unloading' = unloading
      /\ destroyRuns' = destroyRuns /\ slotOf' = slotOf
      /\ candidate' = candidate /\ load' = load /\ refs' = refs /\ tokens' = tokens
      /\ held' = held /\ loads' = loads /\ acquires' = acquires /\ impl' = impl
      /\ count' = count /\ loadsInflight' = loadsInflight
      /\ destroying' = destroying /\ whole' = whole
  BY ZenonT(30) DEF DestroyReturns, implVars, ghostVars
<1>p. pc[t] = "destroy" /\ pc[t] \in InCallback /\ pc[t] \in Closing /\ "close" \in Closing
      /\ "close" \notin InCallback /\ "close" \notin Loading /\ pc[t] \notin Loading
  BY ZenonT(30) DEF DestroyReturns, InCallback, Closing, Loading
<1>a. /\ slotOf[t] \in Slots /\ occupied(slotOf[t]) /\ callbacks[slotOf[t]] = 1
      /\ unloading[slotOf[t]] /\ activeLeases[slotOf[t]] = 0
  <2>1. slotOf[t] \in Slots /\ occupied(slotOf[t])
    BY <1>i, <1>p DEF CallShape
  <2>2. callbacks[slotOf[t]] = 1
    BY <1>i, <1>p DEF CallbackOwner
  <2> QED BY <1>i, <1>p, <2>1, <2>2 DEF UnloadOwner
<1>s. /\ pc'[t] = "close" /\ \A u \in Threads \ {t} : pc'[u] = pc[u]
      /\ callbacks'[slotOf[t]] = 0 /\ destroyCalled'[slotOf[t]]
      /\ state'[slotOf[t]] = "QUIESCENT"
      /\ \A x \in Slots \ {slotOf[t]} : callbacks'[x] = callbacks[x] /\ state'[x] = state[x]
                                         /\ destroyCalled'[x] = destroyCalled[x]
  BY <1>i, <1>a DEF TypeOK, DestroyReturns
<1>o. \A u \in Threads \ {t} :
        pc[u] \in InCallback \cup Closing => slotOf[u] \in Slots \ {slotOf[t]}
  <2>1. \A u \in Threads \ {t} : pc[u] \in InCallback => slotOf[u] # slotOf[t]
    BY <1>i, <1>p DEF CallbackOwner
  <2>2. \A u \in Threads \ {t} : pc[u] \in Closing => slotOf[u] # slotOf[t]
    BY <1>i, <1>p DEF UnloadOwner
  <2> QED BY <1>i, <2>1, <2>2 DEF CallShape
<1>w. GenerationBound' /\ RefAge' /\ TokenAge'
  BY <1>u, Frame
<1>1. TypeOK'
  <2>1. "QUIESCENT" \in States /\ "close" \in PCs
    BY DEF States, PCs, Closing
  <2>2. /\ callbacks \in [Slots -> Nat] /\ state \in [Slots -> States]
        /\ pc \in [Threads -> PCs] /\ destroyCalled \in [Slots -> BOOLEAN]
    BY <1>i DEF TypeOK
  <2>3. callbacks' \in [Slots -> Nat]
    BY <1>a, <2>2 DEF DestroyReturns
  <2>4. state' \in [Slots -> States] /\ destroyCalled' \in [Slots -> BOOLEAN]
    BY ZenonT(30), <2>1, <2>2 DEF DestroyReturns
  <2>5. pc' \in [Threads -> PCs]
    BY <2>1, <2>2 DEF DestroyReturns
  <2> QED BY <1>i, <1>u, <2>3, <2>4, <2>5 DEF TypeOK
<1>2. CallShape'
  BY <1>i, <1>u, <1>p, <1>a, <1>s DEF CallShape, occupied
<1>3. CallbackOwner'
  <2>1. \A u \in Threads : pc'[u] \in InCallback =>
          /\ pc'[u] = pc[u] /\ slotOf[u] \in Slots \ {slotOf[t]}
          /\ callbacks'[slotOf[u]] = callbacks[slotOf[u]]
          /\ state'[slotOf[u]] = state[slotOf[u]]
    BY ZenonT(30), <1>p, <1>s, <1>o
  <2>2. \A x \in Slots :
          /\ callbacks'[x] \in {0, 1}
          /\ callbacks'[x] = 1 => state'[x] \in {"STARTING", "STOPPING"} \/ unloading[x]
    <3>1. \A x \in Slots : /\ callbacks[x] \in {0, 1}
                           /\ callbacks[x] = 1 => state[x] \in {"STARTING", "STOPPING"} \/ unloading[x]
      BY ZenonT(30), <1>i DEF CallbackOwner
    <3>2. /\ callbacks'[slotOf[t]] = 0
          /\ \A x \in Slots \ {slotOf[t]} : callbacks'[x] = callbacks[x] /\ state'[x] = state[x]
      BY ZenonT(30), <1>s
    <3> QED BY <3>1, <3>2
  <2> QED BY <1>i, <1>u, <2>1, <2>2 DEF CallbackOwner
<1>4. UnloadOwner'
  <2>1. \A u \in Threads : (pc'[u] \in Closing <=> pc[u] \in Closing)
    BY ZenonT(30), <1>p, <1>s
  <2>2. \A x \in Slots : unloading[x] => state'[x] \in {"LOADED", "QUIESCENT"}
    BY ZenonT(30), <1>i, <1>s DEF UnloadOwner
  <2>3. \A u \in Threads : pc'[u] \in Closing /\ pc'[u] # "destroy" => callbacks'[slotOf[u]] = 0
    <3>1. ASSUME NEW u \in Threads, pc'[u] \in Closing, pc'[u] # "destroy"
          PROVE  callbacks'[slotOf[u]] = 0
      <4>1. CASE u = t
        BY ZenonT(30), <1>s, <4>1
      <4>2. CASE u # t
        <5>1. pc'[u] = pc[u] /\ pc[u] \in Closing
          BY ZenonT(30), <1>s, <3>1, <4>2
        <5>2. slotOf[u] \in Slots \ {slotOf[t]}
          BY ZenonT(30), <1>o, <4>2, <5>1
        <5>3. callbacks[slotOf[u]] = 0
          BY ZenonT(30), <1>i, <3>1, <5>1 DEF UnloadOwner
        <5> QED BY ZenonT(30), <1>s, <5>2, <5>3
      <4> QED BY ZenonT(30), <4>1, <4>2
    <3> QED BY ZenonT(30), <3>1
  <2> QED BY ZenonT(30), <1>i, <1>u, <2>1, <2>2, <2>3 DEF UnloadOwner, occupied
<1>5. LibraryOpen'
  <2>1. \A u \in Threads : pc'[u] = "closed" <=> pc[u] = "closed"
    BY ZenonT(30), <1>p, <1>s
  <2> QED BY ZenonT(30), <1>i, <1>u, <2>1 DEF LibraryOpen, occupied
<1>6. LeaseOwner'
  <2>1. leaseMask[slotOf[t]] = {}
    BY <1>i, <1>a, NoLease
  <2>2. \A x \in Slots : leaseMask[x] # {} => state'[x] = state[x]
    BY ZenonT(30), <1>s, <2>1
  <2> QED BY ZenonT(30), <1>i, <1>u, <2>2 DEF LeaseOwner, lease_live, occupied
<1>7. DestroyRun'
  <2>1. \A u \in Threads : pc[u] = "destroy" /\ slotOf[u] # slotOf[t] => pc'[u] = "destroy"
    BY <1>s
  <2> QED BY <1>i, <1>u, <1>s, <2>1 DEF DestroyRun, occupied
<1>8. Counts'
  <2>1. {u \in Threads : pc'[u] \in Loading} = {u \in Threads : pc[u] \in Loading}
    BY ZenonT(30), <1>p, <1>s
  <2> QED BY ZenonT(30), <1>i, <1>u, <2>1 DEF Counts, occupied
<1>9. DestroyWalk'
  <2>1. \A u \in Threads : pc'[u] = "idle" <=> pc[u] = "idle"
    BY <1>p, <1>s
  <2>2. \A x \in Slots : state[x] \in {"LOADED", "QUIESCENT"} => state'[x] \in {"LOADED", "QUIESCENT"}
    BY <1>s
  <2> QED BY ZenonT(30), <1>i, <1>u, <2>1, <2>2 DEF DestroyWalk, occupied
<1> QED BY <1>w, <1>1, <1>2, <1>3, <1>4, <1>5, <1>6, <1>7, <1>8, <1>9, ZenonT(30) DEF IInv

\* The loader closes the DSO, or reports that it could not.
LEMMA PlatformCloseKeeps ==
    ASSUME IInv, NEW t \in Threads, NEW ok \in BOOLEAN, PlatformClose(t, ok)
    PROVE  IInv'
<1>i. /\ TypeOK /\ CallShape /\ CallbackOwner /\ UnloadOwner /\ LibraryOpen
      /\ DestroyRun /\ Counts /\ DestroyWalk /\ IInv
  BY DEF IInv
<1>u. /\ manifest' = manifest /\ generation' = generation /\ state' = state
      /\ callbacks' = callbacks /\ destroyCalled' = destroyCalled
      /\ activeLeases' = activeLeases /\ leaseMask' = leaseMask
      /\ leaseGeneration' = leaseGeneration /\ unloading' = unloading
      /\ destroyRuns' = destroyRuns /\ slotOf' = slotOf
      /\ candidate' = candidate /\ load' = load /\ refs' = refs /\ tokens' = tokens
      /\ held' = held /\ loads' = loads /\ acquires' = acquires /\ impl' = impl
      /\ count' = count /\ loadsInflight' = loadsInflight
      /\ destroying' = destroying /\ whole' = whole
  BY ZenonT(30) DEF PlatformClose, implVars, ghostVars
<1>p. /\ pc[t] = "close" /\ pc[t] \in Closing /\ pc[t] \notin InCallback /\ pc[t] \notin Loading
      /\ {"closed", "close_failed"} \subseteq Closing
      /\ {"closed", "close_failed"} \cap (InCallback \cup Loading) = {}
  BY DEF PlatformClose, InCallback, Closing, Loading
<1>s. /\ slotOf[t] \in Slots /\ occupied(slotOf[t])
      /\ pc'[t] = (IF ok THEN "closed" ELSE "close_failed")
      /\ \A u \in Threads \ {t} : pc'[u] = pc[u]
      /\ library'[slotOf[t]] = (IF ok THEN FALSE ELSE library[slotOf[t]])
      /\ \A x \in Slots \ {slotOf[t]} : library'[x] = library[x]
  <2>1. slotOf[t] \in Slots /\ occupied(slotOf[t])
    BY <1>i, <1>p DEF CallShape
  <2> QED BY ZenonT(30), <1>i, <2>1 DEF TypeOK, PlatformClose
<1>o. \A u \in Threads \ {t} : pc[u] \in Closing => slotOf[u] \in Slots \ {slotOf[t]}
  BY <1>i, <1>p DEF UnloadOwner, CallShape
<1>w. LeaseOwner' /\ GenerationBound' /\ RefAge' /\ TokenAge'
  BY <1>i, <1>u, Frame
<1>1. TypeOK'
  <2>1. {"closed", "close_failed"} \subseteq PCs
    BY DEF PCs, Closing
  <2>2. pc' \in [Threads -> PCs] /\ library' \in [Slots -> BOOLEAN]
    BY ZenonT(30), <1>i, <2>1 DEF TypeOK, PlatformClose
  <2> QED BY <1>i, <1>u, <2>2 DEF TypeOK
<1>2. CallShape'
  BY <1>i, <1>u, <1>p, <1>s DEF CallShape, occupied
<1>3. CallbackOwner'
  <2>1. \A u \in Threads : pc'[u] \in InCallback => pc'[u] = pc[u]
    BY ZenonT(30), <1>p, <1>s
  <2> QED BY <1>i, <1>u, <2>1 DEF CallbackOwner
<1>4. UnloadOwner'
  <2>1. \A u \in Threads : (pc'[u] \in Closing <=> pc[u] \in Closing)
            /\ (pc'[u] # "destroy" <=> pc[u] # "destroy")
    BY ZenonT(30), <1>p, <1>s
  <2> QED BY ZenonT(30), <1>i, <1>u, <2>1 DEF UnloadOwner, occupied
<1>5. LibraryOpen'
  <2>1. \A u \in Threads \ {t} : pc[u] = "closed" => slotOf[u] \in Slots \ {slotOf[t]}
    BY <1>o, <1>p
  <2>2. CASE ok
    <3>1. pc'[t] = "closed" /\ ~library'[slotOf[t]]
      BY <1>s, <2>2
    <3>2. \A x \in Slots : library'[x] => occupied(x)
      BY <1>i, <1>s, <3>1 DEF LibraryOpen
    <3>3. \A x \in Slots : occupied(x) /\ ~library'[x] =>
            \E v \in Threads : pc'[v] = "closed" /\ slotOf[v] = x
      <4>1. ASSUME NEW x \in Slots, occupied(x), ~library'[x], x # slotOf[t]
            PROVE  \E v \in Threads : pc'[v] = "closed" /\ slotOf[v] = x
        <5>1. PICK v \in Threads : pc[v] = "closed" /\ slotOf[v] = x
          BY <1>i, <1>s, <4>1 DEF LibraryOpen
        <5> QED BY <1>s, <4>1, <5>1
      <4> QED BY <3>1, <4>1
    <3>4. \A v \in Threads : pc'[v] = "closed" => ~library'[slotOf[v]]
      BY ZenonT(30), <1>i, <1>s, <2>1, <3>1 DEF LibraryOpen
    <3> QED BY <1>u, <3>2, <3>3, <3>4 DEF LibraryOpen, occupied
  <2>3. CASE ~ok
    <3>1. \A x \in Slots : library'[x] = library[x]
      BY <1>s, <2>3
    <3>2. \A u \in Threads : pc'[u] = "closed" <=> pc[u] = "closed"
      BY <1>p, <1>s, <2>3
    <3>3. \A u \in Threads : pc[u] = "closed" => slotOf[u] \in Slots
      BY <1>i DEF CallShape, Closing
    <3> QED BY ZenonT(30), <1>i, <1>u, <3>1, <3>2, <3>3 DEF LibraryOpen, occupied
  <2> QED BY <2>2, <2>3
<1>6. DestroyRun'
  <2>1. \A u \in Threads : pc'[u] = "destroy" <=> pc[u] = "destroy"
    BY ZenonT(30), <1>p, <1>s
  <2> QED BY <1>i, <1>u, <2>1 DEF DestroyRun, occupied
<1>7. Counts'
  <2>1. {u \in Threads : pc'[u] \in Loading} = {u \in Threads : pc[u] \in Loading}
    BY <1>p, <1>s
  <2> QED BY ZenonT(30), <1>i, <1>u, <2>1 DEF Counts, occupied
<1>8. DestroyWalk'
  <2>1. \A u \in Threads : pc'[u] = "idle" <=> pc[u] = "idle"
    BY ZenonT(30), <1>p, <1>s
  <2> QED BY ZenonT(30), <1>i, <1>u, <2>1 DEF DestroyWalk, occupied
<1> QED BY <1>w, <1>1, <1>2, <1>3, <1>4, <1>5, <1>6, <1>7, <1>8, ZenonT(30) DEF IInv

\* A closed slot is cleared for reuse.
LEMMA ClearClosedKeeps == ASSUME IInv, NEW t \in Threads, ClearClosed(t) PROVE
    IInv'
<1> TypeOK /\ CallShape /\ CallbackOwner /\ UnloadOwner /\ LibraryOpen /\
      LeaseOwner /\ DestroyRun /\ GenerationBound /\ RefAge /\ TokenAge /\
      Counts /\ DestroyWalk
  BY DEF IInv
<1> DEFINE c == slotOf[t]
<1>s. /\ c \in Slots /\ occupied(c) /\ ~library[c] /\ unloading[c] /\ callbacks[c] = 0
      /\ activeLeases[c] = 0 /\ leaseMask[c] = {} /\ \A h \in held : h.slot # c
  <2>1. c \in Slots /\ occupied(c) /\ ~library[c] /\ unloading[c] /\ callbacks[c] = 0
    BY DEF CallShape, LibraryOpen, UnloadOwner, Closing, slotVars, implVars, threadVars,
         ghostVars, ClearClosed, clear_slot_locked
  <2>2. activeLeases[c] = 0
    BY <2>1 DEF UnloadOwner
  <2>3. leaseMask[c] = {}
    BY <2>1, <2>2, NoLease
  <2>4. \A h \in held : h.slot # c
    BY <2>3 DEF LeaseOwner, lease_live
  <2> QED BY <2>1, <2>2, <2>3, <2>4
<1>p. /\ pc'[t] \in {"idle", "destroy_next"} /\ (pc'[t] = "destroy_next" <=> whole[t])
      /\ (whole[t] => slotOf'[t] = c + 1)
      /\ \A u \in Threads \ {t} : /\ pc'[u] = pc[u] /\ slotOf'[u] = slotOf[u]
                                     /\ (pc[u] \in InCallback \cup Closing => slotOf[u] # c)
  <2>1. /\ pc'[t] \in {"idle", "destroy_next"} /\ (pc'[t] = "destroy_next" <=> whole[t])
        /\ (whole[t] => slotOf'[t] = c + 1)
        /\ \A u \in Threads \ {t} : pc'[u] = pc[u] /\ slotOf'[u] = slotOf[u]
    BY DEF TypeOK, slotVars, implVars, threadVars, ghostVars, ClearClosed,
         clear_slot_locked
  <2>2. \A u \in Threads \ {t} : pc[u] \in Closing => slotOf[u] # c
    BY DEF UnloadOwner, Closing, slotVars, implVars, threadVars, ghostVars, ClearClosed,
         clear_slot_locked
  <2>3. \A u \in Threads \ {t} : pc[u] \in InCallback => slotOf[u] # c
    BY <1>s DEF CallbackOwner
  <2> QED BY <2>1, <2>2, <2>3
<1>c. /\ manifest'[c] = NoPlugin /\ ~unloading'[c] /\ ~destroyCalled'[c] /\ state'[c] = "NONE"
      /\ callbacks'[c] = 0 /\ activeLeases'[c] = 0 /\ leaseMask'[c] = {}
      /\ generation'[c] = generation[c] + 1
      /\ \A i \in LeaseSlots : leaseGeneration'[c][i] = leaseGeneration[c][i] + 1
  <2>1. next_generation(generation[c]) = generation[c] + 1
    BY <1>s, NoWrap
  <2>2. \A i \in LeaseSlots : next_generation(leaseGeneration[c][i]) = leaseGeneration[c][i] + 1
    BY <1>s, NoWrap
  <2> QED BY <1>s, <2>1, <2>2 DEF TypeOK, slotVars, implVars, threadVars, ghostVars,
       ClearClosed, clear_slot_locked
<1>o. \A x \in Slots \ {c} :
         /\ manifest'[x] = manifest[x] /\ unloading'[x] = unloading[x]
         /\ destroyCalled'[x] = destroyCalled[x] /\ state'[x] = state[x]
         /\ callbacks'[x] = callbacks[x] /\ activeLeases'[x] = activeLeases[x]
         /\ leaseMask'[x] = leaseMask[x] /\ generation'[x] = generation[x]
         /\ leaseGeneration'[x] = leaseGeneration[x]
  BY DEF TypeOK, slotVars, implVars, threadVars, ghostVars, ClearClosed,
       clear_slot_locked
<1>u. /\ library' = library /\ impl' = impl /\ loadsInflight' = loadsInflight
      /\ destroying' = destroying /\ candidate' = candidate /\ whole' = whole
      /\ load' = load /\ refs' = refs /\ tokens' = tokens /\ held' = held
      /\ loads' = loads /\ acquires' = acquires /\ destroyRuns' = destroyRuns
  BY DEF slotVars, implVars, threadVars, ghostVars, ClearClosed, clear_slot_locked
<1>n. count \in Nat \ {0} /\ count' = count - 1
  <2> DEFINE O == {x \in Slots : occupied(x)}
  <2>1. Counted(Slots) /\ O \in SUBSET Slots /\ c \in O /\ count = Cardinality(O)
    BY <1>s, Finite DEF Counts
  <2> QED BY <2>1, RemoveOne, ZenonT(30) DEF slotVars, implVars, threadVars, ghostVars,
       ClearClosed, clear_slot_locked
<1>t. TypeOK'
  <2>1. c \in 1 .. Capacity + 1 /\ c + 1 \in 1 .. Capacity + 1
    BY <1>s, CapacityAssumption DEF Slots
  <2>2. slotOf' \in [Threads -> 1 .. Capacity + 1] /\ pc' \in [Threads -> PCs]
    BY <2>1, ZenonT(30) DEF TypeOK, PCs, slotVars, implVars, threadVars, ghostVars,
         ClearClosed, clear_slot_locked
  <2>3. /\ manifest' \in [Slots -> Plugins \cup {NoPlugin}] /\ unloading' \in [Slots -> BOOLEAN]
        /\ destroyCalled' \in [Slots -> BOOLEAN] /\ state' \in [Slots -> States]
        /\ callbacks' \in [Slots -> Nat] /\ activeLeases' \in [Slots -> Nat]
        /\ leaseMask' \in [Slots -> SUBSET LeaseSlots]
    BY <1>s DEF TypeOK, States, slotVars, implVars, threadVars, ghostVars, ClearClosed,
         clear_slot_locked
  <2>4. /\ next_generation(generation[c]) \in Nat \ {0}
        /\ \A i \in LeaseSlots : next_generation(leaseGeneration[c][i]) \in Nat \ {0}
    <3>1. generation[c] \in Nat /\ \A i \in LeaseSlots : leaseGeneration[c][i] \in Nat
      BY <1>s DEF TypeOK
    <3> QED BY <1>s, <3>1, NoWrap
  <2>5. generation' \in [Slots -> Nat \ {0}]
    BY <1>s, <2>4 DEF TypeOK, slotVars, implVars, threadVars, ghostVars, ClearClosed,
         clear_slot_locked
  <2>6. leaseGeneration' \in [Slots -> [LeaseSlots -> Nat \ {0}]]
    BY <1>s, <2>4 DEF TypeOK, slotVars, implVars, threadVars, ghostVars, ClearClosed,
         clear_slot_locked
  <2> QED BY <1>u, <1>n, <2>2, <2>3, <2>5, <2>6 DEF TypeOK
<1> HIDE DEF c
<1>1. TypeOK'
  BY <1>t
<1>2. CallShape'
  <2>1. pc'[t] \notin InCallback \cup Closing \cup Loading
    BY <1>p DEF InCallback, Closing, Loading
  <2>2. \A u \in Threads \ {t} : pc[u] \in InCallback \cup Closing => manifest'[slotOf[u]] # NoPlugin
    BY <1>p, <1>o DEF CallShape, occupied
  <2> QED BY <1>p, <1>u, <2>1, <2>2 DEF CallShape, occupied
<1>3. CallbackOwner'
  <2>1. pc'[t] \notin InCallback
    BY <1>p DEF InCallback
  <2>2. \A x \in Slots : /\ callbacks'[x] \in {0, 1}
                         /\ callbacks'[x] = 1 => state'[x] \in {"STARTING", "STOPPING"} \/ unloading'[x]
    BY <1>c, <1>o DEF CallbackOwner
  <2>3. \A u \in Threads \ {t} : pc[u] \in InCallback =>
          /\ slotOf[u] \in Slots \ {c} /\ callbacks'[slotOf[u]] = callbacks[slotOf[u]]
          /\ state'[slotOf[u]] = state[slotOf[u]]
          /\ activeLeases'[slotOf[u]] = activeLeases[slotOf[u]]
    BY <1>p, <1>o DEF CallShape
  <2> QED BY <1>p, <2>1, <2>2, <2>3 DEF CallbackOwner
<1>4. UnloadOwner'
  <2>1. pc'[t] \notin Closing
    BY <1>p DEF Closing
  <2>2. ASSUME NEW x \in Slots, unloading'[x]
        PROVE  /\ occupied(x)' /\ state'[x] \in {"LOADED", "QUIESCENT"} /\ activeLeases'[x] = 0
               /\ \E u \in Threads : pc'[u] \in Closing /\ slotOf'[u] = x
    <3>1. x \in Slots \ {c} /\ unloading[x]
      BY <1>c, <1>o, <2>2
    <3>2. PICK u \in Threads : pc[u] \in Closing /\ slotOf[u] = x
      BY <3>1 DEF UnloadOwner
    <3>3. u # t
      BY <3>1, <3>2 DEF c
    <3>4. pc'[u] \in Closing /\ slotOf'[u] = x
      BY <1>p, <3>2, <3>3
    <3> QED BY <1>o, <3>1, <3>4 DEF UnloadOwner, occupied
  <2>3. \A u \in Threads \ {t} : pc[u] \in Closing =>
          /\ slotOf[u] \in Slots \ {c} /\ callbacks'[slotOf[u]] = callbacks[slotOf[u]]
          /\ unloading'[slotOf[u]] = unloading[slotOf[u]]
    BY <1>p, <1>o DEF CallShape
  <2> QED BY <1>p, <2>1, <2>2, <2>3 DEF UnloadOwner
<1>5. LibraryOpen'
  <2>1. \A x \in Slots : library'[x] => x # c /\ occupied(x)'
    BY <1>s, <1>o, <1>u DEF LibraryOpen, occupied
  <2>2. ASSUME NEW x \in Slots, occupied(x)', ~library'[x]
        PROVE  \E u \in Threads : pc'[u] = "closed" /\ slotOf'[u] = x
    <3>1. x \in Slots \ {c} /\ occupied(x) /\ ~library[x]
      BY <1>c, <1>o, <1>u, <2>2 DEF occupied
    <3>2. PICK u \in Threads : pc[u] = "closed" /\ slotOf[u] = x
      BY <3>1 DEF LibraryOpen
    <3>3. u # t
      BY <3>1, <3>2 DEF c
    <3> QED BY <1>p, <3>2, <3>3
  <2>3. \A u \in Threads : pc'[u] = "closed" => ~library'[slotOf'[u]]
    BY <1>p, <1>u DEF LibraryOpen
  <2> QED BY <2>1, <2>2, <2>3 DEF LibraryOpen
<1>6. LeaseOwner'
  <2>1. \A x \in Slots : activeLeases'[x] = Cardinality(leaseMask'[x])
    <3>1. Cardinality({}) = 0
      BY ZenonT(30) DEF Counts, Counted
    <3> QED BY <1>c, <1>o, <3>1, ZenonT(30) DEF LeaseOwner
  <2>2. \A x \in Slots : leaseMask'[x] # {} =>
          occupied(x)' /\ state'[x] \in {"STARTED", "STOPPING"}
    BY <1>c, <1>o DEF LeaseOwner, occupied
  <2>3. \A x \in Slots : \A j \in leaseMask'[x] : \E h \in held' : h.slot = x /\ h.index = j
    BY <1>c, <1>o, <1>u DEF LeaseOwner
  <2>4. ASSUME NEW h \in held' PROVE lease_live(h)' /\ load'[h.slot] = h.load
    <3>1. h \in held /\ h.slot \in Slots \ {c}
      BY <1>s, <1>u, <2>4 DEF TypeOK, Token
    <3>2. lease_live(h) /\ load[h.slot] = h.load
      BY <3>1 DEF LeaseOwner
    <3>3. lease_live(h)'
      BY <1>o, <3>1, <3>2 DEF lease_live, occupied
    <3> QED BY <1>u, <3>2, <3>3
  <2>5. \A g, h \in held' : g.slot = h.slot /\ g.index = h.index => g = h
    BY <1>u DEF LeaseOwner
  <2> QED BY <2>1, <2>2, <2>3, <2>4, <2>5 DEF LeaseOwner
<1>7. DestroyRun'
  <2>1. \A u \in Threads : pc[u] = "destroy" => pc'[u] = "destroy" /\ slotOf'[u] = slotOf[u]
    <3>1. pc[t] # "destroy"
      BY DEF ClearClosed
    <3> QED BY <1>p, <3>1
  <2>2. \A x \in Slots : occupied(x)' => x \in Slots \ {c} /\ occupied(x)
    BY <1>c, <1>o DEF occupied
  <2>3. \A x \in Slots : destroyCalled'[x] => state'[x] = "QUIESCENT"
    BY <1>c, <1>o DEF DestroyRun
  <2>4. ASSUME NEW x \in Slots, occupied(x)'
        PROVE  \/ destroyRuns[x] = 0
               \/ destroyRuns[x] = 1 /\
                    (destroyCalled'[x] \/ \E u \in Threads : pc'[u] = "destroy" /\ slotOf'[u] = x)
    <3>1. x \in Slots \ {c} /\ occupied(x) /\ destroyCalled'[x] = destroyCalled[x]
      BY <1>o, <2>2, <2>4
    <3> QED BY <2>1, <3>1 DEF DestroyRun
  <2> QED BY <1>u, <2>3, <2>4 DEF DestroyRun
<1>8. GenerationBound'
  <2>0. loads \in Nat /\ acquires \in Nat
    BY Numbers
  <2>1. ASSUME NEW x \in Slots
        PROVE  /\ generation'[x] <= loads + 1
               /\ occupied(x)' => generation'[x] <= loads
               /\ \A i \in LeaseSlots :
                    /\ leaseGeneration'[x][i] <= generation'[x] + acquires
                    /\ i \in leaseMask'[x] => leaseGeneration'[x][i] < generation'[x] + acquires
    <3>0. generation[x] \in Nat /\ \A i \in LeaseSlots : leaseGeneration[x][i] \in Nat
      BY DEF TypeOK
    <3>1. CASE x = c
      <4>1. generation[x] <= loads /\ \A i \in LeaseSlots : leaseGeneration[x][i] <= generation[x] + acquires
        BY <1>s, <3>1 DEF GenerationBound
      <4>2. ~occupied(x)' /\ leaseMask'[x] = {}
        BY <1>c, <3>1 DEF occupied
      <4> QED BY <1>c, <2>0, <3>0, <3>1, <4>1, <4>2
    <3>2. CASE x # c
      BY <1>o, <3>2 DEF GenerationBound, occupied
    <3> QED BY <3>1, <3>2
  <2> QED BY <1>u, <2>1 DEF GenerationBound
<1>9. RefAge'
  <2>1. ASSUME NEW r \in refs
        PROVE  /\ r.generation <= generation'[r.slot]
               /\ r.generation = generation'[r.slot] => occupied(r.slot)' /\ load[r.slot] = r.load
    <3>0. r.slot \in Slots /\ r.generation \in Nat /\ generation[r.slot] \in Nat
      BY DEF TypeOK, Ref
    <3>1. CASE r.slot = c
      BY <1>c, <3>0, <3>1 DEF RefAge
    <3>2. CASE r.slot # c
      BY <1>o, <3>0, <3>2 DEF RefAge, occupied
    <3> QED BY <3>1, <3>2
  <2> QED BY <1>u, <2>1 DEF RefAge
<1>10. TokenAge'
  <2>1. ASSUME NEW h \in tokens
        PROVE  /\ h.leaseGeneration <= leaseGeneration'[h.slot][h.index]
               /\ h.leaseGeneration = leaseGeneration'[h.slot][h.index] => h \in held
    <3>0. /\ h.slot \in Slots /\ h.index \in LeaseSlots /\ h.leaseGeneration \in Nat
          /\ leaseGeneration[h.slot][h.index] \in Nat
      BY DEF TypeOK, Token
    <3>1. CASE h.slot = c
      BY <1>c, <3>0, <3>1 DEF TokenAge
    <3>2. CASE h.slot # c
      BY <1>o, <3>0, <3>2 DEF TokenAge
    <3> QED BY <3>1, <3>2
  <2> QED BY <1>u, <2>1 DEF TokenAge
<1>11. Counts'
  <2> DEFINE O == {x \in Slots : occupied(x)}
  <2>1. {x \in Slots : occupied(x)'} = O \ {c} /\ c \in O
    BY <1>s, <1>c, <1>o DEF occupied
  <2>2. Cardinality(O \ {c}) = Cardinality(O) - 1
    BY ZenonT(30), <2>1, Finite, RemoveOne
  <2>3. {u \in Threads : pc'[u] \in Loading} = {u \in Threads : pc[u] \in Loading}
    <3>1. pc[t] \notin Loading /\ pc'[t] \notin Loading
      BY <1>p DEF ClearClosed, Loading
    <3> QED BY <1>p, <3>1
  <2>4. count' + loadsInflight' <= Capacity
    BY <1>u, <1>n, Numbers DEF Counts
  <2> QED BY <1>u, <1>n, <2>1, <2>2, <2>3, <2>4, ZenonT(30) DEF Counts
<1>12. DestroyWalk'
  <2>0. \A x \in Slots : occupied(x)' => x \in Slots \ {c} /\ occupied(x)
    BY <1>c, <1>o DEF occupied
  <2>i. impl
    BY <1>s DEF DestroyWalk
  <2>1. \A s \in Slots : s < c + 1 => s = c \/ s < c
    BY <1>s, CapacityAssumption DEF Slots
  <2>2. ASSUME NEW u \in Threads, whole[u], NEW s \in Slots, s < slotOf'[u]
        PROVE  ~occupied(s)'
    <3>1. CASE u = t
      BY <1>p, <2>0, <2>1, <2>2, <3>1 DEF DestroyWalk, c
    <3>2. CASE u # t
      BY <1>p, <2>0, <2>2, <3>2 DEF DestroyWalk
    <3> QED BY <3>1, <3>2
  <2>3. destroying => whole[t]
    BY DEF DestroyWalk, ClearClosed
  <2>4. destroying => \A u \in Threads : pc'[u] = "idle" \/ whole[u]
    BY <1>p, <2>3 DEF DestroyWalk
  <2>5. destroying => \A x \in Slots : occupied(x)' =>
          state'[x] \in {"LOADED", "QUIESCENT"} /\ activeLeases'[x] = 0
    BY <1>o, <2>0 DEF DestroyWalk
  <2> QED BY <1>u, <2>i, <2>2, <2>4, <2>5 DEF DestroyWalk
<1> QED BY <1>1, <1>2, <1>3, <1>4, <1>5, <1>6, <1>7, <1>8, <1>9, <1>10, <1>11, <1>12 DEF
     IInv

\* A slot whose DSO could not be closed stays for a retry.
LEMMA KeepUnclosedKeeps == ASSUME IInv, NEW t \in Threads, KeepUnclosed(t)
    PROVE IInv'
<1> TypeOK /\ CallShape /\ CallbackOwner /\ UnloadOwner /\ LibraryOpen /\
      LeaseOwner /\ DestroyRun /\ GenerationBound /\ RefAge /\ TokenAge /\
      Counts /\ DestroyWalk
  BY DEF IInv
<1>s. slotOf[t] \in Slots /\ callbacks[slotOf[t]] = 0
  BY DEF UnloadOwner, CallShape, Closing, slotVars, implVars, threadVars, ghostVars,
       KeepUnclosed
<1>w. LeaseOwner' /\ GenerationBound' /\ RefAge' /\ TokenAge'
  BY Frame DEF slotVars, implVars, threadVars, ghostVars, KeepUnclosed
<1>1. TypeOK'
  BY <1>s, ZenonT(30) DEF TypeOK, PCs, Loading, InCallback, Closing, States, Ref, Token,
       CallShape, slotVars, implVars, threadVars, ghostVars, KeepUnclosed
<1>2. CallShape'
  BY <1>s DEF CallShape, TypeOK, occupied, Loading, InCallback, Closing, slotVars,
       implVars, threadVars, ghostVars, KeepUnclosed
<1>3. CallbackOwner'
  BY <1>s DEF CallbackOwner, TypeOK, InCallback, CallShape, slotVars, implVars,
       threadVars, ghostVars, KeepUnclosed
<1>4. UnloadOwner'
  BY <1>s DEF UnloadOwner, TypeOK, Closing, occupied, CallShape, slotVars, implVars,
       threadVars, ghostVars, KeepUnclosed
<1>5. LibraryOpen'
  BY <1>s DEF LibraryOpen, TypeOK, occupied, CallShape, slotVars, implVars, threadVars,
       ghostVars, KeepUnclosed
<1>6. DestroyRun'
  BY <1>s DEF DestroyRun, TypeOK, occupied, CallShape, slotVars, implVars, threadVars,
       ghostVars, KeepUnclosed
<1>7. Counts'
  BY <1>s, ZenonT(30) DEF Counts, TypeOK, occupied, Loading, slotVars, implVars, threadVars,
       ghostVars, KeepUnclosed
<1>8. DestroyWalk'
  BY <1>s DEF DestroyWalk, TypeOK, occupied, CallShape, slotVars, implVars, threadVars,
       ghostVars, KeepUnclosed
<1> QED BY <1>w, <1>1, <1>2, <1>3, <1>4, <1>5, <1>6, <1>7, <1>8 DEF IInv
=============================================================================
