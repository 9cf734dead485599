----------------------- MODULE PluginRegistryInvariant -----------------------
(* The inductive invariant of PluginRegistry, and the steps of load and of the *)
(* leases.                                                                    *)
EXTENDS PluginRegistry, TLAPS

-----------------------------------------------------------------------------
(* The inductive invariant of PluginRegistry, and the lemmas about its     *)
(* counters and what a step leaves alone.                                  *)

USE ZenonT(4), SMTT(30), ZenonT(30), SMTT(31)

\* Locals of a call agree with its position.
CallShape ==
    \A t \in Threads :
        /\ pc[t] \in InCallback \cup Closing =>
              slotOf[t] \in Slots /\ occupied(slotOf[t])
        /\ pc[t] \in Loading => candidate[t] \in Plugins
        /\ whole[t] => pc[t] \in Closing \cup {"destroy_next"}
        /\ pc[t] = "destroy_next" => whole[t]

\* A callback of a slot has one thread, and the slot is in its state.
CallbackOwner ==
    /\ \A s \in Slots :
         /\ callbacks[s] \in {0, 1}
         /\ callbacks[s] = 1 => state[s] \in {"STARTING", "STOPPING"} \/ unloading[s]
    /\ \A t \in Threads : pc[t] \in InCallback =>
         /\ callbacks[slotOf[t]] = 1
         /\ \A u \in Threads : pc[u] \in InCallback /\ slotOf[u] = slotOf[t] => u = t
         /\ pc[t] = "start" => state[slotOf[t]] = "STARTING"
         /\ pc[t] \in {"request_stop", "is_quiescent"} => state[slotOf[t]] = "STOPPING"
         /\ pc[t] = "is_quiescent" => activeLeases[slotOf[t]] = 0

\* A slot marked as unloading is idle and unleased, and has one closing thread.
UnloadOwner ==
    /\ \A s \in Slots : unloading[s] =>
         /\ occupied(s) /\ state[s] \in {"LOADED", "QUIESCENT"}
         /\ activeLeases[s] = 0
         /\ \E t \in Threads : pc[t] \in Closing /\ slotOf[t] = s
    /\ \A t \in Threads : pc[t] \in Closing =>
         /\ unloading[slotOf[t]]
         /\ pc[t] # "destroy" => callbacks[slotOf[t]] = 0
         /\ \A u \in Threads : pc[u] \in Closing /\ slotOf[u] = slotOf[t] => u = t

\* The DSO is open until the closing thread has closed it.
LibraryOpen ==
    /\ \A s \in Slots : library[s] => occupied(s)
    /\ \A s \in Slots : occupied(s) /\ ~library[s] =>
         \E t \in Threads : pc[t] = "closed" /\ slotOf[t] = s
    /\ \A t \in Threads : pc[t] = "closed" => ~library[slotOf[t]]

\* Leases and their owners.
LeaseOwner ==
    /\ \A s \in Slots :
         /\ activeLeases[s] = Cardinality(leaseMask[s])
         /\ leaseMask[s] # {} => occupied(s) /\ state[s] \in {"STARTED", "STOPPING"}
         /\ \A i \in leaseMask[s] : \E k \in held : k.slot = s /\ k.index = i
    /\ \A k \in held : lease_live(k) /\ load[k.slot] = k.load
    /\ \A k, h \in held : k.slot = h.slot /\ k.index = h.index => k = h

\* The destroy callback of a load has run, is running, or has not run.
DestroyRun ==
    \A s \in Slots :
        /\ destroyCalled[s] => state[s] = "QUIESCENT"
        /\ occupied(s) =>
             \/ destroyRuns[s] = 0
             \/ destroyRuns[s] = 1 /\
                  (destroyCalled[s] \/ \E t \in Threads : pc[t] = "destroy" /\ slotOf[t] = s)

\* How far the generation counters can have got.
GenerationBound ==
    /\ \A s \in Slots :
         /\ generation[s] <= loads + 1
         /\ occupied(s) => generation[s] <= loads
         /\ \A i \in LeaseSlots :
              /\ leaseGeneration[s][i] <= generation[s] + acquires
              /\ i \in leaseMask[s] => leaseGeneration[s][i] < generation[s] + acquires
    /\ loads + loadsInflight <= MaxLoads /\ acquires <= MaxAcquires

\* A reference is older than what its slot holds, or names it.
RefAge ==
    \A r \in refs :
        /\ r.generation <= generation[r.slot]
        /\ r.generation = generation[r.slot] => occupied(r.slot) /\ load[r.slot] = r.load

\* A token is older than its lease slot, or its lease is held.
TokenAge ==
    \A k \in tokens :
        /\ k.leaseGeneration <= leaseGeneration[k.slot][k.index]
        /\ k.leaseGeneration = leaseGeneration[k.slot][k.index] => k \in held

\* The subsets of X are finite, and one more member is one more counted.
Counted(X) ==
    /\ Cardinality({}) = 0
    /\ \A S \in SUBSET X :
         /\ Cardinality(S) \in Nat /\ (Cardinality(S) = 0 => S = {})
         /\ \A x \in X \ S : Cardinality(S \cup {x}) = Cardinality(S) + 1

\* Reservations and occupied slots fit the capacity; the sets that the
\* counters count are finite.
Counts ==
    /\ Counted(Slots) /\ Counted(Threads) /\ Counted(LeaseSlots)
    /\ count = Cardinality({s \in Slots : occupied(s)})
    /\ loadsInflight = Cardinality({t \in Threads : pc[t] \in Loading})
    /\ count + loadsInflight <= Capacity

\* No two slots hold one plugin id; the walk of destroy() is alone.
DestroyWalk ==
    /\ \A t \in Threads : whole[t] =>
         /\ destroying /\ impl
         /\ \A s \in Slots : s < slotOf[t] => ~occupied(s)
    /\ destroying =>
         /\ loadsInflight = 0
         /\ \A t \in Threads : pc[t] = "idle" \/ whole[t]
         /\ \A t, u \in Threads : whole[t] /\ whole[u] => t = u
         /\ \A s \in Slots : occupied(s) =>
              /\ state[s] \in {"LOADED", "QUIESCENT"}
              /\ activeLeases[s] = 0
    /\ ~impl => /\ destroying
                /\ \A t \in Threads : pc[t] = "idle"
                /\ \A s \in Slots : ~occupied(s)

IInv ==
    /\ TypeOK /\ CallShape /\ CallbackOwner /\ UnloadOwner /\ LibraryOpen
    /\ LeaseOwner /\ DestroyRun /\ GenerationBound /\ RefAge /\ TokenAge
    /\ Counts /\ DestroyWalk
-----------------------------------------------------------------------------
(* Lemmas about the operators of the model.                                *)

\* Adding and removing one member changes the cardinality by one: the
\* reservation counter, the count of slots and active_leases.
LEMMA AddOne ==
    ASSUME NEW X, Counted(X), NEW S \in SUBSET X, NEW x \in X, x \notin S
    PROVE  Cardinality(S \cup {x}) = Cardinality(S) + 1
BY ZenonT(30) DEF Counted

\* A set loses one member.
LEMMA RemoveOne ==
    ASSUME NEW X, Counted(X), NEW S \in SUBSET X, NEW x \in S
    PROVE  /\ Cardinality(S \ {x}) = Cardinality(S) - 1
           /\ Cardinality(S) \in Nat \ {0}
<1>1. S \ {x} \in SUBSET X /\ x \in X \ (S \ {x}) /\ (S \ {x}) \cup {x} = S
  OBVIOUS
<1>2. Cardinality(S) = Cardinality(S \ {x}) + 1
  BY ZenonT(30), <1>1, AddOne
<1>3. Cardinality(S \ {x}) \in Nat
  BY ZenonT(30), <1>1 DEF Counted
<1> QED BY <1>2, <1>3

\* Occupied slots, loading threads and lease masks are counted.
LEMMA Finite ==
    ASSUME TypeOK, Counts
    PROVE  /\ Counted(Slots) /\ Counted(Threads) /\ Counted(LeaseSlots)
           /\ {s \in Slots : occupied(s)} \in SUBSET Slots
           /\ {t \in Threads : pc[t] \in Loading} \in SUBSET Threads
           /\ \A s \in Slots : leaseMask[s] \in SUBSET LeaseSlots
<1>1. \A s \in Slots : leaseMask[s] \in SUBSET LeaseSlots
  BY DEF TypeOK
<1>2. Counted(Slots) /\ Counted(Threads) /\ Counted(LeaseSlots)
  BY ZenonT(30) DEF Counts
<1> QED BY ZenonT(30), <1>1, <1>2

\* The facts about the constants that the arithmetic below needs.
LEMMA Numbers ==
    ASSUME TypeOK
    PROVE  /\ count \in Nat /\ loadsInflight \in Nat /\ loads \in Nat
           /\ acquires \in Nat /\ Capacity \in Nat /\ MaxLoads \in Nat
BY CapacityAssumption, NoWrapAssumption DEF TypeOK

\* A thread inside load() holds one of the reservations that are counted.
LEMMA LoadingCounted ==
    ASSUME TypeOK, Counts, NEW t \in Threads, pc[t] \in Loading
    PROVE  loadsInflight \in Nat \ {0}
<1> DEFINE L == {u \in Threads : pc[u] \in Loading}
<1>1. Counted(Threads) /\ L \in SUBSET Threads /\ t \in L
  BY Finite
<1> QED BY <1>1, RemoveOne, ZenonT(30) DEF Counts

\* A slot without active leases has an empty mask, and conversely.
LEMMA NoLease ==
    ASSUME TypeOK, LeaseOwner, Counts, NEW s \in Slots
    PROVE  activeLeases[s] = 0 <=> leaseMask[s] = {}
<1>1. leaseMask[s] \in SUBSET LeaseSlots /\ Counted(LeaseSlots)
  BY ZenonT(30), Finite
<1>2. activeLeases[s] = Cardinality(leaseMask[s])
  BY ZenonT(30) DEF LeaseOwner
<1>3. Cardinality({}) = 0 /\ (Cardinality(leaseMask[s]) = 0 => leaseMask[s] = {})
  BY ZenonT(30), <1>1 DEF Counted
<1> QED BY ZenonT(30), <1>2, <1>3

\* Below the bounds on loads and acquires no generation counter wraps.
LEMMA NoWrap ==
    ASSUME TypeOK, GenerationBound, NEW s \in Slots, occupied(s)
    PROVE  /\ next_generation(generation[s]) = generation[s] + 1
           /\ \A i \in LeaseSlots : next_generation(leaseGeneration[s][i])
                                      = leaseGeneration[s][i] + 1
<1>1. /\ generation[s] \in Nat /\ loads \in Nat /\ acquires \in Nat
      /\ loadsInflight \in Nat
      /\ \A i \in LeaseSlots : leaseGeneration[s][i] \in Nat
  BY DEF TypeOK
<1>2. generation[s] + 1 < GenerationModulus
  BY <1>1, NoWrapAssumption DEF GenerationBound
<1>3. ASSUME NEW i \in LeaseSlots PROVE leaseGeneration[s][i] + 1 < GenerationModulus
  BY <1>1, NoWrapAssumption DEF GenerationBound
<1> QED BY <1>1, <1>2, <1>3, NoWrapAssumption DEF next_generation

\* Each part depends on few of the variables.
LEMMA Frame ==
    ASSUME IInv
    PROVE  /\ UNCHANGED <<pc, slotOf, manifest, candidate, whole>> => CallShape'
           /\ UNCHANGED <<callbacks, pc, slotOf, state, activeLeases, unloading>> => CallbackOwner'
           /\ UNCHANGED <<unloading, manifest, state, activeLeases, pc, slotOf, callbacks>>
                => UnloadOwner'
           /\ UNCHANGED <<library, manifest, pc, slotOf>> => LibraryOpen'
           /\ UNCHANGED <<activeLeases, leaseMask, manifest, state, held, generation, leaseGeneration, load>>
                => LeaseOwner'
           /\ UNCHANGED <<destroyCalled, state, manifest, destroyRuns, pc, slotOf>> => DestroyRun'
           /\ UNCHANGED <<generation, loads, manifest, leaseGeneration, leaseMask, acquires, loadsInflight>>
                => GenerationBound'
           /\ UNCHANGED <<refs, generation, manifest, load>> => RefAge'
           /\ UNCHANGED <<tokens, leaseGeneration, held>> => TokenAge'
           /\ UNCHANGED <<count, manifest, loadsInflight, pc>> => Counts'
           /\ UNCHANGED <<whole, destroying, impl, slotOf, manifest, loadsInflight, pc, state, activeLeases>>
                => DestroyWalk'
<1>1. UNCHANGED <<pc, slotOf, manifest, candidate, whole>> => CallShape'
  BY DEF IInv, CallShape, occupied
<1>2. UNCHANGED <<callbacks, pc, slotOf, state, activeLeases, unloading>>
        => CallbackOwner'
  BY DEF IInv, CallbackOwner
<1>3. UNCHANGED <<unloading, manifest, state, activeLeases, pc, slotOf, callbacks>>
        => UnloadOwner'
  BY DEF IInv, UnloadOwner, occupied
<1>4. UNCHANGED <<library, manifest, pc, slotOf>> => LibraryOpen'
  BY DEF IInv, LibraryOpen, occupied
<1>5. UNCHANGED <<activeLeases, leaseMask, manifest, state, held, generation, leaseGeneration, load>>
        => LeaseOwner'
  BY DEF IInv, LeaseOwner, lease_live, occupied
<1>6. UNCHANGED <<destroyCalled, state, manifest, destroyRuns, pc, slotOf>>
        => DestroyRun'
  BY DEF IInv, DestroyRun, occupied
<1>7. UNCHANGED <<generation, loads, manifest, leaseGeneration, leaseMask, acquires, loadsInflight>>
        => GenerationBound'
  BY DEF IInv, GenerationBound, occupied
<1>8. UNCHANGED <<refs, generation, manifest, load>> => RefAge'
  BY DEF IInv, RefAge, occupied
<1>9. UNCHANGED <<tokens, leaseGeneration, held>> => TokenAge'
  BY DEF IInv, TokenAge
<1>10. UNCHANGED <<count, manifest, loadsInflight, pc>> => Counts'
  BY DEF IInv, Counts, occupied
<1>11. UNCHANGED <<whole, destroying, impl, slotOf, manifest, loadsInflight, pc, state, activeLeases>>
        => DestroyWalk'
  BY DEF IInv, DestroyWalk, occupied
<1> QED BY <1>1, <1>2, <1>3, <1>4, <1>5, <1>6, <1>7, <1>8, <1>9, <1>10, <1>11

-----------------------------------------------------------------------------
(* Every action keeps the inductive invariant.                             *)

-----------------------------------------------------------------------------
(* The phases of load(), and init(), keep the inductive invariant of       *)
(* PluginRegistry.                                                         *)

\* A step of load() before its publication touches the thread's position, its
\* candidate and the count of reservations only: it keeps the invariant if it
\* keeps the counters.
LEMMA LoadingKeeps ==
    ASSUME IInv, NEW t \in Threads, NEW c \in Loading \cup {"idle"},
           NEW p \in Plugins \cup {NoPlugin}, c \in Loading => p \in Plugins,
           pc[t] \in Loading \cup {"idle"}, impl, ~destroying,
           pc' = [pc EXCEPT ![t] = c], candidate' = [candidate EXCEPT ![t] = p],
           loadsInflight' \in Nat, loads + loadsInflight' <= MaxLoads, Counts',
           UNCHANGED <<slotVars, impl, count, destroying, slotOf, whole, ghostVars>>
    PROVE  IInv'
<1>i. /\ TypeOK /\ CallShape /\ CallbackOwner /\ UnloadOwner /\ LibraryOpen
      /\ DestroyRun /\ GenerationBound /\ DestroyWalk
  BY DEF IInv
<1>u. /\ manifest' = manifest /\ library' = library /\ state' = state
      /\ callbacks' = callbacks /\ generation' = generation
      /\ activeLeases' = activeLeases /\ leaseMask' = leaseMask
      /\ leaseGeneration' = leaseGeneration /\ unloading' = unloading
      /\ destroyCalled' = destroyCalled /\ loads' = loads /\ acquires' = acquires
      /\ refs' = refs /\ tokens' = tokens /\ held' = held /\ load' = load
      /\ destroyRuns' = destroyRuns
  BY ZenonT(30) DEF slotVars, ghostVars
<1>p. /\ pc'[t] = c /\ candidate'[t] = p
      /\ \A u \in Threads \ {t} : pc'[u] = pc[u] /\ candidate'[u] = candidate[u]
  BY <1>i DEF TypeOK
<1>c. /\ c \notin InCallback \cup Closing \cup {"destroy_next"}
      /\ pc[t] \notin InCallback \cup Closing \cup {"destroy_next"}
  BY DEF Loading, InCallback, Closing
<1>w. LeaseOwner' /\ RefAge' /\ TokenAge'
  BY <1>u, Frame
<1>1. TypeOK'
  <2>1. pc' \in [Threads -> PCs] /\ candidate' \in [Threads -> Plugins \cup {NoPlugin}]
    BY <1>i DEF TypeOK, PCs
  <2> QED BY <1>i, <1>u, <2>1 DEF TypeOK
<1>2. CallShape'
  BY <1>i, <1>u, <1>p, <1>c DEF CallShape, occupied
<1>3. CallbackOwner'
  BY <1>i, <1>u, <1>p, <1>c DEF CallbackOwner
<1>4. UnloadOwner'
  BY <1>i, <1>u, <1>p, <1>c DEF UnloadOwner, occupied
<1>5. LibraryOpen'
  BY <1>i, <1>u, <1>p, <1>c DEF LibraryOpen, occupied, Closing
<1>6. DestroyRun'
  BY <1>i, <1>u, <1>p, <1>c DEF DestroyRun, occupied, Closing
<1>7. GenerationBound'
  BY <1>i, <1>u DEF GenerationBound, occupied
<1>8. DestroyWalk'
  BY <1>i, <1>u DEF DestroyWalk, occupied
<1> QED BY <1>w, <1>1, <1>2, <1>3, <1>4, <1>5, <1>6, <1>7, <1>8 DEF IInv

\* A thread inside load() keeps destroy() away.
LEMMA LoadingAlive ==
    ASSUME IInv, NEW t \in Threads, pc[t] \in Loading
    PROVE  /\ impl /\ ~destroying /\ candidate[t] \in Plugins
           /\ loadsInflight \in Nat \ {0} /\ loads \in Nat
           /\ loads + loadsInflight <= MaxLoads
<1>i. TypeOK /\ CallShape /\ Counts /\ GenerationBound /\ DestroyWalk
  BY DEF IInv
<1>1. loadsInflight \in Nat \ {0} /\ loads \in Nat /\ loads + loadsInflight <= MaxLoads
  BY <1>i, LoadingCounted, Numbers DEF GenerationBound
<1> QED BY <1>i, <1>1 DEF CallShape, DestroyWalk

\* load() publishes into the first free slot and gives its reservation back.
LEMMA LoadPublishKeeps == ASSUME IInv, NEW t \in Threads, NEW s \in Slots,
    LoadPublish(t, s) PROVE IInv'
<1>i. /\ TypeOK /\ CallShape /\ CallbackOwner /\ UnloadOwner /\ LibraryOpen
      /\ LeaseOwner /\ DestroyRun /\ GenerationBound /\ RefAge /\ TokenAge
      /\ Counts /\ DestroyWalk
  BY DEF IInv
<1>q. /\ pc[t] = "query" /\ ~occupied(s) /\ pc[t] \in Loading
  BY DEF LoadPublish, FirstFree, Loading
<1>l. /\ impl /\ ~destroying /\ candidate[t] \in Plugins
      /\ loadsInflight \in Nat \ {0} /\ loads \in Nat
      /\ loads + loadsInflight <= MaxLoads
  BY <1>q, LoadingAlive
<1>r. leaseMask[s] = {} /\ \A k \in held : k.slot \in Slots \ {s}
  BY <1>i, <1>q DEF LeaseOwner, lease_live, TypeOK, Token
<1>o. /\ ~unloading[s] /\ ~library[s]
      /\ \A u \in Threads : pc[u] \in InCallback \cup Closing => slotOf[u] \in Slots \ {s}
  BY <1>i, <1>q DEF UnloadOwner, LibraryOpen, CallShape
<1>u. /\ generation' = generation /\ leaseGeneration' = leaseGeneration
      /\ impl' = impl /\ destroying' = destroying /\ slotOf' = slotOf
      /\ whole' = whole /\ tokens' = tokens /\ held' = held /\ acquires' = acquires
      /\ count' = count + 1 /\ loadsInflight' = loadsInflight - 1
      /\ loads' = loads + 1
      /\ refs' = refs \cup {[slot |-> s, generation |-> generation[s], load |-> loads + 1]}
  BY DEF LoadPublish
<1>s. /\ manifest'[s] = candidate[t] /\ library'[s] /\ state'[s] = "LOADED"
      /\ ~unloading'[s] /\ ~destroyCalled'[s] /\ callbacks'[s] = 0
      /\ activeLeases'[s] = 0 /\ leaseMask'[s] = {} /\ load'[s] = loads + 1
      /\ destroyRuns'[s] = 0
  BY <1>i DEF LoadPublish, TypeOK
<1>x. \A x \in Slots \ {s} :
        /\ manifest'[x] = manifest[x] /\ library'[x] = library[x] /\ state'[x] = state[x]
        /\ unloading'[x] = unloading[x] /\ destroyCalled'[x] = destroyCalled[x]
        /\ callbacks'[x] = callbacks[x] /\ activeLeases'[x] = activeLeases[x]
        /\ leaseMask'[x] = leaseMask[x] /\ load'[x] = load[x]
        /\ destroyRuns'[x] = destroyRuns[x]
  BY <1>i DEF LoadPublish, TypeOK
<1>t. /\ pc'[t] = "idle" /\ \A u \in Threads \ {t} : pc'[u] = pc[u]
      /\ \A u \in Threads \ {t} : candidate'[u] = candidate[u]
  BY <1>i DEF LoadPublish, TypeOK
<1>c. /\ "idle" \notin InCallback \cup Closing \cup Loading \cup {"destroy_next"}
      /\ "query" \notin InCallback \cup Closing \cup {"destroy_next"}
  BY DEF InCallback, Closing, Loading
<1>m. occupied(s)' /\ \A x \in Slots \ {s} : occupied(x)' <=> occupied(x)
  BY <1>l, <1>s, <1>x, PluginAssumption DEF occupied
<1>1. TypeOK'
  <2>1. /\ manifest' \in [Slots -> Plugins \cup {NoPlugin}]
        /\ library' \in [Slots -> BOOLEAN] /\ state' \in [Slots -> States]
        /\ callbacks' \in [Slots -> Nat] /\ activeLeases' \in [Slots -> Nat]
        /\ leaseMask' \in [Slots -> SUBSET LeaseSlots]
    BY <1>i, <1>l DEF TypeOK, LoadPublish, States
  <2>2. /\ unloading' \in [Slots -> BOOLEAN] /\ destroyCalled' \in [Slots -> BOOLEAN]
        /\ load' \in [Slots -> Nat] /\ destroyRuns' \in [Slots -> Nat]
    BY <1>i, <1>l DEF TypeOK, LoadPublish
  <2>3. /\ pc' \in [Threads -> PCs]
        /\ candidate' \in [Threads -> Plugins \cup {NoPlugin}]
    BY <1>i DEF TypeOK, LoadPublish, PCs
  <2>4. refs' \subseteq Ref
    BY <1>i, <1>u, <1>l DEF TypeOK, Ref
  <2>5. /\ count' \in Nat /\ loadsInflight' \in Nat /\ loads' \in Nat
    BY <1>i, <1>u, <1>l, Numbers
  <2> QED BY <1>i, <1>u, <2>1, <2>2, <2>3, <2>4, <2>5 DEF TypeOK
<1>2. CallShape'
  BY <1>i, <1>o, <1>u, <1>t, <1>c, <1>m, <1>q DEF CallShape
<1>3. CallbackOwner'
  BY <1>i, <1>o, <1>u, <1>s, <1>x, <1>t, <1>c DEF CallbackOwner
<1>4. UnloadOwner'
  <2>1. \A u \in Threads : pc'[u] \in Closing <=> pc[u] \in Closing
    BY ZenonT(30), <1>q, <1>t, <1>c
  <2>2. \A u \in Threads : pc[u] \in Closing => pc'[u] = pc[u] /\ slotOf[u] \in Slots \ {s}
    BY ZenonT(30), <1>q, <1>t, <1>c, <1>o
  <2>3. ASSUME NEW x \in Slots, unloading'[x]
        PROVE  /\ occupied(x)' /\ state'[x] \in {"LOADED", "QUIESCENT"} /\ activeLeases'[x] = 0
               /\ \E u \in Threads : pc'[u] \in Closing /\ slotOf[u] = x
    <3>1. x # s
      BY ZenonT(30), <1>s, <2>3
    <3>2. unloading[x] /\ state'[x] = state[x] /\ activeLeases'[x] = activeLeases[x]
      BY ZenonT(30), <1>x, <2>3, <3>1
    <3>3. /\ occupied(x) /\ state[x] \in {"LOADED", "QUIESCENT"} /\ activeLeases[x] = 0
          /\ \E u \in Threads : pc[u] \in Closing /\ slotOf[u] = x
      BY ZenonT(30), <1>i, <3>2 DEF UnloadOwner
    <3> QED BY ZenonT(30), <1>m, <2>1, <3>1, <3>2, <3>3
  <2>4. ASSUME NEW u \in Threads, pc'[u] \in Closing
        PROVE  /\ unloading'[slotOf[u]] /\ (pc'[u] # "destroy" => callbacks'[slotOf[u]] = 0)
               /\ \A v \in Threads : pc'[v] \in Closing /\ slotOf[v] = slotOf[u] => v = u
    <3>1. pc[u] \in Closing /\ pc'[u] = pc[u] /\ slotOf[u] \in Slots \ {s}
      BY ZenonT(30), <2>1, <2>2, <2>4
    <3>2. /\ unloading[slotOf[u]] /\ (pc[u] # "destroy" => callbacks[slotOf[u]] = 0)
          /\ \A v \in Threads : pc[v] \in Closing /\ slotOf[v] = slotOf[u] => v = u
      BY ZenonT(30), <1>i, <3>1 DEF UnloadOwner
    <3>3. /\ unloading'[slotOf[u]] = unloading[slotOf[u]]
          /\ callbacks'[slotOf[u]] = callbacks[slotOf[u]]
      BY ZenonT(30), <1>x, <3>1
    <3> QED BY ZenonT(30), <2>1, <3>1, <3>2, <3>3
  <2> QED BY ZenonT(30), <1>u, <2>3, <2>4 DEF UnloadOwner
<1>5. LibraryOpen'
  <2>1. \A u \in Threads : (pc'[u] = "closed" <=> pc[u] = "closed")
                         /\ (pc[u] = "closed" => slotOf[u] \in Slots \ {s})
    BY <1>o, <1>q, <1>t DEF Closing
  <2>2. /\ library'[s] /\ occupied(s)' /\ slotOf' = slotOf
        /\ \A x \in Slots \ {s} : library'[x] = library[x] /\ (occupied(x)' <=> occupied(x))
    BY <1>s, <1>x, <1>m, <1>u
  <2>3. LibraryOpen
    BY <1>i
  <2> QED BY <2>1, <2>2, <2>3 DEF LibraryOpen
<1>6. LeaseOwner'
  <2>1. \A x \in Slots : activeLeases'[x] = Cardinality(leaseMask'[x])
    <3>1. Cardinality({}) = 0
      BY ZenonT(30), <1>i DEF Counts, Counted
    <3>2. \A x \in Slots : activeLeases[x] = Cardinality(leaseMask[x])
      BY <1>i DEF LeaseOwner
    <3> QED BY ZenonT(30), <1>s, <1>x, <3>1, <3>2
  <2>2. \A k \in held : lease_live(k)' /\ load'[k.slot] = k.load
    BY <1>i, <1>r, <1>u, <1>x, <1>m DEF LeaseOwner, lease_live
  <2>3. \A x \in Slots :
          /\ leaseMask'[x] # {} => occupied(x)' /\ state'[x] \in {"STARTED", "STOPPING"}
          /\ \A i \in leaseMask'[x] : \E k \in held : k.slot = x /\ k.index = i
    <3>1. /\ leaseMask'[s] = {}
          /\ \A x \in Slots \ {s} : /\ leaseMask'[x] = leaseMask[x] /\ state'[x] = state[x]
                                   /\ (occupied(x)' <=> occupied(x))
      BY <1>s, <1>x, <1>m
    <3>2. LeaseOwner
      BY <1>i
    <3> QED BY <3>1, <3>2 DEF LeaseOwner
  <2> QED BY <1>i, <1>u, <2>1, <2>2, <2>3 DEF LeaseOwner
<1>7. DestroyRun'
  <2>1. \A u \in Threads : pc[u] = "destroy" => pc'[u] = "destroy"
    BY <1>q, <1>t
  <2>2. ASSUME NEW x \in Slots \ {s}
        PROVE  /\ destroyCalled'[x] => state'[x] = "QUIESCENT"
               /\ occupied(x)' => (destroyRuns'[x] = 0 \/ (destroyRuns'[x] = 1 /\
                    (destroyCalled'[x] \/ \E u \in Threads : pc'[u] = "destroy" /\ slotOf'[u] = x)))
    BY <1>i, <1>u, <1>x, <1>m, <2>1 DEF DestroyRun
  <2> QED BY <1>s, <2>2 DEF DestroyRun
<1>8. GenerationBound'
  <2>1. \A x \in Slots : generation[x] \in Nat
    BY <1>i DEF TypeOK
  <2>2. \A x \in Slots : leaseMask'[x] \subseteq leaseMask[x]
    BY ZenonT(30), <1>s, <1>x
  <2> QED BY <1>i, <1>l, <1>u, <1>m, <2>1, <2>2, NoWrapAssumption DEF GenerationBound
<1>9. RefAge'
  <2>1. \A x \in Slots : generation[x] \in Nat
    BY <1>i DEF TypeOK
  <2>2. \A r \in refs : r.slot \in Slots
    BY <1>i DEF TypeOK, Ref
  <2> QED BY <1>i, <1>q, <1>u, <1>s, <1>x, <1>m, <2>1, <2>2 DEF RefAge
<1>10. TokenAge'
  BY <1>i, <1>u DEF TokenAge
<1>11. Counts'
  <2> DEFINE L == {u \in Threads : pc[u] \in Loading}
             O == {x \in Slots : occupied(x)}
  <2>1. {u \in Threads : pc'[u] \in Loading} = L \ {t} /\ t \in L
    BY <1>q, <1>t, <1>c
  <2>2. Cardinality(L \ {t}) = Cardinality(L) - 1
    BY <1>i, <2>1, Finite, RemoveOne, ZenonT(30)
  <2>3. {x \in Slots : occupied(x)'} = O \cup {s} /\ s \notin O
    BY <1>q, <1>m
  <2>4. Cardinality(O \cup {s}) = Cardinality(O) + 1
    BY <1>i, <2>3, Finite, AddOne, ZenonT(30)
  <2>5. count' + loadsInflight' <= Capacity
    <3>1. count + loadsInflight <= Capacity
      BY <1>i DEF Counts
    <3>2. /\ count \in Nat /\ loadsInflight \in Nat /\ Capacity \in Nat
          /\ count' = count + 1 /\ loadsInflight' = loadsInflight - 1
      BY <1>i, <1>l, <1>u, Numbers
    <3> QED BY <3>1, <3>2
  <2> QED BY ZenonT(30), <1>i, <1>u, <2>1, <2>2, <2>3, <2>4, <2>5 DEF Counts
<1>12. DestroyWalk'
  BY <1>i, <1>l, <1>u DEF DestroyWalk
<1> QED BY <1>1, <1>2, <1>3, <1>4, <1>5, <1>6, <1>7, <1>8, <1>9, <1>10, <1>11, <1>12 DEF
     IInv

\* init() starts from an empty registry.
LEMMA RegistryInitKeeps == ASSUME IInv, RegistryInit PROVE IInv'
<1> TypeOK /\ CallShape /\ CallbackOwner /\ UnloadOwner /\ LibraryOpen /\
      LeaseOwner /\ DestroyRun /\ GenerationBound /\ RefAge /\ TokenAge /\
      Counts /\ DestroyWalk
  BY DEF IInv
<1>s. /\ \A t \in Threads : pc[t] = "idle" /\ ~whole[t]
      /\ \A s \in Slots : ~occupied(s) /\ leaseMask[s] = {}
      /\ held = {} /\ loadsInflight = 0
  <2>1. /\ \A t \in Threads : pc[t] = "idle" /\ ~whole[t]
        /\ \A s \in Slots : ~occupied(s)
        /\ loadsInflight = 0
    BY ZenonT(30) DEF DestroyWalk, slotVars, implVars, threadVars, ghostVars, RegistryInit
  <2>2. \A s \in Slots : leaseMask[s] = {}
    BY <2>1 DEF LeaseOwner
  <2>3. held = {}
    BY <2>1 DEF LeaseOwner, lease_live, TypeOK, Token
  <2> QED BY <2>1, <2>2, <2>3
<1>w. CallShape' /\ CallbackOwner' /\ UnloadOwner' /\ LibraryOpen' /\
      DestroyRun' /\ Counts'
  BY Frame DEF slotVars, implVars, threadVars, ghostVars, RegistryInit
<1>1. TypeOK'
  <2>1. /\ generation' \in [Slots -> Nat \ {0}]
        /\ leaseGeneration' \in [Slots -> [LeaseSlots -> Nat \ {0}]]
    BY DEF slotVars, implVars, threadVars, ghostVars, RegistryInit
  <2>2. refs' \subseteq Ref /\ tokens' \subseteq Token /\ held' \subseteq tokens'
        /\ impl' \in BOOLEAN /\ destroying' \in BOOLEAN
    BY <1>s, ZenonT(30) DEF slotVars, implVars, threadVars, ghostVars, RegistryInit
  <2> QED BY <2>1, <2>2 DEF TypeOK, slotVars, implVars, threadVars, ghostVars,
       RegistryInit
<1>2. LeaseOwner'
  <2>1. /\ held' = {} /\ leaseMask' = leaseMask /\ activeLeases' = activeLeases
        /\ manifest' = manifest /\ state' = state
    BY <1>s DEF slotVars, implVars, threadVars, ghostVars, RegistryInit
  <2> QED BY <1>s, <2>1 DEF LeaseOwner
<1>3. GenerationBound'
  <2>1. /\ \A s \in Slots : generation'[s] = 1 /\ leaseMask'[s] = {} /\ ~occupied(s)'
        /\ \A s \in Slots : \A i \in LeaseSlots : leaseGeneration'[s][i] = 1
        /\ loads' = loads /\ acquires' = acquires /\ loadsInflight' = loadsInflight
    BY <1>s DEF occupied, slotVars, implVars, threadVars, ghostVars, RegistryInit
  <2> QED BY <2>1, Numbers DEF GenerationBound
<1>4. RefAge'
  BY <1>s DEF RefAge, TypeOK, occupied, slotVars, implVars, threadVars, ghostVars,
       RegistryInit
<1>5. TokenAge'
  BY <1>s DEF TokenAge, TypeOK, slotVars, implVars, threadVars, ghostVars, RegistryInit
<1>6. DestroyWalk'
  BY ZenonT(30), <1>s DEF DestroyWalk, TypeOK, occupied, CallShape, slotVars, implVars, threadVars,
       ghostVars, RegistryInit
<1> QED BY <1>w, <1>1, <1>2, <1>3, <1>4, <1>5, <1>6 DEF IInv

\* load() counts its reservation before it leaves the lock.
LEMMA LoadReserveKeeps == ASSUME IInv, NEW t \in Threads, NEW p \in Plugins,
    LoadReserve(t, p) PROVE IInv'
<1> DEFINE L == {u \in Threads : pc[u] \in Loading}
<1>i. TypeOK /\ Counts
  BY DEF IInv
<1>1. /\ impl /\ ~destroying /\ pc[t] = "idle" /\ pc' = [pc EXCEPT ![t] = "open"]
      /\ candidate' = [candidate EXCEPT ![t] = p]
      /\ count < Capacity /\ loadsInflight < Capacity - count
      /\ loads + loadsInflight < MaxLoads /\ loadsInflight' = loadsInflight + 1
      /\ UNCHANGED <<slotVars, impl, count, destroying, slotOf, whole, ghostVars>>
  BY DEF LoadReserve
<1>2. {u \in Threads : pc'[u] \in Loading} = L \cup {t} /\ t \notin L
  BY <1>i, <1>1 DEF TypeOK, Loading
<1>3. Cardinality(L \cup {t}) = Cardinality(L) + 1
  BY <1>i, <1>2, Finite, AddOne, ZenonT(30)
<1>4. /\ loadsInflight' \in Nat /\ loads + loadsInflight' <= MaxLoads
      /\ count + loadsInflight' <= Capacity
  BY <1>i, <1>1, Numbers
<1>5. manifest' = manifest /\ count' = count
  BY <1>1 DEF slotVars
<1>6. Counts'
  BY ZenonT(30), <1>i, <1>1, <1>2, <1>3, <1>4, <1>5 DEF Counts, occupied
<1>7. "open" \in Loading
  BY DEF Loading
<1> QED BY ZenonT(30), <1>1, <1>4, <1>6, <1>7, LoadingKeeps

\* A load() that is given up returns its reservation.
LEMMA UnreserveKeeps ==
    ASSUME IInv, NEW t \in Threads, pc[t] \in Loading,
           pc' = [pc EXCEPT ![t] = "idle"],
           candidate' = [candidate EXCEPT ![t] = NoPlugin],
           loadsInflight' = loadsInflight - 1,
           UNCHANGED <<slotVars, impl, count, destroying, slotOf, whole, ghostVars>>
    PROVE  IInv'
<1> DEFINE L == {u \in Threads : pc[u] \in Loading}
<1>i. TypeOK /\ Counts
  BY DEF IInv
<1>1. {u \in Threads : pc'[u] \in Loading} = L \ {t} /\ t \in L
  BY <1>i DEF TypeOK, Loading
<1>2. Cardinality(L \ {t}) = Cardinality(L) - 1
  BY <1>i, <1>1, Finite, RemoveOne, ZenonT(30)
<1>3. /\ impl /\ ~destroying /\ loadsInflight' \in Nat /\ loads + loadsInflight' <= MaxLoads
      /\ count + loadsInflight' <= Capacity
  <2>1. /\ impl /\ ~destroying /\ loadsInflight \in Nat \ {0} /\ loads \in Nat
        /\ loads + loadsInflight <= MaxLoads
    BY ZenonT(30), LoadingAlive
  <2>2. count \in Nat /\ Capacity \in Nat /\ MaxLoads \in Nat
    BY ZenonT(30), <1>i, Numbers
  <2>3. count + loadsInflight <= Capacity
    BY ZenonT(30), <1>i DEF Counts
  <2> QED BY <2>1, <2>2, <2>3
<1>4. manifest' = manifest /\ count' = count
  BY DEF slotVars
<1>5. Counts'
  BY ZenonT(30), <1>i, <1>1, <1>2, <1>3, <1>4 DEF Counts, occupied
<1>6. "idle" \notin Loading
  BY DEF Loading
<1> QED BY ZenonT(30), <1>3, <1>5, <1>6, LoadingKeeps

\* The other steps of a load() stay inside it.
LEMMA RejectKeeps ==
    ASSUME IInv, NEW t \in Threads, NEW c \in Loading, pc[t] \in Loading,
           pc' = [pc EXCEPT ![t] = c],
           UNCHANGED <<slotVars, implVars, slotOf, candidate, whole, ghostVars>>
    PROVE  IInv'
<1>i. TypeOK /\ Counts
  BY DEF IInv
<1>1. {u \in Threads : pc'[u] \in Loading} = {u \in Threads : pc[u] \in Loading}
  BY <1>i DEF TypeOK
<1>2. /\ manifest' = manifest /\ count' = count /\ loadsInflight' = loadsInflight
      /\ impl' = impl /\ destroying' = destroying
  BY DEF slotVars, implVars
<1>3. Counts'
  BY <1>i, <1>1, <1>2 DEF Counts, occupied
<1>4. candidate' = [candidate EXCEPT ![t] = candidate[t]]
  BY <1>i DEF TypeOK
<1> QED BY ZenonT(30), <1>2, <1>3, <1>4, LoadingAlive, LoadingKeeps

\* The loader opens the DSO, or reports that it could not.
LEMMA LoadOpenKeeps == ASSUME IInv, NEW t \in Threads, NEW ok \in BOOLEAN,
    LoadOpen(t, ok) PROVE IInv'
<1>1. pc[t] \in Loading /\ "query" \in Loading
  BY DEF LoadOpen, Loading
<1>2. CASE ok
  BY <1>1, <1>2, RejectKeeps, ZenonT(30) DEF LoadOpen, implVars
<1>3. CASE ~ok
  BY <1>1, <1>3, UnreserveKeeps, ZenonT(30) DEF LoadOpen
<1> QED BY <1>2, <1>3

\* The manifest query is refused.
LEMMA LoadQueryRejectedKeeps == ASSUME IInv, NEW t \in Threads, LoadQueryRejected(t) PROVE IInv'
BY RejectKeeps, ZenonT(30) DEF LoadQueryRejected, Loading

\* load() finds under the lock that it cannot publish.
LEMMA LoadPublishRejectedKeeps == ASSUME IInv, NEW t \in Threads, LoadPublishRejected(t) PROVE IInv'
BY RejectKeeps, ZenonT(30) DEF LoadPublishRejected, Loading

\* load() closes the DSO it could not publish.
LEMMA LoadCloseRejectedKeeps == ASSUME IInv, NEW t \in Threads, LoadCloseRejected(t) PROVE IInv'
BY RejectKeeps, ZenonT(30) DEF LoadCloseRejected, Loading

\* load() gives its reservation back.
LEMMA LoadUnreserveKeeps == ASSUME IInv, NEW t \in Threads, LoadUnreserve(t) PROVE IInv'
BY UnreserveKeeps, ZenonT(30) DEF LoadUnreserve, Loading

-----------------------------------------------------------------------------
(* acquire() and release() keep the inductive invariant of PluginRegistry. *)

\* acquire() takes the first free lease slot of a started plugin.
LEMMA AcquireKeeps == ASSUME IInv, NEW t \in Threads, NEW r \in refs, NEW i
    \in LeaseSlots, Acquire(t, r, i) PROVE IInv'
<1> TypeOK /\ CallShape /\ CallbackOwner /\ UnloadOwner /\ LibraryOpen /\
      LeaseOwner /\ DestroyRun /\ GenerationBound /\ RefAge /\ TokenAge /\
      Counts /\ DestroyWalk
  BY DEF IInv
<1>s. /\ r \in Ref /\ r.slot \in Slots /\ occupied(r.slot) /\ i \notin leaseMask[r.slot]
      /\ generation[r.slot] = r.generation
  BY DEF TypeOK, Ref, slotVars, implVars, threadVars, ghostVars, Acquire, Admits,
       FirstFreeLease, slot_for_ref
<1>k. PICK k \in Token : k = [slot |-> r.slot, generation |-> r.generation, index |-> i,
                 leaseGeneration |-> leaseGeneration[r.slot][i], load |-> r.load]
  <2>1. leaseGeneration[r.slot][i] \in Nat \ {0}
    BY <1>s DEF TypeOK
  <2> QED BY <1>s, <2>1, ZenonT(30) DEF Ref, Token
<1>h. tokens' = tokens \cup {k} /\ held' = held \cup {k}
  BY <1>k DEF slotVars, implVars, threadVars, ghostVars, Acquire, Admits,
       FirstFreeLease, slot_for_ref
<1>f. /\ k.slot = r.slot /\ k.index = i /\ k.generation = r.generation /\ k.load = r.load
      /\ k.leaseGeneration = leaseGeneration[r.slot][i]
  BY <1>k
<1>l. load[r.slot] = r.load
  BY <1>s DEF RefAge
<1>n. \A h \in held : ~(h.slot = r.slot /\ h.index = i)
  BY <1>s DEF LeaseOwner, lease_live
<1>w. CallShape' /\ LibraryOpen' /\ DestroyRun' /\ RefAge' /\ Counts'
  BY ZenonT(30), Frame DEF slotVars, implVars, threadVars, ghostVars, Acquire, Admits,
       FirstFreeLease, slot_for_ref
<1>u. /\ manifest' = manifest /\ library' = library /\ generation' = generation
      /\ state' = state /\ callbacks' = callbacks /\ leaseGeneration' = leaseGeneration
      /\ unloading' = unloading /\ destroyCalled' = destroyCalled /\ impl' = impl
      /\ count' = count /\ loadsInflight' = loadsInflight /\ destroying' = destroying
      /\ pc' = pc /\ slotOf' = slotOf /\ candidate' = candidate /\ whole' = whole
      /\ load' = load /\ refs' = refs /\ loads' = loads /\ destroyRuns' = destroyRuns
  BY ZenonT(30) DEF Acquire, implVars, threadVars
<1>1. TypeOK'
  <2>1. /\ leaseMask \in [Slots -> SUBSET LeaseSlots] /\ activeLeases \in [Slots -> Nat]
        /\ acquires \in Nat /\ tokens \subseteq Token /\ held \subseteq tokens
    BY ZenonT(30) DEF TypeOK
  <2>2. /\ leaseMask' = [leaseMask EXCEPT ![r.slot] = @ \cup {i}]
        /\ activeLeases' = [activeLeases EXCEPT ![r.slot] = @ + 1] /\ acquires' = acquires + 1
    BY ZenonT(30) DEF Acquire
  <2>3. leaseMask' \in [Slots -> SUBSET LeaseSlots]
    BY <1>s, <2>1, <2>2
  <2>4. activeLeases' \in [Slots -> Nat] /\ acquires' \in Nat
    BY <1>s, <2>1, <2>2
  <2>5. tokens' \subseteq Token /\ held' \subseteq tokens'
    BY ZenonT(30), <1>h, <2>1
  <2> QED BY ZenonT(30), <1>u, <2>3, <2>4, <2>5 DEF TypeOK
<1>a. /\ activeLeases \in [Slots -> Nat] /\ state[r.slot] = "STARTED"
      /\ \A x \in Slots : x # r.slot => activeLeases'[x] = activeLeases[x]
  BY DEF TypeOK, Acquire
<1>2. CallbackOwner'
  <2>1. \A u \in Threads : pc[u] = "is_quiescent" /\ pc[u] \in InCallback =>
          slotOf[u] \in Slots /\ slotOf[u] # r.slot
    BY ZenonT(30), <1>a DEF CallbackOwner, CallShape
  <2> QED BY ZenonT(30), <1>u, <1>a, <2>1 DEF CallbackOwner
<1>3. UnloadOwner'
  <2>1. \A x \in Slots : unloading[x] => x # r.slot
    BY ZenonT(30) DEF Acquire, Admits
  <2> QED BY ZenonT(30), <1>u, <1>a, <2>1 DEF UnloadOwner, occupied
<1>4. LeaseOwner'
  <2>1. ASSUME NEW x \in Slots PROVE activeLeases'[x] = Cardinality(leaseMask'[x])
    <3>1. /\ activeLeases[x] = Cardinality(leaseMask[x])
          /\ Counted(LeaseSlots) /\ leaseMask[x] \in SUBSET LeaseSlots
      BY ZenonT(30), Finite DEF LeaseOwner
    <3>2. CASE x = r.slot
      <4>1. activeLeases'[x] = activeLeases[x] + 1 /\ leaseMask'[x] = leaseMask[x] \cup {i}
        BY <1>s, <3>2 DEF TypeOK, slotVars, implVars, threadVars, ghostVars, Acquire,
             Admits, FirstFreeLease, slot_for_ref
      <4>2. i \in LeaseSlots /\ i \notin leaseMask[x]
        BY ZenonT(30), <1>s, <3>2
      <4>3. Cardinality(leaseMask[x] \cup {i}) = Cardinality(leaseMask[x]) + 1
        BY ZenonT(30), <3>1, <4>2, AddOne
      <4> QED BY ZenonT(30), <3>1, <4>1, <4>3
    <3>3. CASE x # r.slot
      BY <3>1, <3>3 DEF TypeOK, slotVars, implVars, threadVars, ghostVars, Acquire,
           Admits, FirstFreeLease, slot_for_ref
    <3> QED BY ZenonT(30), <3>2, <3>3
  <2>7. state[r.slot] = "STARTED" /\ leaseMask' = [leaseMask EXCEPT ![r.slot] = @ \cup {i}]
        /\ leaseMask \in [Slots -> SUBSET LeaseSlots] /\ manifest' = manifest /\ state' = state
    BY DEF TypeOK, slotVars, implVars, threadVars, ghostVars, Acquire, Admits,
         FirstFreeLease, slot_for_ref
  <2>m. \A y \in Slots : \A j \in leaseMask[y] : \E h \in held : h.slot = y /\ h.index = j
    BY DEF LeaseOwner
  <2>2. ASSUME NEW x \in Slots
        PROVE  /\ leaseMask'[x] # {} => occupied(x)' /\ state'[x] \in {"STARTED", "STOPPING"}
               /\ \A j \in leaseMask'[x] : \E h \in held' : h.slot = x /\ h.index = j
    <3>1. leaseMask'[x] # {} => occupied(x)' /\ state'[x] \in {"STARTED", "STOPPING"}
      BY ZenonT(30), <1>s, <2>7 DEF LeaseOwner, occupied
    <3>2. ASSUME NEW j \in leaseMask'[x] PROVE \E h \in held' : h.slot = x /\ h.index = j
      <4>1. CASE j \in leaseMask[x]
        <5>1. PICK h \in held : h.slot = x /\ h.index = j
          BY <2>m, <4>1
        <5> QED BY ZenonT(30), <1>h, <5>1
      <4>2. CASE j \notin leaseMask[x]
        BY ZenonT(30), <1>h, <1>f, <2>7, <3>2, <4>2
      <4> QED BY ZenonT(30), <4>1, <4>2
    <3> QED BY ZenonT(30), <3>1, <3>2
  <2>3. ASSUME NEW h \in held PROVE lease_live(h)' /\ load'[h.slot] = h.load
    <3>1. lease_live(h) /\ load[h.slot] = h.load /\ h.slot \in Slots
      BY DEF LeaseOwner, TypeOK, Token
    <3> QED BY <3>1 DEF lease_live, occupied, TypeOK, slotVars, implVars, threadVars,
         ghostVars, Acquire, Admits, FirstFreeLease, slot_for_ref
  <2>4. lease_live(k)' /\ load'[k.slot] = k.load
    BY <1>s, <1>f, <1>l DEF lease_live, occupied, TypeOK, slotVars, implVars,
         threadVars, ghostVars, Acquire, Admits, FirstFreeLease, slot_for_ref
  <2>5. \A g, h \in held' : g.slot = h.slot /\ g.index = h.index => g = h
    BY <1>h, <1>f, <1>n DEF LeaseOwner
  <2>8. \A h \in held' : lease_live(h)' /\ load'[h.slot] = h.load
    <3> QED BY <1>h, <2>3, <2>4
  <2> QED BY ZenonT(30), <2>1, <2>2, <2>8, <2>5 DEF LeaseOwner
<1>5. GenerationBound'
  <2>1. /\ generation' = generation /\ manifest' = manifest /\ loads' = loads
        /\ leaseGeneration' = leaseGeneration /\ loadsInflight' = loadsInflight
        /\ acquires' = acquires + 1 /\ acquires < MaxAcquires
    BY DEF slotVars, implVars, threadVars, ghostVars, Acquire, Admits, FirstFreeLease,
         slot_for_ref
  <2>2. acquires + 1 <= MaxAcquires
    BY <2>1, Numbers, NoWrapAssumption
  <2>3. \A x \in Slots : \A j \in LeaseSlots : leaseGeneration[x][j] < generation[x] + acquires'
    BY <2>1, Numbers DEF GenerationBound, TypeOK
  <2>4. \A x \in Slots : \A j \in LeaseSlots : leaseGeneration[x][j] <= generation[x] + acquires'
    BY <2>1, <2>3, Numbers DEF TypeOK
  <2> QED BY <2>1, <2>2, <2>3, <2>4 DEF GenerationBound, occupied
<1>6. TokenAge'
  <2>1. k.leaseGeneration = leaseGeneration'[k.slot][k.index] /\ k.leaseGeneration \in Nat
    BY ZenonT(30), <1>s, <1>f DEF TypeOK, Token, slotVars, implVars, threadVars, ghostVars, Acquire,
         Admits, FirstFreeLease, slot_for_ref
  <2> QED BY <1>h, <2>1 DEF TokenAge, slotVars, implVars, threadVars, ghostVars,
       Acquire, Admits, FirstFreeLease, slot_for_ref
<1>7. DestroyWalk'
  BY <1>s, <1>h DEF DestroyWalk, TypeOK, occupied, CallShape, slotVars, implVars,
       threadVars, ghostVars, Acquire, Admits, FirstFreeLease, slot_for_ref
<1> QED BY <1>w, <1>1, <1>2, <1>3, <1>4, <1>5, <1>6, <1>7 DEF IInv

\* release() frees the lease slot that its token names.
LEMMA ReleaseKeeps == ASSUME IInv, NEW t \in Threads, NEW k \in tokens,
    Release(t, k) PROVE IInv'
<1> TypeOK /\ CallShape /\ CallbackOwner /\ UnloadOwner /\ LibraryOpen /\
      LeaseOwner /\ DestroyRun /\ GenerationBound /\ RefAge /\ TokenAge /\
      Counts /\ DestroyWalk
  BY DEF IInv
<1>s. /\ k \in Token /\ k.slot \in Slots /\ k.index \in LeaseSlots /\ k \in held
      /\ occupied(k.slot) /\ k.index \in leaseMask[k.slot]
  BY DEF TypeOK, Token, TokenAge, slotVars, implVars, threadVars, ghostVars, Release,
       lease_live
<1>g. next_generation(leaseGeneration[k.slot][k.index]) = leaseGeneration[k.slot][k.index] + 1
  BY <1>s, NoWrap, ZenonT(30)
<1>a. activeLeases[k.slot] \in Nat \ {0}
  <2>1. /\ activeLeases[k.slot] = Cardinality(leaseMask[k.slot])
        /\ Counted(LeaseSlots) /\ leaseMask[k.slot] \in SUBSET LeaseSlots
    BY ZenonT(30), <1>s, Finite DEF LeaseOwner
  <2> QED BY <1>s, <2>1, RemoveOne, ZenonT(30)
<1>b. /\ leaseGeneration' = [leaseGeneration EXCEPT ![k.slot][k.index] =
                               leaseGeneration[k.slot][k.index] + 1]
      /\ activeLeases' = [activeLeases EXCEPT ![k.slot] = activeLeases[k.slot] - 1]
  BY <1>s, <1>g, <1>a, ZenonT(30) DEF TypeOK, slotVars, implVars, threadVars, ghostVars,
       Release, lease_live
<1>u. /\ manifest' = manifest /\ library' = library /\ generation' = generation
      /\ state' = state /\ callbacks' = callbacks /\ unloading' = unloading
      /\ destroyCalled' = destroyCalled /\ impl' = impl /\ count' = count
      /\ loadsInflight' = loadsInflight /\ destroying' = destroying /\ pc' = pc
      /\ slotOf' = slotOf /\ candidate' = candidate /\ whole' = whole /\ load' = load
      /\ refs' = refs /\ tokens' = tokens /\ held' = held \ {k} /\ loads' = loads
      /\ acquires' = acquires /\ destroyRuns' = destroyRuns
  BY ZenonT(30) DEF Release, implVars, threadVars
<1>x. \A x \in Slots : x # k.slot => activeLeases'[x] = activeLeases[x]
  BY <1>b DEF TypeOK
<1>w. CallShape' /\ LibraryOpen' /\ DestroyRun' /\ RefAge' /\ Counts'
  BY <1>u, Frame
<1>1. TypeOK'
  <2>1. leaseGeneration' \in [Slots -> [LeaseSlots -> Nat \ {0}]]
    BY <1>s, <1>b DEF TypeOK
  <2>2. activeLeases' \in [Slots -> Nat]
    <3>1. activeLeases[k.slot] - 1 \in Nat
      BY <1>a
    <3>2. activeLeases \in [Slots -> Nat]
      BY DEF TypeOK
    <3> QED BY <1>b, <3>1, <3>2, ZenonT(30)
  <2>3. leaseMask' \in [Slots -> SUBSET LeaseSlots]
    BY ZenonT(30) DEF TypeOK, slotVars, implVars, threadVars, ghostVars, Release, lease_live
  <2>4. held' \subseteq tokens'
    BY ZenonT(30), <1>u DEF TypeOK
  <2> QED BY ZenonT(30), <1>u, <2>1, <2>2, <2>3, <2>4 DEF TypeOK
<1>2. CallbackOwner'
  <2>1. \A u \in Threads : pc[u] = "is_quiescent" /\ pc[u] \in InCallback =>
          slotOf[u] \in Slots /\ slotOf[u] # k.slot
    BY <1>a DEF CallbackOwner, CallShape
  <2> QED BY ZenonT(30), <1>u, <1>x, <2>1 DEF CallbackOwner
<1>3. UnloadOwner'
  <2>1. \A x \in Slots : unloading[x] => x # k.slot
    <3>1. activeLeases[k.slot] # 0
      BY <1>a
    <3>2. \A x \in Slots : unloading[x] => activeLeases[x] = 0
      BY ZenonT(30) DEF UnloadOwner
    <3> QED BY ZenonT(30), <3>1, <3>2
  <2> QED BY ZenonT(30), <1>u, <1>x, <2>1 DEF UnloadOwner, occupied
<1>4. LeaseOwner'
  <2>0. \A h \in held : h.slot \in Slots /\ h.index \in LeaseSlots
    BY DEF TypeOK, Token
  <2>1. ASSUME NEW x \in Slots PROVE activeLeases'[x] = Cardinality(leaseMask'[x])
    <3>1. /\ activeLeases[x] = Cardinality(leaseMask[x])
          /\ Counted(LeaseSlots) /\ leaseMask[x] \in SUBSET LeaseSlots
      BY ZenonT(30), Finite DEF LeaseOwner
    <3>2. CASE x = k.slot
      <4>1. activeLeases'[x] = activeLeases[x] - 1 /\ leaseMask'[x] = leaseMask[x] \ {k.index}
        BY <1>s, <1>b, <3>2 DEF TypeOK, slotVars, implVars, threadVars, ghostVars,
             Release, lease_live
      <4> QED BY ZenonT(30), <1>s, <3>1, <3>2, <4>1, RemoveOne
    <3>3. CASE x # k.slot
      BY <1>b, <3>1, <3>3 DEF TypeOK, slotVars, implVars, threadVars, ghostVars,
           Release, lease_live
    <3> QED BY <3>2, <3>3
  <2>2. \A x \in Slots : leaseMask'[x] # {} =>
          occupied(x)' /\ state'[x] \in {"STARTED", "STOPPING"}
    BY <1>s DEF LeaseOwner, TypeOK, occupied, slotVars, implVars, threadVars, ghostVars,
         Release, lease_live
  <2>3. ASSUME NEW x \in Slots, NEW j \in leaseMask'[x]
        PROVE  \E h \in held' : h.slot = x /\ h.index = j
    <3>1. j \in leaseMask[x] /\ (x # k.slot \/ j # k.index)
      BY <1>s, <2>3 DEF TypeOK, slotVars, implVars, threadVars, ghostVars, Release,
           lease_live
    <3> QED BY <3>1 DEF LeaseOwner, slotVars, implVars, threadVars, ghostVars, Release,
         lease_live
  <2>4. ASSUME NEW h \in held' PROVE lease_live(h)' /\ load'[h.slot] = h.load
    <3>1. h \in held /\ (h.slot # k.slot \/ h.index # k.index)
      BY <1>s, <2>4 DEF LeaseOwner, slotVars, implVars, threadVars, ghostVars, Release,
           lease_live
    <3>2. lease_live(h) /\ load[h.slot] = h.load /\ h.slot \in Slots /\ h.index \in LeaseSlots
      BY ZenonT(30), <2>0, <3>1 DEF LeaseOwner
    <3> QED BY <1>s, <1>b, <3>1, <3>2 DEF lease_live, occupied, TypeOK, slotVars,
         implVars, threadVars, ghostVars, Release
  <2>5. \A g, h \in held' : g.slot = h.slot /\ g.index = h.index => g = h
    BY DEF LeaseOwner, slotVars, implVars, threadVars, ghostVars, Release, lease_live
  <2> QED BY ZenonT(30), <2>1, <2>2, <2>3, <2>4, <2>5 DEF LeaseOwner
<1>5. GenerationBound'
  <2>1. /\ generation' = generation /\ manifest' = manifest /\ loads' = loads
        /\ loadsInflight' = loadsInflight /\ acquires' = acquires
    BY DEF slotVars, implVars, threadVars, ghostVars, Release, lease_live
  <2>2. ASSUME NEW x \in Slots, NEW j \in LeaseSlots
        PROVE  /\ leaseGeneration'[x][j] <= generation[x] + acquires
               /\ j \in leaseMask'[x] => leaseGeneration'[x][j] < generation[x] + acquires
    <3>0. generation[x] \in Nat /\ acquires \in Nat /\ leaseGeneration[x][j] \in Nat
      BY DEF TypeOK
    <3>1. CASE x = k.slot /\ j = k.index
      <4>1. leaseGeneration'[x][j] = leaseGeneration[x][j] + 1 /\ j \notin leaseMask'[x]
        BY <1>s, <1>b, <3>1 DEF TypeOK, slotVars, implVars, threadVars, ghostVars,
             Release, lease_live
      <4>2. leaseGeneration[x][j] < generation[x] + acquires
        BY ZenonT(30), <1>s, <3>1 DEF GenerationBound
      <4> QED BY <3>0, <4>1, <4>2
    <3>2. CASE ~(x = k.slot /\ j = k.index)
      <4>1. leaseGeneration'[x][j] = leaseGeneration[x][j] /\ (j \in leaseMask'[x] => j \in leaseMask[x])
        BY <1>s, <1>b, <3>2 DEF TypeOK, slotVars, implVars, threadVars, ghostVars,
             Release, lease_live
      <4> QED BY ZenonT(30), <3>0, <4>1 DEF GenerationBound
    <3> QED BY <3>1, <3>2
  <2> QED BY ZenonT(30), <2>1, <2>2 DEF GenerationBound, occupied
<1>6. TokenAge'
  <2>1. ASSUME NEW h \in tokens
        PROVE  /\ h.leaseGeneration <= leaseGeneration'[h.slot][h.index]
               /\ h.leaseGeneration = leaseGeneration'[h.slot][h.index] => h \in held'
    <3>0. /\ h.slot \in Slots /\ h.index \in LeaseSlots /\ h.leaseGeneration \in Nat
          /\ leaseGeneration[h.slot][h.index] \in Nat
      BY DEF TypeOK, Token
    <3>1. CASE h.slot = k.slot /\ h.index = k.index
      <4>1. leaseGeneration'[h.slot][h.index] = leaseGeneration[h.slot][h.index] + 1
        BY <1>s, <1>b, <3>1 DEF TypeOK
      <4> QED BY <3>0, <4>1 DEF TokenAge
    <3>2. CASE ~(h.slot = k.slot /\ h.index = k.index)
      <4>1. leaseGeneration'[h.slot][h.index] = leaseGeneration[h.slot][h.index] /\ h # k
        BY <1>s, <1>b, <3>0, <3>2 DEF TypeOK
      <4> QED BY <3>0, <4>1 DEF TokenAge, slotVars, implVars, threadVars, ghostVars,
           Release, lease_live
    <3> QED BY ZenonT(30), <3>1, <3>2
  <2> QED BY <2>1 DEF TokenAge, slotVars, implVars, threadVars, ghostVars, Release,
       lease_live
<1>7. DestroyWalk'
  BY <1>s, <1>b DEF DestroyWalk, TypeOK, occupied, CallShape, slotVars, implVars,
       threadVars, ghostVars, Release, lease_live
<1> QED BY <1>w, <1>1, <1>2, <1>3, <1>4, <1>5, <1>6, <1>7 DEF IInv
=============================================================================
