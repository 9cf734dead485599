--------------------------- MODULE PluginRegistry ---------------------------
(* The plugin registry, and its promise.                                      *)
EXTENDS Integers, FiniteSets

CONSTANTS
    Threads,            \* the host threads that call the registry
    Plugins,            \* plugin ids
    Managed,            \* plugins with lifecycle callbacks; the others are passive
    NoPlugin,           \* the manifest of a free slot
    Capacity,           \* config->capacity
    LeasesPerPlugin,    \* CMETA_PLUGIN_MAX_LEASES_PER_PLUGIN
    GenerationModulus,  \* 2^32: generations are uint32_t and skip 0
    MaxLoads,           \* bound: loads published in one run
    MaxAcquires         \* bound: leases issued in one run

VARIABLES
    \* cmeta_plugin_registry_slot, field by field
    manifest, library, generation, state, callbacks,
    activeLeases, leaseMask, leaseGeneration, unloading, destroyCalled,
    \* cmeta_plugin_registry_impl
    impl, count, loadsInflight, destroying,
    \* the call each thread is in: its position and its locals
    pc, slotOf, candidate, whole,
    \* history: which load a slot holds, the tokens callers were given,
    \* and how often a slot's destroy callback was entered
    load, refs, tokens, held, loads, acquires, destroyRuns

-----------------------------------------------------------------------------
(***************************************************************************)
(* The bounded registry of dynamic plugins, plugin/src/plugin_registry.c:  *)
(* slots, lifecycle states, lease slots, and the operations that any       *)
(* thread may call.  Every operation holds the registry's mutex in         *)
(* sections; a section is one action.  The loader (dlopen, dlclose) and    *)
(* the plugin's own callbacks run between two sections, with the mutex     *)
(* released, so other threads' sections interleave there.                  *)
(*                                                                         *)
(* A call that fails a check changes nothing and returns: it is the        *)
(* absence of a step.  find, get_lifecycle and count only read.            *)
(***************************************************************************)

ASSUME CapacityAssumption == Capacity \in Nat \ {0}
ASSUME LeasesAssumption   == LeasesPerPlugin \in Nat \ {0}
ASSUME PluginAssumption   == Managed \subseteq Plugins /\ NoPlugin \notin Plugins
ASSUME ThreadsAssumption  == IsFiniteSet(Threads)
\* No generation counter wraps in a run: wrapping takes 2^32 - 1 reuses.
ASSUME NoWrapAssumption   == /\ MaxLoads \in Nat /\ MaxAcquires \in Nat
                             /\ GenerationModulus \in Nat
                             /\ MaxLoads + MaxAcquires + 1 < GenerationModulus

slotVars   == <<manifest, library, generation, state, callbacks, activeLeases,
                leaseMask, leaseGeneration, unloading, destroyCalled>>
implVars   == <<impl, count, loadsInflight, destroying>>
threadVars == <<pc, slotOf, candidate, whole>>
ghostVars  == <<load, refs, tokens, held, loads, acquires, destroyRuns>>
vars       == <<slotVars, implVars, threadVars, ghostVars>>

Slots      == 1 .. Capacity
LeaseSlots == 1 .. LeasesPerPlugin

States == {"NONE", "LOADED", "STARTING", "STARTED", "STOPPING", "QUIESCENT"}

\* Positions inside a call, between two locked sections.
Loading     == {"open", "query", "reject", "unreserve"}
InCallback  == {"start", "request_stop", "is_quiescent", "destroy"}
Closing     == {"destroy", "close", "closed", "close_failed"}
PCs         == {"idle", "destroy_next"} \cup Loading \cup InCallback \cup Closing

occupied(s) == manifest[s] # NoPlugin

\* Mutant: a reused slot keeps its generation.
next_generationKept(g) == g

next_generation(g) == IF g + 1 = GenerationModulus THEN 1 ELSE g + 1

\* slot_for_ref_locked: does a reference still name what its slot holds?
slot_for_ref(r) == occupied(r.slot) /\ generation[r.slot] = r.generation

\* The checks of release(): does a token still name an active lease?
lease_live(k) ==
    /\ occupied(k.slot)
    /\ generation[k.slot] = k.generation
    /\ k.index \in leaseMask[k.slot]
    /\ leaseGeneration[k.slot][k.index] = k.leaseGeneration

Init ==
    /\ manifest        = [s \in Slots |-> NoPlugin]
    /\ library         = [s \in Slots |-> FALSE]
    /\ generation      = [s \in Slots |-> 1]
    /\ state           = [s \in Slots |-> "NONE"]
    /\ callbacks       = [s \in Slots |-> 0]
    /\ activeLeases    = [s \in Slots |-> 0]
    /\ leaseMask       = [s \in Slots |-> {}]
    /\ leaseGeneration = [s \in Slots |-> [i \in LeaseSlots |-> 1]]
    /\ unloading       = [s \in Slots |-> FALSE]
    /\ destroyCalled   = [s \in Slots |-> FALSE]
    /\ impl = TRUE /\ count = 0 /\ loadsInflight = 0 /\ destroying = FALSE
    /\ pc        = [t \in Threads |-> "idle"]
    /\ slotOf    = [t \in Threads |-> 1]
    /\ candidate = [t \in Threads |-> NoPlugin]
    /\ whole     = [t \in Threads |-> FALSE]
    /\ load = [s \in Slots |-> 0] /\ destroyRuns = [s \in Slots |-> 0]
    /\ refs = {} /\ tokens = {} /\ held = {} /\ loads = 0 /\ acquires = 0

\* registry_init() on the storage a final destroy left behind: a new
\* incarnation, whose host has dropped every token of the old one.
RegistryInit ==
    /\ ~impl
    /\ impl' = TRUE
    /\ destroying' = FALSE
    /\ generation' = [s \in Slots |-> 1]
    /\ leaseGeneration' = [s \in Slots |-> [i \in LeaseSlots |-> 1]]
    /\ refs' = {} /\ tokens' = {}
    /\ UNCHANGED <<manifest, library, state, callbacks, activeLeases, leaseMask,
                   unloading, destroyCalled, count, loadsInflight, threadVars,
                   load, held, loads, acquires, destroyRuns>>

-----------------------------------------------------------------------------
(* load(): reserve, open and query unlocked, publish or give up.           *)

LoadReserve(t, p) ==
    /\ impl /\ pc[t] = "idle"
    /\ ~destroying
    /\ count < Capacity /\ loadsInflight < Capacity - count
    /\ loads + loadsInflight < MaxLoads
    /\ loadsInflight' = loadsInflight + 1
    /\ pc' = [pc EXCEPT ![t] = "open"]
    /\ candidate' = [candidate EXCEPT ![t] = p]
    /\ UNCHANGED <<slotVars, impl, count, destroying, slotOf, whole, ghostVars>>

\* platform_open() fails: only the reservation is given back.
LoadOpen(t, ok) ==
    /\ pc[t] = "open"
    /\ IF ok
       THEN /\ pc' = [pc EXCEPT ![t] = "query"]
            /\ UNCHANGED <<loadsInflight, candidate>>
       ELSE /\ pc' = [pc EXCEPT ![t] = "idle"]
            /\ candidate' = [candidate EXCEPT ![t] = NoPlugin]
            /\ loadsInflight' = loadsInflight - 1
    /\ UNCHANGED <<slotVars, impl, count, destroying, slotOf, whole, ghostVars>>

\* query() returns no manifest, or one that manifest_validate() refuses.
LoadQueryRejected(t) ==
    /\ pc[t] = "query"
    /\ pc' = [pc EXCEPT ![t] = "reject"]
    /\ UNCHANGED <<slotVars, implVars, slotOf, candidate, whole, ghostVars>>

FirstFree(s) == ~occupied(s) /\ \A other \in Slots : ~occupied(other) => s <= other

\* Mutant: the duplicate id is not looked for again before publication.
LoadRefusedUnchecked(t) == destroying \/ \A s \in Slots : occupied(s)

\* The rejections of the second locked section.
LoadRefused(t) ==
    \/ destroying
    \/ \E s \in Slots : manifest[s] = candidate[t]
    \/ \A s \in Slots : occupied(s)

LoadPublishRejected(t) ==
    /\ pc[t] = "query"
    /\ LoadRefused(t)
    /\ pc' = [pc EXCEPT ![t] = "reject"]
    /\ UNCHANGED <<slotVars, implVars, slotOf, candidate, whole, ghostVars>>

LoadPublish(t, s) ==
    /\ pc[t] = "query"
    /\ ~LoadRefused(t)
    /\ FirstFree(s)
    /\ manifest'      = [manifest EXCEPT ![s] = candidate[t]]
    /\ library'       = [library EXCEPT ![s] = TRUE]
    /\ state'         = [state EXCEPT ![s] = "LOADED"]
    /\ unloading'     = [unloading EXCEPT ![s] = FALSE]
    /\ destroyCalled' = [destroyCalled EXCEPT ![s] = FALSE]
    /\ callbacks'     = [callbacks EXCEPT ![s] = 0]
    /\ activeLeases'  = [activeLeases EXCEPT ![s] = 0]
    /\ leaseMask'     = [leaseMask EXCEPT ![s] = {}]
    /\ count' = count + 1
    /\ loadsInflight' = loadsInflight - 1
    /\ pc' = [pc EXCEPT ![t] = "idle"]
    /\ candidate' = [candidate EXCEPT ![t] = NoPlugin]
    /\ loads' = loads + 1
    /\ load' = [load EXCEPT ![s] = loads + 1]
    /\ destroyRuns' = [destroyRuns EXCEPT ![s] = 0]
    /\ refs' = refs \cup {[slot |-> s, generation |-> generation[s], load |-> loads + 1]}
    /\ UNCHANGED <<generation, leaseGeneration, impl, destroying, slotOf, whole,
                   tokens, held, acquires>>

\* Mutant: the reservation is given back with the close and once more after it.
LoadCloseRejectedTwice(t) ==
    /\ pc[t] = "reject"
    /\ pc' = [pc EXCEPT ![t] = "unreserve"]
    /\ loadsInflight' = loadsInflight - 1
    /\ UNCHANGED <<slotVars, impl, count, destroying, slotOf, candidate, whole, ghostVars>>

\* close_rejected_load(): platform_close(), then the reservation goes back in
\* a locked section of its own.  A failed close leaks the candidate's handle.
LoadCloseRejected(t) ==
    /\ pc[t] = "reject"
    /\ pc' = [pc EXCEPT ![t] = "unreserve"]
    /\ UNCHANGED <<slotVars, implVars, slotOf, candidate, whole, ghostVars>>

LoadUnreserve(t) ==
    /\ pc[t] = "unreserve"
    /\ loadsInflight' = loadsInflight - 1
    /\ pc' = [pc EXCEPT ![t] = "idle"]
    /\ candidate' = [candidate EXCEPT ![t] = NoPlugin]
    /\ UNCHANGED <<slotVars, impl, count, destroying, slotOf, whole, ghostVars>>

-----------------------------------------------------------------------------
(* start(), request_stop(), poll_quiescent(): a locked section, the        *)
(* plugin's callback if it has one, and a second locked section.           *)

\* The preamble of every call that takes a reference.
Admits(t, r) ==
    /\ impl /\ pc[t] = "idle"
    /\ slot_for_ref(r)
    /\ ~destroying /\ ~unloading[r.slot]

\* Enter callback c of slot s with the mutex released.
EnterCallback(t, s, c) ==
    /\ callbacks' = [callbacks EXCEPT ![s] = @ + 1]
    /\ pc' = [pc EXCEPT ![t] = c]
    /\ slotOf' = [slotOf EXCEPT ![t] = s]

LeaveCallback(t, c) ==
    /\ pc[t] = c
    /\ callbacks' = [callbacks EXCEPT ![slotOf[t]] = @ - 1]
    /\ pc' = [pc EXCEPT ![t] = "idle"]
    /\ UNCHANGED <<slotOf, candidate, whole>>

Start(t, r) ==
    /\ Admits(t, r)
    /\ state[r.slot] = "LOADED"
    /\ activeLeases[r.slot] = 0 /\ callbacks[r.slot] = 0
    /\ IF manifest[r.slot] \in Managed
       THEN /\ state' = [state EXCEPT ![r.slot] = "STARTING"]
            /\ EnterCallback(t, r.slot, "start")
       ELSE /\ state' = [state EXCEPT ![r.slot] = "STARTED"]
            /\ UNCHANGED <<callbacks, pc, slotOf>>
    /\ UNCHANGED <<manifest, library, generation, activeLeases, leaseMask,
                   leaseGeneration, unloading, destroyCalled, implVars,
                   candidate, whole, ghostVars>>

StartReturns(t, ok) ==
    /\ LeaveCallback(t, "start")
    /\ state' = [state EXCEPT ![slotOf[t]] = IF ok THEN "STARTED" ELSE "QUIESCENT"]
    /\ UNCHANGED <<manifest, library, generation, activeLeases, leaseMask,
                   leaseGeneration, unloading, destroyCalled, implVars, ghostVars>>

RequestStop(t, r) ==
    /\ Admits(t, r)
    /\ state[r.slot] = "STARTED"
    /\ state' = [state EXCEPT ![r.slot] = "STOPPING"]
    /\ IF manifest[r.slot] \in Managed
       THEN EnterCallback(t, r.slot, "request_stop")
       ELSE UNCHANGED <<callbacks, pc, slotOf>>
    /\ UNCHANGED <<manifest, library, generation, activeLeases, leaseMask,
                   leaseGeneration, unloading, destroyCalled, implVars,
                   candidate, whole, ghostVars>>

RequestStopReturns(t) ==
    /\ LeaveCallback(t, "request_stop")
    /\ UNCHANGED <<manifest, library, generation, state, activeLeases, leaseMask,
                   leaseGeneration, unloading, destroyCalled, implVars, ghostVars>>

\* Mutant: a plugin with leases out may become quiescent.
PollQuiescentLeased(t, r) ==
    /\ Admits(t, r)
    /\ state[r.slot] = "STOPPING"
    /\ callbacks[r.slot] = 0
    /\ IF manifest[r.slot] \in Managed
       THEN EnterCallback(t, r.slot, "is_quiescent") /\ UNCHANGED state
       ELSE /\ state' = [state EXCEPT ![r.slot] = "QUIESCENT"]
            /\ UNCHANGED <<callbacks, pc, slotOf>>
    /\ UNCHANGED <<manifest, library, generation, activeLeases, leaseMask,
                   leaseGeneration, unloading, destroyCalled, implVars,
                   candidate, whole, ghostVars>>

\* Mutant: the poll does not wait for the request_stop callback.
PollQuiescentReentrant(t, r) ==
    /\ Admits(t, r)
    /\ state[r.slot] = "STOPPING"
    /\ activeLeases[r.slot] = 0
    /\ IF manifest[r.slot] \in Managed
       THEN EnterCallback(t, r.slot, "is_quiescent") /\ UNCHANGED state
       ELSE /\ state' = [state EXCEPT ![r.slot] = "QUIESCENT"]
            /\ UNCHANGED <<callbacks, pc, slotOf>>
    /\ UNCHANGED <<manifest, library, generation, activeLeases, leaseMask,
                   leaseGeneration, unloading, destroyCalled, implVars,
                   candidate, whole, ghostVars>>

PollQuiescent(t, r) ==
    /\ Admits(t, r)
    /\ state[r.slot] = "STOPPING"
    /\ activeLeases[r.slot] = 0 /\ callbacks[r.slot] = 0
    /\ IF manifest[r.slot] \in Managed
       THEN EnterCallback(t, r.slot, "is_quiescent") /\ UNCHANGED state
       ELSE /\ state' = [state EXCEPT ![r.slot] = "QUIESCENT"]
            /\ UNCHANGED <<callbacks, pc, slotOf>>
    /\ UNCHANGED <<manifest, library, generation, activeLeases, leaseMask,
                   leaseGeneration, unloading, destroyCalled, implVars,
                   candidate, whole, ghostVars>>

PollQuiescentReturns(t, quiescent) ==
    /\ LeaveCallback(t, "is_quiescent")
    /\ state' = IF quiescent THEN [state EXCEPT ![slotOf[t]] = "QUIESCENT"] ELSE state
    /\ UNCHANGED <<manifest, library, generation, activeLeases, leaseMask,
                   leaseGeneration, unloading, destroyCalled, implVars, ghostVars>>

-----------------------------------------------------------------------------
(* acquire() and release(): one locked section each.                       *)

FirstFreeLease(s, i) ==
    i \notin leaseMask[s] /\ \A j \in LeaseSlots : j \notin leaseMask[s] => i <= j

Acquire(t, r, i) ==
    /\ Admits(t, r)
    /\ state[r.slot] = "STARTED"
    /\ FirstFreeLease(r.slot, i)
    /\ acquires < MaxAcquires
    /\ leaseMask' = [leaseMask EXCEPT ![r.slot] = @ \cup {i}]
    /\ activeLeases' = [activeLeases EXCEPT ![r.slot] = @ + 1]
    /\ acquires' = acquires + 1
    /\ LET k == [slot |-> r.slot, generation |-> r.generation, index |-> i,
                 leaseGeneration |-> leaseGeneration[r.slot][i],
                 load |-> r.load]
       IN  tokens' = tokens \cup {k} /\ held' = held \cup {k}
    /\ UNCHANGED <<manifest, library, generation, state, callbacks, leaseGeneration,
                   unloading, destroyCalled, implVars, threadVars, load, refs,
                   loads, destroyRuns>>

\* Any token ever issued may be presented, a stale copy included.  A plugin
\* may be stopping meanwhile: release() does not look at unloading.
Release(t, k) ==
    /\ impl /\ pc[t] = "idle"
    /\ lease_live(k)
    /\ leaseMask' = [leaseMask EXCEPT ![k.slot] = @ \ {k.index}]
    /\ leaseGeneration' = [leaseGeneration EXCEPT ![k.slot][k.index] = next_generation(@)]
    /\ activeLeases' = [activeLeases EXCEPT ![k.slot] = IF @ # 0 THEN @ - 1 ELSE 0]
    /\ held' = held \ {k}
    /\ UNCHANGED <<manifest, library, generation, state, callbacks, unloading,
                   destroyCalled, implVars, threadVars, load, refs, tokens,
                   loads, acquires, destroyRuns>>

-----------------------------------------------------------------------------
(* unload() of one slot, and destroy() of the registry, which runs the     *)
(* same sequence over every occupied slot: destroy callback (once in the   *)
(* life of a load), platform_close(), clear the slot.                      *)

Unloadable(s) ==
    /\ state[s] \in {"LOADED", "QUIESCENT"}
    /\ activeLeases[s] = 0 /\ callbacks[s] = 0

BeginClose(t, s) ==
    /\ unloading' = [unloading EXCEPT ![s] = TRUE]
    /\ slotOf' = [slotOf EXCEPT ![t] = s]
    /\ IF ~destroyCalled[s] /\ manifest[s] \in Managed
       THEN /\ callbacks' = [callbacks EXCEPT ![s] = @ + 1]
            /\ destroyRuns' = [destroyRuns EXCEPT ![s] = @ + 1]
            /\ pc' = [pc EXCEPT ![t] = "destroy"]
       ELSE /\ pc' = [pc EXCEPT ![t] = "close"]
            /\ UNCHANGED <<callbacks, destroyRuns>>
    /\ UNCHANGED <<manifest, library, generation, state, activeLeases, leaseMask,
                   leaseGeneration, destroyCalled, candidate, load, refs, tokens,
                   held, loads, acquires>>

Unload(t, r) ==
    /\ Admits(t, r)
    /\ Unloadable(r.slot)
    /\ BeginClose(t, r.slot)
    /\ UNCHANGED <<implVars, whole>>

\* Mutant: destroy_called is not recorded.
DestroyReturnsForgotten(t) ==
    /\ pc[t] = "destroy"
    /\ callbacks' = [callbacks EXCEPT ![slotOf[t]] = @ - 1]
    /\ state' = [state EXCEPT ![slotOf[t]] = "QUIESCENT"]
    /\ pc' = [pc EXCEPT ![t] = "close"]
    /\ UNCHANGED <<manifest, library, generation, activeLeases, leaseMask,
                   leaseGeneration, unloading, destroyCalled, implVars, slotOf,
                   candidate, whole, ghostVars>>

DestroyReturns(t) ==
    /\ pc[t] = "destroy"
    /\ callbacks' = [callbacks EXCEPT ![slotOf[t]] = @ - 1]
    /\ destroyCalled' = [destroyCalled EXCEPT ![slotOf[t]] = TRUE]
    /\ state' = [state EXCEPT ![slotOf[t]] = "QUIESCENT"]
    /\ pc' = [pc EXCEPT ![t] = "close"]
    /\ UNCHANGED <<manifest, library, generation, activeLeases, leaseMask,
                   leaseGeneration, unloading, implVars, slotOf, candidate,
                   whole, ghostVars>>

PlatformClose(t, ok) ==
    /\ pc[t] = "close"
    /\ IF ok
       THEN /\ library' = [library EXCEPT ![slotOf[t]] = FALSE]
            /\ pc' = [pc EXCEPT ![t] = "closed"]
       ELSE /\ pc' = [pc EXCEPT ![t] = "close_failed"]
            /\ UNCHANGED library
    /\ UNCHANGED <<manifest, generation, state, callbacks, activeLeases, leaseMask,
                   leaseGeneration, unloading, destroyCalled, implVars, slotOf,
                   candidate, whole, ghostVars>>

clear_slot_locked(s) ==
    /\ manifest'      = [manifest EXCEPT ![s] = NoPlugin]
    /\ unloading'     = [unloading EXCEPT ![s] = FALSE]
    /\ destroyCalled' = [destroyCalled EXCEPT ![s] = FALSE]
    /\ state'         = [state EXCEPT ![s] = "NONE"]
    /\ callbacks'     = [callbacks EXCEPT ![s] = 0]
    /\ activeLeases'  = [activeLeases EXCEPT ![s] = 0]
    /\ leaseMask'     = [leaseMask EXCEPT ![s] = {}]
    /\ generation'    = [generation EXCEPT ![s] = next_generation(@)]
    /\ leaseGeneration' = [leaseGeneration EXCEPT ![s] =
                              [i \in LeaseSlots |-> next_generation(@[i])]]
    /\ count' = IF count # 0 THEN count - 1 ELSE 0

ClearClosed(t) ==
    /\ pc[t] = "closed"
    /\ clear_slot_locked(slotOf[t])
    /\ IF whole[t]
       THEN /\ pc' = [pc EXCEPT ![t] = "destroy_next"]
            /\ slotOf' = [slotOf EXCEPT ![t] = @ + 1]
       ELSE /\ pc' = [pc EXCEPT ![t] = "idle"]
            /\ UNCHANGED slotOf
    /\ UNCHANGED <<library, impl, loadsInflight, destroying, candidate, whole,
                   ghostVars>>

\* Mutant: a failed close leaves the slot marked as unloading.
KeepUnclosedBusy(t) ==
    /\ pc[t] = "close_failed"
    /\ destroying' = IF whole[t] THEN FALSE ELSE destroying
    /\ whole' = [whole EXCEPT ![t] = FALSE]
    /\ pc' = [pc EXCEPT ![t] = "idle"]
    /\ UNCHANGED <<slotVars, impl, count, loadsInflight, slotOf, candidate, ghostVars>>

\* A failed close keeps the slot, ready for a retry, and ends a destroy().
KeepUnclosed(t) ==
    /\ pc[t] = "close_failed"
    /\ unloading' = [unloading EXCEPT ![slotOf[t]] = FALSE]
    /\ destroying' = IF whole[t] THEN FALSE ELSE destroying
    /\ whole' = [whole EXCEPT ![t] = FALSE]
    /\ pc' = [pc EXCEPT ![t] = "idle"]
    /\ UNCHANGED <<manifest, library, generation, state, callbacks, activeLeases,
                   leaseMask, leaseGeneration, destroyCalled, impl, count,
                   loadsInflight, slotOf, candidate, ghostVars>>

DestroyRegistry(t) ==
    /\ impl /\ pc[t] = "idle"
    /\ ~destroying /\ loadsInflight = 0
    /\ \A s \in Slots : occupied(s) => ~unloading[s] /\ Unloadable(s)
    /\ destroying' = TRUE
    /\ whole' = [whole EXCEPT ![t] = TRUE]
    /\ slotOf' = [slotOf EXCEPT ![t] = 1]
    /\ pc' = [pc EXCEPT ![t] = "destroy_next"]
    /\ UNCHANGED <<slotVars, impl, count, loadsInflight, candidate, ghostVars>>

DestroySkip(t) ==
    /\ pc[t] = "destroy_next"
    /\ slotOf[t] \in Slots /\ ~occupied(slotOf[t])
    /\ slotOf' = [slotOf EXCEPT ![t] = @ + 1]
    /\ UNCHANGED <<slotVars, implVars, pc, candidate, whole, ghostVars>>

DestroySlot(t) ==
    /\ pc[t] = "destroy_next"
    /\ slotOf[t] \in Slots /\ occupied(slotOf[t])
    /\ BeginClose(t, slotOf[t])
    /\ UNCHANGED <<implVars, whole>>

\* registry->impl = NULL, and the storage is freed.
DestroyFinish(t) ==
    /\ pc[t] = "destroy_next"
    /\ slotOf[t] \notin Slots
    /\ impl' = FALSE
    /\ pc' = [pc EXCEPT ![t] = "idle"]
    /\ slotOf' = [slotOf EXCEPT ![t] = 1]
    /\ whole' = [whole EXCEPT ![t] = FALSE]
    /\ UNCHANGED <<slotVars, count, loadsInflight, destroying, candidate, ghostVars>>

-----------------------------------------------------------------------------
\* A call the host decides to make.
Call(t) ==
    \/ \E p \in Plugins : LoadReserve(t, p)
    \/ \E r \in refs : Start(t, r) \/ RequestStop(t, r) \/ PollQuiescent(t, r)
                         \/ Unload(t, r) \/ \E i \in LeaseSlots : Acquire(t, r, i)
    \/ \E k \in tokens : Release(t, k)
    \/ DestroyRegistry(t)

\* A call that is under way goes on.
Continue(t) ==
    \/ \E ok \in BOOLEAN : LoadOpen(t, ok) \/ StartReturns(t, ok)
                             \/ PollQuiescentReturns(t, ok) \/ PlatformClose(t, ok)
    \/ LoadQueryRejected(t) \/ LoadPublishRejected(t)
    \/ \E s \in Slots : LoadPublish(t, s)
    \/ LoadCloseRejected(t) \/ LoadUnreserve(t)
    \/ RequestStopReturns(t)
    \/ DestroyReturns(t) \/ ClearClosed(t) \/ KeepUnclosed(t)
    \/ DestroySkip(t) \/ DestroySlot(t) \/ DestroyFinish(t)

Next == RegistryInit \/ \E t \in Threads : Call(t) \/ Continue(t)

Spec == Init /\ [][Next]_vars

-----------------------------------------------------------------------------
(* Properties.                                                             *)

Ref   == [slot : Slots, generation : Nat \ {0}, load : Nat \ {0}]
Token == [slot : Slots, generation : Nat \ {0}, index : LeaseSlots,
          leaseGeneration : Nat \ {0}, load : Nat \ {0}]

\* The types of the registry's fields, of the calls under way and of the
\* tokens the callers of load() and acquire() hold.
TypeOK ==
    /\ manifest \in [Slots -> Plugins \cup {NoPlugin}]
    /\ library \in [Slots -> BOOLEAN]
    /\ generation \in [Slots -> Nat \ {0}]
    /\ state \in [Slots -> States]
    /\ callbacks \in [Slots -> Nat]
    /\ activeLeases \in [Slots -> Nat]
    /\ leaseMask \in [Slots -> SUBSET LeaseSlots]
    /\ leaseGeneration \in [Slots -> [LeaseSlots -> Nat \ {0}]]
    /\ unloading \in [Slots -> BOOLEAN]
    /\ destroyCalled \in [Slots -> BOOLEAN]
    /\ impl \in BOOLEAN /\ count \in Nat /\ loadsInflight \in Nat
    /\ destroying \in BOOLEAN
    /\ pc \in [Threads -> PCs]
    /\ slotOf \in [Threads -> 1 .. Capacity + 1]
    /\ candidate \in [Threads -> Plugins \cup {NoPlugin}]
    /\ whole \in [Threads -> BOOLEAN]
    /\ load \in [Slots -> Nat] /\ destroyRuns \in [Slots -> Nat]
    /\ refs \subseteq Ref /\ tokens \subseteq Token /\ held \subseteq tokens
    /\ loads \in Nat /\ acquires \in Nat

\* A lease that its owner has not released keeps its plugin: the slot still
\* holds the load it was acquired from, the DSO is open, no unload or destroy
\* has begun on it, and its destroy callback has not run.
LeasePinsPlugin ==
    \A k \in held :
        /\ lease_live(k) /\ load[k.slot] = k.load
        /\ library[k.slot] /\ ~unloading[k.slot]
        /\ destroyRuns[k.slot] = 0
        /\ state[k.slot] \in {"STARTED", "STOPPING"}

\* A historical reference is stale or names the load it was issued for, and
\* a released token is stale, however often slots and lease slots are reused.
StaleTokensRejected ==
    /\ \A r \in refs : slot_for_ref(r) => load[r.slot] = r.load
    /\ \A k \in tokens \ held : ~lease_live(k)

\* While a callback of a plugin runs unlocked its DSO is open, its slot still
\* belongs to it, and no second callback of the same plugin runs.
CallbacksExclusive ==
    \A t \in Threads : pc[t] \in InCallback =>
        /\ occupied(slotOf[t]) /\ library[slotOf[t]]
        /\ callbacks[slotOf[t]] = 1
        /\ \A u \in Threads \ {t} :
               pc[u] \in InCallback \cup Closing => slotOf[u] # slotOf[t]

\* The destroy callback runs at most once in the life of a load, also when
\* platform_close() fails and unload() or destroy() is retried; after it
\* began, no other callback of that load runs and no lease on it exists.
DestroyOnce ==
    \A s \in Slots : occupied(s) =>
        /\ destroyRuns[s] <= 1
        /\ destroyRuns[s] = 1 =>
             /\ leaseMask[s] = {}
             /\ \A t \in Threads : slotOf[t] = s => pc[t] \notin InCallback \ {"destroy"}

\* active_leases, which unload() and destroy() test, counts the bits of the
\* mask and the leases that callers really hold.
LeaseCountExact ==
    \A s \in Slots :
        /\ activeLeases[s] = Cardinality(leaseMask[s])
        /\ leaseMask[s] = {k.index : k \in {h \in held : h.slot = s}}

\* Two loads of one plugin id race through the unlocked part of load(), and
\* still no two slots hold the same id.
UniqueIds ==
    \A s1, s2 \in Slots : occupied(s1) /\ manifest[s1] = manifest[s2] => s1 = s2

\* The reservation taken before dlopen() guarantees the free slot that the
\* publication takes: load() never loads a DSO it has no room for.
ReservationHonoured ==
    /\ count = Cardinality({s \in Slots : occupied(s)})
    /\ \A t \in Threads : pc[t] = "query" => \E s \in Slots : ~occupied(s)

\* When destroy() frees the registry no other thread is inside a call that
\* will lock it again, no slot is occupied and no lease is out.
NoUseAfterFree ==
    ~impl => /\ \A t \in Threads : pc[t] = "idle"
             /\ \A s \in Slots : ~occupied(s) /\ ~library[s]
             /\ held = {}

\* While destroy() walks the slots it is the only call under way.
DestroyExclusive ==
    destroying => \A t \in Threads : pc[t] = "idle" \/ whole[t]

\* Two threads race through the unlocked part of load() and neither loads an
\* id the other has published, nor a DSO it finds no slot for.
AdmissionSound == UniqueIds /\ ReservationHonoured

\* However unload(), destroy() and their retries after a failed close
\* interleave with loads and callbacks: the destroy callback of a load runs at
\* most once and last, destroy() works alone, and it frees an empty registry.
DestructionSafe == DestroyOnce /\ DestroyExclusive /\ NoUseAfterFree

\* A plugin that was asked to stop is unloaded in the end: request_stop()
\* closes the admission of leases, so those that are out drain.
StopLeadsToUnload ==
    \A s \in Slots, l \in 1 .. MaxLoads :
        (state[s] = "STOPPING" /\ load[s] = l) ~> (~occupied(s) \/ load[s] # l)

-----------------------------------------------------------------------------
(* The registry seen through its promise: PluginRegistry implements          *)
(* PluginLeases under the mapping below.                                     *)

(* A plugin is in the process while some slot holds it with its DSO open.    *)
HolderOf(p) == {s \in Slots : manifest[s] = p /\ library[s]}

PhaseOf(st) ==
    CASE st \in {"LOADED", "STARTING"} -> "LOADED"
      [] st = "STARTED" -> "UP"
      [] st = "STOPPING" -> "STOPPING"
      [] OTHER -> "QUIET"

PhaseBar ==
    [p \in Plugins |-> IF HolderOf(p) = {} THEN "OUT"
                       ELSE PhaseOf(state[CHOOSE s \in HolderOf(p) : TRUE])]

OutstandingBar == [p \in Plugins |-> Cardinality({k \in held : manifest[k.slot] = p})]

P == INSTANCE PluginLeases WITH phase <- PhaseBar, outstanding <- OutstandingBar

(* Every behaviour of the registry is a behaviour of its promise: stop, poll, *)
(* unload and destroy, whatever they race with, never take the code away      *)
(* from under a lease, and no plugin goes back to an earlier phase.          *)
ImplementsLeases == P!Spec
=============================================================================
