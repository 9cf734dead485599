---------------------------- MODULE PluginLeases ----------------------------
(* What the plugin registry promises its users: a plugin that is started     *)
(* hands out leases, and its code stays in the process until every lease is  *)
(* back.  Slots, generations, callbacks, locking and the loader are hidden.  *)
EXTENDS Naturals

CONSTANT Plugins

VARIABLES phase,        \* OUT (not in the process), LOADED, UP, STOPPING or QUIET
          outstanding   \* leases of a plugin that are out

Phases == {"OUT", "LOADED", "UP", "STOPPING", "QUIET"}

Init ==
    /\ phase = [p \in Plugins |-> "OUT"]
    /\ outstanding = [p \in Plugins |-> 0]

Move(p, from, to) ==
    /\ phase[p] \in from
    /\ phase' = [phase EXCEPT ![p] = to]
    /\ UNCHANGED outstanding

Load(p) == Move(p, {"OUT"}, "LOADED")

Start(p) == Move(p, {"LOADED"}, "UP")

(* A start that fails, or a plugin destroyed before it was ever started.     *)
Retire(p) == Move(p, {"LOADED"}, "QUIET")

RequestStop(p) == Move(p, {"UP"}, "STOPPING")

Quiesce(p) == outstanding[p] = 0 /\ Move(p, {"STOPPING"}, "QUIET")

Unload(p) == outstanding[p] = 0 /\ Move(p, {"LOADED", "QUIET"}, "OUT")

Acquire(p) ==
    /\ phase[p] = "UP"
    /\ outstanding' = [outstanding EXCEPT ![p] = @ + 1]
    /\ UNCHANGED phase

Release(p) ==
    /\ outstanding[p] > 0
    /\ outstanding' = [outstanding EXCEPT ![p] = @ - 1]
    /\ UNCHANGED phase

Next ==
    \E p \in Plugins :
        \/ Load(p) \/ Start(p) \/ Retire(p) \/ RequestStop(p) \/ Quiesce(p) \/ Unload(p)
        \/ Acquire(p) \/ Release(p)

Spec == Init /\ [][Next]_<<phase, outstanding>>

(* While a lease is out the code of its plugin is in the process.            *)
Pinned == \A p \in Plugins : outstanding[p] > 0 => phase[p] \in {"UP", "STOPPING"}
=============================================================================
