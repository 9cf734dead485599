-------------------------- MODULE ComponentLayers --------------------------
(* What a component graph promises the code that runs in it, whatever the    *)
(* steps by which it is started, rolled back or stopped: a component is up   *)
(* only while everything it needs is up.                                     *)
CONSTANT Components

VARIABLES needs,   \* pairs <<consumer, provider>>
          up       \* the components that are active

Needed(c) == {p \in Components : <<c, p>> \in needs}

Init == needs = {} /\ up = {}

(* The graph changes only while nothing is up.                               *)
Rewire ==
    /\ up = {}
    /\ needs' \in SUBSET (Components \X Components)
    /\ up' = {}

Raise(c) ==
    /\ c \notin up
    /\ Needed(c) \subseteq up
    /\ up' = up \cup {c}
    /\ UNCHANGED needs

Lower(c) ==
    /\ c \in up
    /\ \A d \in up : c \notin Needed(d)
    /\ up' = up \ {c}
    /\ UNCHANGED needs

Next == Rewire \/ \E c \in Components : Raise(c) \/ Lower(c)

Spec == Init /\ [][Next]_<<needs, up>>
=============================================================================
