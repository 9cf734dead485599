---------------------------- MODULE MCServiceHost ----------------------------
(* ServiceHost for TLC, explored along two lines: two generations and one     *)
(* scope over two plugins, with providers and releases that fail (twice for   *)
(* a generation on its own, once beside another), and three generations and   *)
(* two scopes over one plugin with no failures.                              *)
EXTENDS ServiceHost, TLC

CONSTANTS p1, p2
VARIABLE line

MCSources == {<<p1>>, <<p1, p2, p1>>}

InUse == {g \in Generations : id[g] # 0 \/ gstate[g] # "ZERO"}
Live == {s \in Scopes : bound[s] # NoGeneration}

(* What a line leaves out.                                                   *)
WithFaults ==
    /\ Cardinality(InUse) <= 2 /\ Cardinality(Live) <= 1 /\ \A g \in Generations : id[g] <= 2
    /\ Cardinality(InUse) = 2 => faults <= 1
WithTraffic == faults = 0 /\ phase[p2] = "OUT" /\ \A t \in Threads : Elements(todo[t]) \subseteq {p1}

Explored ==
    /\ line = "faults" => WithFaults
    /\ line = "traffic" => WithTraffic

MCInit == Init /\ line \in {"faults", "traffic"}
MCNext == Next /\ UNCHANGED line /\ Explored'
MCSpec == MCInit /\ [][MCNext]_<<vars, line>>

Symmetric == Permutations(Threads) \cup Permutations(Generations) \cup Permutations(Scopes)
=============================================================================
