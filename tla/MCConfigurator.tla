--------------------------- MODULE MCConfigurator ---------------------------
(* Small instances of Configurator for TLC.                                  *)
EXTENDS Configurator

MCInterfaces == 1..3

Selection(c, i, p) == [consumer |-> c, requirement |-> i, provider |-> p]

Input(provides, requires, selections) ==
    [n |-> Len(provides), arrays |-> TRUE,
     id |-> [c \in 1..Len(provides) |-> c],
     valid |-> [c \in 1..Len(provides) |-> "OK"],
     provides |-> provides, requires |-> requires,
     hooks |-> [c \in 1..Len(provides) |-> c # 2],
     selections |-> selections, dependency_capacity |-> 5]

(* Every dependency graph over three components, self loops included.        *)
AllGraphs ==
    {Input(<<{1}, {2}, {3}>>, r, <<>>) : r \in [1..3 -> SUBSET (1..3)]}

(* Two providers of one interface, with and without the selections that      *)
(* decide between them, in every position of the consumer.                   *)
Choices ==
    {Input(p, r, s) :
        p \in {<<{1}, {1}, {}>>, <<{1}, {}, {1}>>, <<{}, {1}, {1}>>, <<{2}, {1}, {1, 2}>>},
        r \in {<<{}, {}, {1}>>, <<{1}, {}, {}>>, <<{1}, {2}, {}>>, <<{3}, {}, {}>>},
        s \in {<<>>} \cup {<<Selection(c, i, q)>> : c \in 1..3, i \in 1..2, q \in 1..3}
              \cup {<<Selection(1, 1, 2), Selection(1, 1, 3)>>,
                    <<Selection(1, 1, 2), Selection(2, 2, 3)>>}}

Chain == Input(<<{1}, {2}, {3}>>, <<{2}, {3}, {}>>, <<>>)
Diamond == Input(<<{1}, {2}, {3}>>, <<{}, {1}, {1}>>, <<>>)

(* Inputs that admission turns down, and the empty graph.                    *)
Rejected ==
    {[Chain EXCEPT !.arrays = FALSE],
     [Chain EXCEPT !.valid[2] = "INVALID_COMPONENT"],
     [Chain EXCEPT !.valid[3] = "CONFIG_MISMATCH"],
     [Chain EXCEPT !.id[3] = 1],
     Input(<<{1}, {2}, {3}, {}>>, <<{}, {}, {}, {}>>, <<>>)}
Empty == Input(<<>>, <<>>, <<>>)

MCRepeats == {Chain, Diamond, Empty, [Chain EXCEPT !.valid[2] = "INVALID_COMPONENT"],
              [Chain EXCEPT !.dependency_capacity = 1]}
MCInputs == AllGraphs \cup Choices \cup Rejected \cup MCRepeats
=============================================================================
