-------------------------- MODULE MachineHierarchy --------------------------
(* A hierarchy of states: how it is built, and the statechart made from it.   *)
EXTENDS Naturals, Sequences, FiniteSets, TLC

CONSTANTS
    Definitions,  \* as for Machine, whose states also name a parent and an initial child
    MaxRows

VARIABLES
    definition, impl,
    chart   \* the statechart built from impl

-----------------------------------------------------------------------------
(* A tree of states compiled into a flat machine                              *)
(* (cflow/src/machine_hierarchy.c): every leaf gets the transitions of its    *)
(* ancestors, inner ones first, and each flat row a route of the states it    *)
(* leaves and enters.                                                         *)

Flat == INSTANCE Machine

Null == Flat!Null
Absent == Flat!Absent
Index(states, id) == Flat!find(states, id)

(* copy_states: sorted, of one type, each parent declared.                    *)
copy_states(states) ==
    /\ Flat!DistinctIds(states)
    /\ \A i \in DOMAIN states :
           /\ states[i].type # Flat!Invalid /\ states[i].type = states[1].type
           /\ states[i].kind \in {"ACTIVE", "DONE", "ERROR"}
           /\ states[i].parent # 0 => Index(states, states[i].parent) # Absent

ParentOf(states, i) == IF states[i].parent = 0 THEN Absent ELSE Index(states, states[i].parent)

(* The n-th state above state i.                                              *)
Above(states, i) ==
    LET climb[n \in 0 .. Len(states)] ==
            IF n = 0 THEN i
            ELSE IF climb[n - 1] = Absent THEN Absent
            ELSE ParentOf(states, climb[n - 1])
    IN  climb

(* A state and the ones around it: is_descendant climbs them.                 *)
AncestorsOrSelf(states, i) == {Above(states, i)[n] : n \in 0 .. Len(states)} \ {Absent}
is_descendant(states, node, ancestor) == ancestor \in AncestorsOrSelf(states, node)
Depth(states, i) == Cardinality(AncestorsOrSelf(states, i)) - 1

HasChild(states, i) == \E j \in DOMAIN states : ParentOf(states, j) = i

(* validate_tree: one root, no cycle, and an initial child for each composite *)
(* state that is one of its own children.                                     *)
validate_tree(states) ==
    /\ Cardinality({i \in DOMAIN states : ParentOf(states, i) = Absent}) = 1
    /\ \A i \in DOMAIN states : Above(states, i)[Len(states)] = Absent
    /\ \A i \in DOMAIN states :
           IF HasChild(states, i)
           THEN /\ states[i].kind = "ACTIVE" /\ states[i].initial_child # 0
                /\ LET child == Index(states, states[i].initial_child)
                   IN  child # Absent /\ ParentOf(states, child) = i
           ELSE states[i].initial_child = 0

(* From a state along the initial children to a leaf.                         *)
resolve_initial_leaf(states, i) ==
    LET hop[n \in 0 .. Len(states)] ==
            IF n = 0 THEN i
            ELSE IF states[hop[n - 1]].initial_child = 0 THEN hop[n - 1]
            ELSE Index(states, states[hop[n - 1]].initial_child)
    IN  hop[Len(states)]

IsLeaf(states, i) == states[i].initial_child = 0

(* The row a leaf gets from a declared transition of one around it.           *)
Expanded(states, leaf, row) ==
    LET target == resolve_initial_leaf(states, Index(states, row.target))
    IN  [row EXCEPT !.source = states[leaf].id, !.target = states[target].id]
            @@ [declared |-> row.priority, depth |-> Depth(states, Index(states, row.source)), from |-> leaf, to |-> target]

(* The comparison of compare_expanded_transition, inner declarations first;   *)
(* rows that tie on all of this are refused as ambiguous.                     *)
ByUse(a, b) ==
    \/ a.source < b.source
    \/ a.source = b.source /\ a.event < b.event
    \/ a.source = b.source /\ a.event = b.event /\ a.depth > b.depth
    \/ a.source = b.source /\ a.event = b.event /\ a.depth = b.depth /\ a.declared < b.declared
    \/ /\ a.source = b.source /\ a.event = b.event /\ a.depth = b.depth /\ a.declared = b.declared
       /\ a.target < b.target

SameUse(a, b) == a.source = b.source /\ a.event = b.event

(* A flat row keeps the priority its declaration had.                         *)
RenumberedKept(rows, i) == rows[i].declared
Renumbered(rows, i) == Cardinality({j \in 1 .. i - 1 : SameUse(rows[j], rows[i])})

ExpandedRows(states, d) ==
    LET L == Len(states)
        D == Len(d.transitions)
        pairs == [k \in 1 .. L * D |-> <<((k - 1) \div D) + 1, ((k - 1) % D) + 1>>]
        Applies(p) == IsLeaf(states, p[1]) /\ is_descendant(states, p[1], Index(states, d.transitions[p[2]].source))
        kept == SelectSeq(pairs, Applies)
        sorted == SortSeq([k \in DOMAIN kept |-> Expanded(states, kept[k][1], d.transitions[kept[k][2]])], ByUse)
    IN  [i \in DOMAIN sorted |-> [sorted[i] EXCEPT !.priority = Renumbered(sorted, i)]]

expand_transitions(rows) ==
    /\ Len(rows) <= MaxRows
    /\ \A i \in DOMAIN rows \ {1} :
           ~(SameUse(rows[i - 1], rows[i]) /\ rows[i - 1].depth = rows[i].depth /\ rows[i - 1].declared = rows[i].declared)

(* build_flat_machine: the leaves, and the rows as they are.                  *)
FlatDefinition(states, rows, d) ==
    LET Leaf(s) == s.initial_child = 0
    IN  [d EXCEPT !.states = SelectSeq(states, Leaf), !.transitions = rows,
                  !.initial = states[resolve_initial_leaf(states, Index(states, d.initial))].id]

Deepest(states, common) == CHOOSE c \in common : \A o \in common : Depth(states, o) <= Depth(states, c)

least_common_ancestor(states, source, target) ==
    Deepest(states, AncestorsOrSelf(states, source) \cap AncestorsOrSelf(states, target))

(* The states from a leaf up to, without, an ancestor.                        *)
Climb(states, i, top) == [k \in 1 .. Depth(states, i) - Depth(states, top) |-> Above(states, i)[k - 1]]

Ids(states, path) == [k \in DOMAIN path |-> states[path[k]].id]

Downwards(path) == [k \in DOMAIN path |-> path[Len(path) + 1 - k]]

RouteThrough(states, row, lca) ==
    [exits |-> Ids(states, Climb(states, row.from, lca)), entries |-> Ids(states, Downwards(Climb(states, row.to, lca)))]

(* build_routes: what a row leaves, from the leaf up, and enters, downwards.  *)
Route(states, row) == RouteThrough(states, row, least_common_ancestor(states, row.from, row.to))

build_routes(states, rows) == [i \in DOMAIN rows |-> Route(states, rows[i])]

(* What the rows and the initial state name is declared.                      *)
StatesKnown(states, d) ==
    /\ Index(states, d.initial) # Absent
    /\ \A k \in DOMAIN d.transitions :
           Index(states, d.transitions[k].source) # Absent /\ Index(states, d.transitions[k].target) # Absent

Hierarchy(d, states, rows, flat) ==
    IF /\ d.states # <<>> /\ d.initial # 0 /\ Len(d.states) <= MaxRows
       /\ copy_states(states) /\ validate_tree(states)
       /\ StatesKnown(states, d) /\ expand_transitions(rows)
       /\ flat # Null
    THEN [states |-> states, flat |-> flat, routes |-> build_routes(states, rows)]
    ELSE Null

Flattened(d, states, rows) == Hierarchy(d, states, rows, Flat!Built(FlatDefinition(states, rows, d)))
Unfolded(d, states) == Flattened(d, states, ExpandedRows(states, d))

(* cflow_machine_hierarchy_build.                                             *)
BuiltHierarchy(d) == Unfolded(d, SortSeq(d.states, Flat!ById))

Init == definition \in Definitions /\ impl = Null

cflow_machine_hierarchy_build == impl = Null /\ impl' = BuiltHierarchy(definition) /\ UNCHANGED definition

cflow_machine_hierarchy_destroy == impl # Null /\ impl' = Null /\ UNCHANGED definition

Next == cflow_machine_hierarchy_build \/ cflow_machine_hierarchy_destroy

Spec == Init /\ [][Next]_<<definition, impl>>

-----------------------------------------------------------------------------
(* The row a flat machine takes for an event when these guards hold: the      *)
(* first of the sorted rows (select_transition of machine_instance.c).        *)
FlatChoice(leaf, event, holds) ==
    {i \in DOMAIN impl.flat.transitions :
        LET Fits(k) == /\ impl.flat.transitions[k].source = leaf /\ impl.flat.transitions[k].event = event
                       /\ impl.flat.transitions[k].guard \in holds
        IN  Fits(i) /\ \A j \in 1 .. i - 1 : ~Fits(j)}

(* The declared row the tree takes: of the innermost state that has one, the  *)
(* lowest priority.                                                           *)
TreeChoice(leaf, event, holds) ==
    LET states == impl.states
        around == AncestorsOrSelf(states, Index(states, leaf))
        fits == {k \in DOMAIN definition.transitions :
                    /\ definition.transitions[k].event = event /\ definition.transitions[k].guard \in holds
                    /\ Index(states, definition.transitions[k].source) \in around}
        DepthOf(k) == Depth(states, Index(states, definition.transitions[k].source))
    IN  {k \in fits : \A o \in fits \ {k} :
            \/ DepthOf(k) > DepthOf(o)
            \/ DepthOf(k) = DepthOf(o) /\ definition.transitions[k].priority < definition.transitions[o].priority}

PathTo(leaf) == {impl.states[i].id : i \in AncestorsOrSelf(impl.states, Index(impl.states, leaf))}

Elements(s) == {s[i] : i \in DOMAIN s}

(* The flat machine does what the tree declares: whatever guards hold, an     *)
(* event takes the declared row of the innermost active state, and the route  *)
(* kept at that flat row's index leaves and enters just the states that       *)
(* differ, leaves from the inside and enters from the outside.                *)
FlatMeansTree ==
    impl # Null =>
        /\ \A s \in DOMAIN impl.flat.states, e \in DOMAIN definition.events,
              holds \in SUBSET ({0} \cup {definition.guards[g].id : g \in DOMAIN definition.guards}) :
               LET leaf == impl.flat.states[s].id
                   event == definition.events[e].id
                   Told(row) == <<row.guard, row.action>>
               IN  {Told(impl.flat.transitions[i]) : i \in FlatChoice(leaf, event, holds)}
                     = {Told(definition.transitions[k]) : k \in TreeChoice(leaf, event, holds)}
        /\ \A i \in DOMAIN impl.flat.transitions :
               LET row == impl.flat.transitions[i]
                   route == impl.routes[i]
               IN  /\ (PathTo(row.source) \ Elements(route.exits)) \cup Elements(route.entries) = PathTo(row.target)
                   /\ Elements(route.exits) \subseteq PathTo(row.source) \ PathTo(row.target)
                   /\ route.exits # <<>> => route.exits[1] = row.source
                   /\ route.entries # <<>> => route.entries[Len(route.entries)] = row.target

-----------------------------------------------------------------------------
(* A built hierarchy turned into a statechart                                 *)
(* (cflow/src/statechart_hierarchy_adapter.c): composite states become        *)
(* compound ones with a generated initial state, DONE leaves final ones, and  *)
(* the rows of the flat machine event transitions.                            *)

Chart == INSTANCE Statechart WITH
    CompletionCapacity <- MaxRows, impl <- chart,
    configuration <- {}, history <- <<>>, completion_bits <- {}, completions <- <<>>, outcome <- "running", last <- <<>>

Compounds(h) == {i \in DOMAIN h.states : ~IsLeaf(h.states, i)}

(* The n-th compound, and the initial state generated for it: an unused id.   *)
NthCompound(h, n) == CHOOSE i \in Compounds(h) : Cardinality({j \in Compounds(h) : j < i}) = n - 1
GeneratedId(h, n) == Len(h.states) + MaxRows + n

(* assign_preorder: the states before this one in a walk from the root that   *)
(* takes children by their index.  Rows are id, parent and kind.              *)
AboveRow(rows, i) ==
    LET upto[n \in 0 .. Len(rows)] ==
            IF n = 0 THEN {i}
            ELSE LET was == upto[n - 1] IN was \cup {k \in DOMAIN rows : \E j \in was : rows[k].id = rows[j].parent}
    IN  upto[Len(rows)]

WalkedBefore(rows, i, j) ==
    \/ i # j /\ i \in AboveRow(rows, j)
    \/ \E a \in AboveRow(rows, i) \ AboveRow(rows, j), b \in AboveRow(rows, j) \ AboveRow(rows, i) :
           rows[a].parent = rows[b].parent /\ a < b

assign_preorder(rows, i) == Cardinality({j \in DOMAIN rows : WalkedBefore(rows, j, i)})

(* A DONE leaf becomes an ordinary one.                                       *)
KindForPlain(s) == IF s.initial_child # 0 THEN "COMPOUND" ELSE "ATOMIC"
KindFor(s) == IF s.initial_child # 0 THEN "COMPOUND" ELSE IF s.kind = "DONE" THEN "FINAL" ELSE "ATOMIC"

StateRows(h) ==
    LET own == [i \in DOMAIN h.states |-> [id |-> h.states[i].id, parent |-> h.states[i].parent, kind |-> KindFor(h.states[i])]]
        generated == [n \in 1 .. Cardinality(Compounds(h)) |->
                         [id |-> GeneratedId(h, n), parent |-> h.states[NthCompound(h, n)].id, kind |-> "INITIAL"]]
    IN  own \o generated

(* The initial transitions first, then the flat rows in their order.          *)
TransitionRows(h) ==
    LET compounds == Cardinality(Compounds(h))
        Row(n, source, trigger, event, guard, target, priority) ==
            [id |-> n, source |-> source, trigger |-> trigger, event |-> event, completion |-> 0, guard |-> guard,
             target |-> target, kind |-> "EXTERNAL", priority |-> priority, order |-> n - 1]
    IN  [n \in 1 .. compounds |->
            Row(n, GeneratedId(h, n), "EVENTLESS", 0, 0, h.states[NthCompound(h, n)].initial_child, 0)]
        \o [k \in DOMAIN h.flat.transitions |->
            LET row == h.flat.transitions[k]
            IN  Row(compounds + k, row.source, "EVENT", row.event, row.guard, row.target, row.priority)]

ActionRows(h) ==
    LET rows == [k \in DOMAIN h.flat.transitions |->
                    [transition |-> Cardinality(Compounds(h)) + k, order |-> 0, executable |-> h.flat.transitions[k].action]]
        Acts(row) == row.executable # 0
    IN  SelectSeq(rows, Acts)

Valid(rows) == [i \in DOMAIN rows |-> [id |-> rows[i].id, valid |-> TRUE]]

Adapted(h) ==
    LET rows == StateRows(h)
    IN  [states |-> [i \in DOMAIN rows |-> rows[i] @@ [order |-> assign_preorder(rows, i)]],
         events |-> Valid(h.flat.events), guards |-> Valid(h.flat.guards), executables |-> Valid(h.flat.actions),
         transitions |-> TransitionRows(h), targets |-> <<>>,
         state_actions |-> <<>>, transition_actions |-> ActionRows(h), type_valid |-> TRUE]

RootOf(h) == CHOOSE i \in DOMAIN h.states : h.states[i].parent = 0

(* What the adapter refuses before it builds.                                 *)
Adaptable(h) ==
    /\ \A i \in DOMAIN h.states : h.states[i].kind # "ERROR"
    /\ Len(h.states) + Cardinality(Compounds(h)) <= MaxRows
    /\ Len(h.flat.transitions) + Cardinality(Compounds(h)) <= MaxRows
    /\ h.states[resolve_initial_leaf(h.states, RootOf(h))].id = h.flat.initial
    /\ \A i \in DOMAIN h.flat.actions : h.flat.actions[i].observation = "NONE"

cflow_statechart_hierarchy_adapter_build ==
    /\ impl # Null /\ chart = Null
    /\ chart' = IF Adaptable(impl) THEN Chart!Built(Adapted(impl)) ELSE Null
    /\ UNCHANGED <<definition, impl>>

AdapterInit == Init /\ chart = Null

BuildHierarchy == chart = Null /\ Next /\ UNCHANGED chart

DestroyChart == chart # Null /\ chart' = Null /\ UNCHANGED <<definition, impl>>

AdapterNext == BuildHierarchy \/ cflow_statechart_hierarchy_adapter_build \/ DestroyChart

AdapterSpec == AdapterInit /\ [][AdapterNext]_<<definition, impl, chart>>
-----------------------------------------------------------------------------
ChartStep(conf, event, holds) ==
    LET rows == Chart!Selected(chart, conf, [kind |-> "EVENT", id |-> event], holds)
    IN  Chart!build_target_configuration(chart, conf, <<>>, rows).conf

(* The statechart behaves as the machine it was made from: it starts in the   *)
(* same leaf, for every event and whatever guards hold it moves from the path *)
(* of a leaf to the path of the leaf the machine moves to, and it completes   *)
(* just in the DONE leaves.                                                   *)
ChartMeansFlat ==
    chart # Null =>
        /\ Chart!Entered(chart, <<>>, {}, {impl.states[RootOf(impl)].id}).conf = PathTo(impl.flat.initial)
        /\ \A s \in DOMAIN impl.flat.states, e \in DOMAIN definition.events,
              holds \in SUBSET ({0} \cup {definition.guards[g].id : g \in DOMAIN definition.guards}) :
               LET leaf == impl.flat.states[s].id
                   chosen == FlatChoice(leaf, definition.events[e].id, holds \cup {0})
                   to == ChartStep(PathTo(leaf), definition.events[e].id, holds)
               IN  /\ to = PathTo(IF chosen = {} THEN leaf ELSE impl.flat.transitions[CHOOSE i \in chosen : TRUE].target)
                   /\ (impl.flat.states[s].kind = "DONE") =
                        (impl.states[RootOf(impl)].id \in Chart!configuration_state_complete(chart, PathTo(leaf)))
=============================================================================
