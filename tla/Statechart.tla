----------------------------- MODULE Statechart -----------------------------
(* A statechart: how it is built, and what a microstep of it does.            *)
EXTENDS Naturals, Sequences, FiniteSets, TLC

CONSTANTS
    Definitions,
    MaxRows,  \* CFLOW_MACHINE_MAX_STATES and its like, one bound for every kind of row
    CompletionCapacity

VARIABLES
    definition, impl,
    configuration,    \* the published configuration
    history,          \* per history state: the states it remembers
    completion_bits,  \* the composite states whose completion was raised
    completions,      \* the queue of raised completions
    outcome,          \* unborn, running, draining, done, or failed: full for want of room, failed else
    last              \* history: what the last step selected, left, entered, raised and ran

-----------------------------------------------------------------------------
(* The builder of an immutable statechart (cflow/src/statechart.c): it        *)
(* copies a definition, refuses one that is malformed or ambiguous, and       *)
(* computes what a step needs: document order, spans, targets, domains and    *)
(* defaults.  A status other than OK is a refusal; rows are named by their id *)
(* where the code keeps an index.                                             *)

Null == [null |-> TRUE]
None == 0                  \* SIZE_MAX as an index, 0 as an id

Rows(s) == {s[i] : i \in DOMAIN s}
Ids(s) == {s[i].id : i \in DOMAIN s}

DistinctIds(s) == \A i, j \in DOMAIN s : s[i].id # 0 /\ (i # j => s[i].id # s[j].id)

Kinds == {"ATOMIC", "COMPOUND", "PARALLEL", "FINAL", "INITIAL", "SHALLOW", "DEEP"}
pseudo_kind(kind) == kind \in {"INITIAL", "SHALLOW", "DEEP"}
history_kind(kind) == kind \in {"SHALLOW", "DEEP"}
can_complete(kind) == kind \in {"COMPOUND", "PARALLEL"}

validate_state_ids(d) == DistinctIds(d.states) /\ \A s \in Rows(d.states) : s.kind \in Kinds
validate_transition_ids(d) == DistinctIds(d.transitions)

validate_unique_orders(d) ==
    /\ \A s, t \in Rows(d.states) : s.id # t.id => s.order # t.order
    /\ \A s, t \in Rows(d.transitions) : s.id # t.id => s.order # t.order

StateRow(d, id) == CHOOSE s \in Rows(d.states) : s.id = id

(* is_descendant climbs from a state to the root, past which None is.         *)
Climbed(d, id) ==
    LET upto[n \in 0 .. Len(d.states)] ==
            IF n = 0 THEN {id}
            ELSE LET was == upto[n - 1] IN was \cup {s.parent : s \in {r \in Rows(d.states) : r.id \in was}}
    IN  upto[Len(d.states)]

PathOf(d, id) == Climbed(d, id) \ {None}
DepthOf(d, id) == Cardinality(PathOf(d, id)) - 1

initialize_tree(d) ==
    LET roots == {s \in Rows(d.states) : s.parent = None}
    IN  /\ \A s \in Rows(d.states) : s.parent # None => s.parent \in Ids(d.states)
        /\ Cardinality(roots) = 1
        /\ \A r \in roots : r.kind = "FINAL" \/ can_complete(r.kind)
        /\ \A s \in Rows(d.states) : None \in Climbed(d, s.id)

ByOrder(a, b) == a.order < b.order
Document(d) == SortSeq(d.states, ByOrder)

(* Any order of the states is taken.                                          *)
validate_document_preorderAny(d) == TRUE

(* validate_document_preorder: in document order the root is first, and each  *)
(* state's parent is the last one met at the depth above it.                  *)
validate_document_preorder(d) ==
    LET doc == Document(d)
        depth == [i \in DOMAIN doc |-> DepthOf(d, doc[i].id)]
        Met(i, j) == depth[j] = depth[i] - 1 /\ \A k \in j + 1 .. i - 1 : depth[k] >= depth[i]
    IN  /\ depth[1] = 0
        /\ \A i \in 2 .. Len(doc) : \E j \in 1 .. i - 1 : Met(i, j) /\ doc[j].id = doc[i].parent

validate_child_kinds(d) ==
    /\ \A s \in Rows(d.states) : s.parent # None =>
           /\ s.kind = "INITIAL" => StateRow(d, s.parent).kind = "COMPOUND"
           /\ history_kind(s.kind) => can_complete(StateRow(d, s.parent).kind)
    /\ \A s \in Rows(d.states) :
           LET all == {c \in Rows(d.states) : c.parent = s.id}
               initial == {c \in all : c.kind = "INITIAL"}
               real == {c \in all : ~pseudo_kind(c.kind)}
           IN  CASE s.kind = "COMPOUND" -> real # {} /\ Cardinality(initial) = 1
                 [] s.kind = "PARALLEL" -> real # {} /\ initial = {}
                 [] OTHER -> all = {}

(* normalize_transition_targets: the target rows of a transition in their     *)
(* order, or the one target of its own row.  A transition's own target is 0   *)
(* or declared: the code does not ask.                                        *)
TargetRows(d, t) ==
    LET Of(row) == row.transition = t.id IN SortSeq(SelectSeq(d.targets, Of), ByOrder)

Targets(d, t) ==
    IF TargetRows(d, t) # <<>> THEN [i \in DOMAIN TargetRows(d, t) |-> TargetRows(d, t)[i].target]
    ELSE IF t.target # 0 THEN <<t.target>> ELSE <<>>

normalize_transition_targets(d) ==
    /\ \A row \in Rows(d.targets) : row.transition \in Ids(d.transitions) /\ row.target \in Ids(d.states)
    /\ \A i, j \in DOMAIN d.targets : i # j /\ d.targets[i].transition = d.targets[j].transition =>
           d.targets[i].order # d.targets[j].order /\ d.targets[i].target # d.targets[j].target
    /\ \A t \in Rows(d.transitions) : TargetRows(d, t) # <<>> => t.target = 0
    /\ Len(d.targets) <= MaxRows

(* validate_events, validate_guards, validate_executables: ids of their own,  *)
(* and rows whose types and contracts are in order.                           *)
validate_declarations(d) ==
    /\ DistinctIds(d.events) /\ DistinctIds(d.guards) /\ DistinctIds(d.executables)
    /\ \A row \in Rows(d.events) \cup Rows(d.guards) \cup Rows(d.executables) : row.valid

validate_transition_trigger(d, t) ==
    \/ t.trigger = "EVENTLESS" /\ t.event = 0 /\ t.completion = 0
    \/ t.trigger = "EVENT" /\ t.completion = 0 /\ t.event \in Ids(d.events)
    \/ /\ t.trigger = "COMPLETION" /\ t.event = 0 /\ t.completion \in Ids(d.states)
       /\ can_complete(StateRow(d, t.completion).kind)

validate_default_transitions(d) ==
    \A s \in Rows(d.states) : pseudo_kind(s.kind) =>
        LET own == {t \in Rows(d.transitions) : t.source = s.id}
        IN  /\ Cardinality(own) = 1
            /\ s.parent # None
            /\ \A t \in own :
                 /\ t.trigger = "EVENTLESS" /\ t.guard = 0 /\ t.kind = "EXTERNAL"
                 /\ Targets(d, t) # <<>>
                 /\ \A x \in Rows(Targets(d, t)) :
                      \/ ~pseudo_kind(StateRow(d, x).kind) /\ x # s.parent /\ s.parent \in PathOf(d, x)
                      \/ /\ s.kind = "INITIAL" /\ Len(Targets(d, t)) = 1
                         /\ history_kind(StateRow(d, x).kind) /\ StateRow(d, x).parent = s.parent

transition_trigger_id(t) ==
    CASE t.trigger = "EVENT" -> t.event [] t.trigger = "COMPLETION" -> t.completion [] OTHER -> 0

TransitionKey(t) == <<t.source, t.trigger, transition_trigger_id(t), t.priority>>

validate_transitions(d) ==
    /\ \A t \in Rows(d.transitions) :
         /\ t.source \in Ids(d.states)
         /\ \A x \in Rows(Targets(d, t)) : StateRow(d, x).kind # "INITIAL"
         /\ t.kind \in {"EXTERNAL", "INTERNAL"}
         /\ StateRow(d, t.source).kind # "FINAL"
         /\ validate_transition_trigger(d, t)
         /\ t.guard # 0 => t.guard \in Ids(d.guards)
    /\ validate_default_transitions(d)
    /\ \A t, o \in Rows(d.transitions) : t.id # o.id => TransitionKey(t) # TransitionKey(o)

validate_action_rows(d) ==
    /\ \A i \in DOMAIN d.state_actions :
         LET row == d.state_actions[i]
         IN  /\ row.state \in Ids(d.states) /\ ~pseudo_kind(StateRow(d, row.state).kind)
             /\ row.kind \in {"ENTRY", "EXIT"} /\ row.executable \in Ids(d.executables)
             /\ \A j \in DOMAIN d.state_actions \ {i} :
                  <<d.state_actions[j].state, d.state_actions[j].kind, d.state_actions[j].order>> # <<row.state, row.kind, row.order>>
    /\ \A i \in DOMAIN d.transition_actions :
         LET row == d.transition_actions[i]
         IN  /\ row.transition \in Ids(d.transitions) /\ row.executable \in Ids(d.executables)
             /\ \A j \in DOMAIN d.transition_actions \ {i} :
                  <<d.transition_actions[j].transition, d.transition_actions[j].order>> # <<row.transition, row.order>>

validate_declaration_use(d) ==
    /\ Ids(d.guards) \subseteq {t.guard : t \in Rows(d.transitions)}
    /\ Ids(d.executables) \subseteq
         {row.executable : row \in Rows(d.state_actions)} \cup {row.executable : row \in Rows(d.transition_actions)}

definition_within_limits(d) ==
    /\ \A s \in {d.states, d.events, d.guards, d.executables, d.transitions} : Len(s) <= MaxRows
    /\ Len(d.state_actions) + Len(d.transition_actions) <= MaxRows

(* validate_statechart, in its order.                                         *)
validate_statechart(d) ==
    /\ validate_state_ids(d) /\ validate_transition_ids(d) /\ validate_unique_orders(d)
    /\ initialize_tree(d) /\ validate_document_preorder(d) /\ validate_child_kinds(d)
    /\ normalize_transition_targets(d)
    /\ validate_declarations(d)
    /\ validate_transitions(d) /\ validate_action_rows(d) /\ validate_declaration_use(d)
-----------------------------------------------------------------------------
(* normalize_transitions.  The domain of a transition: its source when it is  *)
(* internal to it, else the least compound state properly around the source   *)
(* and around all its targets.                                                *)
all_targets_descend_from(d, t, ancestor) ==
    \A x \in Rows(Targets(d, t)) : x # ancestor /\ ancestor \in PathOf(d, x)

proper_least_common_compound_ancestor(d, t) ==
    LET fits == {a \in PathOf(d, t.source) \ {t.source} :
                    StateRow(d, a).kind = "COMPOUND" /\ all_targets_descend_from(d, t, a)}
    IN  IF fits = {} THEN None ELSE CHOOSE a \in fits : \A o \in fits : DepthOf(d, o) <= DepthOf(d, a)

Domain(d, t) ==
    IF Targets(d, t) = <<>> THEN None
    ELSE IF t.kind = "INTERNAL" /\ StateRow(d, t.source).kind = "COMPOUND" /\ all_targets_descend_from(d, t, t.source)
    THEN t.source
    ELSE proper_least_common_compound_ancestor(d, t)

(* The order within a source's span (compare_index_ref).                      *)
TriggerRank(t) == CASE t.trigger = "EVENTLESS" -> 0 [] t.trigger = "EVENT" -> 1 [] OTHER -> 2

BySpan(a, b) ==
    LET ka == <<TriggerRank(a), transition_trigger_id(a), a.priority, a.order>>
        kb == <<TriggerRank(b), transition_trigger_id(b), b.priority, b.order>>
    IN  \E i \in 1 .. 4 : ka[i] < kb[i] /\ \A j \in 1 .. i - 1 : ka[j] = kb[j]

Span(d, s) == LET Of(t) == t.source = s IN SortSeq(SelectSeq(d.transitions, Of), BySpan)

ActionsOf(rows, Of(_)) ==
    LET sorted == SortSeq(SelectSeq(rows, Of), ByOrder) IN [i \in DOMAIN sorted |-> sorted[i].executable]

(* normalize_statechart: children, spans, defaults and actions by state.      *)
normalize_statechart(d) ==
    LET states == Ids(d.states)
        kind == [s \in states |-> StateRow(d, s).kind]
        transition == [t \in Ids(d.transitions) |-> CHOOSE row \in Rows(d.transitions) : row.id = t]
    IN  [document |-> [i \in DOMAIN d.states |-> Document(d)[i].id],
         order |-> [s \in states |-> StateRow(d, s).order],
         kind |-> kind,
         parent |-> [s \in states |-> StateRow(d, s).parent],
         path |-> [s \in states |-> PathOf(d, s)],
         children |-> [s \in states |-> {c \in states : StateRow(d, c).parent = s}],
         transition |-> transition,
         span |-> [s \in states |-> [i \in DOMAIN Span(d, s) |-> Span(d, s)[i].id]],
         targets |-> [t \in DOMAIN transition |-> Targets(d, transition[t])],
         domain |-> [t \in DOMAIN transition |-> Domain(d, transition[t])],
         default |-> [s \in {p \in states : pseudo_kind(kind[p])} |->
                         CHOOSE t \in DOMAIN transition : transition[t].source = s],
         actions |-> [k \in states \X {"ENTRY", "EXIT"} |->
                         LET Of(row) == row.state = k[1] /\ row.kind = k[2] IN ActionsOf(d.state_actions, Of)],
         transition_actions |-> [t \in DOMAIN transition |->
                         LET Of(row) == row.transition = t IN ActionsOf(d.transition_actions, Of)]]

Built(d) ==
    IF d.states # <<>> /\ definition_within_limits(d) /\ d.type_valid /\ validate_statechart(d)
    THEN normalize_statechart(d) ELSE Null

Init == definition \in Definitions /\ impl = Null

(* cflow_statechart_build and cflow_statechart_build_v2, by statechart_build_common. *)
cflow_statechart_build == impl = Null /\ impl' = Built(definition) /\ UNCHANGED definition

cflow_statechart_destroy == impl # Null /\ impl' = Null /\ UNCHANGED definition

-----------------------------------------------------------------------------
(* What one microstep of a statechart does (the selection and the execution   *)
(* in cflow/src/statechart_instance.c): the transitions a trigger selects,    *)
(* the states they leave and enter, the history and the completions they      *)
(* record, and the order of the actions.  Threads and queues are in           *)
(* StatechartInstance.                                                        *)

step == <<configuration, history, completion_bits, completions, outcome, last>>

Real(c, s) == {x \in c.children[s] : ~pseudo_kind(c.kind[x])}
leaf_kind(kind) == kind \in {"ATOMIC", "FINAL"}

(* validate_dense_configuration.                                              *)
validate_dense_configuration(c, conf) ==
    /\ c.document[1] \in conf
    /\ \A s \in conf : ~pseudo_kind(c.kind[s]) /\ (c.parent[s] # None => c.parent[s] \in conf)
    /\ \A s \in conf :
         /\ c.kind[s] = "COMPOUND" => Cardinality(Real(c, s) \cap conf) = 1
         /\ c.kind[s] = "PARALLEL" => Real(c, s) \subseteq conf
    /\ \E s \in conf : leaf_kind(c.kind[s])

Concat(parts) ==
    LET joined[i \in 0 .. Len(parts)] == IF i = 0 THEN <<>> ELSE joined[i - 1] \o parts[i]
    IN  joined[Len(parts)]

InDocument(c, S) == LET In(s) == s \in S IN SelectSeq(c.document, In)

source_is_proper_descendant(c, s, ancestor) == s # ancestor /\ ancestor \in c.path[s]
-----------------------------------------------------------------------------
(* Selection (select_internal).  A trigger is a kind and the event or the     *)
(* completed state; holds is the set of guards that answer yes.               *)
trigger_matches(t, trigger) == t.trigger = trigger.kind /\ transition_trigger_id(t) = trigger.id

Enabled(c, t, trigger, holds) ==
    trigger_matches(c.transition[t], trigger) /\ (c.transition[t].guard = 0 \/ c.transition[t].guard \in holds)

(* The row a leaf offers: the first enabled one of the innermost state around *)
(* it that has one.                                                           *)
Innermost(c, sources) == CHOOSE s \in sources : \A o \in sources : o \in c.path[s]

FirstEnabled(c, span, trigger, holds) ==
    span[CHOOSE i \in DOMAIN span : /\ Enabled(c, span[i], trigger, holds)
                                    /\ \A j \in 1 .. i - 1 : ~Enabled(c, span[j], trigger, holds)]

Candidate(c, leaf, trigger, holds) ==
    LET sources == {s \in c.path[leaf] : \E t \in Rows(c.span[s]) : Enabled(c, t, trigger, holds)}
    IN  IF sources = {} THEN None ELSE FirstEnabled(c, c.span[Innermost(c, sources)], trigger, holds)

compute_exit_set(c, conf, t) ==
    IF c.targets[t] = <<>> THEN {}
    ELSE {s \in conf : c.domain[t] = None \/ source_is_proper_descendant(c, s, c.domain[t])}

Conflicts(c, conf, t, o) == compute_exit_set(c, conf, t) \cap compute_exit_set(c, conf, o) # {}
SourceOf(c, t) == c.transition[t].source

(* filter_candidate: refused unless its source is inside that of every        *)
(* selected row it conflicts with, which it then replaces.                    *)
filter_candidate(c, conf, selected, t) ==
    LET clashing == {o \in Rows(selected) : Conflicts(c, conf, t, o)}
        Keep(o) == o \notin clashing
    IN  IF \A o \in clashing : source_is_proper_descendant(c, SourceOf(c, t), SourceOf(c, o))
        THEN Append(SelectSeq(selected, Keep), t) ELSE selected

Leaves(c, conf) == LET Leaf(s) == leaf_kind(c.kind[s]) IN SelectSeq(InDocument(c, conf), Leaf)

Offers(c, conf, trigger, holds) == {Candidate(c, s, trigger, holds) : s \in Rows(Leaves(c, conf))} \ {None}

Filtered(c, conf, offer) ==
    LET chosen[i \in 0 .. Len(offer)] ==
            IF i = 0 THEN <<>>
            ELSE IF offer[i] = None \/ \E j \in 1 .. i - 1 : offer[j] = offer[i] THEN chosen[i - 1]
            ELSE filter_candidate(c, conf, chosen[i - 1], offer[i])
    IN  chosen[Len(offer)]

Selected(c, conf, trigger, holds) ==
    LET leaves == Leaves(c, conf)
    IN  Filtered(c, conf, [i \in DOMAIN leaves |-> Candidate(c, leaves[i], trigger, holds)])
-----------------------------------------------------------------------------
(* Execution.  compute_exit_union and save_affected_history.                  *)
compute_exit_union(c, conf, rows) == UNION {compute_exit_set(c, conf, t) : t \in Rows(rows)}

save_affected_history(c, conf, remembered, left) ==
    [h \in DOMAIN remembered |->
        IF c.parent[h] \notin left THEN remembered[h]
        ELSE IF c.kind[h] = "SHALLOW" THEN {s \in conf : c.parent[s] = c.parent[h]}
        ELSE {s \in conf : leaf_kind(c.kind[s]) /\ source_is_proper_descendant(c, s, c.parent[h])}]

(* activate_path_to: a state and all that are around it.                      *)
PathsTo(c, S) == UNION {c.path[s] : s \in S}

(* restore_history_target: what a history state stands for.                   *)
restore_history_target(c, remembered, h) ==
    c.path[c.parent[h]] \cup
    PathsTo(c, IF remembered[h] = {} THEN Rows(c.targets[c.default[h]]) ELSE remembered[h])

TargetPaths(c, remembered, t) ==
    UNION {IF history_kind(c.kind[x]) THEN restore_history_target(c, remembered, x) ELSE c.path[x] : x \in Rows(c.targets[t])}

InitialOf(c, s) == CHOOSE x \in c.children[s] : c.kind[x] = "INITIAL"

(* enter_default_descendants: each entered compound without an active child   *)
(* follows its initial transition, each parallel enters all its children.     *)
Entered(c, remembered, kept, targeted) ==
    LET Childless(conf) == {s \in conf \ kept : c.kind[s] = "COMPOUND" /\ Real(c, s) \cap conf = {}}
        round[n \in 0 .. Len(c.document)] ==
            IF n = 0 THEN [conf |-> kept \cup targeted, initial |-> {}]
            ELSE LET was == round[n - 1]
                 IN  [conf |-> was.conf
                          \cup UNION {TargetPaths(c, remembered, c.default[InitialOf(c, s)]) : s \in Childless(was.conf)}
                          \cup UNION {Real(c, s) : s \in {p \in was.conf \ kept : c.kind[p] = "PARALLEL"}},
                      initial |-> was.initial \cup Childless(was.conf)]
    IN  round[Len(c.document)]

(* collect_pseudo_transition: the histories with nothing to bring back that   *)
(* are targets, in the order of the rows; an owner takes one default only.    *)
EmptyHistories(c, remembered, rows) ==
    LET Empty(x) == history_kind(c.kind[x]) /\ remembered[x] = {}
    IN  SelectSeq(Concat([i \in DOMAIN rows |-> c.targets[rows[i]]]), Empty)

PseudoClash(c, remembered, rows) ==
    LET hs == EmptyHistories(c, remembered, rows)
    IN  \E i, j \in DOMAIN hs : i # j /\ c.parent[hs[i]] = c.parent[hs[j]]

build_target_configuration(c, conf, remembered, rows) ==
    LET kept == conf \ compute_exit_union(c, conf, rows)
    IN  Entered(c, remembered, kept, UNION {TargetPaths(c, remembered, t) : t \in Rows(rows)})

(* exit_before and entry_before, as stable_order_states sorts by them.        *)
exit_order(c, S) ==
    LET Before(a, b) == \/ source_is_proper_descendant(c, a, b)
                        \/ ~source_is_proper_descendant(c, b, a) /\ c.order[a] > c.order[b]
    IN  SortSeq(InDocument(c, S), Before)

entry_order(c, S) ==
    LET Before(a, b) == \/ source_is_proper_descendant(c, b, a)
                        \/ ~source_is_proper_descendant(c, a, b) /\ c.order[a] < c.order[b]
    IN  SortSeq(InDocument(c, S), Before)

(* The rows that make the composites of a new configuration complete: final   *)
(* states, compounds whose child is, parallels whose children all are.        *)
configuration_state_complete(c, conf) ==
    LET done[n \in 0 .. Len(c.document)] ==
            IF n = 0 THEN {s \in conf : c.kind[s] = "FINAL"}
            ELSE LET was == done[n - 1]
                 IN  was \cup {s \in conf : IF c.kind[s] = "COMPOUND" THEN Real(c, s) \cap conf \cap was # {}
                                            ELSE c.kind[s] = "PARALLEL" /\ Real(c, s) \subseteq was}
    IN  done[Len(c.document)]

Composites(c, S) == {s \in S : can_complete(c.kind[s])}

StillRaised(c, conf, left) == (completion_bits \ left) \cap configuration_state_complete(c, conf)

(* stage_completions: in reverse document order, those not raised already.    *)
Raised(c, conf, left) ==
    LET fresh == InDocument(c, Composites(c, configuration_state_complete(c, conf)) \ StillRaised(c, conf, left))
    IN  [i \in DOMAIN fresh |-> fresh[Len(fresh) + 1 - i]]

(* run_pseudo_transition_action_chain: an initial transition, and that of the *)
(* empty history it leads to.                                                 *)
ChainOf(c, remembered, t) ==
    LET x == c.targets[t][1]
    IN  c.transition_actions[t] \o
        (IF /\ c.kind[SourceOf(c, t)] = "INITIAL" /\ history_kind(c.kind[x]) /\ remembered[x] = {}
         THEN c.transition_actions[c.default[x]] ELSE <<>>)

(* The actions of a step: exits, rows, the defaults of the owners that stay,  *)
(* then entries, each followed by the default its state takes.                *)
Ran(c, remembered, rows, left, kept, built) ==
    LET exits == exit_order(c, left)
        entries == entry_order(c, built.conf \ kept)
        histories == EmptyHistories(c, remembered, rows)
        OfStaying(h) == c.parent[h] \in kept
        staying == SelectSeq(histories, OfStaying)
        Default(s) ==
            IF s \in built.initial THEN ChainOf(c, remembered, c.default[InitialOf(c, s)])
            ELSE LET Own(h) == c.parent[h] = s
                     own == SelectSeq(histories, Own)
                 IN  Concat([i \in DOMAIN own |-> c.transition_actions[c.default[own[i]]]])
    IN  Concat([i \in DOMAIN exits |-> c.actions[exits[i], "EXIT"]])
        \o Concat([i \in DOMAIN rows |-> c.transition_actions[rows[i]]])
        \o Concat([i \in DOMAIN staying |-> c.transition_actions[c.default[staying[i]]]])
        \o Concat([i \in DOMAIN entries |-> c.actions[entries[i], "ENTRY"] \o Default(entries[i])])
-----------------------------------------------------------------------------
NoStep == [rows |-> <<>>, offers |-> {}, before |-> {}, left |-> {}, entered |-> {}, was |-> {}, remembered |-> <<>>,
           raised |-> <<>>, ran |-> <<>>]

StepInit ==
    /\ Init
    /\ configuration = {} /\ history = <<>> /\ completion_bits = {} /\ completions = <<>>
    /\ outcome = "unborn" /\ last = NoStep

Root == impl.document[1]
Histories(c) == {s \in DOMAIN c.kind : history_kind(c.kind[s])}

(* build_initial_configuration and execute_initial_entry_actions.             *)
StartInstance ==
    /\ impl # Null /\ outcome = "unborn"
    /\ LET forgotten == [h \in Histories(impl) |-> {}]
           built == Entered(impl, forgotten, {}, {Root})
           raised == Raised(impl, built.conf, {})
       IN  IF ~validate_dense_configuration(impl, built.conf) \/ Len(raised) > CompletionCapacity
           THEN outcome' = "failed" /\ UNCHANGED <<configuration, history, completion_bits, completions, last>>
           ELSE /\ outcome' = "running" /\ configuration' = built.conf /\ history' = forgotten
                /\ completions' = raised /\ completion_bits' = Rows(raised)
                /\ last' = [NoStep EXCEPT !.entered = built.conf, !.raised = raised,
                                          !.ran = Ran(impl, forgotten, <<>>, {}, {}, built)]
    /\ UNCHANGED <<definition, impl>>

(* execute_microstep: a step that is valid and fits is committed.             *)
Commit(built, remembered, bits, raised, queue, mode, valid) ==
    IF ~valid \/ Len(queue) + Len(raised) > CompletionCapacity
    THEN outcome' = (IF valid THEN "full" ELSE "failed") /\ completions' = <<>> /\ UNCHANGED <<configuration, history, completion_bits>>
    ELSE /\ configuration' = built.conf /\ history' = remembered
         /\ completion_bits' = bits /\ completions' = queue \o raised
         /\ outcome' = IF Root \in bits THEN mode ELSE "running"

(* What the selected rows leave, build and raise.                             *)
Execute(rows, left, remembered, offers, queue, mode) ==
    \E built \in {build_target_configuration(impl, configuration, remembered, rows)},
       valid \in {~PseudoClash(impl, remembered, rows)} :
      LET kept == configuration \ left
          sound == valid /\ validate_dense_configuration(impl, built.conf)
      IN  \E raised \in {Raised(impl, built.conf, left)} :
            /\ last' = [rows |-> rows, offers |-> offers, before |-> configuration, left |-> left,
                        entered |-> built.conf \ kept, was |-> completion_bits, remembered |-> remembered,
                        raised |-> raised, ran |-> IF sound THEN Ran(impl, remembered, rows, left, kept, built) ELSE <<>>]
            /\ Commit(built, remembered, StillRaised(impl, built.conf, left) \cup Rows(raised), raised, queue, mode, sound)

(* A microstep for a selection that is not empty.                             *)
Microstep(trigger, holds, queue, mode) ==
    \E rows \in {Selected(impl, configuration, trigger, holds)} :
        /\ rows # <<>>
        /\ \E left \in {compute_exit_union(impl, configuration, rows)} :
             Execute(rows, left, save_affected_history(impl, configuration, history, left),
                     Offers(impl, configuration, trigger, holds), queue, mode)

GuardSets == SUBSET Ids(definition.guards)
Eventless == [kind |-> "EVENTLESS", id |-> 0]

(* root_completion_ready: the completion of the root is the next to take.     *)
root_completion_ready == completions # <<>> /\ Head(completions) = Root /\ Root \in completion_bits

EventlessStep ==
    /\ outcome = "running"
    /\ \E holds \in GuardSets : Microstep(Eventless, holds, completions, "running")
    /\ UNCHANGED <<definition, impl>>

(* An event is tried once nothing eventless is enabled, and raised events     *)
(* before the completions that wait.                                          *)
EventStep ==
    /\ outcome = "running" /\ ~root_completion_ready
    /\ \E e \in Ids(definition.events), holds \in GuardSets :
         /\ Selected(impl, configuration, Eventless, holds) = <<>>
         /\ Microstep([kind |-> "EVENT", id |-> e], holds, completions, "running")
    /\ UNCHANGED <<definition, impl>>

(* pop_completion and driver_try_completion; once the root's is next, only    *)
(* completions are taken (drain_root_completions), and when none of them      *)
(* leads out of it the chart is done.                                         *)
CompletionStep ==
    /\ outcome \in {"running", "draining"} /\ completions # <<>>
    /\ LET trigger == [kind |-> "COMPLETION", id |-> Head(completions)]
           mode == IF outcome = "draining" \/ root_completion_ready THEN "draining" ELSE "running"
       IN  \E holds \in GuardSets :
             /\ outcome = "draining" \/ Selected(impl, configuration, Eventless, holds) = <<>>
             /\ \/ Microstep(trigger, holds, Tail(completions), mode)
                \/ /\ Selected(impl, configuration, trigger, holds) = <<>>
                   /\ completions' = Tail(completions)
                   /\ outcome' = IF mode = "draining" /\ Tail(completions) = <<>> THEN "done" ELSE mode
                   /\ UNCHANGED <<configuration, history, completion_bits, last>>
    /\ UNCHANGED <<definition, impl>>

(* settle_quiescent_macrostep with the root complete.                         *)
Finish ==
    /\ \/ outcome = "draining" /\ completions = <<>>
       \/ outcome = "running" /\ impl.kind[Root] = "FINAL"
    /\ outcome' = "done"
    /\ UNCHANGED <<definition, impl, configuration, history, completion_bits, completions, last>>

Build == cflow_statechart_build /\ UNCHANGED step

(* Destroyed with its instance, which has settled.                            *)
Destroy ==
    /\ outcome \in {"done", "full", "failed"} /\ cflow_statechart_destroy
    /\ outcome' = "unborn" /\ last' = NoStep
    /\ UNCHANGED <<configuration, history, completion_bits, completions>>

StepNext == Build \/ Destroy \/ StartInstance \/ EventlessStep \/ EventStep \/ CompletionStep \/ Finish

StepSpec == StepInit /\ [][StepNext]_<<definition, impl, step>>
-----------------------------------------------------------------------------
(* Selected rows, or remembered states, that name two children of a compound. *)
Inconsistent(rows, remembered) ==
    LET paths == UNION {TargetPaths(impl, remembered, t) : t \in Rows(rows)}
    IN  \E s \in paths : impl.kind[s] = "COMPOUND" /\ Cardinality(Real(impl, s) \cap paths) > 1


Before(x, y) == \E i, j \in DOMAIN last.ran : i < j /\ last.ran[i] = x /\ last.ran[j] = y

(* What a committed step leaves behind: a history state that was entered has  *)
(* brought back all it remembers; a composite's completion is raised when it  *)
(* completes, and again when it is left and completes in the same step; a     *)
(* state's entry actions follow those of the state around it.                 *)
StepsRemember ==
    outcome \in {"running", "draining"} =>
        /\ \A t \in Rows(last.rows) : \A x \in Rows(impl.targets[t]) :
             history_kind(impl.kind[x]) => last.remembered[x] \subseteq configuration
        /\ Rows(last.raised) =
             Composites(impl, configuration_state_complete(impl, configuration)) \ (last.was \ last.left)
        /\ \A s \in last.entered : impl.parent[s] \in last.entered =>
             \A x \in Rows(impl.actions[impl.parent[s], "ENTRY"]), y \in Rows(impl.actions[s, "ENTRY"]) :
                 Before(x, y) /\ ~Before(y, x)
=============================================================================
