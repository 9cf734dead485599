------------------------------- MODULE Machine --------------------------------
(* The builder of an immutable machine (cflow/src/machine.c): it copies the   *)
(* rows of a definition, sorts them, and refuses a definition that is         *)
(* malformed, ambiguous, or declares what no run can use.  A status other     *)
(* than OK is a refusal; which one it is, is left out.                        *)
EXTENDS Naturals, Sequences, FiniteSets, TLC

CONSTANTS
    Definitions,           \* records of sequences of rows and the initial state's id
    MaxRows                \* CFLOW_MACHINE_MAX_STATES and its like, one bound for every kind of row

Invalid == "invalid"       \* a type that cmeta_type_desc_valid refuses, or one of no size
None == "none"             \* no output type
Absent == 0                \* a lookup that finds nothing; rows are numbered from 1

VARIABLES
    definition, impl       \* the caller's rows, and what the handle owns: a copy or Null

Null == [null |-> TRUE]

(* Each compare_* function: rows by id, transitions by where they apply.      *)
ById(a, b) == a.id < b.id

(* As compare_transition without the priority.                   *)
ByUseUnranked(a, b) ==
    \/ a.source < b.source
    \/ a.source = b.source /\ a.event < b.event
    \/ a.source = b.source /\ a.event = b.event /\ a.target < b.target

compare_transition(a, b) ==
    \/ a.source < b.source
    \/ a.source = b.source /\ a.event < b.event
    \/ a.source = b.source /\ a.event = b.event /\ a.priority < b.priority
    \/ a.source = b.source /\ a.event = b.event /\ a.priority = b.priority /\ a.target < b.target

(* find_state and its like halve the sorted rows: search[<<l, r>>] is the     *)
(* row with this id among rows l .. r - 1.                                    *)
find(rows, id) ==
    LET search[span \in (1 .. Len(rows) + 1) \X (1 .. Len(rows) + 1)] ==
            LET middle == span[1] + (span[2] - span[1]) \div 2
            IN  IF span[1] >= span[2] THEN Absent
                ELSE IF rows[middle].id = id THEN middle
                ELSE IF rows[middle].id < id THEN search[<<middle + 1, span[2]>>]
                ELSE search[<<span[1], middle>>]
    IN  search[<<1, Len(rows) + 1>>]

first_transition_for_source(rows, source) ==
    LET search[span \in (1 .. Len(rows) + 1) \X (1 .. Len(rows) + 1)] ==
            LET middle == span[1] + (span[2] - span[1]) \div 2
            IN  IF span[1] >= span[2] THEN span[1]
                ELSE IF rows[middle].source < source THEN search[<<middle + 1, span[2]>>]
                ELSE search[<<span[1], middle>>]
    IN  search[<<1, Len(rows) + 1>>]

(* Sorted rows with ids of their own: a duplicate is next to its twin.        *)
DistinctIds(rows) ==
    \A i \in DOMAIN rows : rows[i].id # 0 /\ (i > 1 => rows[i - 1].id # rows[i].id)

validate_state_domain(m) ==
    /\ DistinctIds(m.states)
    /\ \A i \in DOMAIN m.states : m.states[i].type # Invalid /\ m.states[i].kind \in {"ACTIVE", "DONE", "ERROR"}
    /\ find(m.states, m.initial) # Absent

validate_event_domain(m) ==
    /\ DistinctIds(m.events)
    /\ \A i \in DOMAIN m.events : m.events[i].type # Invalid

(* The event a guard or an action names is declared, with the type it says.   *)
NamesEvent(m, event, type) ==
    LET i == find(m.events, event) IN i # Absent /\ m.events[i].type = type

validate_guard_domain(m) ==
    /\ DistinctIds(m.guards)
    /\ \A i \in DOMAIN m.guards :
           LET guard == m.guards[i]
           IN  /\ guard.state_type # Invalid
               /\ guard.effects = {} /\ {"STABLE", "NO_ALIAS"} \subseteq guard.properties
               /\ NamesEvent(m, guard.event, guard.event_type)

validate_action_observation(m, action) ==
    \/ action.observation = "NONE" /\ action.output_type = None /\ action.output_event = 0
    \/ action.observation = "VALUE" /\ action.output_type \notin {None, Invalid} /\ action.output_event = 0
    \/ /\ action.observation = "EVENT" /\ action.output_type \notin {None, Invalid}
       /\ NamesEvent(m, action.output_event, action.output_type)

validate_action_domain(m) ==
    /\ DistinctIds(m.actions)
    /\ \A i \in DOMAIN m.actions :
           LET action == m.actions[i]
           IN  /\ action.source_type # Invalid /\ action.target_type # Invalid
               /\ {"DETERMINISTIC", "NO_ALIAS"} \subseteq action.properties
               /\ ~("TOTAL" \in action.properties /\ "MAY_FAIL" \in action.effects)
               /\ NamesEvent(m, action.event, action.event_type)
               /\ validate_action_observation(m, action)

(* Two rows that one event could take alike: rows of one source, event and    *)
(* priority are neighbours.                                                   *)
Ambiguous(rows, i) ==
    /\ i > 1
    /\ rows[i - 1].source = rows[i].source /\ rows[i - 1].event = rows[i].event /\ rows[i - 1].priority = rows[i].priority

TransitionTyped(m, row) ==
    LET source == m.states[find(m.states, row.source)]
        target == m.states[find(m.states, row.target)]
        guard == m.guards[find(m.guards, row.guard)]
        action == m.actions[find(m.actions, row.action)]
    IN  /\ source.kind = "ACTIVE"
        /\ row.guard # 0 => guard.event = row.event /\ guard.state_type = source.type
        /\ row.action # 0 => /\ action.event = row.event
                             /\ action.source_type = source.type /\ action.target_type = target.type
        /\ row.action = 0 => source.type = target.type

validate_transitions(m) ==
    \A i \in DOMAIN m.transitions :
        LET row == m.transitions[i]
        IN  /\ find(m.states, row.source) # Absent /\ find(m.states, row.target) # Absent
            /\ find(m.events, row.event) # Absent
            /\ row.guard # 0 => find(m.guards, row.guard) # Absent
            /\ row.action # 0 => find(m.actions, row.action) # Absent
            /\ TransitionTyped(m, row)
            /\ ~Ambiguous(m.transitions, i)

(* The span of a state's rows, from the first one to the last in a row.       *)
Outgoing(m, source) ==
    LET first == first_transition_for_source(m.transitions, source)
    IN  {i \in first .. Len(m.transitions) : \A j \in first .. i : m.transitions[j].source = source}

(* The ids the breadth-first search has queued: one more ring per round.      *)
Queued(m) ==
    LET ring[n \in 0 .. Len(m.states)] ==
            IF n = 0 THEN {m.initial}
            ELSE ring[n - 1] \cup UNION {{m.transitions[i].target : i \in Outgoing(m, s)} : s \in ring[n - 1]}
    IN  ring[Len(m.states)]

validate_reachability(m) == \A i \in DOMAIN m.states : m.states[i].id \in Queued(m)

validate_declaration_use(m) ==
    LET guards_used == {find(m.guards, m.transitions[i].guard) : i \in DOMAIN m.transitions}
        actions_used == {find(m.actions, m.transitions[i].action) : i \in DOMAIN m.transitions}
    IN  DOMAIN m.guards \subseteq guards_used /\ DOMAIN m.actions \subseteq actions_used

validate_machine(m) ==
    /\ validate_state_domain(m) /\ validate_event_domain(m) /\ validate_guard_domain(m) /\ validate_action_domain(m)
    /\ validate_transitions(m) /\ validate_reachability(m) /\ validate_declaration_use(m)

SizesAllowed(d) ==
    /\ d.states # <<>>
    /\ \A rows \in {Len(d.states), Len(d.events), Len(d.guards), Len(d.actions), Len(d.transitions)} : rows <= MaxRows

(* The copy the builder owns, its rows sorted.                                *)
Normalized(d) ==
    [states |-> SortSeq(d.states, ById), events |-> SortSeq(d.events, ById), guards |-> SortSeq(d.guards, ById),
     actions |-> SortSeq(d.actions, ById), transitions |-> SortSeq(d.transitions, compare_transition), initial |-> d.initial]

Built(d) == IF SizesAllowed(d) /\ validate_machine(Normalized(d)) THEN Normalized(d) ELSE Null

Init == definition \in Definitions /\ impl = Null

cflow_machine_build == impl = Null /\ impl' = Built(definition) /\ UNCHANGED definition

cflow_machine_destroy == impl # Null /\ impl' = Null /\ UNCHANGED definition

Next == cflow_machine_build \/ cflow_machine_destroy

Spec == Init /\ [][Next]_<<definition, impl>>

-----------------------------------------------------------------------------
(* What a definition means, without sorting, halving or queueing.             *)
Declared(rows, id) == {i \in DOMAIN rows : rows[i].id = id}

RECURSIVE Reach(_, _)
Reach(d, seen) ==
    LET more == seen \cup {d.transitions[i].target : i \in {j \in DOMAIN d.transitions : d.transitions[j].source \in seen}}
    IN  IF more = seen THEN seen ELSE Reach(d, more)

(* A machine that was built has its own copy of every row; one event finds at *)
(* most one row of a priority wherever the machine is; each id a row names is *)
(* found by the halving searches the instance makes; a run of the machine can *)
(* reach every state it declares, and use every guard and action.             *)
MachineSound ==
    impl # Null =>
        /\ \A i, j \in DOMAIN impl.transitions :
               i # j => \/ impl.transitions[i].source # impl.transitions[j].source
                        \/ impl.transitions[i].event # impl.transitions[j].event
                        \/ impl.transitions[i].priority # impl.transitions[j].priority
        /\ \A i \in DOMAIN definition.states : Cardinality(Declared(definition.states, definition.states[i].id)) = 1
        /\ {definition.states[i].id : i \in DOMAIN definition.states} = Reach(definition, {definition.initial})
        /\ \A i \in DOMAIN definition.transitions :
               LET row == definition.transitions[i]
               IN  /\ impl.states[find(impl.states, row.target)] \in {definition.states[j] : j \in Declared(definition.states, row.target)}
                   /\ row.guard # 0 => Declared(definition.guards, row.guard) # {}
                   /\ row.action # 0 => Declared(definition.actions, row.action) # {}
        /\ \A i \in DOMAIN definition.guards : \E j \in DOMAIN definition.transitions : definition.transitions[j].guard = definition.guards[i].id
        /\ \A i \in DOMAIN definition.actions : \E j \in DOMAIN definition.transitions : definition.transitions[j].action = definition.actions[i].id
=============================================================================
