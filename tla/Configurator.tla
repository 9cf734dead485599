---------------------------- MODULE Configurator ----------------------------
(* The Configurator context (component-runtime/src/configurator.c): one      *)
(* bounded graph of components that is admitted, resolved, started and       *)
(* stopped.  A call that runs provider callbacks is a sequence of steps, one *)
(* per callback (project, create, activate, provide, deactivate + release),  *)
(* so that every property also holds at the instants a provider's code runs. *)
(*                                                                           *)
(* Data kept: which component requires and provides which interface, the     *)
(* selections, the resolved dependencies, the activation order, and of every *)
(* ObjectRef whether it is canonical-empty, valid or malformed.  The         *)
(* dependency array is the set of its rows; offsets and slices are left out. *)
EXTENDS Integers, FiniteSets, Sequences

CONSTANTS Capacity,     \* instance_capacity = activation_capacity of the caller
          Interfaces,   \* interface descriptors, equal iff descriptors are equal
          Inputs,       \* what callers pass to context_init
          NoInput,      \* no graph attached
          MaxInits,     \* bound on calls of context_init
          Repeats       \* the inputs that are used for more than one init

(* Indices of the caller's instance records.                                 *)
Slots == 1..Capacity

(* An input has the deployments 1..n in the order the caller lists them.     *)
(* arrays says that every array a non-zero count calls for is present, hooks *)
(* which bindings have the activate/deactivate pair.                         *)
WellFormed(g) ==
    /\ DOMAIN g = {"n", "arrays", "id", "valid", "provides", "requires", "hooks",
                   "selections", "dependency_capacity"}
    /\ g.n \in Nat
    /\ g.arrays \in BOOLEAN
    /\ \A c \in 1..g.n : /\ g.valid[c] \in {"OK", "INVALID_COMPONENT", "CONFIG_MISMATCH"}
                         /\ g.provides[c] \subseteq Interfaces
                         /\ g.requires[c] \subseteq Interfaces
                         /\ g.hooks[c] \in BOOLEAN
    /\ g.dependency_capacity \in Nat

ASSUME CapacityAssumption == Capacity \in Nat
ASSUME InputsAssumption == \A g \in Inputs : WellFormed(g)
ASSUME NoInputAssumption == NoInput \notin Inputs
ASSUME MaxInitsAssumption == MaxInits \in Nat /\ Repeats \subseteq Inputs

VARIABLES
    state,             \* context->state
    graph,             \* the borrowed arrays and counts, NoInput once detached
    dependencies,      \* rows of context->dependencies
    activation_order,  \* the filled prefix of context->activation_order
    activation_count,  \* context->activation_count
    instances,         \* the caller's instance records
    failure,           \* the status the last failing call returned
    pc,                \* where the running call is, "idle" between calls
    at,                \* order_index of the running start, rollback or stop
    input,             \* ghost: the graph most recently admitted
    created,           \* ghost: valid ObjectRefs handed over per slot
    released,          \* ghost: ObjectRefs released per slot
    activated,         \* ghost: successful activations per slot
    deactivated,       \* ghost: deactivate callbacks per slot
    inits              \* calls of context_init so far

ghostVars == <<input, created, released, activated, deactivated>>
graphVars == <<graph, dependencies, activation_order, activation_count>>
vars == <<state, graph, dependencies, activation_order, activation_count, instances,
          failure, pc, at, input, created, released, activated, deactivated, inits>>

EmptyInstance == [active |-> FALSE, object |-> "EMPTY"]

Init ==
    /\ state = "ZERO"
    /\ graph = NoInput
    /\ dependencies = {}
    /\ activation_order = <<>>
    /\ activation_count = 0
    /\ instances = [c \in Slots |-> EmptyInstance]
    /\ failure = "OK"
    /\ pc = "idle"
    /\ at = 0
    /\ input = NoInput
    /\ created = [c \in Slots |-> 0]
    /\ released = [c \in Slots |-> 0]
    /\ activated = [c \in Slots |-> 0]
    /\ deactivated = [c \in Slots |-> 0]
    /\ inits = 0

-----------------------------------------------------------------------------
(* Pure parts: admission and provider selection.                             *)

find_id(g, id) == {c \in 1..g.n : g.id[c] = id}

Providers(g, i) == {p \in 1..g.n : i \in g.provides[p]}

(* The rows of the selection table for one requirement of one consumer.      *)
Selections(g, c, i) ==
    {k \in DOMAIN g.selections : /\ g.selections[k].consumer = g.id[c]
                                 /\ g.selections[k].requirement = i}

(* The providers select_provider can answer: the selected one if it provides *)
(* the interface, else every provider of it.                                 *)
Candidates(g, c, i) ==
    IF Selections(g, c, i) = {}
    THEN Providers(g, i)
    ELSE {p \in Providers(g, i) :
            \E k \in Selections(g, c, i) : g.id[p] = g.selections[k].provider}

select_provider_status(g, c, i) ==
    IF Selections(g, c, i) # {}
    THEN IF Cardinality(Selections(g, c, i)) = 1 /\ Candidates(g, c, i) # {}
         THEN "OK" ELSE "INVALID_SELECTION"
    ELSE IF Providers(g, i) = {} THEN "MISSING_PROVIDER"
    ELSE IF Cardinality(Providers(g, i)) = 1 THEN "OK" ELSE "AMBIGUOUS_PROVIDER"

(* context_init: what admission finds wrong with a deployment ...            *)
deployment_status(g, c) ==
    IF g.valid[c] # "OK" THEN g.valid[c]
    ELSE IF \E d \in 1..(c - 1) : g.id[d] = g.id[c] THEN "DUPLICATE_COMPONENT_ID"
    ELSE "OK"

(* ... and whether a selection names a consumer that requires, and a provider *)
(* that provides, its interface, and is the first for that requirement.      *)
selection_valid(g, k) ==
    LET s == g.selections[k] IN
    /\ \E c \in find_id(g, s.consumer) : s.requirement \in g.requires[c]
    /\ \E p \in find_id(g, s.provider) : s.requirement \in g.provides[p]
    /\ \A j \in 1..(k - 1) : ~ /\ g.selections[j].consumer = s.consumer
                               /\ g.selections[j].requirement = s.requirement

admission_status(g) ==
    LET bad == {c \in 1..g.n : deployment_status(g, c) # "OK"} IN
    IF ~g.arrays THEN "INVALID_ARGUMENT"
    ELSE IF g.n > Capacity THEN "CAPACITY_EXCEEDED"
    ELSE IF bad # {} THEN deployment_status(g, CHOOSE c \in bad : \A d \in bad : c <= d)
    ELSE IF \E k \in DOMAIN g.selections : ~selection_valid(g, k) THEN "INVALID_SELECTION"
    ELSE "OK"

Requirements(g) == {r \in (1..g.n) \X Interfaces : r[2] \in g.requires[r[1]]}

(* The requirements whose failure resolve reports: those of the first        *)
(* component that has one (the order within a component is left open).       *)
Unresolved(g) ==
    LET bad == {r \in Requirements(g) : select_provider_status(g, r[1], r[2]) # "OK"}
    IN {r \in bad : \A q \in bad : r[1] <= q[1]}

ResolvedRows(g) ==
    {[consumer |-> r[1], interface |-> r[2],
      provider |-> CHOOSE p \in Candidates(g, r[1], r[2]) : TRUE] : r \in Requirements(g)}

ProvidersOf(deps, c) == {d.provider : d \in {e \in deps : e.consumer = c}}

Members(order) == {order[k] : k \in DOMAIN order}

(* Mutant: a component counts as its own provider.                           *)
dependencies_readyOrSelf(deps, c, placed) == ProvidersOf(deps, c) \subseteq placed \cup {c}

dependencies_ready(deps, c, placed) == ProvidersOf(deps, c) \subseteq placed

(* The candidates the selection loop of context_resolve may take next.       *)
Ready(g, deps, placed) ==
    {c \in (1..g.n) \ placed : dependencies_ready(deps, c, placed)}

object_ref_empty(c) == instances[c].object = "EMPTY"

instances_settled == \A c \in Slots : ~instances[c].active /\ object_ref_empty(c)

(* What start and stop ask of the plan before the first callback.            *)
activation_plan_valid(expect_active) ==
    /\ graph # NoInput
    /\ activation_count = graph.n
    /\ \A c \in 1..graph.n :
          IF expect_active
          THEN instances[c].active /\ instances[c].object = "LIVE"
          ELSE ~instances[c].active /\ object_ref_empty(c)
    /\ \A c \in Slots \ (1..graph.n) : ~instances[c].active /\ object_ref_empty(c)
    /\ Members(activation_order) = 1..graph.n
    /\ Len(activation_order) = graph.n
    /\ \A k \in DOMAIN activation_order :
          dependencies_ready(dependencies, activation_order[k],
                             Members(SubSeq(activation_order, 1, k - 1)))

-----------------------------------------------------------------------------
(* Detaching drops every borrowed address and count.                         *)

detach_storage ==
    /\ graph' = NoInput
    /\ dependencies' = {}
    /\ activation_order' = <<>>
    /\ activation_count' = 0

(* salts_configurator_fail before any ObjectRef exists: always detaches.     *)
fail_early(status) ==
    /\ state' = "FAILED"
    /\ failure' = status
    /\ detach_storage

ContextInit(g) ==
    /\ pc = "idle"
    /\ inits < MaxInits /\ (inits > 0 => {g, input} \subseteq Repeats)
    /\ state \in {"ZERO", "STOPPED", "FAILED"}
    /\ activation_count = 0
    /\ state = "ZERO" => graph = NoInput
    /\ state \in {"STOPPED", "FAILED"} => instances_settled
    /\ inits' = inits + 1
    /\ input' = g
    /\ IF admission_status(g) = "OK"
       THEN /\ state' = "READY"
            /\ failure' = "OK"
            /\ graph' = g
            /\ dependencies' = {}
            /\ activation_order' = <<>>
            /\ activation_count' = 0
            /\ instances' = [c \in Slots |-> EmptyInstance]
       ELSE fail_early(admission_status(g)) /\ UNCHANGED instances
    /\ UNCHANGED <<pc, at, created, released, activated, deactivated>>

(* context_resolve up to the rows of the dependency array.                   *)
ContextResolve ==
    /\ pc = "idle"
    /\ state = "READY"
    /\ IF Cardinality(Requirements(graph)) > graph.dependency_capacity
       THEN fail_early("CAPACITY_EXCEEDED") /\ UNCHANGED pc
       ELSE IF Unresolved(graph) # {}
       THEN /\ \E r \in Unresolved(graph) :
                  fail_early(select_provider_status(graph, r[1], r[2]))
            /\ UNCHANGED pc
       ELSE /\ dependencies' = ResolvedRows(graph)
            /\ failure' = "OK"
            /\ pc' = "order"
            /\ UNCHANGED <<state, graph, activation_order, activation_count>>
    /\ UNCHANGED <<instances, at, inits, ghostVars>>

(* One iteration of its ordering loop: the lowest ready index comes next.    *)
ResolveOrder ==
    /\ pc = "order"
    /\ Len(activation_order) < graph.n
    /\ LET ready == Ready(graph, dependencies, Members(activation_order)) IN
       IF ready = {}
       THEN /\ fail_early("DEPENDENCY_CYCLE")
            /\ pc' = "idle"
       ELSE /\ \E c \in ready :
                  /\ \A d \in ready : c <= d
                  /\ activation_order' = Append(activation_order, c)
            /\ UNCHANGED <<state, failure, graph, dependencies, activation_count, pc>>
    /\ UNCHANGED <<instances, at, inits, ghostVars>>

ResolveDone ==
    /\ pc = "order"
    /\ Len(activation_order) = graph.n
    /\ activation_count' = graph.n
    /\ state' = "RESOLVED"
    /\ pc' = "idle"
    /\ UNCHANGED <<graph, dependencies, activation_order, instances, failure, at, inits,
                   ghostVars>>

-----------------------------------------------------------------------------
(* context_start, one callback at a time.                                    *)

ContextStart ==
    /\ pc = "idle"
    /\ state = "RESOLVED"
    /\ activation_plan_valid(FALSE)
    /\ failure' = "OK"
    /\ pc' = "project"
    /\ at' = 1
    /\ UNCHANGED <<state, graphVars, instances, inits, ghostVars>>

Current == activation_order[at]

(* Mutant: rollback starts one component too low.                            *)
AbortLow(status) ==
    /\ failure' = status
    /\ pc' = "rollback"
    /\ at' = IF at > 1 THEN at - 2 ELSE 0

(* A failing start undoes the components before the failing one and reports. *)
Abort(status) ==
    /\ failure' = status
    /\ pc' = "rollback"
    /\ at' = at - 1

(* cmeta_object_release clears the record and then runs the object's destroy; *)
(* a destroy that writes the record leaves it malformed.                     *)
Release(c) ==
    /\ \E left \in {"EMPTY", "MALFORMED"} :
          instances' = [instances EXCEPT ![c] = [active |-> FALSE, object |-> left]]
    /\ released' = [released EXCEPT ![c] = @ + 1]

(* The interfaces the component depends on are projected from its providers. *)
StartProject ==
    /\ pc = "project"
    /\ at <= activation_count
    /\ \/ pc' = "create" /\ UNCHANGED <<failure, at>>
       \/ /\ ProvidersOf(dependencies, Current) # {}
          /\ Abort("INTERFACE_UNAVAILABLE")
    /\ UNCHANGED <<state, graphVars, instances, inits, ghostVars>>

StartCreated ==
    /\ pc = "create"
    /\ instances' = [instances EXCEPT ![Current].object = "LIVE"]
    /\ created' = [created EXCEPT ![Current] = @ + 1]
    /\ pc' = IF graph.hooks[Current] THEN "activate" ELSE "provide"
    /\ UNCHANGED <<state, graphVars, failure, at, input, released, activated, deactivated,
                   inits>>

(* create reports an error with a valid ObjectRef: the reference is released. *)
StartCreateFailedOwning ==
    /\ pc = "create"
    /\ created' = [created EXCEPT ![Current] = @ + 1]
    /\ Release(Current)
    /\ Abort("CREATE_FAILED")
    /\ UNCHANGED <<state, graphVars, input, activated, deactivated, inits>>

(* create reports an error, or success, with a record that is no ObjectRef.  *)
StartCreateFailed ==
    /\ pc = "create"
    /\ \E left \in {"EMPTY", "MALFORMED"} :
          instances' = [instances EXCEPT ![Current].object = left]
    /\ Abort("CREATE_FAILED")
    /\ UNCHANGED <<state, graphVars, inits, ghostVars>>

StartActivated ==
    /\ pc = "activate"
    /\ activated' = [activated EXCEPT ![Current] = @ + 1]
    /\ pc' = "provide"
    /\ UNCHANGED <<state, graphVars, instances, failure, at, input, created, released,
                   deactivated, inits>>

(* A failed activation is released without deactivate.                       *)
StartActivateFailed ==
    /\ pc = "activate"
    /\ Release(Current)
    /\ Abort("ACTIVATE_FAILED")
    /\ UNCHANGED <<state, graphVars, input, created, activated, deactivated, inits>>

StartProvided ==
    /\ pc = "provide"
    /\ instances' = [instances EXCEPT ![Current].active = TRUE]
    /\ pc' = "project"
    /\ at' = at + 1
    /\ UNCHANGED <<state, graphVars, failure, inits, ghostVars>>

Deactivate(c) ==
    deactivated' = IF graph.hooks[c] THEN [deactivated EXCEPT ![c] = @ + 1] ELSE deactivated

(* Mutant: an instance whose projection fails is released still activated.   *)
StartProvideFailedActive ==
    /\ pc = "provide"
    /\ graph.provides[Current] # {}
    /\ Release(Current)
    /\ Abort("INTERFACE_UNAVAILABLE")
    /\ UNCHANGED <<state, graphVars, input, created, activated, deactivated, inits>>

(* preflight_provides fails: this instance was activated, so it is undone.   *)
StartProvideFailed ==
    /\ pc = "provide"
    /\ graph.provides[Current] # {}
    /\ Deactivate(Current)
    /\ Release(Current)
    /\ Abort("INTERFACE_UNAVAILABLE")
    /\ UNCHANGED <<state, graphVars, input, created, activated, inits>>

StartDone ==
    /\ pc = "project"
    /\ at > activation_count
    /\ state' = "ACTIVE"
    /\ pc' = "idle"
    /\ at' = 0
    /\ UNCHANGED <<graphVars, instances, failure, inits, ghostVars>>

(* Mutant: the walk goes in activation order instead of the reverse.         *)
UndoForward ==
    /\ pc \in {"rollback", "stop"}
    /\ at > 0
    /\ LET c == activation_order[activation_count + 1 - at] IN
       IF instances[c].active
       THEN Deactivate(c) /\ Release(c)
       ELSE UNCHANGED <<instances, released, deactivated>>
    /\ at' = at - 1
    /\ UNCHANGED <<state, graphVars, failure, pc, input, created, activated, inits>>

(* One component of salts_configurator_rollback or of the loop of stop.      *)
Undo ==
    /\ pc \in {"rollback", "stop"}
    /\ at > 0
    /\ IF instances[Current].active
       THEN Deactivate(Current) /\ Release(Current)
       ELSE UNCHANGED <<instances, released, deactivated>>
    /\ at' = at - 1
    /\ UNCHANGED <<state, graphVars, failure, pc, input, created, activated, inits>>

(* The end of rollback, then salts_configurator_fail.                        *)
RollbackDone ==
    /\ pc = "rollback"
    /\ at = 0
    /\ state' = "FAILED"
    /\ pc' = "idle"
    /\ IF instances_settled
       THEN detach_storage
       ELSE /\ activation_count' = 0
            /\ UNCHANGED <<graph, dependencies, activation_order>>
    /\ UNCHANGED <<instances, failure, at, inits, ghostVars>>

ContextStop ==
    /\ pc = "idle"
    /\ state = "ACTIVE"
    /\ activation_plan_valid(TRUE)
    /\ pc' = "stop"
    /\ at' = activation_count
    /\ UNCHANGED <<state, graphVars, instances, failure, inits, ghostVars>>

StopDone ==
    /\ pc = "stop"
    /\ at = 0
    /\ pc' = "idle"
    /\ IF instances_settled
       THEN /\ detach_storage
            /\ state' = "STOPPED"
            /\ UNCHANGED failure
       ELSE /\ state' = "FAILED"
            /\ failure' = "INVALID_STATE"
            /\ activation_count' = 0
            /\ UNCHANGED <<graph, dependencies, activation_order>>
    /\ UNCHANGED <<instances, at, inits, ghostVars>>

(* The owner of the storage repairs a malformed record of a failed context.  *)
Repair(c) ==
    /\ pc = "idle"
    /\ state = "FAILED"
    /\ instances[c].object = "MALFORMED"
    /\ instances' = [instances EXCEPT ![c].object = "EMPTY"]
    /\ UNCHANGED <<state, graphVars, failure, pc, at, inits, ghostVars>>

-----------------------------------------------------------------------------
(* Lookups.  They change nothing; the answer is a status and a component.    *)

Refused(status) == [status |-> status, provider |-> 0]

(* Mutant: the lookup trusts the context state and not the instance.         *)
AnswerUnchecked(c) == [status |-> "OK", provider |-> c]

Answer(c) ==
    IF instances[c].active
    THEN [status |-> "OK", provider |-> c]
    ELSE Refused("INVALID_STATE")

find_service(i) ==
    IF state # "ACTIVE" THEN Refused("INVALID_STATE")
    ELSE IF Providers(graph, i) = {} THEN Refused("MISSING_PROVIDER")
    ELSE IF Cardinality(Providers(graph, i)) > 1 THEN Refused("AMBIGUOUS_PROVIDER")
    ELSE Answer(CHOOSE c \in Providers(graph, i) : TRUE)

find_service_from(id, i) ==
    IF state # "ACTIVE" THEN Refused("INVALID_STATE")
    ELSE IF find_id(graph, id) = {} THEN Refused("MISSING_PROVIDER")
    ELSE IF find_id(graph, id) \cap Providers(graph, i) = {}
    THEN Refused("INTERFACE_UNAVAILABLE")
    ELSE Answer(CHOOSE c \in find_id(graph, id) : TRUE)

-----------------------------------------------------------------------------
StartStep ==
    \/ StartProject \/ StartCreated \/ StartCreateFailedOwning \/ StartCreateFailed
    \/ StartActivated \/ StartActivateFailed \/ StartProvided \/ StartProvideFailed
    \/ StartDone

Running == ResolveOrder \/ ResolveDone \/ StartStep \/ Undo \/ RollbackDone \/ StopDone

Call ==
    \/ \E g \in Inputs : ContextInit(g)
    \/ ContextResolve \/ ContextStart \/ ContextStop
    \/ \E c \in Slots : Repair(c)

Next == Call \/ Running

Spec == Init /\ [][Next]_vars

-----------------------------------------------------------------------------

(* The activation order lists no component twice, lists every provider before *)
(* its consumers, and at each place takes the lowest index that was ready.   *)
OrderTopological ==
    \A k \in DOMAIN activation_order :
        LET before == Members(SubSeq(activation_order, 1, k - 1)) IN
        /\ activation_order[k] \notin before
        /\ ProvidersOf(dependencies, activation_order[k]) \subseteq before
        /\ \A c \in 1..(activation_order[k] - 1) :
              c \in before \/ ~(ProvidersOf(dependencies, c) \subseteq before)

(* Reference definition of a cycle: a non-empty set of components each of     *)
(* which waits for another one of the set.                                   *)
Cyclic(g) ==
    \E S \in (SUBSET (1..g.n)) \ {{}} :
        \A c \in S : ProvidersOf(ResolvedRows(g), c) \cap S # {}

(* Dependency cycles fail closed and nothing but a cycle is reported as one;  *)
(* the order context_resolve computes for the rest is a topological one.     *)
PlanExact ==
    /\ OrderTopological
    /\ state = "FAILED" /\ failure = "DEPENDENCY_CYCLE" => Cyclic(input)
    /\ state \in {"RESOLVED", "ACTIVE"} => ~Cyclic(input)

(* Between calls a context is either fully active or holds no active          *)
(* component and no valid ObjectRef: a failed start leaves nothing running,  *)
(* and one that may still own a malformed object keeps its arrays.           *)
AllOrNothing ==
    pc = "idle" =>
        IF state = "ACTIVE"
        THEN \A c \in 1..graph.n : instances[c].active /\ instances[c].object = "LIVE"
        ELSE /\ \A c \in Slots : ~instances[c].active /\ instances[c].object # "LIVE"
             /\ state = "FAILED" /\ ~instances_settled => graph # NoInput

(* Owned resources settle exactly once: every valid ObjectRef handed over is  *)
(* still held or was released once, and deactivate answers each successful   *)
(* activation of a component that is not running once.                       *)
SettledOnce ==
    \A c \in Slots :
        /\ created[c] - released[c] = IF instances[c].object = "LIVE" THEN 1 ELSE 0
        /\ pc = "idle" /\ state # "ACTIVE" => activated[c] = deactivated[c]


DeployedIds == IF graph = NoInput THEN {} ELSE Members(graph.id)

(* A service that a lookup hands out, even while the context is being torn    *)
(* down, comes from an active component, and so does everything it needs.    *)
ServiceBacked ==
    \A i \in Interfaces :
        \A a \in {find_service(i)} \cup
                  {find_service_from(id, i) : id \in DeployedIds} : a.status = "OK" =>
            /\ i \in graph.provides[a.provider]
            /\ instances[a.provider].active
            /\ \A p \in ProvidersOf(dependencies, a.provider) : instances[p].active

L == INSTANCE ComponentLayers WITH
        Components <- Slots,
        up <- {c \in Slots : instances[c].active},
        needs <- {<<d.consumer, d.provider>> : d \in dependencies}

(* The context is an implementation of layered activation: components come up *)
(* one at a time above what they need and go down from the top.              *)
Layered == L!Spec

=============================================================================
