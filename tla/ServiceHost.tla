---------------------------- MODULE ServiceHost ----------------------------
(* The ServiceHost (component-runtime/src/service_host.c and                 *)
(* service_host_runtime.c): generations are built from plugins, published,   *)
(* pinned by scopes, drained, and their plugin leases given back.            *)
(*                                                                           *)
(* publish, close, scope_acquire and scope_release are one critical section  *)
(* each.  build, discard, recover and drain run provider code and registry   *)
(* calls outside the runtime lock: they are threads that advance one such    *)
(* call at a time.  The Configurator is what Configurator.tla shows of it:   *)
(* a start or a stop ends with every instance record settled or with some    *)
(* record unsettled.  The plugin registry is its promise, PluginLeases.      *)
EXTENDS Integers, FiniteSets, Sequences

CONSTANTS Threads,         \* callers of build, discard, recover and drain
          Generations,     \* generation bundles of the application
          NoGeneration,
          Scopes,          \* scope objects
          Plugins,         \* plugins the sources name
          Sources,         \* source lists callers pass to build
          ModuleCapacity,  \* storage.module_capacity
          MaxId,           \* bound: generation ids the application uses
          MaxFaults        \* bound: failing releases and unsettled teardowns

MaxAttached == 2           \* SALTS_SERVICE_HOST_MAX_ATTACHED_GENERATIONS

ASSUME GenerationsAssumption == NoGeneration \notin Generations
ASSUME FiniteAssumption == IsFiniteSet(Generations) /\ IsFiniteSet(Scopes)
ASSUME SourcesAssumption == Sources \subseteq Seq(Plugins)
ASSUME BoundsAssumption == ModuleCapacity \in Nat /\ MaxId \in Nat /\ MaxFaults \in Nat

VARIABLES
    \* the runtime
    initialized, current, lastId, activeScopes, attached,
    \* the generations: state, id, runtime_owner # NULL, active_scopes, state
    \* of components, "every instance record is settled", lease records
    gstate, id, owned, scopes, components, settled, modules,
    \* the scope objects: the generation a live one is bound to, and its id
    bound, boundId,
    \* the threads: step, generation, sources still to admit, scan index and
    \* whether a release of this pass failed
    pc, arg, todo, scan, failed,
    \* PluginLeases
    phase, outstanding,
    \* ghosts: plugins the deployments of a generation come from, faults so far
    uses, faults

runtimeVars == <<initialized, current, lastId, activeScopes, attached>>
generationVars == <<gstate, id, owned, scopes, components, settled, modules>>
scopeVars == <<bound, boundId>>
threadVars == <<pc, arg, todo, scan, failed>>
leaseVars == <<phase, outstanding>>
vars == <<runtimeVars, generationVars, scopeVars, threadVars, leaseVars, uses, faults>>

L == INSTANCE PluginLeases

Init ==
    /\ initialized = FALSE /\ current = NoGeneration /\ lastId = 0
    /\ activeScopes = 0 /\ attached = 0
    /\ gstate = [g \in Generations |-> "ZERO"]
    /\ id = [g \in Generations |-> 0]
    /\ owned = [g \in Generations |-> FALSE]
    /\ scopes = [g \in Generations |-> 0]
    /\ components = [g \in Generations |-> "ZERO"]
    /\ settled = [g \in Generations |-> TRUE]
    /\ modules = [g \in Generations |-> <<>>]
    /\ bound = [s \in Scopes |-> NoGeneration]
    /\ boundId = [s \in Scopes |-> 0]
    /\ pc = [t \in Threads |-> "idle"]
    /\ arg = [t \in Threads |-> NoGeneration]
    /\ todo = [t \in Threads |-> <<>>]
    /\ scan = [t \in Threads |-> 0]
    /\ failed = [t \in Threads |-> FALSE]
    /\ L!Init
    /\ uses = [g \in Generations |-> {}]
    /\ faults = 0

Elements(q) == {q[k] : k \in DOMAIN q}

(* Steps of the calls whose contract asks for exclusive access to the bundle. *)
Exclusive == {"admit", "configure", "release_admitted", "release_configured",
              "stop_built", "release_built", "release_recover"}
Draining == {"stop_drain", "release_drain"}

(* The application keeps the exclusive-access contract of build, discard and *)
(* recover; it does not serialise drain.                                     *)
Unshared(g) == \A t \in Threads : ~(pc[t] \in Exclusive /\ arg[t] = g)

-----------------------------------------------------------------------------
(* runtime_init and runtime_destroy.                                         *)

RuntimeInit ==
    /\ ~initialized
    /\ initialized' = TRUE
    /\ current' = NoGeneration /\ lastId' = 0 /\ activeScopes' = 0 /\ attached' = 0
    /\ UNCHANGED <<generationVars, scopeVars, threadVars, leaseVars, uses, faults>>

Destroyable == current = NoGeneration /\ activeScopes = 0 /\ attached = 0

RuntimeDestroy ==
    /\ initialized
    /\ Destroyable
    /\ initialized' = FALSE
    /\ current' = NoGeneration /\ lastId' = 0 /\ activeScopes' = 0 /\ attached' = 0
    /\ UNCHANGED <<generationVars, scopeVars, threadVars, leaseVars, uses, faults>>

-----------------------------------------------------------------------------
(* generation_build.                                                         *)

(* No instance record owns an object or is active.                           *)
service_host_components_settled(g) == settled[g]

generation_is_clear(g) ==
    /\ modules[g] = <<>>
    /\ ~owned[g]
    /\ scopes[g] = 0
    /\ components[g] = "ZERO"

(* Whether build may overwrite the record of a generation.                   *)
Buildable(g) ==
    \/ gstate[g] \in {"ZERO", "DRAINED"} /\ generation_is_clear(g)
    \/ /\ gstate[g] = "FAILED"
       /\ ~owned[g] /\ scopes[g] = 0 /\ modules[g] = <<>>
       /\ components[g] \in {"ZERO", "FAILED", "STOPPED"}
       /\ service_host_components_settled(g)

Enter(t, g, step) ==
    /\ pc' = [pc EXCEPT ![t] = step]
    /\ arg' = [arg EXCEPT ![t] = g]

(* The call returns and its locals are gone.                                 *)
Return(t) ==
    /\ pc' = [pc EXCEPT ![t] = "idle"]
    /\ arg' = [arg EXCEPT ![t] = NoGeneration]
    /\ scan' = [scan EXCEPT ![t] = 0]
    /\ failed' = [failed EXCEPT ![t] = FALSE]

(* A source that names no plugin or no export fails the generation.          *)
BuildInvalidSource(t, g) ==
    /\ pc[t] = "idle" /\ Unshared(g) /\ Buildable(g)
    /\ gstate' = [gstate EXCEPT ![g] = "FAILED"]
    /\ UNCHANGED <<runtimeVars, id, owned, scopes, components, settled, modules, scopeVars,
                   threadVars, leaseVars, uses, faults>>

preflight_dynamic_sources(sources) == Cardinality(Elements(sources)) <= ModuleCapacity

BuildBegin(t, g, sources, n) ==
    /\ pc[t] = "idle" /\ Unshared(g) /\ Buildable(g)
    /\ preflight_dynamic_sources(sources)
    /\ Enter(t, g, "admit")
    /\ todo' = [todo EXCEPT ![t] = sources]
    /\ gstate' = [gstate EXCEPT ![g] = "ZERO"]
    /\ id' = [id EXCEPT ![g] = n]
    /\ owned' = [owned EXCEPT ![g] = FALSE]
    /\ scopes' = [scopes EXCEPT ![g] = 0]
    /\ components' = [components EXCEPT ![g] = "ZERO"]
    /\ settled' = [settled EXCEPT ![g] = TRUE]
    /\ modules' = [modules EXCEPT ![g] = <<>>]
    /\ uses' = [uses EXCEPT ![g] = {}]
    /\ UNCHANGED <<runtimeVars, scopeVars, scan, failed, leaseVars, faults>>

(* release_modules starts at the last record.                                *)
BeginRelease(t, step) ==
    /\ pc' = [pc EXCEPT ![t] = step]
    /\ scan' = [scan EXCEPT ![t] = Len(modules[arg[t]])]
    /\ failed' = [failed EXCEPT ![t] = FALSE]

(* acquire_module: one lease per plugin; the provider export is then read.   *)
BuildAdmit(t) ==
    LET g == arg[t]
        p == Head(todo[t])
    IN
    /\ pc[t] = "admit"
    /\ todo[t] # <<>>
    /\ IF p \in Elements(modules[g])
       THEN UNCHANGED <<modules, leaseVars>>
       ELSE L!Acquire(p) /\ modules' = [modules EXCEPT ![g] = Append(@, p)]
    /\ todo' = [todo EXCEPT ![t] = Tail(@)]
    /\ uses' = [uses EXCEPT ![g] = @ \cup {p}]
    /\ UNCHANGED <<runtimeVars, gstate, id, owned, scopes, components, settled, scopeVars,
                   pc, arg, scan, failed, faults>>

(* The plugin is not started or its lease cannot be had, or the lease is     *)
(* held and the export is no valid provider: every lease goes back.          *)
BuildAdmitFailed(t) ==
    LET g == arg[t]
        p == Head(todo[t])
    IN
    /\ pc[t] = "admit"
    /\ todo[t] # <<>>
    /\ \/ UNCHANGED <<modules, leaseVars>>
       \/ /\ p \notin Elements(modules[g])
          /\ L!Acquire(p)
          /\ modules' = [modules EXCEPT ![g] = Append(@, p)]
    /\ pc' = [pc EXCEPT ![t] = "release_admitted"]
    /\ scan' = [scan EXCEPT ![t] = Len(modules'[g])]
    /\ failed' = [failed EXCEPT ![t] = FALSE]
    /\ gstate' = [gstate EXCEPT ![g] = "FAILED"]
    /\ todo' = [todo EXCEPT ![t] = <<>>]
    /\ uses' = [uses EXCEPT ![g] = {}]
    /\ UNCHANGED <<runtimeVars, id, owned, scopes, components, settled, scopeVars, arg,
                   faults>>

BuildConfigure(t) ==
    /\ pc[t] = "admit"
    /\ todo[t] = <<>>
    /\ pc' = [pc EXCEPT ![t] = "configure"]
    /\ settled' = [settled EXCEPT ![arg[t]] = FALSE]
    /\ UNCHANGED <<runtimeVars, gstate, id, owned, scopes, components, modules, scopeVars,
                   arg, todo, scan, failed, leaseVars, uses, faults>>

Built(t) ==
    LET g == arg[t] IN
    /\ pc[t] = "configure"
    /\ components' = [components EXCEPT ![g] = "ACTIVE"]
    /\ gstate' = [gstate EXCEPT ![g] = "BUILT"]
    /\ Return(t)
    /\ UNCHANGED <<runtimeVars, id, owned, scopes, settled, modules, scopeVars, todo,
                   leaseVars, uses, faults>>

(* The graph fails to start: rolled back and settled, or with a record left  *)
(* unsettled, and then the leases stay.                                      *)
BuildFailed(t) ==
    LET g == arg[t] IN
    /\ pc[t] = "configure"
    /\ gstate' = [gstate EXCEPT ![g] = "FAILED"]
    /\ components' = [components EXCEPT ![g] = "FAILED"]
    /\ \/ /\ settled' = [settled EXCEPT ![g] = TRUE]
          /\ BeginRelease(t, "release_configured")
          /\ UNCHANGED <<arg, faults>>
       \/ /\ faults < MaxFaults
          /\ Return(t)
          /\ faults' = faults + 1
          /\ UNCHANGED settled
    /\ UNCHANGED <<runtimeVars, id, owned, scopes, modules, scopeVars, todo, leaseVars,
                   uses>>

-----------------------------------------------------------------------------
(* release_modules, one record per step, from the last to the first.         *)

Releasing == {"release_admitted", "release_configured", "release_built",
              "release_recover", "release_drain"}

(* Mutant: the hole is closed by dropping the tail.                          *)
CompactTail(records, index) == SubSeq(records, 1, Len(records) - 1)

(* The record at index goes; the tail record, visited before, fills the hole. *)
Compact(records, index) ==
    SubSeq([records EXCEPT ![index] = records[Len(records)]], 1, Len(records) - 1)

ReleaseModule(t) ==
    LET g == arg[t] IN
    /\ pc[t] \in Releasing
    /\ scan[t] > 0
    /\ L!Release(modules[g][scan[t]])
    /\ modules' = [modules EXCEPT ![g] = Compact(@, scan[t])]
    /\ scan' = [scan EXCEPT ![t] = @ - 1]
    /\ UNCHANGED <<runtimeVars, gstate, id, owned, scopes, components, settled, scopeVars,
                   pc, arg, todo, failed, uses, faults>>

(* The registry refuses a token: its record stays for an explicit retry.     *)
ReleaseModuleFails(t) ==
    /\ pc[t] \in Releasing
    /\ scan[t] > 0
    /\ faults < MaxFaults
    /\ faults' = faults + 1
    /\ scan' = [scan EXCEPT ![t] = @ - 1]
    /\ failed' = [failed EXCEPT ![t] = TRUE]
    /\ UNCHANGED <<runtimeVars, generationVars, scopeVars, pc, arg, todo, leaseVars, uses>>

(* generation_clear.                                                         *)
Clear(g) ==
    /\ modules' = [modules EXCEPT ![g] = <<>>]
    /\ components' = [components EXCEPT ![g] = "ZERO"]
    /\ settled' = [settled EXCEPT ![g] = TRUE]
    /\ uses' = [uses EXCEPT ![g] = {}]

(* What the caller of release_modules does when a release failed ...         *)
ReleaseFailed(t) ==
    LET g == arg[t] IN
    /\ pc[t] \in Releasing
    /\ scan[t] = 0 /\ failed[t]
    /\ Return(t)
    /\ gstate' = [gstate EXCEPT ![g] = "FAILED"]
    /\ UNCHANGED <<runtimeVars, id, owned, scopes, components, settled, modules,
                   scopeVars, todo, leaseVars, uses, faults>>

(* ... and when none did: a failed build, a discard or recover, a drain.     *)
BuildGivenUp(t) ==
    /\ pc[t] \in {"release_admitted", "release_configured"}
    /\ scan[t] = 0 /\ ~failed[t]
    /\ Return(t)
    /\ Clear(arg[t])
    /\ UNCHANGED <<runtimeVars, gstate, id, owned, scopes, scopeVars, todo, leaseVars,
                   faults>>

Withdrawn(t) ==
    LET g == arg[t] IN
    /\ pc[t] \in {"release_built", "release_recover"}
    /\ scan[t] = 0 /\ ~failed[t]
    /\ Return(t)
    /\ Clear(g)
    /\ gstate' = [gstate EXCEPT ![g] = "DRAINED"]
    /\ UNCHANGED <<runtimeVars, id, owned, scopes, scopeVars, todo, leaseVars, faults>>

Detach(g) ==
    /\ owned' = [owned EXCEPT ![g] = FALSE]
    /\ attached' = attached - 1

Drained(t) ==
    LET g == arg[t] IN
    /\ pc[t] = "release_drain"
    /\ scan[t] = 0 /\ ~failed[t]
    /\ Return(t)
    /\ Clear(g)
    /\ gstate' = [gstate EXCEPT ![g] = "DRAINED"]
    /\ Detach(g)
    /\ UNCHANGED <<initialized, current, lastId, activeScopes, id, scopes, scopeVars,
                   todo, leaseVars, faults>>

-----------------------------------------------------------------------------
(* generation_discard and generation_recover.                                *)

Discard(t, g) ==
    /\ pc[t] = "idle" /\ Unshared(g)
    /\ gstate[g] = "BUILT"
    /\ Enter(t, g, "stop_built")
    /\ UNCHANGED <<runtimeVars, generationVars, scopeVars, todo, scan, failed, leaseVars,
                   uses, faults>>

Recover(t, g) ==
    /\ pc[t] = "idle" /\ Unshared(g)
    /\ gstate[g] = "FAILED" /\ ~owned[g] /\ scopes[g] = 0
    /\ components[g] \in {"ZERO", "FAILED", "STOPPED"}
    /\ service_host_components_settled(g)
    /\ Enter(t, g, "release_recover")
    /\ scan' = [scan EXCEPT ![t] = Len(modules[g])]
    /\ failed' = [failed EXCEPT ![t] = FALSE]
    /\ UNCHANGED <<runtimeVars, generationVars, scopeVars, todo, leaseVars, uses, faults>>

(* Mutant: the leases go back before the graph has stopped.                  *)
StopReturnsLate(t) ==
    LET g == arg[t] IN
    /\ pc[t] \in {"stop_built", "stop_drain"}
    /\ BeginRelease(t, IF pc[t] = "stop_built" THEN "release_built" ELSE "release_drain")
    /\ UNCHANGED <<runtimeVars, generationVars, scopeVars, arg, todo, leaseVars, uses, faults>>

(* context_stop returns and the records are scanned: settled, and then the   *)
(* leases are given back, or not, and then the generation fails with them.   *)
(* A drain that retries a failed generation finds the graph stopped already. *)
StopReturns(t) ==
    LET g == arg[t]
        active == components[g] = "ACTIVE"
    IN
    /\ pc[t] \in {"stop_built", "stop_drain"}
    /\ \/ /\ active \/ service_host_components_settled(g)
          /\ components' = [components EXCEPT ![g] = IF active THEN "STOPPED" ELSE @]
          /\ settled' = [settled EXCEPT ![g] = TRUE]
          /\ BeginRelease(t, IF pc[t] = "stop_built" THEN "release_built" ELSE "release_drain")
          /\ UNCHANGED <<arg, gstate, faults>>
       \/ /\ active \/ ~service_host_components_settled(g)
          /\ faults < MaxFaults
          /\ components' = [components EXCEPT ![g] = "FAILED"]
          /\ gstate' = [gstate EXCEPT ![g] = "FAILED"]
          /\ Return(t)
          /\ faults' = faults + 1
          /\ UNCHANGED settled
    /\ UNCHANGED <<runtimeVars, id, owned, scopes, modules, scopeVars, todo, leaseVars,
                   uses>>

(* The owner of the instance records repairs what a provider left malformed. *)
Repair(g) ==
    /\ gstate[g] = "FAILED" /\ components[g] = "FAILED"
    /\ ~settled[g]
    /\ settled' = [settled EXCEPT ![g] = TRUE]
    /\ UNCHANGED <<runtimeVars, gstate, id, owned, scopes, components, modules, scopeVars,
                   threadVars, leaseVars, uses, faults>>

-----------------------------------------------------------------------------
(* The critical sections of the runtime.                                     *)

service_host_generation_publishable(g) == components[g] = "ACTIVE"

PublishAllowed(g) ==
    /\ gstate[g] = "BUILT"
    /\ service_host_generation_publishable(g)
    /\ ~owned[g] /\ scopes[g] = 0
    /\ id[g] > lastId
    /\ attached < MaxAttached
    /\ current # NoGeneration => gstate[current] = "PUBLISHED"

(* Mutant: the generation it replaces is not told to drain.                  *)
SupersededBySilent(g) == [gstate EXCEPT ![g] = "PUBLISHED"]

SupersededBy(g) ==
    [h \in Generations |-> IF h = g THEN "PUBLISHED"
                           ELSE IF h = current THEN "DRAINING" ELSE gstate[h]]

Publish(g) ==
    /\ initialized
    /\ Unshared(g)
    /\ PublishAllowed(g)
    /\ owned' = [owned EXCEPT ![g] = TRUE]
    /\ gstate' = SupersededBy(g)
    /\ attached' = attached + 1
    /\ current' = g
    /\ lastId' = id[g]
    /\ UNCHANGED <<initialized, activeScopes, id, scopes, components, settled, modules,
                   scopeVars, threadVars, leaseVars, uses, faults>>

Close ==
    /\ initialized
    /\ current # NoGeneration
    /\ gstate[current] = "PUBLISHED"
    /\ gstate' = [gstate EXCEPT ![current] = "DRAINING"]
    /\ current' = NoGeneration
    /\ UNCHANGED <<initialized, lastId, activeScopes, attached, id, owned, scopes,
                   components, settled, modules, scopeVars, threadVars, leaseVars, uses,
                   faults>>

ScopeAcquire(s) ==
    /\ initialized
    /\ bound[s] = NoGeneration
    /\ current # NoGeneration
    /\ gstate[current] = "PUBLISHED"
    /\ scopes' = [scopes EXCEPT ![current] = @ + 1]
    /\ activeScopes' = activeScopes + 1
    /\ bound' = [bound EXCEPT ![s] = current]
    /\ boundId' = [boundId EXCEPT ![s] = id[current]]
    /\ UNCHANGED <<initialized, current, lastId, attached, gstate, id, owned, components,
                   settled, modules, threadVars, leaseVars, uses, faults>>

Uncount(g) ==
    /\ scopes' = [scopes EXCEPT ![g] = @ - 1]
    /\ activeScopes' = activeScopes - 1

ScopeRelease(s) ==
    LET g == bound[s] IN
    /\ g # NoGeneration
    /\ initialized
    /\ owned[g] /\ id[g] = boundId[s]
    /\ scopes[g] > 0 /\ activeScopes > 0
    /\ Uncount(g)
    /\ bound' = [bound EXCEPT ![s] = NoGeneration]
    /\ boundId' = [boundId EXCEPT ![s] = 0]
    /\ UNCHANGED <<initialized, current, lastId, attached, gstate, id, owned, components,
                   settled, modules, threadVars, leaseVars, uses, faults>>

(* Mutants: drain does not wait for the scopes; it does not notice that the  *)
(* generation is being stopped.                                              *)
DrainAllowedScoped(g) ==
    /\ owned[g] /\ attached > 0
    /\ gstate[g] = "DRAINING" /\ service_host_generation_publishable(g)

(* Mutant: a drain that failed cannot be retried.                            *)
DrainAllowedOnce(g) ==
    /\ owned[g] /\ attached > 0
    /\ scopes[g] = 0
    /\ gstate[g] = "DRAINING" /\ service_host_generation_publishable(g)

(* A generation that was superseded or closed, or one whose earlier drain    *)
(* failed and whose records are settled again; and no scope holds it.        *)
DrainAllowed(g) ==
    /\ owned[g] /\ attached > 0
    /\ scopes[g] = 0
    /\ \/ gstate[g] = "DRAINING" /\ service_host_generation_publishable(g)
       \/ /\ gstate[g] = "FAILED" /\ components[g] \in {"FAILED", "STOPPED"}
          /\ service_host_components_settled(g)

(* generation_drain up to the first unlock.                                  *)
Drain(t, g) ==
    /\ pc[t] = "idle"
    /\ initialized
    /\ DrainAllowed(g)
    /\ gstate' = [gstate EXCEPT ![g] = "STOPPING"]
    /\ Enter(t, g, "stop_drain")
    /\ UNCHANGED <<runtimeVars, id, owned, scopes, components, settled, modules, scopeVars,
                   todo, scan, failed, leaseVars, uses, faults>>

-----------------------------------------------------------------------------
(* The plugin manager of the application, through the registry.              *)
PluginStep(p) ==
    /\ \/ L!Load(p) \/ L!Start(p) \/ L!Retire(p) \/ L!RequestStop(p) \/ L!Quiesce(p)
       \/ L!Unload(p)
    /\ UNCHANGED <<runtimeVars, generationVars, scopeVars, threadVars, uses, faults>>

Begin(t, g) ==
    \/ BuildInvalidSource(t, g)
    \/ \E q \in Sources, n \in 1..MaxId : BuildBegin(t, g, q, n)
    \/ Discard(t, g) \/ Recover(t, g) \/ Drain(t, g)

Continue(t) ==
    \/ BuildAdmit(t) \/ BuildAdmitFailed(t) \/ BuildConfigure(t) \/ Built(t) \/ BuildFailed(t)
    \/ ReleaseModule(t) \/ ReleaseModuleFails(t) \/ ReleaseFailed(t)
    \/ BuildGivenUp(t) \/ Withdrawn(t) \/ Drained(t) \/ StopReturns(t)

Section ==
    \/ RuntimeInit \/ RuntimeDestroy \/ Close
    \/ \E g \in Generations : Publish(g) \/ Repair(g)
    \/ \E s \in Scopes : ScopeAcquire(s) \/ ScopeRelease(s)

Next ==
    \/ \E t \in Threads, g \in Generations : Begin(t, g)
    \/ \E t \in Threads : Continue(t)
    \/ Section
    \/ \E p \in Plugins : PluginStep(p)

Spec == Init /\ [][Next]_vars

-----------------------------------------------------------------------------
GStates == {"ZERO", "BUILT", "PUBLISHED", "DRAINING", "STOPPING", "DRAINED", "FAILED"}
CStates == {"ZERO", "ACTIVE", "STOPPED", "FAILED"}

(* Every variable has the type its declaration gives it.                     *)
TypeOK ==
    /\ initialized \in BOOLEAN
    /\ current \in Generations \cup {NoGeneration}
    /\ lastId \in 0..MaxId
    /\ activeScopes \in Nat /\ attached \in Nat
    /\ gstate \in [Generations -> GStates]
    /\ id \in [Generations -> 0..MaxId]
    /\ owned \in [Generations -> BOOLEAN]
    /\ scopes \in [Generations -> Nat]
    /\ components \in [Generations -> CStates]
    /\ settled \in [Generations -> BOOLEAN]
    /\ modules \in [Generations -> Seq(Plugins)]
    /\ bound \in [Scopes -> Generations \cup {NoGeneration}]
    /\ boundId \in [Scopes -> 0..MaxId]
    /\ pc \in [Threads -> {"idle"} \cup Exclusive \cup Draining]
    /\ arg \in [Threads -> Generations \cup {NoGeneration}]
    /\ todo \in [Threads -> Seq(Plugins)]
    /\ scan \in [Threads -> Nat]
    /\ failed \in [Threads -> BOOLEAN]
    /\ phase \in [Plugins -> L!Phases]
    /\ outstanding \in [Plugins -> Nat]
    /\ uses \in [Generations -> SUBSET Plugins]
    /\ faults \in 0..MaxFaults

(* "Existing Scopes keep the old generation alive": whatever is published,    *)
(* closed or drained meanwhile, the generation of a live scope is the one it *)
(* was acquired from, is attached, and its whole graph is active.            *)
ScopePinsGeneration ==
    \A s \in Scopes : bound[s] # NoGeneration =>
        /\ initialized
        /\ owned[bound[s]]
        /\ id[bound[s]] = boundId[s]
        /\ gstate[bound[s]] \in {"PUBLISHED", "DRAINING"}
        /\ scopes[bound[s]] = Cardinality({r \in Scopes : bound[r] = bound[s]})
        /\ components[bound[s]] = "ACTIVE"

(* Provider code stays in the process as long as an instance record of a      *)
(* generation may still refer to it: leases go back only once the components *)
(* have settled, in build, discard, recover and drain, failures included.    *)
CodePinned ==
    \A g \in Generations : ~settled[g] =>
        \A p \in uses[g] : p \in Elements(modules[g]) /\ phase[p] \in {"UP", "STOPPING"}

(* Every lease the registry counts is in exactly one record of one            *)
(* generation, whatever releases fail: no lease is lost, none returned twice. *)
LeasesRecorded ==
    /\ \A g \in Generations : Cardinality(Elements(modules[g])) = Len(modules[g])
    /\ \A p \in Plugins :
          outstanding[p] = Cardinality({g \in Generations : p \in Elements(modules[g])})

(* The books balance: every lease is recorded, at most two generations are    *)
(* attached and counted, and active_scopes, which destroy tests, counts the  *)
(* live scopes.                                                              *)
BooksBalance ==
    /\ LeasesRecorded
    /\ activeScopes = Cardinality({s \in Scopes : bound[s] # NoGeneration})
    /\ attached = Cardinality({g \in Generations : owned[g]})
    /\ attached <= MaxAttached
    /\ ~initialized => attached = 0

(* Admission goes to one generation, the one published last: it alone is     *)
(* PUBLISHED and its id is above those of every other attached generation.   *)
NewestAdmits ==
    /\ \A g \in Generations : gstate[g] = "PUBLISHED" <=> g = current
    /\ current # NoGeneration =>
          \A g \in Generations : owned[g] /\ g # current => id[g] < id[current]

(* Two drains of one generation never run its teardown together, nothing     *)
(* else works on a generation that is being drained, and the runtime whose   *)
(* lock the drain takes again is not destroyed under it.                     *)
DrainExclusive ==
    \A t \in Threads : pc[t] \in Draining =>
        /\ initialized
        /\ gstate[arg[t]] = "STOPPING"
        /\ \A u \in Threads \ {t} : pc[u] # "idle" => arg[u] # arg[t]

(* Admission and teardown are handed over one generation at a time.          *)
Handover == NewestAdmits /\ DrainExclusive

(* A generation that was superseded or closed is drained in the end, and its  *)
(* leases are returned, also when providers and releases fail on the way.    *)
DrainsInTheEnd ==
    \A g \in Generations :
        gstate[g] = "DRAINING" ~> gstate[g] = "DRAINED" /\ modules[g] = <<>>

=============================================================================
