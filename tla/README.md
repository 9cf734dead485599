# Salts: TLA+ models, model checks and proofs

Salts is a C library for applications that are assembled from components. This
directory holds TLA+ models of the parts of it in which threads, callbacks,
failures and long sequences of calls meet, the TLC configurations that check
them on small instances, and machine-checked proofs (TLAPS) of what the
component runtime promises.

- [The system and its models](#the-system-and-its-models)
- [How the models are written](#how-the-models-are-written)
- [Runs](#runs)
- [Proofs](#proofs)
- [Where the code and its documents disagree](#where-the-code-and-its-documents-disagree)
- [Exposures that no run states](#exposures-that-no-run-states)
- [Only model-checked, and not modelled](#only-model-checked-and-not-modelled)

`PROJECT.json` names, for the definitions that stand for code, the source lines
they translate; a definition also stands for the helpers beside its lines that
it uses. It also lists the runs, the mutants that show each property can fail,
the hazards, and the theorems.

## The system and its models

**The component runtime** loads code, wires components and replaces them.

| part | source | modules |
| --- | --- | --- |
| plugin registry: slots, lifecycle, leases | `plugin/src/plugin_registry.c` | `PluginRegistry`; its promise `PluginLeases` |
| configurator: one graph of components | `component-runtime/src/configurator.c` | `Configurator`; its promise `ComponentLayers` |
| service host: generations, scopes, drains | `component-runtime/src/service_host.c`, `service_host_runtime.c` | `ServiceHost`, on top of `PluginLeases` |

The three are composed through their promises. `PluginRegistry` is shown to
implement `PluginLeases` (a plugin's code stays while a lease is out), and
`ServiceHost` takes its leases from `PluginLeases` instead of from slots and
callbacks. `Configurator` is shown to implement `ComponentLayers` (a component
is up only while everything it needs is up); of a start or stop the host sees
only whether every instance record was settled.

**CFlow** runs graphs of operators, actors and state machines over schedulers
and asynchronous I/O.

| part | source (`cflow/src/`) | module |
| --- | --- | --- |
| owner executor and scheduler | `executor_owner.c`, `scheduler_owner.c` | `OwnerScheduler` |
| timer queue; manual, inline and test schedulers | `executor.c`, `scheduler.c`, `timer_queue.c`, `clock.c` | `CallerScheduler` |
| worker scheduler | `scheduler_worker.c` | `WorkerScheduler` |
| mailbox | `event.c` | `Mailbox` |
| reactive run: operators and life | `subscription.c` | `Subscription` |
| actors | `actor.c` | `Actor` |
| channel and interval publishers | `publishers.c` | `Publishers` |
| coordination, subgraphs, delay/debounce/timeout | `coord.c`, `subflow.c`, `temporal.c` | `Continuations` |
| timed events | `timer_event.c` | `TimerEvents` |
| stream execution and collectors | `stream_execution.c` | `StreamExecution` |
| optimiser, compiler, evaluation, parallel reduction | `opt.c`, `property.c`, `plan_compile.c`, `plan_exec.c`, `plan_parallel_reduce.c` | `Plan` |
| machine builder | `machine.c` | `Machine` |
| machine hierarchy, and its statechart | `machine_hierarchy.c`, `statechart_hierarchy_adapter.c` | `MachineHierarchy` |
| machine and hierarchy instances | `machine_instance.c`, `machine_hierarchy.c` | `MachineInstance` |
| statechart builder and microstep | `statechart.c`, `statechart_instance.c` | `Statechart` |
| statechart instance | `statechart_instance.c` | `StatechartInstance` |
| IO actor | `io_actor.c` | `IoActor` |
| IO publisher, asynchronous files | `io_publisher.c`, `io_file.c` | `IoClients` |
| sharded and native adapters, readiness publisher | `io_native_sharded_adapter.c`, `io_native_adapter.c`, `readiness.c` | `IoAdapters` |
| io_uring, IOCP, Darwin AIO, readiness sockets | `io_native_io_uring.c`, `io_native_iocp.c`, `io_native_darwin_aio.c`, `io_native_readiness.c` | `IoBackends` |

**cstl** is the container library: `Trees` (B-tree, B+ tree, red-black tree),
`HashMap` (map and set) and `LinearContainers` (vector, deque, list, heap and
the stable sort).

`MachineFamilies` holds the definitions the builders and the steps are checked
on. The `MC...` modules instantiate the components for TLC.

## How the models are written

*State and actions.* A variable is a field of the component's struct, the
position of a call that is under way, or history that a property needs
(`destroyRuns`, `tokens`, `created`, `taken` ...; declarations say which). One
action is one hold of the component's lock, or one call made outside it: a
plugin's callback, a provider's hook, a waker, a subscriber, a system call. So
everything another thread can do while a lock is released can happen in the
model. A call that fails a check and returns changes nothing and is the absence
of a step; error paths that change state are actions of their own.

*Names.* Functions that change state keep their C names where TLA+ allows it
(`clear_slot_locked`, `cflow_mailbox_close`); a function cut at its unlocked
calls becomes several actions (`Start`, `StartReturns`).

*Data.* Payloads, names, error texts and statistics are left out; a value is a
small number or a model value. Integers keep a width where it matters: the
generations of plugin slots and leases wrap at `GenerationModulus`, the counters
of a mailbox saturate at `CounterMax`.

*Externals.* The thread pool, the dynamic loader, kernels and reactors, the
owner of an instance record that a failed provider left behind, and the
application that drives everything are modelled from how the sources use them,
and marked external in the map. A loader call, a platform close, a provider
callback or a post to an executor may fail at every point where the code
handles the failure.

*Side by side.* `MCFlows`, `MCMachines`, `MCIo`, `MCAlgorithms` and `MCProgress`
put components that do not call each other into one run: the variable `which`,
chosen in the initial state and never changed, says which of them moves, so the
state spaces add up and do not multiply. In `MCFlows`, `MCIo` and
`MCAlgorithms` the components share their variables (`x1`, `x2` ...), which a
component's `INSTANCE` names. A property of such a module is a conjunction of
`which = "..." => ...`, one conjunct per component; the components' modules
state and explain those. `MCServiceHost` has a variable `line` in the same way:
`faults` explores failing providers and releases with two generations, one scope
and two plugins, `traffic` three generations and two scopes over one plugin
without failures.

## Runs

| run | asks | bounds |
| --- | --- | --- |
| `plugin_registry` | load, start, leases, stop, poll, unload and destroy of two threads: types, stale tokens, callbacks, admission, destruction, and the refinement of `PluginLeases` | 2 slots, 2 plugins (one without callbacks), 2 leases each, 3 loads, 3 acquires |
| `configurator` | admission, resolution, start, rollback, stop and reuse: plan, all-or-nothing, settlement, lookups, and the refinement of `ComponentLayers` | every graph over 3 components, self loops included, and a family with two providers and selections; every callback may fail; a context is used twice |
| `service_host` | builds, publications, closes, scopes and drains of two threads: scopes pin generations, leases pin code, hand-over, books | along two lines (above): 3 generations and 2 scopes, or 2 plugins and at most 2 failures |
| `flows` | schedulers, mailbox, runs, actors, publishers, continuations, timed events, streams | one to four threads for each, rings, queues and tables of 1 to 3 places, up to 4 tasks, sends, timers or values; the pipelines `MCPipelines` |
| `machines` | builders, statechart steps, machine, hierarchy and statechart instances | `MachineFamilies`: flat machines of 3 states and up to 3 rows, trees of 3 and 6 states, charts of up to 15; instances with 1 or 2 threads, 2 sends, 1 or 2 stops, and an executor that may refuse |
| `io` | actor, publisher, adapters, backends and files | up to 3 requests, one or two injected faults, refused submits, stale completions, cancels at every step |
| `algorithms` | containers against their reference, sort, plans, parallel reductions | up to 9 keys in trees, 6 in tables, 5 elements in linear containers, arrays of 7 to sort; graphs of up to 3 nodes |
| `progress` | what must happen in the end | one or two threads of each component |
| `deferred_close`, `actor_wait`, `chart_exit`, `machine_close` | what a header promises and the code does not do | see below |

*Bounds.* They are chosen so that every branch of every action happens (TLC's
coverage shows that no action and no disjunct stays unused) and that what a
property is about can go wrong: slots and ids are reused, rings wrap, trees
split and merge, what failed is retried. The mutants show it: each property is
violated within its bounds once the code it is about is changed. A
bound that is not a constant of the code carries a name (`MaxLoads`,
`MaxFaults`, `MaxSends` ...) and only disables further steps.

*Symmetry.* Threads, generations, scopes, workers, drivers and leases are
permuted where no action or property tells them apart, and never in a run with a
liveness property.

*Deadlock.* `plugin_registry` and `service_host` are checked for it. In the
other runs a component may really come to its end (a destroyed scheduler, an
exhausted bound), so it is not.

*Fairness*, in `progress` and `deferred_close` only. What runs in a thread of
its own, or inside a call that has begun, goes on: the owner's loop, the timer
thread, the pool, a waker that was detached, a callback that returns. These are
weakly fair. What the application must repeat is strongly fair: it retries a
drain or an unload that failed, polls a stopping plugin, repairs a record a
provider left malformed, and what it retries succeeds in the end; scopes and
leases are released by their owners. Nobody has to send, post, publish, close or
cancel.

*Mutants.* Every property of a passing run has a mutant in `PROJECT.json`: an
operator, defined before the one it replaces and marked `Mutant:`, that changes
it as a plausible mistake would (a dropped check, a missing reset, a late
unlock). With it TLC finds the property violated.

### What the passing runs show

- `plugin_registry`: two racing loads never publish one id, nor open a DSO
  without a slot for it; at most one callback of a plugin runs, in an open DSO;
  the destroy callback runs once per load, also when a close fails and is
  retried; a token that outlived its slot is refused, however often slots are
  reused; `destroy()` frees an empty registry, alone.
- `configurator`: `resolve` plans a topological order with the lowest ready
  index first, and reports a cycle exactly if there is one; after any callback
  failed, what was created has been released once and what was activated
  deactivated once, in an order in which nothing runs without what it needs;
  lookups never return a component that is down or about to lose a dependency.
- `service_host`: a live scope keeps its generation attached and active; the
  code of a provider stays in the process until no record may refer to it, also
  if stops and releases fail; only the newest generation admits, one drain tears
  a generation down; leases, attached generations and scopes are counted
  exactly.
- `flows`: every admitted task runs or is cancelled, once, in order and not
  early; `wait_idle`, shutdown, close and destroy leave nothing behind that
  still calls; nobody sleeps on work that is there; subscribers hear one
  callback at a time and one end; every pipeline yields what its nodes say.
- `machines`: every accepted event is pending, in flight or settled once; a
  commit is observed once and none follows a cancel; timers never outlive their
  state; steps go from one legal configuration to another; what the builders
  make of a definition means what the definition says.
- `io`: an accepted request reaches the backend at most once and is completed
  once with its own result; nothing sleeps on what nobody brings; close and
  destroy are quiet; a window's results leave in order.
- `algorithms`: the containers agree with finite maps, sequences and bags, keep
  their shape, and a range that is still accepted yields every element once; the
  sort is stable; optimised, fused and parallel plans answer what their nodes
  say one value at a time, and destroy every value once.
- `progress`: superseded generations drain, accepted tasks settle, committed
  events are taken, a stopping plugin is unloaded.

## Proofs

TLC shows these properties for the instances above, TLAPS for every number of
threads, slots, plugins, leases, components, generations and scopes, and for
every input the assumptions admit. Eight modules hold proofs.

| theorem | of `Spec`, for every value of the constants |
| --- | --- |
| `PluginRegistryProofs!Inductive` | `IInv` holds |
| `TypeCorrect`, `StaleRejected`, `OneCallback`, `LoadsAdmitted`, `DestroysSafely` | `TypeOK`, `StaleTokensRejected`, `CallbacksExclusive`, `AdmissionSound`, `DestructionSafe`: every invariant of the run |
| `LeasePins`, `LeasesCounted` | a lease that is out pins its plugin; `active_leases` counts the leases that are out |
| `LeasesImplemented` | `ImplementsLeases`: the registry implements `PluginLeases` |
| `ConfiguratorProofs!Inductive` | `IInv` holds |
| `PlansExact`, `StartsWhole`, `SettlesOnce`, `ServicesBacked` | `PlanExact`, `AllOrNothing`, `SettledOnce`, `ServiceBacked`: every invariant of the run |
| `ActivationLayered` | `Layered`: a context implements `ComponentLayers` |
| `ServiceHostProofs!Inductive` | `IInv` holds |
| `ScopesPinned`, `ProvidersPinned`, `HandedOver`, `BooksKept` | `ScopePinsGeneration`, `CodePinned`, `Handover`, `BooksBalance`: every property of the run |

Everything the runs `plugin_registry`, `configurator` and `service_host` check
is proved.

### Assumptions on the constants

- `PluginRegistry`: capacity and leases per plugin are positive numbers, threads
  are finitely many, `NoPlugin` is not a plugin, and no generation counter wraps
  within the bounds (`NoWrapAssumption`). The counters have 32 bits, so a wrap
  takes 2^32 - 1 reuses of one slot or lease. After it `next_generation` repeats
  values and a token that old may be taken for a current one: the assumption is
  the limit of the scheme, and nothing is proved beyond it.
- `Configurator`: the capacity is a number and the inputs are `WellFormed`, that
  is, they have the shape of the C arrays. Graphs may have cycles, self loops,
  duplicate ids, missing, ambiguous or malformed providers and any size.
- `ServiceHost`: generations and scopes are finite sets, `NoGeneration` is not a
  generation, and module lists are sequences of plugins.

The bounds on loads, acquires, ids, initialisations and failures are arbitrary
numbers in the proofs.

### The inductive invariants

None of the properties is inductive on its own: each says what must hold between
calls, and a proof has to know what the calls in progress are allowed to leave
undone. TLC checked each conjunct of each `IInv` before it was proved.

`PluginRegistry` (`PluginRegistryInvariant.tla`). `CallShape`, `CallbackOwner`
and `UnloadOwner` say who owns what while the mutex is released: one thread per
callback, in a slot whose state and flags match, and one closing thread per slot
marked `unloading`. `LibraryOpen` and `DestroyRun` follow the DSO and the
destroy callback through a close that may fail. `LeaseOwner` ties mask, counter
and held tokens together. `GenerationBound`, `RefAge` and `TokenAge` order the
generations: what was handed out is older than its slot, or names it; stale
tokens are refused because ages only grow. `Counts` relates the reservation
counter to the threads inside `load()`, so a published load finds its slot, and
says (`Counted`) that the sets the counters count are finite; kept inside the
invariant it gives every step the facts about cardinalities that it needs and
spares it the theorems about finite sets. `DestroyWalk` says that the walk of
`destroy()` is alone. The steps of load and of leases are proved in
`PluginRegistryInvariant`, the callbacks and unload in
`PluginRegistryCallbacks`, destroy and the theorems in `PluginRegistryProofs`.

The refinement maps a plugin to the phase of the one slot that holds it with an
open DSO, and its leases to the tokens held of it (`PhaseBar`,
`OutstandingBar`). `Seen` reads both from the fields of that slot: a bijection
between tokens and mask bits makes the number of tokens `active_leases`. A step
that touches one slot therefore moves one plugin (`OneSlot`), and each action is
a step of the promise or a stutter.

`Configurator` (`ConfiguratorInvariant.tla`). `Attached`, `PlanShape` and
`PlanFull` say what each state of a context guarantees of the borrowed arrays
and of the resolved rows. `OrderShape` is the loop invariant of `resolve`: the
order so far is free of repetitions, each component was the least that was ready
when it was placed, and all its providers come before it. `CallShape` says which
callback a call may be in. `UpShape` is about `Level`, how far up the activation
order the start, rollback or stop has got: exactly the components below it are
up. `Books` counts creations, releases, activations and deactivations of each
component against its record; `CycleShape` keeps, for a context that failed with
a cycle, the reason. That a cycle is reported only if there is one is an argument
about finite sets: components that are never ready each have a provider that is
never ready, so they form a cycle (`StuckIsCyclic`); that a graph with a cycle is
never ordered is the converse, by the least position of a member of the cycle
(`OrderedIsAcyclic`). `ActivationLayered` shows that each callback raises or
lowers one component at the edge of the levels.

`ServiceHost` (`ServiceHostInvariant.tla`). `CallShape` says which generation a
thread in a build, discard, recovery or drain has to itself; `GenerationShape`
ties state, id, ownership and settlement of a generation together;
`ScopeShape` and `AttachShape` give the meaning of the counters; `LeaseShape`
equates the leases outstanding of each plugin with the module records of the
generations, and `ReleaseShape` follows the compaction of the module array
while releases fail in the middle of it. `ServiceHostReleases` proves the steps
that release modules, `ServiceHostProofs` the others and the theorems.

## Where the code and its documents disagree

Four runs end in a counterexample to what a header says.

- `deferred_close` (`subscription.c:1041`): a close from the value callback that
  used up the demand, with a live continuation, leaves a pump that reposts
  itself for ever; `reactive.h` says destruction is deferred "until the active
  pump returns".
- `actor_wait` (`actor.c:471`): `cflow_actor_wait` returns while a worker is
  inside `on_error`, if `start()` found its request refused and settled the
  terminal state itself; `actor.h` says the callback has returned.
- `chart_exit` (`statechart_instance.c:3894`): an exit requested between the
  driver's look at the flag and its receive fails the instance instead of
  running its exit actions, as `statechart_instance.h` promises.
- `machine_close` (`machine_instance.c:508`): a close during a transition whose
  action emits an event drops the transition; `machine_instance.h` says it
  "commits exactly once".

## Exposures that no run states

While modelling, places were met where the code may surprise and no document of
the repository says what it should do. The properties above exclude or admit
them by name.

- `temporal.c:344`: a burst that ends exactly at the resume quantum leaves the
  yield's zero-tick timer in place of the quiet period's, and a debounced value
  may leave early. `TimersExact` speaks of delays and timeouts only.
- `coord.c:418`: the last child of a `LATEST` ends with DONE and the coordination
  answers WAIT with nobody left to wake it; excluded from `CoordSleepsRightly`.
- `statechart_instance.c:3370`: the microstep that settles a closed or cancelled
  instance rings no waiter.
- `io_file.c:503`: the result of a cancel is discarded, so a full command queue
  leaves a slot marked and no cancel on its way; `FileNotStranded` speaks of the
  marks a close leaves.
- `subflow.c:185`: an inner run that ends just before the request makes a
  completed subgraph answer an error; `SubflowExact` admits it.
- `subscription.c:1533`: a client's cancel calls a continuation's waitable
  outside the lock.
- `machine_hierarchy.c:789`: the gate is entered again when the executor refuses
  the task inside it.
- `statechart_instance.c:3946`: guards that raise events; `chart_exit` allows
  them (`GuardsRaise`), `machines` does not.
- `statechart.c:985`: a single target that no state declares.

## Only model-checked, and not modelled

*Only model-checked.* The properties of `flows`, `machines`, `io` and
`algorithms`, on the instances above. The container and plan modules compute
with recursive operators, and what a recursive definition computes for every
input needs induction over data, which is out of the reach of the installed
provers; the other modules of these runs have inductive invariants of the size
of those above, one for each component, and are not proved yet. Liveness
(`progress`) is checked by TLC only: TLAPS proves no fairness and no `ENABLED`.

*Not modelled.* The platform loaders (calls that succeed or fail in
`PluginRegistry`), graph construction and lowering, effects, interfaces and
function projection, relation nodes, clocks, the dispatch between native
backends, CMeta's descriptors and objects, byte buffers, and packaging, tools
and examples: they hold no state that changes after construction, or forward to
parts that are modelled. Allocation failures appear where the code's handling
changes state. The instance's own timers and external effects of a statechart,
relational plan nodes and the predicates that admit a parallel reduction are
left out of modules that model the rest of their component.
