----------------------------- MODULE MCMachines -----------------------------
(* Small instances of machines, hierarchies and statecharts side by side:     *)
(* which names the component that moves, the others stay where they start.    *)
EXTENDS Naturals, Sequences, FiniteSets, TLC

CONSTANTS s1, k1, u1, u2, c1, c2

VARIABLES
    \* MachineInstance
    lifecycle, worker_phase, ready, done, error, closed, cancelled, rerun, mailbox_armed,
    in_flight, completed, failed, cancelled_in_flight, emitted_values, emitted_events,
    state, downstream_waiter, terminal_waiter, mailbox, posted, pc, inner, held, got, alive,
    sends, stops, refusals, rings, commits, atCancel, owed, broken,
    \* HierarchyInstance
    hierarchy, gate, hi_closed, hi_cancelled, timers, timers_closed, born, machine, worker,
    user, fired, hi_sends, stale,
    \* StatechartInstance
    impl, host, si_pc, resume, queue, open, accepted, ingress, si_stops, reports, life,
    \* StatechartStep
    definition, ss_impl, configuration, history, completion_bits, completions, outcome, last,
    \* HierarchyAdapter
    ha_definition, ha_impl, chart,
    \* Machine
    m_definition, m_impl,
    which

machineVars == <<lifecycle, worker_phase, ready, done, error, closed, cancelled, rerun,
                 mailbox_armed, in_flight, completed, failed, cancelled_in_flight,
                 emitted_values, emitted_events, state, downstream_waiter, terminal_waiter,
                 mailbox, posted, pc, inner, held, got, alive, sends, stops, refusals, rings,
                 commits, atCancel, owed, broken>>
timersVars == <<hierarchy, gate, hi_closed, hi_cancelled, timers, timers_closed, born, machine,
                worker, user, fired, hi_sends, stale>>
chartVars == <<impl, host, si_pc, resume, queue, open, accepted, ingress, si_stops, reports,
               life>>
stepsVars == <<definition, ss_impl, configuration, history, completion_bits, completions,
               outcome, last>>
adapterVars == <<ha_definition, ha_impl, chart>>
builderVars == <<m_definition, m_impl>>
vars == <<which, machineVars, timersVars, chartVars, stepsVars, adapterVars, builderVars>>

Families == INSTANCE MachineFamilies
Charts == INSTANCE MachineFamilies

(* Constants that have one value wherever they are used.                      *)
Definition == Families!Scopes
Users == {u1, u2}
MaxTimers == 1
Senders == {s1}
Stoppers == {k1}
States == {"s", "d", "e"}
Kind == Families!ExecutedKind
Initials == {"s", "d", "e"}
Transitions == Families!ExecutedRows
Capacity == 1
Quantum == 2
MaxRefusals == 1

MachineRun == INSTANCE MachineInstance WITH
    MaxSends <- 2, MaxStops <- 2

Timers == INSTANCE MachineInstance WITH
    MaxSends <- 2,
    closed <- hi_closed, cancelled <- hi_cancelled, sends <- hi_sends,
    MaxStops <- 0

ChartRun == INSTANCE StatechartInstance WITH
    Callers <- {c1, c2}, MaxSends <- 2, MaxStops <- 1, ExternalCapacity <- 2,
    InternalCapacity <- 1, CompletionCapacity <- 1, MicrostepLimit <- 2, Hosts <- BOOLEAN, GuardsRaise <- FALSE,
    pc <- si_pc, stops <- si_stops

Steps == INSTANCE Statechart WITH
    Definitions <- Charts!Charts, MaxRows <- 20, CompletionCapacity <- 3,
    impl <- ss_impl

Adapter == INSTANCE MachineHierarchy WITH
    Definitions <- Families!Hierarchies, MaxRows <- 24,
    definition <- ha_definition, impl <- ha_impl

Builder == INSTANCE Machine WITH
    Definitions <- Families!Machines, MaxRows <- 4,
    definition <- m_definition, impl <- m_impl

Init ==
    /\ which \in {"machine", "timers", "chart", "steps", "adapter", "builder"}
    /\ which # "machine" => state = "s"
    /\ which # "chart" => host = FALSE
    /\ which # "steps" => definition = Charts!Final
    /\ which # "adapter" => ha_definition = Families!SomeHierarchy
    /\ which # "builder" => m_definition = Families!SomeMachine
    /\ MachineRun!MachineInit /\ Timers!HierarchyInit /\ ChartRun!Init /\ Steps!StepInit /\ Adapter!AdapterInit
    /\ Builder!Init

Next ==
    /\ \/ /\ which = "machine" /\ MachineRun!MachineNext
          /\ UNCHANGED <<timersVars, chartVars, stepsVars, adapterVars, builderVars>>
       \/ /\ which = "timers" /\ Timers!HierarchyNext
          /\ UNCHANGED <<machineVars, chartVars, stepsVars, adapterVars, builderVars>>
       \/ /\ which = "chart" /\ ChartRun!Next
          /\ UNCHANGED <<machineVars, timersVars, stepsVars, adapterVars, builderVars>>
       \/ /\ which = "steps" /\ Steps!StepNext
          /\ UNCHANGED <<machineVars, timersVars, chartVars, adapterVars, builderVars>>
       \/ /\ which = "adapter" /\ Adapter!AdapterNext
          /\ UNCHANGED <<machineVars, timersVars, chartVars, stepsVars, builderVars>>
       \/ /\ which = "builder" /\ Builder!Next
          /\ UNCHANGED <<machineVars, timersVars, chartVars, stepsVars, adapterVars>>
    /\ UNCHANGED which

Spec == Init /\ [][Next]_vars

Symmetry == Permutations({c1, c2})
-----------------------------------------------------------------------------
(* Every event a machine or a statechart accepted is pending, in flight, or   *)
(* settled exactly once; a statechart reports them in the order of admission. *)
EventsAccounted ==
    /\ which = "machine" => MachineRun!EventsAccounted
    /\ which = "chart" => ChartRun!SettledInOrder

(* A commit of a machine that won is observed once and nothing commits after  *)
(* a cancel; the timers of a hierarchy never outlive the states they belong   *)
(* to.                                                                        *)
CommitsLinearize ==
    /\ which = "machine" => MachineRun!CommitsLinearize
    /\ which = "timers" => Timers!TimersScoped

(* A machine that sleeps is woken by what it could go on with; a statechart   *)
(* with something to do has a driver that will run.                           *)
SleepsRightly ==
    /\ which = "machine" => MachineRun!SleepsRightly
    /\ which = "chart" => ChartRun!DriverOwed

(* A terminal rings once, and destroying a machine or a statechart waits for  *)
(* the tasks it has on its executor.                                          *)
DestroyIsLast ==
    /\ which = "machine" => MachineRun!TerminalOnce
    /\ which = "chart" => ChartRun!FreedQuiet


(* What the builders make of a definition means what the definition says:     *)
(* the sorted rows of a machine, the flattened rows of a hierarchy, and the   *)
(* statechart an adapter makes of it.                                         *)
BuiltAsDefined ==
    /\ which = "builder" => Builder!MachineSound
    /\ which = "adapter" => Adapter!FlatMeansTree
    /\ which = "adapter" => Adapter!ChartMeansFlat

(* machine_instance.h, close: "If close overlaps an executing transition,     *)
(* that transition commits exactly once before terminal settlement."          *)
CloseCommits == which = "machine" => MachineRun!CloseCommits
=============================================================================
