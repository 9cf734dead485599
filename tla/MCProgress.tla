----------------------------- MODULE MCProgress -----------------------------
(* What must happen in the end, for small instances of several components     *)
(* side by side: which names the component that moves, the others stay where *)
(* they start and their fairness asks nothing.                               *)
EXTENDS Naturals, TLC

CONSTANTS t1, t2, managed, NoPlugin, g1, g2, NoGeneration, s1, p1, f1, d1, Owner, NoTask

VARIABLES
    \* ServiceHost
    initialized, current, lastId, activeScopes, attached, gstate, id, owned, scopes,
    components, settled, modules, bound, boundId, pc, arg, todo, scan, failed, phase,
    outstanding, uses, faults,
    \* OwnerScheduler
    mailbox, running, cancel, lifecycle, policy, tails, signal, host, life, o_phase, slotId,
    consumed, free, pending, settling, dispatching, nextId, stopping, step, cancelling,
    calls,
    \* Mailbox
    alive, schema, terminal, head, count, slots, waiter, accepted, received, cancelled,
    detached, rung, arms, consumer, room, log, taken,
    \* WorkerScheduler
    now, timers, due, w_stopping, w_dispatching, settledBefore, w_accepted, timerPos,
    timerTask, refused, until, queue, poolClosed, w_running, completed, pos, w_arg, before,
    w_calls, w_life,
    \* PluginRegistry
    manifest, library, generation, state, callbacks, activeLeases, leaseMask,
    leaseGeneration, unloading, destroyCalled, impl, p_count, loadsInflight, destroying,
    p_pc, slotOf, candidate, whole, load, refs, tokens, held, loads, acquires, destroyRuns,
    which

hostVars == <<initialized, current, lastId, activeScopes, attached, gstate, id, owned, scopes,
              components, settled, modules, bound, boundId, pc, arg, todo, scan, failed, phase,
              outstanding, uses, faults>>
ownerVars == <<mailbox, running, cancel, lifecycle, policy, tails, signal, host, life, o_phase,
               slotId, consumed, free, pending, settling, dispatching, nextId, stopping, step,
               cancelling, calls>>
mailboxVars == <<alive, schema, terminal, head, count, slots, waiter, accepted, received,
                 cancelled, detached, rung, arms, consumer, room, log, taken>>
workerVars == <<now, timers, due, w_stopping, w_dispatching, settledBefore, w_accepted,
                timerPos, timerTask, refused, until, queue, poolClosed, w_running, completed,
                pos, w_arg, before, w_calls, w_life>>
pluginVars == <<manifest, library, generation, state, callbacks, activeLeases, leaseMask,
                leaseGeneration, unloading, destroyCalled, impl, p_count, loadsInflight,
                destroying, p_pc, slotOf, candidate, whole, load, refs, tokens, held, loads,
                acquires, destroyRuns>>
vars == <<which, hostVars, ownerVars, mailboxVars, workerVars, pluginVars>>

Host == INSTANCE ServiceHost WITH
    Threads <- {t1}, Generations <- {g1, g2}, Scopes <- {s1}, Plugins <- {p1}, Sources <-
    {<<p1>>}, ModuleCapacity <- 1, MaxId <- 2, MaxFaults <- 1

OwnerSide == INSTANCE OwnerScheduler WITH
    ExecutorCapacity <- 2, MaxTails <- 2, ReadyCapacity <- 2, Foreign <- {f1}, Direct <- {d1},
    MaxId <- 3,
    phase <- o_phase

MailboxSide == INSTANCE Mailbox WITH
    Capacity <- 2, Ids <- 0 .. 4, Size <- [i \in 0 .. 4 |-> IF i = 3 THEN 2 ELSE 1], Schemas <-
    {<<3, 1>>}, CounterMax <- 3, MaxSends <- 3, MaxArms <- 2

WorkerSide == INSTANCE WorkerScheduler WITH
    Callers <- {f1}, Workers <- 1, ReadyCapacity <- 1, TimerCapacity <- 2, Delays <- {0, 1},
    TimeMax <- 1, MaxTasks <- 2,
    stopping <- w_stopping, dispatching <- w_dispatching, accepted <- w_accepted, running <-
    w_running, arg <- w_arg, calls <- w_calls, life <- w_life

Registry == INSTANCE PluginRegistry WITH
    Threads <- {t1, t2}, Plugins <- {managed}, Managed <- {managed}, Capacity <- 1,
    LeasesPerPlugin <- 1, GenerationModulus <- 8, MaxLoads <- 2, MaxAcquires <- 2,
    count <- p_count, pc <- p_pc

Init ==
    /\ which \in {"host", "owner", "mailbox", "worker", "plugin"}
    /\ Host!Init /\ OwnerSide!Init /\ MailboxSide!Init /\ WorkerSide!Init /\ Registry!Init

Next ==
    /\ \/ /\ which = "host" /\ Host!Next
          /\ UNCHANGED <<ownerVars, mailboxVars, workerVars, pluginVars>>
       \/ /\ which = "owner" /\ OwnerSide!Next
          /\ UNCHANGED <<hostVars, mailboxVars, workerVars, pluginVars>>
       \/ /\ which = "mailbox" /\ MailboxSide!Next
          /\ UNCHANGED <<hostVars, ownerVars, workerVars, pluginVars>>
       \/ /\ which = "worker" /\ WorkerSide!Next
          /\ UNCHANGED <<hostVars, ownerVars, mailboxVars, pluginVars>>
       \/ /\ which = "plugin" /\ Registry!Next
          /\ UNCHANGED <<hostVars, ownerVars, mailboxVars, workerVars>>
    /\ UNCHANGED which

(* which never changes, so a condition on a disjunction of steps of different *)
(* components asks of each component what a condition of its own would ask.  *)
(*   - a running call of the service host goes on, scope owners release, and *)
(*     the application repairs what a provider left and retries the drain;   *)
(*   - the owner's callbacks return, wakes are delivered, the host drives    *)
(*     its loop, and a cancel that began ends;                               *)
(*   - the mailbox's consumer keeps polling and arming, and a thread that    *)
(*     detached a waker invokes it; nobody has to send, close or cancel;     *)
(*   - the timer thread, the pool and callers inside a call go on, and time  *)
(*     passes;                                                               *)
(*   - callbacks and the loader return, owners release their leases, and a   *)
(*     host that asked for a stop keeps polling and unloading; a plugin that *)
(*     is polled again and again is quiescent in the end, and a close that   *)
(*     is retried succeeds.                                                  *)
moving ==
    CASE which = "host" -> hostVars [] which = "owner" -> ownerVars [] which = "mailbox" -> mailboxVars
      [] which = "worker" -> workerVars [] which = "plugin" -> pluginVars

Run1 ==
    \/ which = "host" /\ Host!Continue(t1)
    \/ which = "owner" /\ OwnerSide!OwnerStep
    \/ which = "mailbox" /\ (MailboxSide!BufferTooSmall \/ MailboxSide!Receive \/ MailboxSide!ReceiveNothing)
    \/ which = "worker" /\ WorkerSide!Timer
    \/ which = "plugin" /\ Registry!Continue(t1)

Run2 ==
    \/ which = "host" /\ Host!ScopeRelease(s1)
    \/ which = "owner" /\ OwnerSide!Wake
    \/ which = "mailbox" /\ MailboxSide!cflow_mailbox_wait_arm
    \/ which = "worker" /\ WorkerSide!Pool
    \/ which = "plugin" /\ Registry!Continue(t2)

Run3 ==
    \/ which = "host" /\ Host!Repair(g1)
    \/ which = "owner" /\ OwnerSide!HostLoop
    \/ which = "mailbox" /\ MailboxSide!Woken
    \/ which = "worker" /\ WorkerSide!Tick
    \/ which = "plugin" /\ \E t \in {t1, t2} : \E k \in held : Registry!Release(t, k)

Run4 ==
    \/ which = "host" /\ Host!Repair(g2)
    \/ which = "owner" /\ OwnerSide!CancelEnd(f1)
    \/ which = "mailbox" /\ MailboxSide!Invoke(1)
    \/ which = "worker" /\ WorkerSide!Goes(f1)

Run5 ==
    \/ which = "owner" /\ OwnerSide!CancelEnd(Owner)
    \/ which = "mailbox" /\ MailboxSide!Invoke(2)

Again1 ==
    \/ which = "host" /\ Host!Drain(t1, g1)
    \/ which = "plugin" /\ \E t \in {t1, t2} : Registry!PlatformClose(t, TRUE)

Again2 ==
    \/ which = "host" /\ Host!Drain(t1, g2)
    \/ which = "plugin" /\ \E t \in {t1, t2} : Registry!PollQuiescentReturns(t, TRUE)

Again3 == which = "plugin" /\ \E t \in {t1, t2} : \E r \in refs : Registry!PollQuiescent(t, r)

Again4 == which = "plugin" /\ \E t \in {t1, t2} : \E r \in refs : Registry!Unload(t, r)

Spec ==
    /\ Init /\ [][Next]_vars
    /\ WF_moving(UNCHANGED which /\ Run1) /\ WF_moving(UNCHANGED which /\ Run2)
    /\ WF_moving(UNCHANGED which /\ Run3) /\ WF_moving(UNCHANGED which /\ Run4)
    /\ WF_moving(UNCHANGED which /\ Run5)
    /\ SF_moving(UNCHANGED which /\ Again1) /\ SF_moving(UNCHANGED which /\ Again2)
    /\ SF_moving(UNCHANGED which /\ Again3) /\ SF_moving(UNCHANGED which /\ Again4)

(* A generation that was superseded or closed is drained and its leases go    *)
(* back, also when providers and releases fail on the way.                   *)
Drains == Host!DrainsInTheEnd

(* Every task a scheduler accepted is settled and its slot comes back, with a *)
(* host that sleeps when idle and with a timer thread that hands over.       *)
TasksSettle ==
    /\ OwnerSide!SlotsComeBack
    /\ WorkerSide!EventuallySettled

(* A consumer that sleeps whenever it saw EMPTY takes every committed event.  *)
EventsTaken == MailboxSide!EventuallyTaken

(* A plugin that was asked to stop is unloaded in the end: request_stop()     *)
(* closes the admission of leases, so those that are out drain.              *)
StopLeadsToUnload == Registry!StopLeadsToUnload
=============================================================================
