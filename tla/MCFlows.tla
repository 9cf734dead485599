------------------------------- MODULE MCFlows -------------------------------
(* Small instances of the schedulers, of the mailbox, of the reactive run    *)
(* and its publishers, and of a stream execution side by side in one run:    *)
(* which names the component that moves, and the state spaces add up.  The   *)
(* components do not call each other here, so they share their variables.    *)
EXTENDS Naturals, Sequences, TLC

CONSTANTS f1, f2, d1, Owner, NoTask, c1, c2, w1, w2, wk, p1, p2, s1, s2, None

VARIABLES which,
          x1, x2, x3, x4, x5, x6, x7, x8, x9, x10, x11, x12, x13, x14, x15, x16, x17, x18, x19,
          x20, x21, x22, x23, x24, x25, x26, x27, x28, x29, x30

vars == <<which, x1, x2, x3, x4, x5, x6, x7, x8, x9, x10, x11, x12, x13, x14, x15, x16, x17,
          x18, x19, x20, x21, x22, x23, x24, x25, x26, x27, x28, x29, x30>>

Node(op, k) == [op |-> op, n |-> k, seeded |-> FALSE]
Seeded(k) == [op |-> "REDUCE", n |-> k, seeded |-> TRUE]

MCPipelines ==
    {<<Node("FILTER", 0), Node("MAP", 0)>>, <<Node("FLATMAP", 0), Node("TAKE", 3), Node("FLATMAP", 0)>>,
     <<Node("SKIP", 1), Node("REDUCE", 0)>>, <<Seeded(7), Node("MAP", 0), Node("TAKE", 1)>>,
     <<Node("SORTED", 3), Node("TAKE", 2), Node("REDUCE", 0)>>, <<Node("DISTINCT", 2), Node("RELATION", 0), Node("SORTED", 6)>>,
     <<Node("TAKE", 0), Node("SORTED", 1)>>, <<Node("REDUCE", 0), Node("SORTED", 1), Node("FLATMAP", 0)>>,
     <<Node("RELATION", 0), Node("DISTINCT", 1), Node("SORTED", 1)>>}

Setup(nodes, feed, amounts, clients, concurrent, happens) ==
    [nodes |-> nodes, feed |-> feed, amounts |-> amounts, clients |-> clients,
     concurrent |-> concurrent, events |-> happens]

MCSetups ==
    {Setup(<<>>, <<1>>, {1}, {c1, c2}, TRUE, {"wait", "close", "refuse"}),
     Setup(<<>>, <<1>>, {1}, {c1}, TRUE, {"wait", "close", "cancel", "callback close", "drop"}),
     Setup(<<>>, <<1, 2>>, {3}, {c1}, TRUE, {"reject", "error", "end", "callback close"}),
     Setup(<<Node("FLATMAP", 0)>>, <<1>>, {1, 3}, {c1}, FALSE, {"refuse", "close", "cancel", "wait"})}
    \cup {Setup(p, f, {1, 3}, {c1}, FALSE, {}) : p \in MCPipelines, f \in {<<>>, <<3, 1, 3>>}}

(* Constants that have one value wherever they are used.                      *)
Count == 2
MaxArms == 3
MaxCancels == 2
Capacity == 2
MaxPushes == 4
MaxCloses == 2
N == 2
Modes == {"ALL", "ALL_DONE", "ANY", "LATEST", "SEQUENCE"}
MaxValues == 2
Feeds == [values : 0 .. 3, end : {"done", "error"}]
Quantum == 2
MaxFed == 3
MaxPosts == 3
MaxSpurious == 3

OwnerSide == INSTANCE OwnerScheduler WITH
    ExecutorCapacity <- 3, MaxTails <- 2, ReadyCapacity <- 2, Foreign <- {f1, f2},
    Direct <- {d1}, MaxId <- 3,
    mailbox <- x1, running <- x2, cancel <- x3, lifecycle <- x4, policy <- x5, tails <- x6,
    signal <- x7, host <- x8, life <- x9, phase <- x10, slotId <- x11, consumed <- x12,
    free <- x13, pending <- x14, settling <- x15, dispatching <- x16, nextId <- x17,
    stopping <- x18, step <- x19, cancelling <- x20, calls <- x21

CallerSide == INSTANCE CallerScheduler WITH
    ReadyCapacity <- 2, TimerCapacity <- 2, TimeMax <- 3, IdMax <- 3, Delays <- {0, 2},
    Kinds <- {"INLINE", "MANUAL", "TEST"}, MaxTasks <- 3, MaxDepth <- 4,
    kind <- x1, alive <- x2, timers <- x3, now <- x4, stopping <- x5, tasks <- x6,
    settling <- x7, running <- x8, lifecycle <- x9, policy <- x10, accepted <- x11,
    completed <- x12, cancelled <- x13, closed <- x14, stack <- x15, admitted <- x16,
    due <- x17, called <- x18, nested <- x19

WorkerSide == INSTANCE WorkerScheduler WITH
    Callers <- {f1, f2}, Workers <- 1, ReadyCapacity <- 1, TimerCapacity <- 2, Delays <- {0, 1},
    TimeMax <- 1, MaxTasks <- 3,
    now <- x1, timers <- x2, due <- x3, stopping <- x4, dispatching <- x5, settledBefore <- x6,
    accepted <- x7, timerPos <- x8, timerTask <- x9, refused <- x10, until <- x11, queue <- x12,
    poolClosed <- x13, running <- x14, completed <- x15, pos <- x16, arg <- x17, before <- x18,
    calls <- x19, life <- x20

MailboxSide == INSTANCE Mailbox WITH
    Capacity <- 2, Ids <- 0 .. 4, Size <- [i \in 0 .. 4 |-> IF i = 3 THEN 2 ELSE 1],
    Schemas <- {<<3, 1>>, <<2, 3, 1>>, <<2, 2>>, <<1, 0>>, <<>>}, CounterMax <- 3,
    MaxSends <- 4, MaxArms <- 3,
    alive <- x1, schema <- x2, terminal <- x3, head <- x4, count <- x5, slots <- x6,
    waiter <- x7, accepted <- x8, received <- x9, cancelled <- x10, detached <- x11,
    rung <- x12, arms <- x13, consumer <- x14, room <- x15, log <- x16, taken <- x17

Run == INSTANCE Subscription WITH
    MaxContinuations <- 2, Clients <- {c1, c2}, Workers <- {w1, w2}, Waker <- wk,
    Setups <- MCSetups, DemandMax <- 4, MaxRequests <- 2, MaxWaits <- 1,
    setup <- x1, run <- x2, fed <- x3, source <- x4, flags <- x5, task <- x6, refs <- x7,
    posting <- x8, queue <- x9, life <- x10, external_closer <- x11, destroying <- x12,
    armed <- x13, waits <- x14, requests <- x15, at <- x16, frame <- x17, sink <- x18,
    dropped <- x19, closedBy <- x20

ActorSide == INSTANCE Actor WITH
    Stoppers <- {s1, s2}, Senders <- {p1, p2}, MaxSends <- 2,
    natural <- x1, state <- x2, terminal_settled <- x3, stale <- x4, starting <- x5,
    pending_wakes <- x6, refs <- x7, runtime <- x8, closing <- x9, demanded <- x10, run <- x11,
    own <- x12, stop <- x13, held <- x14, send <- x15, sends <- x16, work <- x17, settle <- x18,
    told <- x19

ChannelSide == INSTANCE Publishers WITH
    data <- x1, head <- x2, count <- x3, closed <- x4, waiter <- x5, terminal_waker <- x6,
    accepted <- x7, taken <- x8, wakes <- x9, ends <- x10, closes <- x11, pump <- x12,
    Workers <- {}, emitted <- x1, ready <- x2, scheduled <- x3, callback_outstanding <- x4,
    publisher_live <- x5, task <- x6, waker <- x7, wake_inflight <- x8, references <- x9,
    freed <- x10, posted <- x11, arms <- x12, cancels <- x13, woken <- x16, fire <- x17,
    fired <- x18, killer <- x19, inside <- x21, destroying <- x22, cut <- x23, quiet <- x24

Ticks == INSTANCE Publishers WITH
    Workers <- {p1, p2},
    emitted <- x1, ready <- x2, scheduled <- x3, callback_outstanding <- x4,
    publisher_live <- x5, task <- x6, waker <- x7, wake_inflight <- x8, references <- x9,
    freed <- x10, posted <- x11, arms <- x12, cancels <- x13, pump <- x14, accepted <- x15,
    woken <- x16, fire <- x17, fired <- x18, killer <- x19, taken <- x20, inside <- x21,
    destroying <- x22, cut <- x23, quiet <- x24,
    data <- x1, head <- x2, count <- x3, closed <- x4, waiter <- x5, terminal_waker <- x6,
    wakes <- x9, ends <- x10, closes <- x11

TemporalSide == INSTANCE Continuations WITH
    Kinds <- {"DELAY", "DEBOUNCE", "TIMEOUT"},
    kind <- x1, pending <- x2, ready_cause <- x3, timer_task <- x4, timer_arming <- x5,
    timer_outstanding <- x6, timer_stale <- x7, inner_armed <- x8, need_inner <- x9,
    need_timer <- x10, yielding <- x11, inner_done <- x12, finished <- x13, cancelled <- x14,
    waiter <- x15, posted <- x16, called <- x17, posts <- x18, stamp <- x19, fed <- x20,
    waits <- x21, pump <- x22, loop <- x23, woken <- x24, killer <- x25, taken <- x26,
    destroying <- x27, freed <- x28, forgotten <- x29, out <- x30,
    MaxWaits <- 1, mode <- x1, cursor <- x2, sequence_index <- x3, emitted_all <- x4,
    error <- x6, has <- x8, done <- x9, waiting <- x10, armed <- x11, held <- x12,
    values <- x13, start <- x16, n <- x17, progressed <- x18, toArm <- x19, ready <- x20,
    events <- x22, feed <- x1, s <- x2, run <- x3, worker <- x4, outer <- x5, client <- x6

Coord == INSTANCE Continuations WITH
    MaxWaits <- 2,
    mode <- x1, cursor <- x2, sequence_index <- x3, emitted_all <- x4, cancelled <- x5,
    error <- x6, waiter <- x7, has <- x8, done <- x9, waiting <- x10, armed <- x11, held <- x12,
    values <- x13, waits <- x14, pump <- x15, start <- x16, n <- x17, progressed <- x18,
    toArm <- x19, ready <- x20, woken <- x21, events <- x22,
    Kinds <- {}, feed <- x1, s <- x2, run <- x3, worker <- x4, outer <- x5, client <- x6,
    kind <- x1, pending <- x2, ready_cause <- x3, timer_task <- x4, timer_arming <- x5,
    timer_outstanding <- x6, timer_stale <- x7, inner_armed <- x8, need_inner <- x9,
    need_timer <- x10, yielding <- x11, inner_done <- x12, finished <- x13, posted <- x16,
    called <- x17, posts <- x18, stamp <- x19, fed <- x20, loop <- x23, killer <- x25,
    taken <- x26, destroying <- x27, freed <- x28, forgotten <- x29, out <- x30

TimedEvents == INSTANCE TimerEvents WITH
    Capacity <- 2, Scopes <- {0, 1}, Consumers <- {p1, p2}, Closers <- {s1, s2}, MaxTimers <- 3,
    MaxDeadline <- 1,
    slots <- x1, closed <- x2, consumer_active <- x3, in_flight <- x4, cancelled_on_close <- x5,
    now <- x6, nextId <- x7, fate <- x8, lateCancel <- x9, claim <- x10, closer <- x11

StreamSide == INSTANCE StreamExecution WITH
    Sources <- [values : 0 .. 3, end : {"done", "error"}], Limit <- 2, Starts <- 2,
    shown <- x1, collector <- x2, target <- x3, run <- x4, control <- x5, source <- x6

SubflowSide == INSTANCE Continuations WITH
    feed <- x1, s <- x2, run <- x3, worker <- x4, outer <- x5, client <- x6,
    MaxWaits <- 1, Kinds <- {}, mode <- x1, cursor <- x2, sequence_index <- x3,
    emitted_all <- x4, cancelled <- x5, error <- x6, waiter <- x7, has <- x8, done <- x9,
    waiting <- x10, armed <- x11, held <- x12, values <- x13, waits <- x14, pump <- x15,
    start <- x16, n <- x17, progressed <- x18, toArm <- x19, ready <- x20, woken <- x21,
    events <- x22, kind <- x1, pending <- x2, ready_cause <- x3, timer_task <- x4,
    timer_arming <- x5, timer_outstanding <- x6, timer_stale <- x7, inner_armed <- x8,
    need_inner <- x9, need_timer <- x10, yielding <- x11, inner_done <- x12, finished <- x13,
    posted <- x16, called <- x17, posts <- x18, stamp <- x19, fed <- x20, loop <- x23,
    killer <- x25, taken <- x26, destroying <- x27, freed <- x28, forgotten <- x29, out <- x30

(* A component of n variables has no use for the others.                     *)
Idle(n) ==
    /\ (IF n < 7 THEN x7 = 0 ELSE TRUE) /\ (IF n < 8 THEN x8 = 0 ELSE TRUE) /\ (IF n < 9 THEN x9 = 0 ELSE TRUE)
    /\ (IF n < 10 THEN x10 = 0 ELSE TRUE) /\ (IF n < 11 THEN x11 = 0 ELSE TRUE) /\ (IF n < 12 THEN x12 = 0 ELSE TRUE)
    /\ (IF n < 13 THEN x13 = 0 ELSE TRUE) /\ (IF n < 14 THEN x14 = 0 ELSE TRUE) /\ (IF n < 15 THEN x15 = 0 ELSE TRUE)
    /\ (IF n < 16 THEN x16 = 0 ELSE TRUE) /\ (IF n < 17 THEN x17 = 0 ELSE TRUE) /\ (IF n < 18 THEN x18 = 0 ELSE TRUE)
    /\ (IF n < 19 THEN x19 = 0 ELSE TRUE) /\ (IF n < 20 THEN x20 = 0 ELSE TRUE) /\ (IF n < 21 THEN x21 = 0 ELSE TRUE)
    /\ (IF n < 22 THEN x22 = 0 ELSE TRUE) /\ (IF n < 23 THEN x23 = 0 ELSE TRUE) /\ (IF n < 24 THEN x24 = 0 ELSE TRUE)
    /\ (IF n < 25 THEN x25 = 0 ELSE TRUE) /\ (IF n < 26 THEN x26 = 0 ELSE TRUE) /\ (IF n < 27 THEN x27 = 0 ELSE TRUE)
    /\ (IF n < 28 THEN x28 = 0 ELSE TRUE) /\ (IF n < 29 THEN x29 = 0 ELSE TRUE) /\ (IF n < 30 THEN x30 = 0 ELSE TRUE)

Still(n) ==
    /\ (IF n < 7 THEN UNCHANGED x7 ELSE TRUE) /\ (IF n < 8 THEN UNCHANGED x8 ELSE TRUE) /\ (IF n < 9 THEN UNCHANGED x9 ELSE TRUE)
    /\ (IF n < 10 THEN UNCHANGED x10 ELSE TRUE) /\ (IF n < 11 THEN UNCHANGED x11 ELSE TRUE) /\ (IF n < 12 THEN UNCHANGED x12 ELSE TRUE)
    /\ (IF n < 13 THEN UNCHANGED x13 ELSE TRUE) /\ (IF n < 14 THEN UNCHANGED x14 ELSE TRUE) /\ (IF n < 15 THEN UNCHANGED x15 ELSE TRUE)
    /\ (IF n < 16 THEN UNCHANGED x16 ELSE TRUE) /\ (IF n < 17 THEN UNCHANGED x17 ELSE TRUE) /\ (IF n < 18 THEN UNCHANGED x18 ELSE TRUE)
    /\ (IF n < 19 THEN UNCHANGED x19 ELSE TRUE) /\ (IF n < 20 THEN UNCHANGED x20 ELSE TRUE) /\ (IF n < 21 THEN UNCHANGED x21 ELSE TRUE)
    /\ (IF n < 22 THEN UNCHANGED x22 ELSE TRUE) /\ (IF n < 23 THEN UNCHANGED x23 ELSE TRUE) /\ (IF n < 24 THEN UNCHANGED x24 ELSE TRUE)
    /\ (IF n < 25 THEN UNCHANGED x25 ELSE TRUE) /\ (IF n < 26 THEN UNCHANGED x26 ELSE TRUE) /\ (IF n < 27 THEN UNCHANGED x27 ELSE TRUE)
    /\ (IF n < 28 THEN UNCHANGED x28 ELSE TRUE) /\ (IF n < 29 THEN UNCHANGED x29 ELSE TRUE) /\ (IF n < 30 THEN UNCHANGED x30 ELSE TRUE)

Init ==
    \/ which = "owner" /\ OwnerSide!Init /\ Idle(21)
    \/ which = "caller" /\ CallerSide!Init /\ Idle(19)
    \/ which = "worker" /\ WorkerSide!Init /\ Idle(20)
    \/ which = "mailbox" /\ MailboxSide!Init /\ Idle(17)
    \/ which = "run" /\ Run!Init /\ Idle(20)
    \/ which = "actor" /\ ActorSide!Init /\ Idle(19)
    \/ which = "channel" /\ ChannelSide!ChannelInit /\ Idle(12)
    \/ which = "ticks" /\ Ticks!TimerInit /\ Idle(24)
    \/ which = "temporal" /\ TemporalSide!TemporalInit
    \/ which = "coord" /\ Coord!CoordInit /\ Idle(22)
    \/ which = "timers" /\ TimedEvents!Init /\ Idle(11)
    \/ which = "stream" /\ StreamSide!Init /\ Idle(6)
    \/ which = "subflow" /\ SubflowSide!SubflowInit /\ Idle(6)

Next ==
    /\ \/ which = "owner" /\ OwnerSide!Next /\ Still(21)
       \/ which = "caller" /\ CallerSide!Next /\ Still(19)
       \/ which = "worker" /\ WorkerSide!Next /\ Still(20)
       \/ which = "mailbox" /\ MailboxSide!Next /\ Still(17)
       \/ which = "run" /\ Run!Next /\ Still(20)
       \/ which = "actor" /\ ActorSide!Next /\ Still(19)
       \/ which = "channel" /\ ChannelSide!ChannelNext /\ Still(12)
       \/ which = "ticks" /\ Ticks!TimerNext /\ Still(24)
       \/ which = "temporal" /\ TemporalSide!TemporalNext
       \/ which = "coord" /\ Coord!CoordNext /\ Still(22)
       \/ which = "timers" /\ TimedEvents!Next /\ Still(11)
       \/ which = "stream" /\ StreamSide!Next /\ Still(6)
       \/ which = "subflow" /\ SubflowSide!SubflowNext /\ Still(6)
    /\ UNCHANGED which

Spec == Init /\ [][Next]_vars

Symmetry == Permutations({f1, f2}) \cup Permutations({w1, w2})
-----------------------------------------------------------------------------
(* Every admitted task is run or cancelled, once: by the owner's settle and a *)
(* foreign cancel that race, by a shutdown, and by callbacks that call back; *)
(* every timed event is consumed or cancelled once; and a stream execution   *)
(* leaves its collector finished with the whole value or aborted with none.  *)
SettledOnce ==
    /\ which = "owner" => OwnerSide!ExactlyOnce
    /\ which = "caller" => CallerSide!SettledOnce
    /\ which = "worker" => WorkerSide!SettledOnce /\ WorkerSide!PendingExact
    /\ which = "timers" => TimedEvents!TimersSettleOnce
    /\ which = "stream" => StreamSide!TargetWhole


(* Tasks run in the order and not before the time they were posted for, one   *)
(* at a time, and events leave a mailbox's ring as they entered it.          *)
InOrder ==
    /\ which = "owner" => OwnerSide!OrderKept
    /\ which = "caller" => CallerSide!NeverEarly /\ CallerSide!OneRun
    /\ which = "worker" => WorkerSide!PoolOrder
    /\ which = "mailbox" => MailboxSide!FifoRing /\ MailboxSide!LookupExact /\ MailboxSide!StatsExact

(* Nobody sleeps on work that is there: a drive loop leaves nothing ready     *)
(* behind, a waker armed on an empty mailbox is rung exactly once, a run that *)
(* can move has a task that will move it, and a pump that sleeps on a        *)
(* channel, an interval, an adapter, a subgraph or several children is woken  *)
(* by whatever it could go on with.                                          *)
NotStranded ==
    /\ which = "caller" => CallerSide!NotStranded
    /\ which = "mailbox" => MailboxSide!WakeNotLost /\ MailboxSide!WakeOnce
    /\ which = "run" => Run!NotStranded
    /\ which = "channel" => ChannelSide!ChannelSleepsRightly
    /\ which = "ticks" => Ticks!TimerSleepsRightly
    /\ which = "temporal" => TemporalSide!TemporalSleepsRightly
    /\ which = "coord" => Coord!CoordSleepsRightly
    /\ which = "subflow" => SubflowSide!SubflowAwake

(* What a subscriber hears: one callback at a time and one terminal, nothing *)
(* after it; an actor's user gets one terminal callback, and a cancelled     *)
(* interval publisher wakes nobody.                                          *)
SubscriberProtocol ==
    /\ which = "run" => Run!SubscriberProtocol
    /\ which = "actor" => ActorSide!TerminalOnce
    /\ which = "ticks" => Ticks!CancelIsQuiet

=============================================================================
