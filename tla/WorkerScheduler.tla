--------------------------- MODULE WorkerScheduler ---------------------------
(* The worker scheduler of scheduler_worker.c: a timer queue under a mutex,  *)
(* a timer thread that hands due tasks to a pool of workers, and the callers *)
(* that post, cancel, wait and shut down.  The thread pool, which is not     *)
(* part of the repository, is a bounded queue whose admission is closed by   *)
(* shutdown and whose workers run what was admitted.                         *)
EXTENDS Naturals, Sequences, FiniteSets, SequencesExt

CONSTANTS Callers,
          Workers,
          ReadyCapacity,   \* queue of the pool
          TimerCapacity,
          Delays,
          TimeMax,         \* the last instant, where deadlines saturate
          MaxTasks,        \* bound on admissions
          NoTask

Tasks == 1 .. MaxTasks

VARIABLES
    now,
    timers,      \* the timer queue, earliest deadline first, then oldest
    due,         \* due[t]: the deadline of task t
    stopping, dispatching, settledBefore, accepted,
    timerPos,    \* the timer thread: LOOP, SLEEP, POST, SETTLE, POSTED, EXIT
    timerTask, refused, until,      \* its locals; until: the end of a timed wait
    queue, poolClosed, running, completed,   \* the pool
    pos, arg,    \* where each caller is, and its task or flag
    before,      \* before[c]: tasks admitted before c's wait_idle began
    calls,       \* history: calls[t], callbacks entered for task t
    life         \* LIVE, FREED

timerVars == <<timerPos, timerTask, refused, until>>
poolVars == <<queue, poolClosed, running, completed>>
callerVars == <<pos, arg, before>>
vars == <<now, timers, due, stopping, dispatching, settledBefore, accepted, timerVars, poolVars,
          callerVars, calls, life>>

Init ==
    /\ now = 0 /\ timers = <<>> /\ due = [t \in Tasks |-> 0]
    /\ stopping = FALSE /\ dispatching = 0 /\ settledBefore = 0 /\ accepted = 0
    /\ timerPos = "LOOP" /\ timerTask = NoTask /\ refused = FALSE /\ until = TimeMax + 1
    /\ queue = <<>> /\ poolClosed = FALSE /\ running = {} /\ completed = 0
    /\ pos = [c \in Callers |-> "idle"] /\ arg = [c \in Callers |-> NoTask]
    /\ before = [c \in Callers |-> {}]
    /\ calls = [t \in Tasks |-> 0] /\ life = "LIVE"

(* cmeta_cond_broadcast: the timer thread leaves its wait and looks again;   *)
(* the waits of wait_idle are guards of their own.                           *)
Woken == timerPos' = IF timerPos = "SLEEP" THEN "LOOP" ELSE timerPos

(* cflow_timer_queue_try_schedule_task keeps (deadline, order).              *)
Scheduled(t, deadline) ==
    LET earlier == SelectSeq(timers, LAMBDA u : due[u] <= deadline)
        later == SelectSeq(timers, LAMBDA u : due[u] > deadline)
    IN earlier \o <<t>> \o later

-----------------------------------------------------------------------------
(* Mutant: a task may overtake one the timer thread is still handing over.   *)
ImmediateOvertaking(delay) == delay = 0 /\ timers = <<>>

Immediate(delay) == delay = 0 /\ dispatching = 0 /\ timers = <<>>

worker_try_post_task_after(c, delay) ==
    LET t == accepted + 1
        deadline == IF delay > TimeMax - now THEN TimeMax ELSE now + delay   \* cflow_deadline_after
    IN
    /\ life = "LIVE" /\ pos[c] = "idle" /\ accepted < MaxTasks
    /\ ~stopping
    /\ Len(timers) < TimerCapacity
    /\ due' = [due EXCEPT ![t] = deadline]
    /\ IF Immediate(delay) /\ ~poolClosed /\ Len(queue) < ReadyCapacity
       THEN queue' = Append(queue, t) /\ UNCHANGED timers
       ELSE timers' = Scheduled(t, deadline) /\ UNCHANGED queue
    /\ accepted' = t
    /\ Woken
    /\ UNCHANGED <<now, stopping, dispatching, settledBefore, timerTask, refused, until,
                   poolClosed, running, completed, callerVars, calls, life>>

worker_cancel(c, t) ==
    /\ life = "LIVE" /\ pos[c] = "idle" /\ ~stopping
    /\ t \in ToSet(timers)
    /\ timers' = SelectSeq(timers, LAMBDA u : u # t)
    /\ settledBefore' = settledBefore + 1
    /\ Woken
    /\ pos' = [pos EXCEPT ![c] = "cancelling"] /\ arg' = [arg EXCEPT ![c] = t]
    /\ UNCHANGED <<now, due, stopping, dispatching, accepted, timerTask, refused, until, poolVars,
                   before, calls, life>>

(* settle_cancelled_task, outside the lock, for cancel and for shutdown.     *)
CancelCallback(c) ==
    /\ pos[c] \in {"cancelling", "draining"}
    /\ calls' = [calls EXCEPT ![arg[c]] = @ + 1]
    /\ pos' = [pos EXCEPT ![c] = IF @ = "cancelling" THEN "idle" ELSE "drain"]
    /\ arg' = [arg EXCEPT ![c] = NoTask]
    /\ UNCHANGED <<now, timers, due, stopping, dispatching, settledBefore, accepted, timerVars,
                   poolVars, before, life>>

-----------------------------------------------------------------------------
HeadDue == timers # <<>> /\ due[Head(timers)] <= now

(* One turn of worker_timer_main under the lock.                             *)
TimerStops ==
    /\ timerPos = "LOOP" /\ stopping
    /\ timerPos' = "EXIT"
    /\ UNCHANGED <<now, timers, due, stopping, dispatching, settledBefore, accepted, timerTask,
                   refused, until, poolVars, callerVars, calls, life>>

TimerSleeps ==
    /\ timerPos = "LOOP" /\ ~stopping
    /\ ~HeadDue
    /\ timerPos' = "SLEEP"
    /\ until' = IF timers = <<>> THEN TimeMax + 1 ELSE due[Head(timers)]
    /\ UNCHANGED <<now, timers, due, stopping, dispatching, settledBefore, accepted, timerTask,
                   refused, poolVars, callerVars, calls, life>>

TimedOut ==
    /\ timerPos = "SLEEP" /\ until <= now
    /\ timerPos' = "LOOP"
    /\ UNCHANGED <<now, timers, due, stopping, dispatching, settledBefore, accepted, timerTask,
                   refused, until, poolVars, callerVars, calls, life>>

TimerTakes ==
    /\ timerPos = "LOOP" /\ ~stopping
    /\ HeadDue
    /\ timerTask' = Head(timers) /\ timers' = Tail(timers)
    /\ dispatching' = dispatching + 1
    /\ timerPos' = "POST"
    /\ UNCHANGED <<now, due, stopping, settledBefore, accepted, refused, until, poolVars,
                   callerVars, calls, life>>

(* cflow_executor_control_post_task blocks while the pool's queue is full;    *)
(* a refused task is cancelled on the spot.                                  *)
TimerPosts ==
    /\ timerPos = "POST"
    /\ poolClosed \/ Len(queue) < ReadyCapacity
    /\ refused' = poolClosed
    /\ IF poolClosed
       THEN calls' = [calls EXCEPT ![timerTask] = @ + 1] /\ UNCHANGED queue
       ELSE queue' = Append(queue, timerTask) /\ UNCHANGED calls
    /\ timerPos' = "POSTED"
    /\ UNCHANGED <<now, timers, due, stopping, dispatching, settledBefore, accepted, timerTask,
                   until, poolClosed, running, completed, callerVars, life>>

TimerPosted ==
    /\ timerPos = "POSTED"
    /\ dispatching' = dispatching - 1
    /\ settledBefore' = settledBefore + (IF refused THEN 1 ELSE 0)
    /\ timerPos' = "LOOP" /\ timerTask' = NoTask /\ refused' = FALSE
    /\ UNCHANGED <<now, timers, due, stopping, accepted, until, poolVars, callerVars, calls, life>>

-----------------------------------------------------------------------------
(* The workers of the pool, and time.                                        *)
PoolRuns ==
    /\ queue # <<>> /\ Cardinality(running) < Workers
    /\ running' = running \cup {Head(queue)} /\ queue' = Tail(queue)
    /\ calls' = [calls EXCEPT ![Head(queue)] = @ + 1]
    /\ UNCHANGED <<now, timers, due, stopping, dispatching, settledBefore, accepted, timerVars,
                   poolClosed, completed, callerVars, life>>

PoolReturns(t) ==
    /\ t \in running
    /\ running' = running \ {t} /\ completed' = completed + 1
    /\ UNCHANGED <<now, timers, due, stopping, dispatching, settledBefore, accepted, timerVars,
                   queue, poolClosed, callerVars, calls, life>>

Tick ==
    /\ now < TimeMax /\ now' = now + 1
    /\ UNCHANGED <<timers, due, stopping, dispatching, settledBefore, accepted, timerVars, poolVars,
                   callerVars, calls, life>>

PoolIdle == queue = <<>> /\ running = {}

-----------------------------------------------------------------------------
Moves(c, from, to) ==
    /\ pos[c] = from
    /\ pos' = [pos EXCEPT ![c] = to]
    /\ UNCHANGED <<now, timers, due, dispatching, accepted, timerTask, refused, until, queue,
                   running, completed, life, calls>>

(* worker_wait_idle: its first lock, the executor's wait, its second lock,    *)
(* and the pending count it reads without the lock.                          *)
WaitEnter(c) ==
    /\ life = "LIVE"
    /\ Moves(c, "idle", "wait")
    /\ before' = [before EXCEPT ![c] = 1 .. accepted]
    /\ UNCHANGED <<arg, stopping, settledBefore, timerPos, poolClosed>>

(* Mutant: a task in the timer thread's hands is nobody's.                   *)
DelayedIdleLoose == timers = <<>>

DelayedIdle == timers = <<>> /\ dispatching = 0

WaitFirst(c) ==
    /\ stopping \/ DelayedIdle
    /\ Moves(c, "wait", IF stopping THEN "idle" ELSE "waitPool")
    /\ UNCHANGED <<arg, before, stopping, settledBefore, timerPos, poolClosed>>

WaitPool(c) ==
    /\ PoolIdle
    /\ Moves(c, "waitPool", "waitSecond")
    /\ UNCHANGED <<arg, before, stopping, settledBefore, timerPos, poolClosed>>

WaitSecond(c) ==
    /\ Moves(c, "waitSecond", IF ~stopping /\ DelayedIdle THEN "waitLast" ELSE "wait")
    /\ UNCHANGED <<arg, before, stopping, settledBefore, timerPos, poolClosed>>

WaitLast(c) ==
    /\ Moves(c, "waitLast", IF PoolIdle THEN "waited" ELSE "wait")
    /\ UNCHANGED <<arg, before, stopping, settledBefore, timerPos, poolClosed>>

Waited(c) ==
    /\ Moves(c, "waited", "idle")
    /\ before' = [before EXCEPT ![c] = {}]
    /\ UNCHANGED <<arg, stopping, settledBefore, timerPos, poolClosed>>

-----------------------------------------------------------------------------
ShuttingDown == {"drain", "draining", "closing", "joining"}

(* worker_shutdown.  Its callers serialise it, as destroy does.              *)
ShutdownEnter(c) ==
    /\ life = "LIVE" /\ \A d \in Callers : pos[d] \notin ShuttingDown
    /\ Moves(c, "idle", "drain")
    /\ stopping' = TRUE
    /\ IF stopping THEN UNCHANGED timerPos ELSE Woken
    /\ UNCHANGED <<arg, before, settledBefore, poolClosed>>

ShutdownTakes(c) ==
    /\ pos[c] = "drain" /\ timers # <<>>
    /\ arg' = [arg EXCEPT ![c] = Last(timers)] /\ timers' = Front(timers)
    /\ settledBefore' = settledBefore + 1
    /\ pos' = [pos EXCEPT ![c] = "draining"]
    /\ UNCHANGED <<now, due, stopping, dispatching, accepted, timerVars, poolVars, before, calls,
                   life>>

ShutdownDrained(c) ==
    /\ timers = <<>>
    /\ Moves(c, "drain", "closing")
    /\ UNCHANGED <<arg, before, stopping, settledBefore, timerPos, poolClosed>>

ShutdownCloses(c) ==
    /\ Moves(c, "closing", "joining")
    /\ poolClosed' = TRUE
    /\ UNCHANGED <<arg, before, stopping, settledBefore, timerPos>>

(* Mutant: destroy does not wait for the timer thread.                       *)
ShutdownJoinsNobody(c) ==
    /\ Moves(c, "joining", "idle")
    /\ UNCHANGED <<arg, before, stopping, settledBefore, timerPos, poolClosed>>

ShutdownJoins(c) ==
    /\ timerPos = "EXIT"
    /\ Moves(c, "joining", "idle")
    /\ UNCHANGED <<arg, before, stopping, settledBefore, timerPos, poolClosed>>

(* worker_destroy: nobody is in another call, shutdown has run, and          *)
(* destroying the pool waits for its workers.                                *)
worker_destroy ==
    /\ life = "LIVE" /\ poolClosed /\ \A c \in Callers : pos[c] = "idle"
    /\ PoolIdle
    /\ life' = "FREED"
    /\ UNCHANGED <<now, timers, due, stopping, dispatching, settledBefore, accepted, timerVars,
                   poolVars, callerVars, calls>>

-----------------------------------------------------------------------------
Timer == TimerStops \/ TimerSleeps \/ TimedOut \/ TimerTakes \/ TimerPosts \/ TimerPosted
Pool == PoolRuns \/ \E t \in Tasks : PoolReturns(t)
Goes(c) ==
    \/ CancelCallback(c)
    \/ WaitFirst(c) \/ WaitPool(c) \/ WaitSecond(c) \/ WaitLast(c) \/ Waited(c)
    \/ ShutdownTakes(c) \/ ShutdownDrained(c) \/ ShutdownCloses(c) \/ ShutdownJoins(c)

Next ==
    \/ \E c \in Callers :
          \/ \E d \in Delays : worker_try_post_task_after(c, d)
          \/ \E t \in Tasks : worker_cancel(c, t)
          \/ WaitEnter(c) \/ ShutdownEnter(c) \/ Goes(c)
    \/ Timer \/ Pool \/ Tick \/ worker_destroy

Spec == Init /\ [][Next]_vars

-----------------------------------------------------------------------------
Waiting == ToSet(timers) \cup ToSet(queue)
           \cup (IF timerPos \in {"POST", "POSTED"} /\ ~refused THEN {timerTask} ELSE {})
           \cup {arg[c] : c \in {d \in Callers : pos[d] \in {"cancelling", "draining"}}}

(* Every admitted task is called back once, by a worker, a cancel, the        *)
(* shutdown or a timer thread that finds the pool closed, and a scheduler    *)
(* that has been freed owes no call and makes none.                          *)
SettledOnce ==
    /\ \A t \in 1 .. accepted : calls[t] <= 1 /\ (calls[t] = 0 => t \in Waiting)
    /\ life = "FREED" => timerPos = "EXIT" /\ \A t \in 1 .. accepted : calls[t] = 1

(* pending() adds up under the lock although the parts of the sum live in     *)
(* two components: it counts the tasks that are queued, handed over or       *)
(* running, and never wraps.                                                 *)
PendingExact ==
    /\ completed + settledBefore <= accepted
    /\ accepted - (completed + settledBefore) =
         Len(timers) + dispatching + Len(queue) + Cardinality(running)
         - (IF timerPos = "POSTED" /\ ~refused THEN 1 ELSE 0)

(* Tasks reach the pool in the order of their deadlines, and those of one     *)
(* deadline as they were posted, whichever way each of them takes.           *)
PoolOrder ==
    \A t, u \in 1 .. accepted :
        /\ t < u /\ due[t] <= due[u]
        /\ t \in ToSet(timers) \/ (timerPos = "POST" /\ timerTask = t)
        => u \notin ToSet(queue) \cup running

(* When wait_idle returns true, every task admitted before the call has been  *)
(* run, or somebody has taken it to cancel it.                               *)
IdleTruth ==
    \A c \in Callers : pos[c] = "waited" =>
        \A t \in before[c] : t \notin ToSet(timers) \cup ToSet(queue) \cup running
                             /\ ~(timerPos = "POST" /\ timerTask = t)

(* An admitted task is called back in the end, with nobody but the timer      *)
(* thread and the workers to move it.                                        *)
EventuallySettled == \A t \in Tasks : accepted >= t ~> calls[t] = 1
=============================================================================
