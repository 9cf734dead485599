--------------------------- MODULE CallerScheduler ---------------------------
(* The timer queue, and the schedulers a caller drives, which keep their      *)
(* timers in one.                                                             *)
EXTENDS Integers, Sequences, FiniteSets

CONSTANTS
    TimerCapacity,
    TimeMax,   \* UINT64_MAX nanoseconds, where instants saturate
    IdMax,     \* UINT64_MAX, the last id before next_id becomes 0
    ReadyCapacity,
    Delays,    \* the delays a caller may ask for
    Kinds,     \* the schedulers to model: "INLINE", "MANUAL", "TEST"
    MaxTasks,  \* bound: tasks admitted in a behaviour
    MaxDepth   \* bound: calls in progress

VARIABLES
    kind, alive,
    timers, now, stopping,           \* the test loop
    tasks, settling, running,        \* the manual executor: queue, cancelling, in run_one
    lifecycle, policy,
    accepted, completed, cancelled,  \* its statistics
    closed,                          \* the inline scheduler's flag
    stack,                           \* the calls in progress, innermost last
    admitted,                        \* history: tasks admitted so far
    due,                             \* history: due[t], the deadline of task t
    called,                          \* history: called[t], what was called for task t
    nested                           \* history: a callback drove the loop itself

-----------------------------------------------------------------------------
(* The bounded timer queue (cflow/src/timer_queue.c) and the saturating time *)
(* arithmetic under it (cflow/src/clock.c): operators on a queue             *)
(* [items, next_id, next_order], whose items are in insertion order.         *)

EmptyTimers == [items |-> <<>>, next_id |-> 1, next_order |-> 0]

cflow_deadline_after(time, delay) == IF delay > TimeMax - time THEN TimeMax ELSE time + delay

Earlier(a, b) == a.deadline < b.deadline \/ (a.deadline = b.deadline /\ a.order < b.order)

(* The scan keeps the first item no other item beats; 0 when there is none.  *)
earliest_index(items) ==
    LET best[i \in 0 .. Len(items)] ==
            IF i = 0 THEN 0
            ELSE LET b == best[i - 1]
                 IN  IF b = 0 THEN i ELSE IF Earlier(items[i], items[b]) THEN i ELSE b
    IN  best[Len(items)]

remove_at(q, i) ==
    [q EXCEPT !.items = SubSeq(q.items, 1, i - 1) \o SubSeq(q.items, i + 1, Len(q.items))]

CanSchedule(q) == Len(q.items) < TimerCapacity /\ q.next_id # 0 /\ q.next_order # IdMax

cflow_timer_queue_try_schedule_task(q, deadline, task) ==
    [items |-> Append(q.items, [id |-> q.next_id, deadline |-> deadline,
                                order |-> q.next_order, task |-> task]),
     next_id |-> IF q.next_id = IdMax THEN 0 ELSE q.next_id + 1,
     next_order |-> q.next_order + 1]

(* The position cflow_timer_queue_take finds the id at, 0 when it is not there. *)
IndexOfId(q, id) ==
    IF \E i \in DOMAIN q.items : q.items[i].id = id
    THEN CHOOSE i \in DOMAIN q.items :
            q.items[i].id = id /\ \A j \in 1 .. i - 1 : q.items[j].id # id
    ELSE 0

(* The position cflow_timer_queue_take_ready takes at this instant, or 0.    *)
ReadyIndex(q, time) ==
    LET i == earliest_index(q.items)
    IN  IF i # 0 /\ q.items[i].deadline <= time THEN i ELSE 0

-----------------------------------------------------------------------------
(* The schedulers a caller drives (cflow/src/scheduler.c) over the manual    *)
(* executor (cflow/src/executor.c): the inline scheduler runs a task inside  *)
(* its admission, the manual one queues it in the executor, and the test     *)
(* loop keeps timers on a virtual clock in front of the executor.  There is  *)
(* one thread and no lock is held in a callback, so every callback may call  *)
(* the scheduler again: the calls in progress are a stack of frames.         *)

timerVars == <<timers, now, stopping>>
execVars == <<tasks, settling, running, lifecycle, policy, accepted, completed, cancelled>>
history == <<admitted, due, called, nested>>
vars == <<kind, alive, timerVars, execVars, closed, stack, history>>

Task == 1 .. MaxTasks
Top == stack[Len(stack)]
OnTop(op) == stack # <<>> /\ Top.op = op
Pop == SubSeq(stack, 1, Len(stack) - 1)
Frame(op, t, rest) == [op |-> op, task |-> t, rest |-> rest]
Push(s, f) == Append(s, f)

(* The caller, or the callback of the innermost frame, may make a call.      *)
Drives == {"READY", "IDLE"}
MayCall == alive /\ Len(stack) < MaxDepth
           /\ (stack # <<>> => Top.op \notin Drives \cup {"DESTROY"} /\ ~(Top.op = "STOP" /\ Top.task = 0))

Init ==
    /\ kind \in Kinds /\ alive = TRUE
    /\ timers = EmptyTimers /\ now = 0 /\ stopping = FALSE
    /\ tasks = <<>> /\ settling = 0 /\ running = FALSE
    /\ lifecycle = "OPEN" /\ policy = "NONE"
    /\ accepted = 0 /\ completed = 0 /\ cancelled = 0
    /\ closed = FALSE /\ stack = <<>>
    /\ admitted = 0 /\ due = [t \in Task |-> 0] /\ called = [t \in Task |-> "NO"] /\ nested = FALSE

(* Mutant: tasks being cancelled do not keep the executor open.              *)
manual_maybe_closeEarly(state, count, settle, run) ==
    IF state = "CLOSING" /\ count = 0 /\ ~run THEN "CLOSED" ELSE state

manual_maybe_close(state, count, settle, run) ==
    IF state = "CLOSING" /\ count = 0 /\ settle = 0 /\ ~run THEN "CLOSED" ELSE state

CanPost == lifecycle = "OPEN" /\ Len(tasks) < ReadyCapacity

(* What manual_run_one asks of the executor, besides a queued task.          *)
CanRun == ~running /\ settling = 0

NewTask(deadline) ==
    /\ admitted < MaxTasks
    /\ admitted' = admitted + 1
    /\ due' = [due EXCEPT ![admitted + 1] = deadline]

-----------------------------------------------------------------------------
(* Inline: the task runs before admission returns.                           *)
inline_try_post_task_after ==
    /\ kind = "INLINE" /\ MayCall /\ ~closed
    /\ NewTask(0)
    /\ called' = [called EXCEPT ![admitted + 1] = "RUN"]
    /\ stack' = Push(stack, Frame("INLINE", admitted + 1, <<>>))
    /\ UNCHANGED <<kind, alive, timerVars, execVars, closed, nested>>

InlineReturns ==
    /\ OnTop("INLINE")
    /\ called' = [called EXCEPT ![Top.task] = "RAN"]
    /\ stack' = Pop
    /\ UNCHANGED <<kind, alive, timerVars, execVars, closed, admitted, due, nested>>

inline_shutdown ==
    /\ kind = "INLINE" /\ MayCall /\ ~closed
    /\ closed' = TRUE
    /\ UNCHANGED <<kind, alive, timerVars, execVars, stack, history>>

inline_destroy ==
    /\ kind = "INLINE" /\ alive /\ stack = <<>>
    /\ alive' = FALSE
    /\ UNCHANGED <<kind, timerVars, execVars, closed, stack, history>>

-----------------------------------------------------------------------------
(* The manual scheduler posts straight into the executor ...                 *)
manual_scheduler_try_post_task_after ==
    /\ kind = "MANUAL" /\ MayCall
    /\ CanPost
    /\ NewTask(0)
    /\ tasks' = Append(tasks, admitted + 1)
    /\ accepted' = accepted + 1
    /\ UNCHANGED <<kind, alive, timerVars, settling, running, lifecycle, policy, completed, cancelled,
                   closed, stack, called, nested>>

(* ... and run_one takes the oldest task out and calls it.                   *)
manual_run_one ==
    /\ kind = "MANUAL" /\ MayCall
    /\ tasks # <<>> /\ CanRun
    /\ tasks' = Tail(tasks) /\ running' = TRUE
    /\ called' = [called EXCEPT ![Head(tasks)] = "RUN"]
    /\ stack' = Push(stack, Frame("RUN", Head(tasks), <<>>))
    /\ UNCHANGED <<kind, alive, timerVars, settling, lifecycle, policy, accepted, completed, cancelled,
                   closed, admitted, due, nested>>

(* run and finalize have returned.                                           *)
RunReturns ==
    /\ OnTop("RUN")
    /\ called' = [called EXCEPT ![Top.task] = "RAN"]
    /\ running' = FALSE /\ completed' = completed + 1
    /\ lifecycle' = manual_maybe_close(lifecycle, Len(tasks), settling, FALSE)
    /\ stack' = Pop
    /\ UNCHANGED <<kind, alive, timerVars, tasks, settling, policy, accepted, cancelled, closed,
                   admitted, due, nested>>

(* manual_cancel_pending detaches the whole queue before the first callback. *)
StartSettling(s) ==
    IF tasks = <<>>
    THEN UNCHANGED <<tasks, settling, called>> /\ stack' = s
    ELSE /\ tasks' = <<>> /\ settling' = Len(tasks)
         /\ called' = [called EXCEPT ![Head(tasks)] = "CANCEL"]
         /\ stack' = Push(s, Frame("SETTLE", 0, tasks))

(* One task of manual_cancel_pending: its cancel and finalize have returned. *)
SettleReturns ==
    /\ OnTop("SETTLE")
    /\ LET t == Head(Top.rest)  rest == Tail(Top.rest)
       IN  /\ called' = [x \in Task |-> IF x = t THEN "CANCELLED"
                                        ELSE IF rest # <<>> /\ x = Head(rest) THEN "CANCEL" ELSE called[x]]
           /\ settling' = settling - 1 /\ cancelled' = cancelled + 1
           /\ IF rest = <<>>
              THEN /\ stack' = Pop
                   /\ lifecycle' = manual_maybe_close(lifecycle, Len(tasks), 0, running)
              ELSE /\ stack' = [stack EXCEPT ![Len(stack)].rest = rest]
                   /\ UNCHANGED lifecycle
    /\ UNCHANGED <<kind, alive, timerVars, tasks, running, policy, accepted, completed, closed,
                   admitted, due, nested>>

(* The executor's shutdown, through its control view.                        *)
manual_control_shutdown(p) ==
    /\ kind = "MANUAL" /\ MayCall
    /\ policy = "NONE"
    /\ policy' = p
    /\ IF p = "CANCEL_PENDING" /\ tasks # <<>>
       THEN StartSettling(stack) /\ lifecycle' = "CLOSING"
       ELSE /\ lifecycle' = manual_maybe_close("CLOSING", Len(tasks), settling, running)
            /\ UNCHANGED <<tasks, settling, called, stack>>
    /\ UNCHANGED <<kind, alive, timerVars, running, accepted, completed, cancelled, closed, admitted, due, nested>>

-----------------------------------------------------------------------------
(* The test loop.                                                            *)
test_try_post_task_after(delay) ==
    LET deadline == cflow_deadline_after(now, delay)
    IN  /\ kind = "TEST" /\ MayCall /\ ~stopping
        /\ CanSchedule(timers)
        /\ NewTask(deadline)
        /\ timers' = cflow_timer_queue_try_schedule_task(timers, deadline, admitted + 1)
        /\ UNCHANGED <<kind, alive, now, stopping, execVars, closed, stack, called, nested>>

(* The id leaves the queue under the lock, its callbacks run after it.       *)
test_cancel(id) ==
    LET i == IndexOfId(timers, id)
    IN  /\ kind = "TEST" /\ MayCall /\ ~stopping /\ i # 0
        /\ timers' = remove_at(timers, i)
        /\ called' = [called EXCEPT ![timers.items[i].task] = "CANCEL"]
        /\ stack' = Push(stack, Frame("CANCEL", timers.items[i].task, <<>>))
        /\ UNCHANGED <<kind, alive, now, stopping, execVars, closed, admitted, due, nested>>

CancelReturns ==
    /\ OnTop("CANCEL")
    /\ called' = [called EXCEPT ![Top.task] = "CANCELLED"]
    /\ stack' = Pop
    /\ UNCHANGED <<kind, alive, timerVars, execVars, closed, admitted, due, nested>>

(* run_ready and run_until_idle are loops around test_take_and_run_one.      *)
StartLoop(op) ==
    /\ kind = "TEST" /\ MayCall
    /\ nested' = (nested \/ stack # <<>>)
    /\ stack' = Push(stack, Frame(op, 0, <<>>))
    /\ UNCHANGED <<kind, alive, timerVars, execVars, closed, admitted, due, called>>

(* advance moves the clock, then runs what has become ready.                 *)
test_advance(ticks) ==
    /\ kind = "TEST" /\ MayCall
    /\ now' = cflow_deadline_after(now, ticks)
    /\ nested' = (nested \/ stack # <<>>)
    /\ stack' = Push(stack, Frame("READY", 0, <<>>))
    /\ UNCHANGED <<kind, alive, timers, stopping, execVars, closed, admitted, due, called>>

LoopNow ==
    LET i == earliest_index(timers.items)
    IN  IF Top.op = "IDLE" /\ i # 0 /\ timers.items[i].deadline > now
        THEN timers.items[i].deadline ELSE now

(* Mutant: the earliest timer is dispatched whether it is due or not.        *)
LoopIndexEager == earliest_index(timers.items)

(* The timer one turn of the loop takes, 0 when the loop is over.            *)
LoopIndex == ReadyIndex(timers, LoopNow)

(* Mutant: the timer is handed over and nothing is run.                      *)
LoopPostsOnly ==
    /\ CanPost
    /\ accepted' = accepted + 1
    /\ tasks' = Append(tasks, timers.items[LoopIndex].task) /\ stack' = Pop
    /\ UNCHANGED <<running, called, settling, lifecycle, policy, completed, cancelled>>

(* The executor takes the task and runs the oldest it has, unless it is      *)
(* running one already: then the task stays queued and the loop ends.        *)
LoopPosts ==
    LET queue == Append(tasks, timers.items[LoopIndex].task)
    IN  /\ CanPost
        /\ accepted' = accepted + 1
        /\ IF CanRun
           THEN /\ tasks' = Tail(queue) /\ running' = TRUE
                /\ called' = [called EXCEPT ![Head(queue)] = "RUN"]
                /\ stack' = Push(stack, Frame("RUN", Head(queue), <<>>))
           ELSE tasks' = queue /\ stack' = Pop /\ UNCHANGED <<running, called>>
        /\ UNCHANGED <<settling, lifecycle, policy, completed, cancelled>>

(* Full or closed: the task is cancelled and the loop ends.                  *)
LoopCancels ==
    /\ ~CanPost
    /\ called' = [called EXCEPT ![timers.items[LoopIndex].task] = "CANCEL"]
    /\ stack' = Push(Pop, Frame("CANCEL", timers.items[LoopIndex].task, <<>>))
    /\ UNCHANGED execVars

test_take_and_run_one ==
    /\ stack # <<>> /\ Top.op \in Drives
    /\ LoopIndex # 0
    /\ now' = LoopNow
    /\ timers' = remove_at(timers, LoopIndex)
    /\ LoopPosts \/ LoopCancels
    /\ UNCHANGED <<kind, alive, stopping, closed, admitted, due, nested>>

LoopEnds ==
    /\ stack # <<>> /\ Top.op \in Drives
    /\ LoopIndex = 0
    /\ now' = LoopNow
    /\ stack' = Pop
    /\ UNCHANGED <<kind, alive, timers, stopping, execVars, closed, history>>

(* test_shutdown: the first call also shuts the executor down; rest records  *)
(* whether this is the first.                                                *)
test_shutdown ==
    /\ kind = "TEST" /\ MayCall
    /\ stopping' = TRUE
    /\ stack' = Push(stack, Frame("STOP", 0, IF stopping THEN <<>> ELSE <<1>>))
    /\ UNCHANGED <<kind, alive, timers, now, execVars, closed, history>>

(* Its loop takes any timer and calls it with the lock released ...          *)
StopTakes ==
    /\ OnTop("STOP") /\ Top.task = 0 /\ timers.items # <<>>
    /\ LET i == Len(timers.items)
       IN  /\ timers' = remove_at(timers, i)
           /\ called' = [called EXCEPT ![timers.items[i].task] = "CANCEL"]
           /\ stack' = [stack EXCEPT ![Len(stack)].task = timers.items[i].task]
    /\ UNCHANGED <<kind, alive, now, stopping, execVars, closed, admitted, due, nested>>

StopCallbackReturns ==
    /\ OnTop("STOP") /\ Top.task # 0
    /\ called' = [called EXCEPT ![Top.task] = "CANCELLED"]
    /\ stack' = [stack EXCEPT ![Len(stack)].task = 0]
    /\ UNCHANGED <<kind, alive, timerVars, execVars, closed, admitted, due, nested>>

(* ... until there is none.                                                  *)
StopEnds ==
    /\ OnTop("STOP") /\ Top.task = 0 /\ timers.items = <<>>
    /\ stack' = Pop
    /\ IF Top.rest # <<>>
       THEN /\ policy' = "DRAIN"
            /\ lifecycle' = manual_maybe_close("CLOSING", Len(tasks), settling, running)
       ELSE UNCHANGED <<policy, lifecycle>>
    /\ UNCHANGED <<kind, alive, timerVars, tasks, settling, running, accepted, completed, cancelled,
                   closed, history>>

-----------------------------------------------------------------------------
(* Destroy is called at the bottom: the test loop shuts down first, then the *)
(* executor cancels what it still has queued.                                *)
Destroy ==
    /\ kind # "INLINE" /\ alive /\ stack = <<>>
    /\ IF kind = "TEST"
       THEN /\ stopping' = TRUE
            /\ stack' = <<Frame("DESTROY", 0, <<>>), Frame("STOP", 0, IF stopping THEN <<>> ELSE <<1>>)>>
       ELSE stack' = <<Frame("DESTROY", 0, <<>>)>> /\ UNCHANGED stopping
    /\ UNCHANGED <<kind, alive, timers, now, execVars, closed, history>>

(* Mutant: the queued tasks are freed with the executor.                     *)
manual_destroyForgets ==
    /\ OnTop("DESTROY")
    /\ alive' = FALSE /\ stack' = Pop /\ lifecycle' = "CLOSED" /\ tasks' = <<>>
    /\ UNCHANGED <<kind, timerVars, settling, running, policy, accepted, completed, cancelled, closed, history>>

manual_destroy ==
    /\ OnTop("DESTROY")
    /\ IF tasks # <<>>
       THEN lifecycle' = "CLOSING" /\ StartSettling(stack) /\ UNCHANGED alive
       ELSE alive' = FALSE /\ stack' = Pop /\ lifecycle' = "CLOSED" /\ UNCHANGED <<tasks, settling, called>>
    /\ UNCHANGED <<kind, timerVars, running, policy, accepted, completed, cancelled, closed, admitted, due, nested>>

Next ==
    \/ inline_try_post_task_after \/ InlineReturns \/ inline_shutdown \/ inline_destroy
    \/ manual_scheduler_try_post_task_after \/ manual_run_one \/ RunReturns \/ SettleReturns
    \/ \E p \in {"DRAIN", "CANCEL_PENDING"} : manual_control_shutdown(p)
    \/ \E d \in Delays : test_try_post_task_after(d) \/ test_advance(d)
    \/ \E id \in 1 .. IdMax : test_cancel(id)
    \/ \E op \in Drives : StartLoop(op)
    \/ CancelReturns \/ test_take_and_run_one \/ LoopEnds
    \/ test_shutdown \/ StopTakes \/ StopCallbackReturns \/ StopEnds
    \/ Destroy \/ manual_destroy

Spec == Init /\ [][Next]_vars

-----------------------------------------------------------------------------
Held == {tasks[i] : i \in DOMAIN tasks} \cup {timers.items[i].task : i \in DOMAIN timers.items}
InFrame(t) ==
    \E i \in DOMAIN stack : stack[i].task = t \/ (stack[i].op = "SETTLE" /\ \E j \in DOMAIN stack[i].rest : stack[i].rest[j] = t)

(* Every admitted task is in exactly one place: queued and uncalled, in the  *)
(* callback of a call in progress, or settled; a task whose run or cancel    *)
(* returned is never called again, and destroy leaves none behind.           *)
SettledOnce ==
    \A t \in 1 .. admitted :
        /\ called[t] = "NO" <=> (t \in Held \/ (InFrame(t) /\ called[t] = "NO"))
        /\ called[t] \in {"RUN", "CANCEL"} => InFrame(t) /\ t \notin Held
        /\ called[t] \in {"RAN", "CANCELLED"} => ~InFrame(t) /\ t \notin Held
        /\ ~alive => called[t] \in {"RAN", "CANCELLED"}

(* No task starts before its deadline, however the clock was moved.          *)
NeverEarly == \A i \in DOMAIN stack : stack[i].op = "RUN" => due[stack[i].task] <= now

(* A closed executor is quiet: nothing queued, running or being cancelled,   *)
(* and then every task it accepted is completed or cancelled.                *)
ClosedIsQuiet ==
    /\ accepted = completed + cancelled + Len(tasks) + settling + (IF running THEN 1 ELSE 0)
    /\ lifecycle = "CLOSED" => tasks = <<>> /\ settling = 0 /\ ~running

(* The executor is serial: one run callback at a time, even when callbacks   *)
(* drive the scheduler again.                                                *)
OneRun == Cardinality({i \in DOMAIN stack : stack[i].op = "RUN"}) = (IF running THEN 1 ELSE 0)

(* Unless a callback drove the loop itself, the loop leaves nothing in the   *)
(* test loop's executor: what its timers handed over has been run.           *)
NotStranded == kind = "TEST" /\ stack = <<>> /\ ~nested => tasks = <<>>
=============================================================================
