--------------------------- MODULE MachineInstance ---------------------------
(* A machine that runs, and a hierarchy that runs with its timers.            *)
EXTENDS Naturals, Sequences, FiniteSets

CONSTANTS
    Senders, Stoppers,
    States, Kind,                     \* Kind[s]: ACTIVE, DONE or ERROR
    Initials,                         \* the initial states of the machines considered
    Transitions,                      \* the sorted rows: source, event, guard, target, observation and the event it emits
    Capacity, Quantum,
    MaxSends, MaxStops, MaxRefusals,  \* bounds
    Definition,                       \* the definition the hierarchy was built from
    Users,
    MaxTimers                         \* bounds

VARIABLES
    lifecycle, worker_phase, ready, done, error, closed, cancelled, rerun, mailbox_armed, in_flight,
    completed, failed, cancelled_in_flight, emitted_values, emitted_events, state,
    downstream_waiter, terminal_waiter,
    mailbox,            \* its queue, whether it is open, its waiter and its counters
    posted,             \* tasks of the instance in the executor's queue
    pc, inner,          \* per thread: its own step, and that of machine_mailbox_wake or schedule_machine_task under it
    held,               \* the worker's locals: the event, the row it selected, its iterations
    got,                \* the values the consumer has received
    alive,
    sends, stops, refusals,
    rings,              \* history: how often the terminal waker rang
    commits, atCancel,  \* history: commits, and how many there were when a cancel won
    owed, broken,       \* history: a close found an action done and not committed; that commit was dropped
    hierarchy,          \* what the definition was built into
    gate,               \* the thread that holds it, or "free"
    timers,             \* the slots in use: id, scope, event and whether the slot is firing
    timers_closed,
    born,               \* ids of timers, a count
    machine,            \* the flat machine: state, over (TERMINAL), cancel (CANCEL_REQUESTED), open (its mailbox), queue
    worker,             \* its task: a step and the index of the row it commits, or 0 for SIZE_MAX
    user,               \* per user: idle, firing, closing, cancelling, ...
    fired,              \* per user: the timer it fires
    stale               \* history: a timer was sent for a scope that is not active

-----------------------------------------------------------------------------
(* One executing machine (cflow/src/machine_instance.c): a task on a serial   *)
(* executor takes events from the instance's mailbox and commits transitions  *)
(* under one mutex, while producers send, a consumer resumes the instance as  *)
(* a publisher, and others close, cancel and destroy it.                      *)

Worker == "worker"
Consumer == "consumer"
Threads == Senders \cup Stoppers \cup {Worker, Consumer}
MachineEvents == {Transitions[i].event : i \in DOMAIN Transitions}

control == <<lifecycle, closed, cancelled>>
counters == <<in_flight, completed, failed, cancelled_in_flight, emitted_values, emitted_events>>
waiters == <<downstream_waiter, terminal_waiter, rings>>
history == <<commits, atCancel, owed, broken>>
bounds == <<sends, stops, refusals>>
machine_vars == <<control, worker_phase, ready, done, error, rerun, mailbox_armed, counters, state, waiters, mailbox, posted,
          pc, inner, held, got, alive, bounds, history>>

NoRow == [event |-> 0, row |-> 0, iteration |-> 0]

(* cflow_machine_instance_init: a machine whose initial state is terminal is  *)
(* done at once, and its mailbox cancelled.                                   *)
MachineInit ==
    /\ state \in Initials
    /\ done = (Kind[state] # "ACTIVE")
    /\ lifecycle = IF done THEN "TERMINAL" ELSE "OPEN"
    /\ error = (Kind[state] = "ERROR")
    /\ ready = CASE Kind[state] = "DONE" -> "DONE" [] Kind[state] = "ERROR" -> "ERROR" [] OTHER -> "NONE"
    /\ mailbox = [queue |-> <<>>, open |-> ~done, waiter |-> FALSE, accepted |-> 0, received |-> 0, cancelled |-> 0]
    /\ worker_phase = "IDLE" /\ closed = FALSE /\ cancelled = FALSE /\ rerun = FALSE /\ mailbox_armed = FALSE
    /\ in_flight = 0 /\ completed = 0 /\ failed = 0 /\ cancelled_in_flight = 0
    /\ emitted_values = 0 /\ emitted_events = 0
    /\ downstream_waiter = FALSE /\ terminal_waiter = FALSE /\ rings = 0
    /\ posted = 0 /\ held = NoRow /\ got = 0 /\ alive = TRUE
    /\ pc = [t \in Threads |-> IF t = Consumer THEN "bind" ELSE "idle"]
    /\ inner = [t \in Threads |-> "none"]
    /\ sends = 0 /\ stops = 0 /\ refusals = 0
    /\ commits = 0 /\ atCancel = 0 /\ owed = FALSE /\ broken = FALSE

Goto(t, step) == pc' = [pc EXCEPT ![t] = step]

(* The waiters a terminal takes and rings: the consumer's and the terminal's. *)
take_downstream_waiter ==
    /\ downstream_waiter' = FALSE

take_terminal_waiter ==
    /\ terminal_waiter' = FALSE
    /\ rings' = rings + (IF terminal_waiter THEN 1 ELSE 0)

NoTerminal == UNCHANGED <<terminal_waiter, rings>>

(* cflow_mailbox_cancel in thread t; the waiter it takes runs                 *)
(* machine_mailbox_wake in that thread before it goes on.                     *)
cancel_mailbox(t) ==
    /\ mailbox' = [mailbox EXCEPT !.open = FALSE, !.queue = <<>>, !.waiter = FALSE,
                                  !.cancelled = @ + Len(mailbox.queue)]
    /\ inner' = [inner EXCEPT ![t] = IF mailbox.waiter THEN "wake" ELSE "none"]

(* fail_runtime up to its unlock.  A cancel that was requested and not yet    *)
(* settled wins over the error.                                               *)
CancelWon == lifecycle = "CANCEL_REQUESTED"

fail_runtime(settle) ==
    /\ error' = (error \/ ~CancelWon)
    /\ in_flight' = IF settle /\ in_flight # 0 THEN in_flight - 1 ELSE in_flight
    /\ cancelled_in_flight' = cancelled_in_flight + (IF settle /\ CancelWon THEN 1 ELSE 0)
    /\ failed' = failed + (IF settle /\ ~CancelWon THEN 1 ELSE 0)
    /\ worker_phase' = "IDLE" /\ lifecycle' = "TERMINAL" /\ done' = TRUE
    /\ ready' = IF CancelWon THEN "DONE" ELSE "ERROR"
    /\ take_downstream_waiter /\ take_terminal_waiter
    /\ UNCHANGED <<closed, cancelled, rerun, mailbox_armed, completed, emitted_values, emitted_events, state>>

Settled == done \/ error \/ ready # "NONE"

(* machine_mailbox_wake, then schedule_machine_task: its lock, its post and,  *)
(* when the executor refuses, the failure.                                    *)
MailboxWake(t) ==
    /\ inner[t] = "wake"
    /\ mailbox_armed' = FALSE
    /\ inner' = [inner EXCEPT ![t] = "schedule"]
    /\ UNCHANGED <<control, worker_phase, ready, done, error, rerun, counters, state, waiters, mailbox, posted, pc, held,
                   got, alive, bounds, history>>

Reruns == worker_phase \in {"EXECUTING", "COMMITTING", "SCHEDULED"}

ScheduleTask(t) ==
    /\ inner[t] = "schedule"
    /\ IF Settled \/ Reruns
       THEN /\ rerun' = (rerun \/ ~Settled)
            /\ inner' = [inner EXCEPT ![t] = "none"]
            /\ UNCHANGED worker_phase
       ELSE /\ worker_phase' = "SCHEDULED"
            /\ inner' = [inner EXCEPT ![t] = "post"]
            /\ UNCHANGED rerun
    /\ UNCHANGED <<control, ready, done, error, mailbox_armed, counters, state, waiters, mailbox, posted, pc, held, got,
                   alive, bounds, history>>

PostTask(t) ==
    /\ inner[t] = "post"
    /\ posted' = posted + 1
    /\ inner' = [inner EXCEPT ![t] = "none"]
    /\ UNCHANGED <<control, worker_phase, ready, done, error, rerun, mailbox_armed, counters, state, waiters, mailbox, pc,
                   held, got, alive, bounds, history>>

(* The executor is full or closed: IDLE again, the runtime fails, and the     *)
(* caller of schedule_machine_task hears it.                                  *)
PostRefused(t) ==
    /\ inner[t] = "post" /\ refusals < MaxRefusals
    /\ refusals' = refusals + 1
    /\ fail_runtime(FALSE)
    /\ cancel_mailbox(t)
    /\ UNCHANGED <<posted, pc, held, got, alive, sends, stops, history>>

(* cflow_machine_instance_try_send and emit_action_event.                     *)
CanSend == mailbox.open /\ Len(mailbox.queue) < Capacity

MailboxSend(t, e) ==
    /\ mailbox' = [mailbox EXCEPT !.queue = Append(@, e), !.accepted = @ + 1, !.waiter = FALSE]
    /\ inner' = [inner EXCEPT ![t] = IF mailbox.waiter THEN "wake" ELSE "none"]

TrySend(t, e) ==
    /\ alive /\ inner[t] = "none" /\ sends < MaxSends
    /\ CanSend
    /\ sends' = sends + 1
    /\ MailboxSend(t, e)
    /\ UNCHANGED <<control, worker_phase, ready, done, error, rerun, mailbox_armed, counters, state, waiters, posted, pc,
                   held, got, alive, stops, refusals, history>>
-----------------------------------------------------------------------------
(* The task (machine_executor_task).                                         *)
Working(step) == pc[Worker] = step /\ inner[Worker] = "none"

TaskBegins ==
    /\ posted > 0 /\ Working("idle")
    /\ posted' = posted - 1
    /\ rerun' = FALSE
    /\ held' = NoRow
    /\ Goto(Worker, "head")
    /\ UNCHANGED <<control, worker_phase, ready, done, error, mailbox_armed, counters, state, waiters, mailbox, inner, got,
                   alive, bounds, history>>

LoopHead ==
    /\ Working("head")
    /\ IF Settled \/ held.iteration = Quantum
       THEN Goto(Worker, "tail") /\ UNCHANGED worker_phase
       ELSE Goto(Worker, "receive") /\ worker_phase' = "EXECUTING"
    /\ UNCHANGED <<control, ready, done, error, rerun, mailbox_armed, counters, state, waiters, mailbox, posted, inner,
                   held, got, alive, bounds, history>>

Receive ==
    /\ Working("receive")
    /\ IF mailbox.queue = <<>>
       THEN /\ Goto(Worker, IF mailbox.open THEN "empty" ELSE "publish done")
            /\ UNCHANGED <<mailbox, held>>
       ELSE /\ held' = [held EXCEPT !.event = Head(mailbox.queue)]
            /\ mailbox' = [mailbox EXCEPT !.queue = Tail(@), !.received = @ + 1]
            /\ Goto(Worker, "count")
    /\ UNCHANGED <<control, worker_phase, ready, done, error, rerun, mailbox_armed, counters, state, waiters, posted,
                   inner, got, alive, bounds, history>>

FoundEmpty ==
    /\ Working("empty")
    /\ worker_phase' = "SCHEDULED"
    /\ Goto(Worker, IF lifecycle # "OPEN" THEN "publish done" ELSE "arm")
    /\ UNCHANGED <<control, ready, done, error, rerun, mailbox_armed, counters, state, waiters, mailbox, posted, inner,
                   held, got, alive, bounds, history>>

publish_done ==
    /\ Working("publish done")
    /\ worker_phase' = "IDLE" /\ lifecycle' = "TERMINAL" /\ done' = TRUE /\ ready' = "DONE"
    /\ take_downstream_waiter /\ take_terminal_waiter
    /\ cancel_mailbox(Worker)
    /\ Goto(Worker, "tail")
    /\ UNCHANGED <<closed, cancelled, error, rerun, mailbox_armed, counters, state, posted, held, got, alive, bounds,
                   history>>

(* arm_mailbox: the flag under the lock, then the waitable, which rings at    *)
(* once when an event or a cancel came first.  An arm over an armed waiter    *)
(* fails the runtime.                                                         *)
ArmMailbox ==
    /\ Working("arm")
    /\ IF done \/ error THEN Goto(Worker, "tail") /\ UNCHANGED mailbox_armed
       ELSE Goto(Worker, "wait") /\ mailbox_armed' = TRUE
    /\ UNCHANGED <<control, worker_phase, ready, done, error, rerun, counters, state, waiters, mailbox, posted, inner,
                   held, got, alive, bounds, history>>

Rearms == mailbox.queue = <<>> /\ mailbox.open

WaitMailbox ==
    /\ Working("wait") /\ ~(Rearms /\ mailbox.waiter)
    /\ Goto(Worker, "tail")
    /\ mailbox' = [mailbox EXCEPT !.waiter = Rearms]
    /\ inner' = [inner EXCEPT ![Worker] = IF Rearms THEN "none" ELSE "wake"]
    /\ UNCHANGED <<control, worker_phase, ready, done, error, rerun, mailbox_armed, counters, state, waiters, posted,
                   held, got, alive, bounds, history>>

CountEvent ==
    /\ Working("count")
    /\ in_flight' = in_flight + 1
    /\ Goto(Worker, "select")
    /\ UNCHANGED <<control, worker_phase, ready, done, error, rerun, mailbox_armed, completed, failed,
                   cancelled_in_flight, emitted_values, emitted_events, state, waiters, mailbox, posted, inner, held,
                   got, alive, bounds, history>>
-----------------------------------------------------------------------------
(* process_event.  settle_cancelled_in_flight is asked before the guards,     *)
(* after them and after the action; a cancel it finds ends the machine.       *)
settle_cancelled_in_flight ==
    /\ \E step \in {"select", "act", "acted", "act failed", "no row"} : Working(step)
    /\ CancelWon
    /\ in_flight' = IF in_flight # 0 THEN in_flight - 1 ELSE in_flight
    /\ cancelled_in_flight' = cancelled_in_flight + 1
    /\ worker_phase' = "IDLE" /\ lifecycle' = "TERMINAL" /\ done' = TRUE /\ ready' = "DONE"
    /\ take_downstream_waiter /\ take_terminal_waiter
    /\ Goto(Worker, "tail")
    /\ held' = [held EXCEPT !.event = 0]
    /\ UNCHANGED <<closed, cancelled, error, rerun, mailbox_armed, completed, failed, emitted_values, emitted_events,
                   state, mailbox, posted, inner, got, alive, bounds, history>>

MachineRows(e) == {i \in DOMAIN Transitions : Transitions[i].source = state /\ Transitions[i].event = e}

(* select_transition: the rows of the state and event in order, each guard   *)
(* asked in turn; the first that is enabled, or 0 when a guard fails or none  *)
(* is.  verdict[i] is what the guard of row i answers.                        *)
select_transition(e, verdict) ==
    LET stop == {i \in MachineRows(e) : Transitions[i].guard = 0 \/ verdict[i] # "no"}
        first == CHOOSE i \in stop : \A j \in stop : i <= j
    IN  IF stop = {} THEN 0
        ELSE IF Transitions[first].guard # 0 /\ verdict[first] = "fails" THEN 0 ELSE first

SelectRow ==
    /\ Working("select") /\ ~CancelWon
    /\ \E verdict \in [{i \in MachineRows(held.event) : Transitions[i].guard # 0} -> {"yes", "no", "fails"}] :
        LET row == select_transition(held.event, verdict)
        IN  /\ held' = [held EXCEPT !.row = row]
            /\ Goto(Worker, IF row = 0 THEN "no row" ELSE "act")
    /\ UNCHANGED <<control, worker_phase, ready, done, error, rerun, mailbox_armed, counters, state, waiters, mailbox,
                   posted, inner, got, alive, bounds, history>>

Row == Transitions[held.row]

RunAction(ok) ==
    /\ Working("act") /\ ~CancelWon
    /\ ~ok => Row.observation # "NONE"
    /\ Goto(Worker, IF ok THEN "acted" ELSE "act failed")
    /\ UNCHANGED <<control, worker_phase, ready, done, error, rerun, mailbox_armed, counters, state, waiters, mailbox,
                   posted, inner, held, got, alive, bounds, history>>

(* No transition, a failed action or an event that could not be emitted.      *)
FailEvent ==
    /\ \/ \E step \in {"no row", "act failed"} : Working(step) /\ ~CancelWon
       \/ Working("rejected")
    /\ fail_runtime(TRUE)
    /\ cancel_mailbox(Worker)
    /\ Goto(Worker, "tail")
    /\ held' = [held EXCEPT !.event = 0]
    /\ UNCHANGED <<posted, got, alive, bounds, history>>

(* After the action: the closed flag is read under the lock, and the event is *)
(* sent to the instance's own mailbox after it.                               *)
ReadClosed ==
    /\ Working("acted") /\ ~CancelWon
    /\ Goto(Worker, IF Row.observation = "EVENT" /\ ~closed THEN "emit" ELSE "commit")
    /\ UNCHANGED <<control, worker_phase, ready, done, error, rerun, mailbox_armed, counters, state, waiters, mailbox,
                   posted, inner, held, got, alive, bounds, history>>

EmitEvent ==
    /\ Working("emit")
    /\ IF CanSend
       THEN Goto(Worker, "commit") /\ MailboxSend(Worker, Row.emits) /\ UNCHANGED broken
       ELSE Goto(Worker, "rejected") /\ broken' = (owed /\ ~mailbox.open) /\ UNCHANGED <<mailbox, inner>>
    /\ UNCHANGED <<control, worker_phase, ready, done, error, rerun, mailbox_armed, counters, state, waiters, posted,
                   held, got, alive, bounds, commits, atCancel, owed>>

(* Mutant: a cancel that won does not stop the commit.                       *)
ForbidsNever == FALSE
(* begin_commit_locked, COMMIT_CANCELLED: the staged state is discarded.      *)
Forbids == CancelWon

CommitCancelled ==
    /\ Working("commit") /\ Forbids
    /\ in_flight' = IF in_flight # 0 THEN in_flight - 1 ELSE in_flight
    /\ cancelled_in_flight' = cancelled_in_flight + 1
    /\ worker_phase' = "IDLE" /\ lifecycle' = "TERMINAL" /\ done' = TRUE /\ ready' = "DONE"
    /\ take_downstream_waiter /\ take_terminal_waiter
    /\ cancel_mailbox(Worker)
    /\ Goto(Worker, "tail")
    /\ held' = [held EXCEPT !.event = 0]
    /\ UNCHANGED <<closed, cancelled, error, rerun, mailbox_armed, completed, failed, emitted_values, emitted_events,
                   state, posted, got, alive, bounds, history>>

(* What the committed transition leaves to be taken by the consumer.          *)
Closing == lifecycle = "CLOSE_REQUESTED"

ReadyAfter(kind, observation) ==
    IF observation = "VALUE"
    THEN CASE kind = "ERROR" -> "ERROR"
           [] kind = "DONE" \/ Closing -> "VALUE_AND_DONE"
           [] OTHER -> "VALUE"
    ELSE IF kind = "DONE" \/ (kind = "ACTIVE" /\ Closing) THEN "DONE" ELSE ready

(* COMMIT_ALLOWED, COMMITTING to SCHEDULED under one hold of the lock.        *)
Commit ==
    /\ Working("commit") /\ ~Forbids
    /\ LET kind == Kind[Row.target]
           observes == Row.observation
           ends == kind = "DONE" \/ (kind = "ERROR" /\ observes = "VALUE") \/ (kind = "ACTIVE" /\ Closing)
       IN  /\ state' = Row.target
           /\ in_flight' = IF in_flight # 0 THEN in_flight - 1 ELSE in_flight
           /\ failed' = failed + (IF kind = "ERROR" THEN 1 ELSE 0)
           /\ completed' = completed + (IF kind = "ERROR" THEN 0 ELSE 1)
           /\ emitted_events' = emitted_events + (IF observes = "EVENT" /\ ~closed THEN 1 ELSE 0)
           /\ emitted_values' = emitted_values + (IF observes = "VALUE" THEN 1 ELSE 0)
           /\ ready' = ReadyAfter(kind, observes)
           /\ done' = (done \/ ends)
           /\ downstream_waiter' = (downstream_waiter /\ ~ends /\ observes # "VALUE")
           /\ worker_phase' = "SCHEDULED"
           /\ lifecycle' = IF done \/ ends \/ kind = "ERROR" THEN "TERMINAL" ELSE lifecycle
           /\ IF ends /\ kind # "ERROR" THEN take_terminal_waiter ELSE NoTerminal
           /\ Goto(Worker, CASE kind = "ERROR" -> "entered error"
                             [] kind = "DONE" \/ Closing -> "drop mailbox"
                             [] observes = "VALUE" -> "tail"
                             [] OTHER -> "head")
    /\ held' = [held EXCEPT !.event = 0, !.iteration = @ + 1]
    /\ commits' = commits + 1
    /\ owed' = FALSE
    /\ UNCHANGED <<closed, cancelled, error, rerun, mailbox_armed, cancelled_in_flight, mailbox, posted, inner, got,
                   alive, bounds, atCancel, broken>>

EnteredError ==
    /\ Working("entered error")
    /\ fail_runtime(FALSE)
    /\ cancel_mailbox(Worker)
    /\ Goto(Worker, "tail")
    /\ UNCHANGED <<posted, held, got, alive, bounds, history>>

DropMailbox ==
    /\ Working("drop mailbox")
    /\ cancel_mailbox(Worker)
    /\ Goto(Worker, "tail")
    /\ UNCHANGED <<control, worker_phase, ready, done, error, rerun, mailbox_armed, counters, state, waiters, posted,
                   held, got, alive, bounds, history>>

(* Mutant: a spent quantum is not posted again.                              *)
RepostsAsked == ~Settled /\ rerun
(* The tail: IDLE, and a repost for a rerun asked for or a spent quantum.     *)
Reposts == ~Settled /\ (rerun \/ held.iteration = Quantum)

TaskEnds ==
    /\ Working("tail")
    /\ worker_phase' = IF worker_phase = "SCHEDULED" THEN "IDLE" ELSE worker_phase
    /\ inner' = [inner EXCEPT ![Worker] = IF Reposts THEN "schedule" ELSE "none"]
    /\ Goto(Worker, "idle")
    /\ UNCHANGED <<control, ready, done, error, rerun, mailbox_armed, counters, state, waiters, mailbox, posted, held,
                   got, alive, bounds, history>>
-----------------------------------------------------------------------------
(* The consumer: machine_source_bind_terminal, machine_resume, the waitable,  *)
(* and a detach, which cancels.                                               *)
Consuming(step) == alive /\ pc[Consumer] = step /\ inner[Consumer] = "none"

BindTerminal ==
    /\ Consuming("bind")
    /\ terminal_waiter' = ~(done \/ error)
    /\ rings' = rings + (IF done \/ error THEN 1 ELSE 0)
    /\ Goto(Consumer, "resume")
    /\ UNCHANGED <<control, worker_phase, ready, done, error, rerun, mailbox_armed, counters, state, downstream_waiter,
                   mailbox, posted, inner, held, got, alive, bounds, history>>

TakesValue == ready \in {"VALUE", "VALUE_AND_DONE"}

machine_resume ==
    /\ Consuming("resume")
    /\ got' = got + (IF TakesValue THEN 1 ELSE 0)
    /\ ready' = IF ready = "VALUE" THEN "NONE" ELSE ready
    /\ IF ready = "VALUE" THEN UNCHANGED <<pc, inner>>
       ELSE IF Settled THEN Goto(Consumer, "over") /\ UNCHANGED inner
       ELSE Goto(Consumer, "arm") /\ inner' = [inner EXCEPT ![Consumer] = "schedule"]
    /\ UNCHANGED <<control, worker_phase, done, error, rerun, mailbox_armed, counters, state, waiters, mailbox, posted,
                   held, alive, bounds, history>>

machine_wait_arm ==
    /\ Consuming("arm")
    /\ downstream_waiter' = ~Settled
    /\ Goto(Consumer, IF Settled THEN "resume" ELSE "sleep")
    /\ UNCHANGED <<control, worker_phase, ready, done, error, rerun, mailbox_armed, counters, state, terminal_waiter,
                   rings, mailbox, posted, inner, held, got, alive, bounds, history>>

Woken ==
    /\ Consuming("sleep") /\ ~downstream_waiter
    /\ Goto(Consumer, "resume")
    /\ UNCHANGED <<control, worker_phase, ready, done, error, rerun, mailbox_armed, counters, state, waiters, mailbox,
                   posted, inner, held, got, alive, bounds, history>>

(* machine_wait_cancel.                                                       *)
StopWaiting ==
    /\ Consuming("sleep") /\ downstream_waiter
    /\ downstream_waiter' = FALSE
    /\ Goto(Consumer, "detach")
    /\ UNCHANGED <<control, worker_phase, ready, done, error, rerun, mailbox_armed, counters, state, terminal_waiter,
                   rings, mailbox, posted, inner, held, got, alive, bounds, history>>
-----------------------------------------------------------------------------
(* request_cancel and cflow_machine_instance_close: what they change under    *)
(* the lock, then the mailbox's waiter and the mailbox.                       *)
MachineBusy == worker_phase \in {"EXECUTING", "COMMITTING"}

publish_control_terminal ==
    /\ lifecycle' = "TERMINAL" /\ done' = TRUE
    /\ ready' = CASE ready = "VALUE" -> "VALUE_AND_DONE" [] ready = "NONE" -> "DONE" [] OTHER -> ready

Stops(t) ==
    \/ t \in Stoppers /\ alive /\ pc[t] = "idle" /\ inner[t] = "none" /\ stops < MaxStops
    \/ t = Consumer /\ Consuming("detach")

Cancel(t) ==
    /\ Stops(t)
    /\ stops' = stops + (IF t = Consumer THEN 0 ELSE 1)
    /\ IF done \/ lifecycle = "TERMINAL"
       THEN /\ Goto(t, IF t = Consumer THEN "over" ELSE "idle")
            /\ UNCHANGED <<control, mailbox_armed, ready, done, waiters, atCancel>>
       ELSE /\ closed' = TRUE /\ cancelled' = TRUE
            /\ mailbox_armed' = FALSE
            /\ IF MachineBusy
               THEN lifecycle' = "CANCEL_REQUESTED" /\ UNCHANGED <<ready, done, waiters>>
               ELSE publish_control_terminal /\ take_downstream_waiter /\ take_terminal_waiter
            /\ Goto(t, IF mailbox_armed THEN "unwait" ELSE "cancel mailbox")
            /\ atCancel' = IF cancelled THEN atCancel ELSE commits
    /\ UNCHANGED <<worker_phase, error, rerun, counters, state, mailbox, posted, inner, held, got, alive, sends, refusals,
                   commits, owed, broken>>

Close(t) ==
    /\ t \in Stoppers /\ Stops(t)
    /\ stops' = stops + 1
    /\ closed' = TRUE
    /\ mailbox_armed' = FALSE
    /\ LET terminal == done \/ error \/ ~MachineBusy
       IN  /\ IF terminal /\ ~error THEN publish_control_terminal
              ELSE /\ lifecycle' = IF lifecycle = "OPEN" THEN "CLOSE_REQUESTED" ELSE lifecycle
                   /\ UNCHANGED <<ready, done>>
           /\ IF terminal THEN take_downstream_waiter /\ take_terminal_waiter ELSE UNCHANGED waiters
    /\ owed' = (owed \/ (lifecycle = "OPEN" /\ pc[Worker] \in {"emit", "commit"}))
    /\ Goto(t, IF mailbox_armed THEN "unwait" ELSE "cancel mailbox")
    /\ UNCHANGED <<cancelled, worker_phase, error, rerun, counters, state, mailbox, posted, inner, held, got, alive,
                   sends, refusals, commits, atCancel, broken>>

Unwait(t) ==
    /\ pc[t] = "unwait"
    /\ mailbox' = [mailbox EXCEPT !.waiter = FALSE]
    /\ Goto(t, "cancel mailbox")
    /\ UNCHANGED <<control, worker_phase, ready, done, error, rerun, mailbox_armed, counters, state, waiters, posted,
                   inner, held, got, alive, bounds, history>>

CancelMailbox(t) ==
    /\ pc[t] = "cancel mailbox"
    /\ cancel_mailbox(t)
    /\ Goto(t, IF t = Consumer THEN "over" ELSE "idle")
    /\ UNCHANGED <<control, worker_phase, ready, done, error, rerun, mailbox_armed, counters, state, waiters, posted,
                   held, got, alive, bounds, history>>

(* Mutant: destroy does not wait for the executor.                           *)
ExecutorIdleUnasked == TRUE
(* cflow_machine_instance_destroy: the callers are quiescent, the executor    *)
(* is waited for (driven, when the caller owns it).                           *)
ExecutorIdle == posted = 0 /\ Working("idle")

Destroy ==
    /\ alive
    /\ \A t \in Threads \ {Worker} : inner[t] = "none" /\ pc[t] \in {"idle", "over"}
    /\ ExecutorIdle
    /\ alive' = FALSE
    /\ mailbox' = [mailbox EXCEPT !.waiter = FALSE]
    /\ mailbox_armed' = FALSE
    /\ UNCHANGED <<control, worker_phase, ready, done, error, rerun, counters, state, waiters, posted, pc, inner, held,
                   got, bounds, history>>

WorkerSteps ==
    \/ TaskBegins \/ LoopHead \/ Receive \/ FoundEmpty \/ publish_done \/ ArmMailbox \/ WaitMailbox \/ CountEvent
    \/ settle_cancelled_in_flight \/ SelectRow \/ \E ok \in BOOLEAN : RunAction(ok)
    \/ FailEvent \/ ReadClosed \/ EmitEvent \/ CommitCancelled \/ Commit \/ EnteredError \/ DropMailbox \/ TaskEnds

MachineNext ==
    \/ WorkerSteps
    \/ BindTerminal \/ machine_resume \/ machine_wait_arm \/ Woken \/ StopWaiting
    \/ \E t \in Threads : MailboxWake(t) \/ ScheduleTask(t) \/ PostTask(t) \/ PostRefused(t)
    \/ \E t \in Senders, e \in MachineEvents : TrySend(t, e)
    \/ \E t \in Stoppers \cup {Consumer} : Cancel(t) \/ Close(t) \/ Unwait(t) \/ CancelMailbox(t)
    \/ Destroy

MachineSpec == MachineInit /\ [][MachineNext]_machine_vars
-----------------------------------------------------------------------------
TypeOK ==
    /\ lifecycle \in {"OPEN", "CLOSE_REQUESTED", "CANCEL_REQUESTED", "TERMINAL"}
    /\ worker_phase \in {"IDLE", "SCHEDULED", "EXECUTING", "COMMITTING"}
    /\ ready \in {"NONE", "VALUE", "VALUE_AND_DONE", "DONE", "ERROR"}
    /\ state \in States /\ posted \in 0 .. 1 /\ in_flight \in 0 .. 1

(* machine_observe_stats: every accepted event is pending, cancelled in the   *)
(* mailbox, in flight, or counted once as completed, failed or cancelled; and *)
(* in_flight is the event the worker holds.                                   *)
EventsAccounted ==
    /\ mailbox.accepted = mailbox.received + mailbox.cancelled + Len(mailbox.queue)
    /\ mailbox.received = completed + failed + cancelled_in_flight + (IF held.event # 0 THEN 1 ELSE 0)
    /\ in_flight = IF held.event # 0 /\ pc[Worker] # "count" THEN 1 ELSE 0

(* machine_instance.h, cancel: "A commit that wins first remains observable   *)
(* exactly once, including a prepared VALUE, and cancellation prevents        *)
(* subsequent Events": no commit follows a cancel that found the machine      *)
(* running, no commit finds its phase taken away (COMMIT_INVALID), and every  *)
(* value a commit prepared is taken or still waits.                           *)
CommitsLinearize ==
    /\ cancelled => commits = atCancel
    /\ Working("commit") => worker_phase = "EXECUTING" /\ lifecycle # "TERMINAL"
    /\ got <= emitted_values
    /\ (pc[Consumer] # "over" /\ Kind[state] # "ERROR") =>
         got + (IF TakesValue THEN 1 ELSE 0) = emitted_values

(* A consumer that sleeps with nothing running is woken by the next event:    *)
(* nothing is ready, the mailbox is empty, open and armed.                    *)
SleepsRightly ==
    (/\ pc[Consumer] = "sleep" /\ downstream_waiter /\ posted = 0 /\ Working("idle")
     /\ \A t \in Threads : inner[t] = "none" /\ pc[t] \in {"idle", "sleep"})
    => ~Settled /\ mailbox.queue = <<>> /\ mailbox.open /\ mailbox.waiter

(* The terminal waker rings at most once, only for a machine that is over,    *)
(* and no task or wake touches a destroyed instance.                          *)
TerminalOnce ==
    /\ rings <= 1
    /\ rings = 1 => done \/ error
    /\ ~alive => posted = 0 /\ \A t \in Threads : inner[t] = "none"

(* machine_instance.h, close: "If close overlaps an executing transition,     *)
(* that transition commits exactly once before terminal settlement."          *)
CloseCommits == ~broken

-----------------------------------------------------------------------------
(* A running hierarchy (the instance of cflow/src/machine_hierarchy.c): the   *)
(* flat machine, whose commits hold a gate through a hook, and the timers of  *)
(* its states, which the same gate ties to the states that are active.        *)

Tree == INSTANCE MachineHierarchy WITH Definitions <- {Definition}, MaxRows <- 24,
                                       definition <- Definition, impl <- [null |-> TRUE],
    chart <- [null |-> TRUE]

hierarchy_vars == <<hierarchy, gate, closed, cancelled, timers, timers_closed, born, machine, worker, user, fired, sends, stale>>

HierarchyRows == hierarchy.flat.transitions
KindOf == [i \in {hierarchy.states[k].id : k \in DOMAIN hierarchy.states} |->
              hierarchy.states[CHOOSE k \in DOMAIN hierarchy.states : hierarchy.states[k].id = i].kind]
Around(leaf) ==
    {hierarchy.states[k].id : k \in Tree!AncestorsOrSelf(hierarchy.states, Tree!Index(hierarchy.states, leaf))}

(* cflow_machine_hierarchy_instance_init; an initial state that is terminal   *)
(* closes the timers.                                                         *)
HierarchyInit ==
    /\ hierarchy = Tree!BuiltHierarchy(Definition)
    /\ gate = "free" /\ cancelled = FALSE /\ timers = {} /\ born = 0
    /\ machine = [state |-> hierarchy.flat.initial, over |-> FALSE, cancel |-> FALSE, open |-> TRUE, queue |-> <<>>]
    /\ closed = (KindOf[hierarchy.flat.initial] # "ACTIVE") /\ timers_closed = closed
    /\ worker = [step |-> "idle", row |-> 0]
    /\ user = [u \in Users |-> "idle"] /\ fired = [u \in Users |-> 0] /\ sends = 0 /\ stale = FALSE

Idle(u) == user[u] = "idle"

(* The gate of a call that holds it for its whole length.                     *)
Gated == gate = "free"

hierarchy_scope_active(scope) == KindOf[machine.state] = "ACTIVE" /\ scope \in Around(machine.state)

(* try_schedule_at and try_schedule_after.                                    *)
try_schedule(u, scope, event) ==
    /\ Idle(u) /\ Gated /\ ~closed /\ born < MaxTimers
    /\ hierarchy_scope_active(scope)
    /\ ~timers_closed
    /\ born' = born + 1
    /\ timers' = timers \cup {[id |-> born + 1, scope |-> scope, event |-> event, firing |-> FALSE]}
    /\ UNCHANGED <<hierarchy, gate, closed, cancelled, timers_closed, machine, worker, user, fired, sends, stale>>

cancel_timer(u, t) ==
    /\ Idle(u) /\ Gated /\ ~closed
    /\ ~t.firing
    /\ timers' = timers \ {t}
    /\ UNCHANGED <<hierarchy, gate, closed, cancelled, timers_closed, born, machine, worker, user, fired, sends, stale>>

(* run_one_ready: the claim, the send to the machine's mailbox, the release,  *)
(* all under the gate.  Any pending timer may be the one that is due.         *)
Claim(u, t) ==
    /\ Idle(u) /\ Gated /\ ~closed /\ ~timers_closed
    /\ ~t.firing
    /\ gate' = u
    /\ timers' = (timers \ {t}) \cup {[t EXCEPT !.firing = TRUE]}
    /\ user' = [user EXCEPT ![u] = "firing"] /\ fired' = [fired EXCEPT ![u] = t.id]
    /\ UNCHANGED <<hierarchy, closed, cancelled, timers_closed, born, machine, worker, sends, stale>>

Firing(u) == CHOOSE t \in timers : t.id = fired[u]

Send(event) == [machine EXCEPT !.queue = IF machine.open THEN Append(@, event) ELSE @]

SendFired(u) ==
    /\ user[u] = "firing"
    /\ machine' = Send(Firing(u).event)
    /\ stale' = (stale \/ (machine.open /\ Firing(u).scope \notin Around(machine.state)))
    /\ user' = [user EXCEPT ![u] = "fired"]
    /\ UNCHANGED <<hierarchy, gate, closed, cancelled, timers, timers_closed, born, worker, fired, sends>>

Release(u) ==
    /\ user[u] = "fired"
    /\ timers' = {t \in timers : t.id # fired[u]}
    /\ gate' = "free"
    /\ user' = [user EXCEPT ![u] = "idle"] /\ fired' = [fired EXCEPT ![u] = 0]
    /\ UNCHANGED <<hierarchy, closed, cancelled, timers_closed, born, machine, worker, sends, stale>>

try_send(u, event) ==
    /\ Idle(u) /\ sends < MaxSends
    /\ sends' = sends + 1
    /\ machine' = Send(event)
    /\ UNCHANGED <<hierarchy, gate, closed, cancelled, timers, timers_closed, born, worker, user, fired, stale>>

(* cflow_timer_event_queue_close: the pending timers go at once; it returns   *)
(* when none is firing.                                                       *)
CloseTimers(ts) == {t \in ts : t.firing}
-----------------------------------------------------------------------------
(* The machine's task, where it calls the hook: begin takes the gate, the     *)
(* commit happens under the machine's own lock, and end gives the gate back.  *)
(* Row 0 stands for SIZE_MAX, a commit that settles the machine without a     *)
(* transition: a failure, a cancel that won.                                  *)
TakeEvent ==
    /\ worker.step = "idle" /\ machine.queue # <<>> /\ ~machine.over
    /\ \E row \in {0} \cup {i \in DOMAIN HierarchyRows : HierarchyRows[i].source = machine.state /\ HierarchyRows[i].event = Head(machine.queue)} :
           worker' = [step |-> "begin", row |-> row]
    /\ machine' = [machine EXCEPT !.queue = Tail(@)]
    /\ UNCHANGED <<hierarchy, gate, closed, cancelled, timers, timers_closed, born, user, fired, sends, stale>>

HookBegin ==
    /\ worker.step = "begin" /\ gate = "free"
    /\ gate' = Worker
    /\ worker' = [worker EXCEPT !.step = "commit"]
    /\ UNCHANGED <<hierarchy, closed, cancelled, timers, timers_closed, born, machine, user, fired, sends, stale>>

CommitRow ==
    /\ worker.step = "commit"
    /\ LET wins == worker.row # 0 /\ ~machine.cancel
       IN  /\ worker' = [step |-> "end", row |-> IF wins THEN worker.row ELSE 0]
           /\ machine' = IF ~wins THEN [machine EXCEPT !.over = TRUE, !.open = FALSE, !.queue = <<>>]
                         ELSE LET target == HierarchyRows[worker.row].target
                                  ends == KindOf[target] # "ACTIVE" \/ ~machine.open
                              IN  [machine EXCEPT !.state = target, !.over = ends, !.open = @ /\ ~ends]
    /\ UNCHANGED <<hierarchy, gate, closed, cancelled, timers, timers_closed, born, user, fired, sends, stale>>

(* The timers of the source state alone.                                      *)
ExitsLeaf(row) == {HierarchyRows[row].source}
Exits(row) == {hierarchy.routes[row].exits[k] : k \in DOMAIN hierarchy.routes[row].exits}

(* hierarchy_transition_committed with begin false.                           *)
HookEnd ==
    /\ worker.step = "end"
    /\ LET row == worker.row
           left == IF row = 0 THEN timers ELSE {t \in timers : t.firing \/ t.scope \notin Exits(row)}
       IN  /\ closed' = (closed \/ row = 0 \/ KindOf[machine.state] # "ACTIVE")
           /\ timers' = IF closed' THEN CloseTimers(left) ELSE left
    /\ timers_closed' = (timers_closed \/ closed')
    /\ gate' = "free"
    /\ worker' = [step |-> "idle", row |-> 0]
    /\ UNCHANGED <<hierarchy, cancelled, born, machine, user, fired, sends, stale>>
-----------------------------------------------------------------------------
(* cflow_machine_hierarchy_instance_close and _cancel: the flag under the     *)
(* gate, the timers and the machine outside it.                               *)
CloseBegin(u) ==
    /\ Idle(u) /\ Gated
    /\ closed' = TRUE
    /\ user' = [user EXCEPT ![u] = IF closed THEN "idle" ELSE "close timers"]
    /\ UNCHANGED <<hierarchy, gate, cancelled, timers, timers_closed, born, machine, worker, fired, sends, stale>>

CancelBegin(u) ==
    /\ Idle(u) /\ Gated
    /\ closed' = TRUE /\ cancelled' = TRUE
    /\ user' = [user EXCEPT ![u] = IF cancelled THEN "idle" ELSE "cancel timers"]
    /\ UNCHANGED <<hierarchy, gate, timers, timers_closed, born, machine, worker, fired, sends, stale>>

StopTimers(u) ==
    /\ user[u] \in {"close timers", "cancel timers"}
    /\ timers' = CloseTimers(timers) /\ timers_closed' = TRUE
    /\ user' = [user EXCEPT ![u] = IF @ = "close timers" THEN "close wait" ELSE "cancel wait"]
    /\ UNCHANGED <<hierarchy, gate, closed, cancelled, born, machine, worker, fired, sends, stale>>

(* The close of the timers returns, and that of the machine calls the hook.   *)
StopMachine(u) ==
    /\ user[u] \in {"close wait", "cancel wait"} /\ timers = {}
    /\ gate = "free" /\ gate' = u
    /\ user' = [user EXCEPT ![u] = IF @ = "close wait" THEN "close machine" ELSE "cancel machine"]
    /\ UNCHANGED <<hierarchy, closed, cancelled, timers, timers_closed, born, machine, worker, fired, sends, stale>>

HierarchyBusy == worker.step # "idle"

MachineStopped(u) ==
    /\ user[u] \in {"close machine", "cancel machine"}
    /\ machine' = [machine EXCEPT !.open = FALSE, !.queue = <<>>, !.over = @ \/ ~HierarchyBusy,
                                  !.cancel = @ \/ (user[u] = "cancel machine" /\ HierarchyBusy)]
    /\ closed' = TRUE /\ timers_closed' = TRUE /\ timers' = CloseTimers(timers)
    /\ gate' = "free"
    /\ user' = [user EXCEPT ![u] = "idle"]
    /\ UNCHANGED <<hierarchy, cancelled, born, worker, fired, sends, stale>>

HierarchyEvents == {HierarchyRows[i].event : i \in DOMAIN HierarchyRows}

HierarchyNext ==
    \/ TakeEvent \/ HookBegin \/ CommitRow \/ HookEnd
    \/ \E u \in Users :
        \/ \E s \in DOMAIN KindOf, e \in HierarchyEvents : try_schedule(u, s, e)
        \/ \E t \in timers : cancel_timer(u, t) \/ Claim(u, t)
        \/ SendFired(u) \/ Release(u) \/ \E e \in HierarchyEvents : try_send(u, e)
        \/ CloseBegin(u) \/ CancelBegin(u) \/ StopTimers(u) \/ StopMachine(u) \/ MachineStopped(u)

HierarchySpec == HierarchyInit /\ [][HierarchyNext]_hierarchy_vars
-----------------------------------------------------------------------------
(* The timers follow the active states: whenever the gate is free, a timer    *)
(* waits only for a state that is active, no timer was sent for a state that  *)
(* was already left, and a machine that has ended keeps no timer and takes    *)
(* none.                                                                      *)
TimersScoped ==
    /\ ~stale
    /\ gate = "free" =>
          /\ \A t \in timers : hierarchy_scope_active(t.scope)
          /\ KindOf[machine.state] # "ACTIVE" => closed /\ timers_closed
    /\ timers_closed => \A t \in timers : t.firing
=============================================================================
