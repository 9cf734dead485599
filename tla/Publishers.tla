----------------------------- MODULE Publishers -----------------------------
(* The publishers over a channel and over an interval.                        *)
EXTENDS Naturals, Sequences, FiniteSets

CONSTANTS
    Capacity,
    MaxPushes, MaxCloses,  \* bounds
    Workers,               \* threads that run the scheduler's tasks
    Count,                 \* values to emit
    MaxArms, MaxCancels,   \* bounds
    None

VARIABLES
    data, head, count, closed,
    waiter, terminal_waker,  \* whether each waker is set
    accepted,                \* pushes accepted; the k-th pushes k
    taken,                   \* history: what resume handed out
    wakes, ends,             \* wakes and terminal wakes on their way
    closes,                  \* closes so far
    pump,                    \* idle (no demand), run, wait, asleep, done, cancelled
    emitted, ready, scheduled, callback_outstanding, publisher_live,
    task,                    \* the recorded task id or 0; the k-th arm posts task k
    waker, wake_inflight, references, freed,
    posted,                  \* ids the scheduler holds
    arms, cancels,           \* arms and cancels so far
    woken,                   \* the pump was woken while it was arming
    fire, fired,             \* fire[w]: idle, called, wake, woken, release; fired[w]: its task
    killer,                  \* idle, begin, took, settle, wait, gone; the id it took
    inside,                  \* the worker inside whose wake the killer runs, or None
    destroying,
    cut, quiet               \* history: arms up to these were cancelled, and the cancel waited for their wakes

-----------------------------------------------------------------------------
(* The channel publisher (cflow/src/publishers.c): a bounded ring between    *)
(* producers and the pump of one run, with a waiter that sleeps on it and a  *)
(* terminal waker that hears of the close.  Wakers are invoked after the     *)
(* unlock, so a wake is a step of its own.                                   *)

channel_vars == <<data, head, count, closed, waiter, terminal_waker, accepted, taken, wakes, ends, closes, pump>>

(* cflow_channel_init, from_channel and the run's bind of its waker.         *)
ChannelInit ==
    /\ data = [i \in 0 .. Capacity - 1 |-> 0] /\ head = 0 /\ count = 0 /\ closed = FALSE
    /\ waiter = FALSE /\ terminal_waker = FALSE
    /\ accepted = 0 /\ taken = <<>> /\ wakes = 0 /\ ends = 0 /\ closes = 0 /\ pump = "idle"

channel_bind_terminal(w) ==
    /\ terminal_waker # w /\ terminal_waker' = w
    /\ UNCHANGED <<data, head, count, closed, waiter, accepted, taken, wakes, ends, closes, pump>>

(* The waiter is detached under the lock and invoked after it.               *)
Detach == /\ wakes' = wakes + (IF waiter THEN 1 ELSE 0)
          /\ waiter' = FALSE

cflow_channel_try_push ==
    /\ accepted < MaxPushes
    /\ ~closed /\ count < Capacity
    /\ accepted' = accepted + 1
    /\ data' = [data EXCEPT ![(head + count) % Capacity] = accepted']
    /\ count' = count + 1
    /\ Detach
    /\ UNCHANGED <<head, closed, terminal_waker, taken, ends, closes, pump>>

cflow_channel_close ==
    /\ closes < MaxCloses /\ closes' = closes + 1
    /\ closed' = TRUE
    /\ Detach
    /\ ends' = ends + (IF terminal_waker THEN 1 ELSE 0)
    /\ UNCHANGED <<data, head, count, terminal_waker, accepted, taken, pump>>

Woken ==
    /\ wakes > 0 /\ wakes' = wakes - 1
    /\ pump' = IF pump = "asleep" THEN "run" ELSE pump
    /\ UNCHANGED <<data, head, count, closed, waiter, terminal_waker, accepted, taken, ends, closes>>

(* A pump without demand polls the terminal when its waker is invoked.       *)
channel_poll_terminal == closed /\ count = 0
EndWoken ==
    /\ ends > 0 /\ ends' = ends - 1
    /\ pump' = IF pump = "idle" /\ channel_poll_terminal THEN "done" ELSE pump
    /\ UNCHANGED <<data, head, count, closed, waiter, terminal_waker, accepted, taken, wakes, closes>>

Request ==
    /\ pump = "idle" /\ pump' = "run"
    /\ UNCHANGED <<data, head, count, closed, waiter, terminal_waker, accepted, taken, wakes, ends, closes>>

(* channel_resume: the last value of a closed channel comes with the end.    *)
ResumeValue ==
    /\ pump = "run" /\ count > 0
    /\ taken' = Append(taken, data[head])
    /\ head' = (head + 1) % Capacity /\ count' = count - 1
    /\ pump' = IF closed /\ count' = 0 THEN "done" ELSE "idle"
    /\ UNCHANGED <<data, closed, waiter, terminal_waker, accepted, wakes, ends, closes>>

ResumeEmpty ==
    /\ pump = "run" /\ count = 0
    /\ pump' = IF closed THEN "done" ELSE "wait"
    /\ UNCHANGED <<data, head, count, closed, waiter, terminal_waker, accepted, taken, wakes, ends, closes>>

(* Mutant: the waker is stored whatever came meanwhile.                      *)
channel_armBlind ==
    /\ pump = "wait" /\ waiter' = TRUE /\ pump' = "asleep"
    /\ UNCHANGED <<data, head, count, closed, terminal_waker, accepted, taken, wakes, ends, closes>>

(* What became ready since the resume wakes at once.                         *)
channel_arm ==
    /\ pump = "wait"
    /\ LET there == count > 0 \/ closed
       IN  waiter' = (waiter \/ ~there) /\ pump' = IF there THEN "run" ELSE "asleep"
    /\ UNCHANGED <<data, head, count, closed, terminal_waker, accepted, taken, wakes, ends, closes>>

channel_unarm ==
    /\ pump \in {"idle", "wait", "asleep"}
    /\ waiter' = FALSE /\ pump' = "cancelled"
    /\ UNCHANGED <<data, head, count, closed, terminal_waker, accepted, taken, wakes, ends, closes>>

ChannelNext ==
    \/ \E w \in BOOLEAN : channel_bind_terminal(w)
    \/ cflow_channel_try_push \/ cflow_channel_close \/ Woken \/ EndWoken
    \/ Request \/ ResumeValue \/ ResumeEmpty \/ channel_arm \/ channel_unarm

ChannelSpec == ChannelInit /\ [][ChannelNext]_channel_vars
-----------------------------------------------------------------------------
(* Values leave the ring in the order in which they were pushed, none is     *)
(* lost or repeated, and the end comes after the last one.                   *)
RingExact ==
    /\ \A i \in 1 .. Len(taken) : taken[i] = i
    /\ Len(taken) + count = accepted
    /\ \A i \in 0 .. count - 1 : data[(head + i) % Capacity] = Len(taken) + i + 1
    /\ pump = "done" => closed /\ count = 0

(* A pump that sleeps has a waker in the channel, which then has nothing for *)
(* it, or a wake on its way.                                                 *)
ChannelSleepsRightly == pump = "asleep" => wakes > 0 \/ (waiter /\ count = 0 /\ ~closed)

-----------------------------------------------------------------------------
(* The timer publisher (cflow/src/publishers.c): each value waits for one    *)
(* delayed task of the run's scheduler.  The state is shared by the pump     *)
(* that arms it, the tasks that fire, and a call that cancels the wait or    *)
(* destroys the publisher, possibly from inside the wake of a task; a count  *)
(* of references keeps it for the last of them.                              *)

timer_vars == <<emitted, ready, scheduled, callback_outstanding, publisher_live, task, waker, wake_inflight, references,
          freed, posted, arms, cancels, pump, accepted, woken, fire, fired, killer, taken, inside, destroying, cut, quiet>>

flags == <<scheduled, callback_outstanding, task, waker>>
memory == <<references, freed>>
pumping == <<pump, accepted, woken, arms>>
firing == <<fire, fired, wake_inflight>>
killing == <<killer, taken, inside, destroying, cut, quiet, cancels>>

(* cflow_publisher_from_timer.                                               *)
TimerInit ==
    /\ emitted = 0 /\ ready = FALSE /\ scheduled = FALSE /\ callback_outstanding = FALSE
    /\ publisher_live = TRUE /\ task = 0 /\ waker = FALSE /\ wake_inflight = 0
    /\ references = 1 /\ freed = FALSE /\ posted = {} /\ arms = 0 /\ cancels = 0
    /\ pump = "resume" /\ accepted = FALSE /\ woken = FALSE
    /\ fire = [w \in Workers |-> "idle"] /\ fired = [w \in Workers |-> 0]
    /\ killer = "idle" /\ taken = 0 /\ inside = None /\ destroying = FALSE /\ cut = 0 /\ quiet = 0

timer_state_release(n) == references' = references - n /\ freed' = (freed \/ references = n)

timer_resume ==
    /\ pump = "resume" /\ ~destroying
    /\ IF emitted >= Count THEN pump' = "done" /\ UNCHANGED <<emitted, ready>>
       ELSE IF ~ready THEN pump' = "arm" /\ UNCHANGED <<emitted, ready>>
       ELSE /\ emitted' = emitted + 1 /\ ready' = FALSE
            /\ pump' = IF emitted' = Count THEN "done" ELSE "resume"
    /\ woken' = FALSE
    /\ UNCHANGED <<publisher_live, flags, memory, posted, accepted, arms, firing, killing>>
-----------------------------------------------------------------------------
(* timer_arm takes a reference for itself and one for the task; it would     *)
(* refuse while a task is out.                                               *)
Armable == publisher_live /\ ~scheduled /\ ~callback_outstanding /\ ~ready

ArmBegin ==
    /\ pump = "arm" /\ arms < MaxArms
    /\ Armable
    /\ scheduled' = TRUE /\ callback_outstanding' = TRUE /\ waker' = TRUE
    /\ references' = references + 2
    /\ arms' = arms + 1 /\ pump' = "post"
    /\ UNCHANGED <<emitted, ready, publisher_live, task, freed, posted, accepted, woken, firing, killing>>

ArmPosts(accepts) ==
    /\ pump = "post"
    /\ accepted' = accepts
    /\ posted' = IF accepts THEN posted \cup {arms} ELSE posted
    /\ pump' = "posted"
    /\ UNCHANGED <<emitted, ready, publisher_live, flags, memory, woken, arms, firing, killing>>

(* The task may have fired, and the wait may have been cancelled, meanwhile. *)
ArmEnd ==
    /\ pump = "posted"
    /\ task' = IF accepted /\ scheduled THEN arms ELSE task
    /\ scheduled' = (scheduled /\ accepted)
    /\ callback_outstanding' = (callback_outstanding /\ accepted)
    /\ waker' = (waker /\ accepted)
    /\ timer_state_release(IF accepted THEN 1 ELSE 2)
    /\ pump' = IF ~accepted \/ cut = arms THEN "stopped" ELSE IF woken THEN "resume" ELSE "asleep"
    /\ UNCHANGED <<emitted, ready, publisher_live, posted, accepted, woken, arms, firing, killing>>
-----------------------------------------------------------------------------
(* timer_fire, on a worker that has taken the task from the scheduler.       *)
FireBegin(w) ==
    /\ fire[w] = "idle" /\ \E k \in posted : posted' = posted \ {k} /\ fired' = [fired EXCEPT ![w] = k]
    /\ fire' = [fire EXCEPT ![w] = "called"]
    /\ UNCHANGED <<emitted, ready, publisher_live, flags, memory, wake_inflight, pumping, killing>>

(* Mutant: a fired task wakes although its wait was cancelled.               *)
FireLockedLate(w) ==
    /\ fire[w] = "called"
    /\ fire' = [fire EXCEPT ![w] = "wake"]
    /\ wake_inflight' = wake_inflight + 1
    /\ scheduled' = FALSE /\ task' = 0 /\ waker' = FALSE
    /\ ready' = (ready \/ publisher_live)
    /\ callback_outstanding' = FALSE
    /\ UNCHANGED <<emitted, publisher_live, memory, posted, pumping, fired, killing>>

FireLocked(w) ==
    /\ fire[w] = "called"
    /\ LET rings == scheduled /\ publisher_live /\ waker
       IN  /\ fire' = [fire EXCEPT ![w] = IF rings THEN "wake" ELSE "release"]
           /\ wake_inflight' = wake_inflight + (IF rings THEN 1 ELSE 0)
    /\ scheduled' = FALSE
    /\ task' = IF scheduled THEN 0 ELSE task
    /\ ready' = (ready \/ (scheduled /\ publisher_live))
    /\ waker' = (waker /\ ~scheduled)
    /\ callback_outstanding' = FALSE
    /\ UNCHANGED <<emitted, publisher_live, memory, posted, pumping, fired, killing>>

FireWakes(w) ==
    /\ fire[w] = "wake" /\ inside # w
    /\ fire' = [fire EXCEPT ![w] = "woken"]
    /\ woken' = (woken \/ pump \in {"arm", "post", "posted"})
    /\ pump' = IF pump = "asleep" THEN "resume" ELSE pump
    /\ UNCHANGED <<emitted, ready, publisher_live, flags, memory, posted, accepted, arms, fired, wake_inflight, killing>>

FireWoken(w) ==
    /\ fire[w] = "woken" /\ inside # w
    /\ wake_inflight' = wake_inflight - 1
    /\ fire' = [fire EXCEPT ![w] = "release"]
    /\ UNCHANGED <<emitted, ready, publisher_live, flags, memory, posted, pumping, fired, killing>>

FireEnd(w) ==
    /\ fire[w] = "release"
    /\ fire' = [fire EXCEPT ![w] = "idle"]
    /\ timer_state_release(1)
    /\ UNCHANGED <<emitted, ready, publisher_live, flags, posted, pumping, fired, wake_inflight, killing>>
-----------------------------------------------------------------------------
(* timer_wait_cancel: the run cancels its wait while the pump may be arming; *)
(* timer_destroy, once the pump is through, does the same and then gives up  *)
(* the publisher's reference.  Either may run inside a wake (w, else None).  *)
KillBegin(w, destroys) ==
    /\ killer = "idle" /\ cancels < MaxCancels
    /\ w # None => fire[w] = "woken"
    /\ destroys => pump \in {"asleep", "resume", "done", "stopped"}
    /\ cancels' = cancels + 1 /\ inside' = w
    /\ destroying' = destroys
    /\ publisher_live' = (publisher_live /\ ~destroys)
    /\ pump' = IF destroys /\ pump # "done" THEN "stopped" ELSE pump
    /\ killer' = "begin"
    /\ UNCHANGED <<emitted, ready, flags, memory, posted, accepted, woken, arms, firing, taken, cut, quiet>>

KillTakes ==
    /\ killer = "begin"
    /\ taken' = IF scheduled THEN task ELSE 0
    /\ task' = IF scheduled THEN 0 ELSE task
    /\ scheduled' = FALSE /\ ready' = FALSE /\ waker' = FALSE
    /\ cut' = arms
    /\ pump' = IF pump \in {"asleep", "resume"} THEN "stopped" ELSE pump
    /\ killer' = "took"
    /\ UNCHANGED <<emitted, publisher_live, callback_outstanding, memory, posted, accepted, woken, arms, firing,
                   inside, destroying, quiet, cancels>>

KillCancels ==
    /\ killer = "took"
    /\ posted' = posted \ {taken}
    /\ killer' = IF taken \in posted THEN "settle" ELSE "wait"
    /\ UNCHANGED <<emitted, ready, publisher_live, flags, memory, pumping, firing, taken, inside, destroying, cut, quiet, cancels>>

KillSettles ==
    /\ killer = "settle"
    /\ callback_outstanding' = FALSE
    /\ timer_state_release(1)
    /\ killer' = "wait"
    /\ UNCHANGED <<emitted, ready, publisher_live, scheduled, task, waker, posted, pumping, firing,
                   taken, inside, destroying, cut, quiet, cancels>>

KillEnds ==
    /\ killer = "wait"
    /\ wake_inflight = 0 \/ inside # None
    /\ killer' = IF destroying THEN "gone" ELSE "idle"
    /\ inside' = IF destroying THEN inside ELSE None
    /\ IF destroying THEN timer_state_release(1) ELSE UNCHANGED memory
    /\ quiet' = IF inside = None THEN cut ELSE quiet
    /\ UNCHANGED <<emitted, ready, publisher_live, flags, posted, pumping, firing, taken, destroying, cut, cancels>>

(* The wake that the killer ran inside of returns.                           *)
WakeReturns ==
    /\ killer = "gone" /\ inside # None
    /\ inside' = None
    /\ UNCHANGED <<emitted, ready, publisher_live, flags, memory, posted, pumping, firing,
                   killer, taken, destroying, cut, quiet, cancels>>

TimerNext ==
    \/ timer_resume \/ ArmBegin \/ ArmEnd
    \/ \E b \in BOOLEAN : ArmPosts(b)
    \/ \E w \in Workers : FireBegin(w) \/ FireLocked(w) \/ FireWakes(w) \/ FireWoken(w) \/ FireEnd(w)
    \/ \E w \in Workers \cup {None}, b \in BOOLEAN : KillBegin(w, b)
    \/ KillTakes \/ KillCancels \/ KillSettles \/ KillEnds \/ WakeReturns

TimerSpec == TimerInit /\ [][TimerNext]_timer_vars
-----------------------------------------------------------------------------
Firing == {w \in Workers : fire[w] # "idle"}

(* The state is freed by its last user and not before: every reference is    *)
(* one of the publisher's handle, an arm, a task or a cancel in progress.    *)
ReferencesExact ==
    /\ references = (IF killer = "gone" THEN 0 ELSE 1) + Cardinality(posted) + Cardinality(Firing)
                    + (CASE pump = "post" -> 2 [] pump = "posted" -> IF accepted THEN 1 ELSE 2 [] OTHER -> 0)
                    + (IF killer = "settle" THEN 1 ELSE 0)
    /\ freed = (references = 0)

(* "Cancel/destroy prevents future wake delivery and waits for an executing  *)
(* wake to return, except for safe destruction reentered from that same wake *)
(* callback" (cflow/include/cflow/publishers.h:37-40).  A cancel reentered   *)
(* from one wake does not wait for another one that is executing.            *)
CancelIsQuiet == \A w \in Workers : fire[w] = "wake" => fired[w] > quiet

(* A pump that sleeps has a task ahead that will wake it, and an arm that    *)
(* nobody cancelled is never refused for a task of an earlier wait.          *)
TimerSleepsRightly ==
    /\ pump = "arm" => Armable
    /\ pump = "asleep" =>
        \/ scheduled /\ waker /\ (task \in posted \/ \E w \in Workers : fire[w] = "called")
        \/ \E w \in Workers : fire[w] = "wake"
=============================================================================
