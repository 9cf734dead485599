---------------------------- MODULE Continuations ----------------------------
(* What a run resumes in the place of its source: a coordination of several   *)
(* resumables, a subgraph, and the operators that wait for time.              *)
EXTENDS Sequences, FiniteSets, Integers

CONSTANTS
    N,                    \* s->count
    Modes,                \* subset of {"ALL", "ALL_DONE", "ANY", "LATEST", "SEQUENCE"}
    MaxValues, MaxWaits,  \* bounds, per child
    Feeds,                \* what the subgraph makes of the value: [values, end], end is "done" or "error"
    Kinds,                \* subset of {"DELAY", "DEBOUNCE", "TIMEOUT"}
    Quantum,              \* CFLOW_TEMPORAL_RESUME_QUANTUM
    MaxFed, MaxPosts,     \* bounds
    MaxSpurious           \* bound on waits of the inner publisher

VARIABLES
    mode, cursor, sequence_index, emitted_all, cancelled, error, waiter,
    has, done, waiting, armed,  \* per child: has_value, done and the two atomics
    held,                       \* children whose waitable holds the waker
    values, waits,              \* per child: values and waits so far
    pump,                       \* resume, round, arm, arming, cancelling, asleep, and how it ended
    start, n, progressed,       \* the locals of a round
    toArm, ready,               \* the locals of coord_wait_arm
    woken,                      \* the pump was woken while it was arming
    events,                     \* history: the events emitted
    feed,                       \* the feed of this subflow
    s,                          \* subflow_state
    run,                        \* the inner run: its demand, what it has delivered, whether it has ended
    worker,                     \* the thread that pumps the inner run: its step, and how the run ends
    outer,                      \* the outer pump: its step, whether the outer run waits, and what it was given
    client,                     \* the thread that cancels the outer run's wait
    kind,
    pending,                    \* the retained value, 0 if none; the k-th value is k
    ready_cause, timer_task, timer_arming, timer_outstanding, timer_stale,
    inner_armed, need_inner, need_timer, yielding, inner_done,
    finished,                   \* OPEN, DONE, ERROR: done and error
    posted, called,             \* tasks the scheduler holds; tasks a worker has taken but that have not locked
    posts,                      \* posts so far; the k-th posts task k
    stamp,                      \* history: per task, the values the inner publisher had produced when it was posted
    fed,                        \* values and waits of the inner publisher so far
    loop,                       \* where the pump is; the locals of its resume
    killer, taken,              \* idle, took, settle, gone; the task it took
    destroying, freed,
    forgotten,                  \* history: timer_outstanding was cleared while a task was out or about to be posted
    out                         \* history: what was emitted, with the stamp of the timer that let it out

-----------------------------------------------------------------------------
(* Coordination of several resumables (cflow/src/coord.c): the pump resumes  *)
(* children in rounds that start where the last one stopped, and sleeps on   *)
(* all that wait; their wakes come from other threads, one lock each.        *)

Child == 0 .. N - 1
All == N                  \* the index SIZE_MAX of an event that is about all

coord_vars == <<mode, cursor, sequence_index, emitted_all, cancelled, error, waiter, has, done, waiting, armed, held,
          values, waits, pump, start, n, progressed, toArm, ready, woken, events>>

kids == <<has, done, waiting, armed, held, values, waits>>
round == <<start, n, progressed>>
arm == <<toArm, ready, woken>>

AllHave == \A i \in Child : has[i]
AllDone == \A i \in Child : done[i]

(* cflow_resumable_from_coordination.                                        *)
CoordInit ==
    /\ mode \in Modes
    /\ cursor = 0 /\ sequence_index = 0 /\ emitted_all = FALSE /\ cancelled = FALSE /\ error = FALSE
    /\ waiter = FALSE /\ held = {}
    /\ has = [i \in Child |-> FALSE] /\ done = has /\ waiting = has /\ armed = has
    /\ values = [i \in Child |-> 0] /\ waits = values
    /\ pump = "resume" /\ start = 0 /\ n = 0 /\ progressed = FALSE
    /\ toArm = {} /\ ready = FALSE /\ woken = FALSE /\ events = <<>>

coord_child_runnable(i) ==
    /\ ~done[i] /\ ~waiting[i]
    /\ CASE mode = "ALL" -> ~has[i]
         [] mode \in {"ALL_DONE", "ANY"} -> TRUE
         [] mode = "LATEST" -> AllHave \/ ~has[i]
         [] mode = "SEQUENCE" -> i = sequence_index /\ ~has[i]

AnyRunnable == \E i \in Child : coord_child_runnable(i)

(* emit_event; the pump comes back for the next unless this was the last.    *)
emit_event(i, last) ==
    /\ events' = Append(events, i)
    /\ pump' = IF last THEN "ended" ELSE "resume"

Ended(how) == pump' = how /\ UNCHANGED events
-----------------------------------------------------------------------------
(* coord_resume and the head of each mode's loop.                            *)
CoordResume ==
    /\ pump = "resume"
    /\ start' = cursor /\ n' = 0 /\ progressed' = FALSE /\ woken' = FALSE
    /\ IF cancelled \/ emitted_all THEN Ended("ended") /\ UNCHANGED <<emitted_all, done>>
       ELSE IF error THEN Ended("failed") /\ UNCHANGED <<emitted_all, done>>
       ELSE CASE mode = "ALL" /\ AllHave ->
                    done' = [i \in Child |-> TRUE] /\ emitted_all' = TRUE /\ emit_event(All, TRUE)
              [] mode = "ALL_DONE" /\ AllDone ->
                    IF AllHave THEN emitted_all' = TRUE /\ emit_event(All, TRUE) /\ UNCHANGED done
                    ELSE Ended("failed") /\ UNCHANGED <<emitted_all, done>>
              [] mode = "LATEST" /\ AllDone -> Ended("ended") /\ UNCHANGED <<emitted_all, done>>
              [] mode = "SEQUENCE" /\ sequence_index = N -> Ended("ended") /\ UNCHANGED <<emitted_all, done>>
              [] OTHER -> Ended("round") /\ UNCHANGED <<emitted_all, done>>
    /\ UNCHANGED <<mode, cursor, sequence_index, cancelled, error, waiter, has, waiting, armed, held, values,
                   waits, toArm, ready>>

At == IF mode = "SEQUENCE" THEN sequence_index ELSE (start + n) % N

(* The child a round looks at; ALL leaves one alone that has its value.      *)
Looks == LET i == At IN
    ~done[i] /\ ~waiting[i] /\ (mode = "ALL" => ~has[i]) /\ (mode = "LATEST" => coord_child_runnable(i))

Skip ==
    /\ pump = "round" /\ mode # "SEQUENCE" /\ n < N /\ ~Looks
    /\ n' = n + 1
    /\ UNCHANGED <<mode, cursor, sequence_index, emitted_all, cancelled, error, waiter, kids, pump, start,
                   progressed, arm, events>>

(* What follows a value of child i: ANY cancels the others, LATEST tells     *)
(* once all have one, SEQUENCE cancels the child and goes on.                *)
Produced(i, last) ==
    /\ has' = [has EXCEPT ![i] = TRUE] /\ progressed' = TRUE
    /\ CASE mode = "ANY" -> done' = [c \in Child |-> c # i \/ last] /\ emit_event(i, TRUE) /\ UNCHANGED <<sequence_index, n>>
         [] mode = "SEQUENCE" -> /\ done' = [done EXCEPT ![i] = TRUE]
                                 /\ sequence_index' = i + 1
                                 /\ emit_event(i, i + 1 = N) /\ UNCHANGED n
         [] OTHER -> LET all == \A c \in Child : has[c] \/ c = i IN
                     /\ done' = [done EXCEPT ![i] = last]
                     /\ IF mode = "LATEST" /\ all
                        THEN emit_event(i, \A c \in Child : done[c] \/ (c = i /\ last)) /\ UNCHANGED n
                        ELSE UNCHANGED <<events, pump>> /\ n' = IF mode = "ALL" /\ all THEN N ELSE n + 1
                     /\ UNCHANGED sequence_index

(* resume_child: what the child answers, and what the mode makes of it.      *)
ChildValue(last) ==
    /\ pump = "round" /\ n < N /\ Looks
    /\ LET i == At IN
        /\ values[i] < MaxValues /\ values' = [values EXCEPT ![i] = @ + 1]
        /\ cursor' = IF mode = "SEQUENCE" THEN cursor ELSE (i + 1) % N
        /\ Produced(i, last)
    /\ UNCHANGED <<mode, emitted_all, cancelled, error, waiter, waiting, armed, held, waits, start, arm>>

ChildWaits ==
    /\ pump = "round" /\ n < N /\ Looks
    /\ LET i == At IN
        /\ waits[i] < MaxWaits /\ waits' = [waits EXCEPT ![i] = @ + 1]
        /\ waiting' = [waiting EXCEPT ![i] = TRUE]
        /\ cursor' = IF mode = "SEQUENCE" THEN cursor ELSE (i + 1) % N
    /\ IF mode = "SEQUENCE" THEN Ended("arm") /\ UNCHANGED n ELSE n' = n + 1 /\ UNCHANGED <<pump, events>>
    /\ UNCHANGED <<mode, sequence_index, emitted_all, cancelled, error, waiter, has, done, armed, held, values,
                   start, progressed, arm>>

ChildDone ==
    /\ pump = "round" /\ n < N /\ Looks
    /\ LET i == At IN
        /\ done' = [done EXCEPT ![i] = TRUE]
        /\ cursor' = IF mode = "SEQUENCE" THEN cursor ELSE (i + 1) % N
        /\ CASE mode = "ALL" -> Ended("failed") /\ UNCHANGED <<n, sequence_index, progressed>>
             [] mode = "SEQUENCE" -> sequence_index' = i + 1 /\ Ended("resume") /\ UNCHANGED <<n, progressed>>
             [] OTHER -> n' = n + 1 /\ progressed' = (progressed \/ mode = "ALL_DONE") /\ UNCHANGED <<sequence_index, pump, events>>
    /\ UNCHANGED <<mode, emitted_all, cancelled, error, waiter, has, waiting, armed, held, values, waits, start, arm>>

ChildFails ==
    /\ pump = "round" /\ n < N /\ Looks
    /\ error' = TRUE /\ Ended("failed")
    /\ UNCHANGED <<mode, cursor, sequence_index, emitted_all, cancelled, waiter, kids, round, arm>>

(* The end of a round: another one while something moved or can.             *)
RoundEnds ==
    /\ pump = "round" /\ n = N
    /\ LET idle == ~AnyRunnable /\ (mode \in {"ALL", "ALL_DONE", "LATEST"} => ~progressed)
       IN  CASE mode = "ANY" /\ AllDone -> Ended("ended")
             [] mode = "LATEST" /\ (\E i \in Child : done[i] /\ ~has[i]) -> Ended("ended")
             [] mode = "ALL" /\ AllHave -> Ended("resume")
             [] mode = "ALL_DONE" /\ AllDone -> Ended("resume")
             [] OTHER -> Ended(IF idle THEN "arm" ELSE "resume")
    /\ UNCHANGED <<mode, cursor, sequence_index, emitted_all, cancelled, error, waiter, kids, round, arm>>
-----------------------------------------------------------------------------
Armable == \E i \in Child : ~(waiting[i] /\ ~armed[i]) /\ coord_child_runnable(i)

(* coord_wait_arm under the lock.                                            *)
CoordArmBegin ==
    /\ pump = "arm"
    /\ LET now == cancelled \/ error
       IN  /\ toArm' = IF now THEN {} ELSE {i \in Child : waiting[i] /\ ~armed[i]}
           /\ ready' = (now \/ Armable)
           /\ waiter' = (~now /\ ~ready')
    /\ armed' = [i \in Child |-> armed[i] \/ i \in toArm']
    /\ pump' = "arming" /\ woken' = FALSE
    /\ UNCHANGED <<mode, cursor, sequence_index, emitted_all, cancelled, error, has, done, waiting, held, values,
                   waits, round, events>>

ArmChild(ok) ==
    /\ pump = "arming" /\ toArm # {}
    /\ LET i == CHOOSE c \in toArm : \A d \in toArm : c <= d IN
        /\ toArm' = IF ok THEN toArm \ {i} ELSE {}
        /\ held' = IF ok THEN held \cup {i} ELSE held
        /\ armed' = [armed EXCEPT ![i] = ok]
        /\ waiting' = [waiting EXCEPT ![i] = ok]
    /\ error' = (error \/ ~ok)
    /\ waiter' = (waiter /\ ok)
    /\ pump' = IF ok THEN pump ELSE "failed"
    /\ UNCHANGED <<mode, cursor, sequence_index, emitted_all, cancelled, has, done, values, waits, round, ready, woken,
                   events>>

ArmEnd ==
    /\ pump = "arming" /\ toArm = {}
    /\ pump' = IF ready \/ woken THEN "resume" ELSE "asleep"
    /\ UNCHANGED <<mode, cursor, sequence_index, emitted_all, cancelled, error, waiter, kids, round, arm, events>>

(* coord_child_wake, from the thread that a child's waitable fires on.       *)
coord_child_wake(i) ==
    /\ i \in held /\ held' = held \ {i}
    /\ waiting' = [waiting EXCEPT ![i] = FALSE] /\ armed' = [armed EXCEPT ![i] = FALSE]
    /\ waiter' = FALSE
    /\ pump' = IF waiter /\ pump = "asleep" THEN "resume" ELSE pump
    /\ woken' = (woken \/ (waiter /\ pump = "arming"))
    /\ UNCHANGED <<mode, cursor, sequence_index, emitted_all, cancelled, error, has, done, values, waits, round, toArm,
                   ready, events>>

(* coord_cancel: the sleeping pump's run is cancelled or destroyed.          *)
CancelBegin ==
    /\ pump \in {"asleep", "ended", "failed"} /\ ~cancelled
    /\ cancelled' = TRUE /\ waiter' = FALSE /\ pump' = "cancelling"
    /\ UNCHANGED <<mode, cursor, sequence_index, emitted_all, error, kids, round, arm, events>>

CancelChild ==
    /\ pump = "cancelling"
    /\ \E i \in Child :
        /\ armed[i] /\ \A c \in Child : c < i => ~armed[c]
        /\ armed' = [armed EXCEPT ![i] = FALSE] /\ held' = held \ {i}
    /\ UNCHANGED <<mode, cursor, sequence_index, emitted_all, cancelled, error, waiter, has, done, waiting, values, waits,
                   pump, round, arm, events>>

CancelEnd ==
    /\ pump = "cancelling" /\ \A i \in Child : ~armed[i]
    /\ done' = [i \in Child |-> TRUE]
    /\ pump' = "gone"
    /\ UNCHANGED <<mode, cursor, sequence_index, emitted_all, cancelled, error, waiter, has, waiting, armed, held, values,
                   waits, round, arm, events>>

CoordNext ==
    \/ CoordResume \/ Skip \/ ChildWaits \/ ChildDone \/ ChildFails \/ RoundEnds
    \/ \E last \in BOOLEAN : ChildValue(last) \/ ArmChild(last)
    \/ CoordArmBegin \/ ArmEnd \/ CancelBegin \/ CancelChild \/ CancelEnd
    \/ \E i \in Child : coord_child_wake(i)

CoordSpec == CoordInit /\ [][CoordNext]_coord_vars
-----------------------------------------------------------------------------
(* A sleeping coordination is woken by whichever child becomes ready, and no *)
(* child could be resumed meanwhile. LATEST escapes: when its last child ends *)
(* with DONE, coord_resume_latest answers WAIT without looking at all_done.  *)
CoordSleepsRightly ==
    pump = "asleep" => /\ waiter /\ ~AnyRunnable
                       /\ (\E i \in Child : waiting[i]) \/ (mode = "LATEST" /\ AllDone)
                       /\ \A i \in Child : waiting[i] => armed[i] /\ i \in held

(* Each mode tells what it promises: ALL and ALL_DONE once and with every    *)
(* value, ANY one winner, SEQUENCE its children in order, LATEST from a full *)
(* set on; and a coordination that is gone left no waker behind.             *)
EventsExact ==
    /\ mode \in {"ALL", "ALL_DONE"} /\ events # <<>> => events = <<All>> /\ AllHave /\ AllDone
    /\ mode = "ANY" /\ events # <<>> =>
          Len(events) = 1 /\ \A i \in Child : values[i] = IF i = events[1] THEN 1 ELSE 0
    /\ mode = "SEQUENCE" => \A i \in 1 .. Len(events) - 1 : events[i] < events[i + 1]
    /\ mode = "LATEST" /\ events # <<>> => AllHave
    /\ mode = "LATEST" =>
          \A i \in Child : Cardinality({k \in DOMAIN events : events[k] = i}) \in {values[i], values[i] - 1}
    /\ pump = "gone" => held = {}

-----------------------------------------------------------------------------
(* cflow/src/subflow.c: a subgraph runs as a run of its own for one value of  *)
(* the outer run.  The outer pump resumes it and waits; a worker delivers the *)
(* inner run's values into a slot for one; a client of the outer run, or the  *)
(* coordination that holds the subflow, cancels it at any time.               *)

subflow_vars == <<feed, s, run, worker, outer, client>>

Fresh == [on |-> TRUE, started |-> FALSE, requested |-> FALSE, value |-> 0, done |-> FALSE,
          error |-> FALSE, cancelled |-> FALSE, waiter |-> FALSE]

SubflowInit ==
    /\ feed \in Feeds
    /\ s = Fresh
    /\ run = [demand |-> 0, sent |-> 0, terminated |-> FALSE, cancelReq |-> FALSE]
    /\ worker = [at |-> "idle", end |-> "none"]
    /\ outer = [at |-> "idle", waiting |-> FALSE, got |-> <<>>, end |-> "none", refused |-> FALSE, cancelReq |-> FALSE]
    /\ client = "idle"

SubflowReady == s.value # 0 \/ s.done \/ s.error \/ s.cancelled

-----------------------------------------------------------------------------
(* The outer pump.                                                            *)
Given(end) == [outer EXCEPT !.at = "idle", !.end = end]


Takes == s.value # 0

Resumes ==
    /\ s.on /\ ~outer.waiting /\ outer.end = "none"
    /\ outer.at = "resume" \/ (outer.at = "idle" /\ ~outer.cancelReq)

(* The subgraph cannot be subscribed: there is no inner run.                  *)
StartFails ==
    /\ Resumes /\ ~s.started
    /\ outer' = [Given("error") EXCEPT !.refused = TRUE]
    /\ UNCHANGED <<feed, s, run, worker, client>>

(* subflow_start and the first hold of the lock.                              *)
subflow_resume ==
    /\ Resumes
    /\ IF s.cancelled THEN outer' = Given("cancelled") /\ s' = [s EXCEPT !.started = TRUE]
       ELSE IF s.error THEN outer' = Given("error") /\ UNCHANGED s
       ELSE IF Takes
       THEN /\ s' = [s EXCEPT !.value = 0]
            /\ outer' = [Given(IF s.done THEN "done" ELSE "none") EXCEPT !.got = Append(@, s.value)]
       ELSE IF s.done THEN outer' = Given("done") /\ UNCHANGED s
       ELSE /\ s' = [s EXCEPT !.started = TRUE, !.requested = TRUE]
            /\ outer' = [outer EXCEPT !.at = IF s.requested THEN "look" ELSE "request"]
    /\ UNCHANGED <<feed, run, worker, client>>

(* A run that has ended refuses a request, however it has ended.              *)
Request ==
    /\ outer.at = "request"
    /\ IF run.terminated
       THEN /\ s' = [s EXCEPT !.requested = FALSE]
            /\ outer' = [Given("error") EXCEPT !.refused = TRUE]
            /\ UNCHANGED run
       ELSE /\ run' = [run EXCEPT !.demand = @ + 1]
            /\ outer' = [outer EXCEPT !.at = "look"]
            /\ UNCHANGED s
    /\ UNCHANGED <<feed, worker, client>>

(* The second look, after which the outer run waits.                          *)
Look ==
    /\ outer.at = "look"
    /\ outer' = IF SubflowReady THEN [outer EXCEPT !.at = "resume"] ELSE [outer EXCEPT !.at = "arm", !.waiting = TRUE]
    /\ UNCHANGED <<feed, s, run, worker, client>>

(* Mutant: what came between the look and the arm is not seen.                *)
ArmReadyNever == FALSE

ArmReady == SubflowReady

subflow_wait_arm ==
    /\ outer.at = "arm"
    /\ IF ArmReady THEN outer' = [outer EXCEPT !.at = "idle", !.waiting = FALSE] /\ UNCHANGED s
       ELSE outer' = [outer EXCEPT !.at = "idle"] /\ s' = [s EXCEPT !.waiter = TRUE]
    /\ UNCHANGED <<feed, run, worker, client>>

(* cflow_subscription_cancel of the inner run.                                *)
CancelRun == run' = [run EXCEPT !.cancelReq = @ \/ s.started]

(* The holder cancels it and no longer waits for it.                          *)
subflow_cancel ==
    /\ s.on /\ ~s.cancelled /\ outer.at = "idle"
    /\ s' = [s EXCEPT !.cancelled = TRUE, !.waiter = FALSE]
    /\ outer' = [outer EXCEPT !.waiting = FALSE]
    /\ CancelRun
    /\ UNCHANGED <<feed, worker, client>>

(* subflow_destroy cancels first, then closes the run.                        *)
DestroyBegin ==
    /\ s.on /\ outer.at = "idle"
    /\ outer.end # "none" \/ outer.cancelReq \/ s.cancelled
    /\ s' = [s EXCEPT !.cancelled = TRUE, !.waiter = FALSE]
    /\ outer' = [outer EXCEPT !.at = "closing", !.waiting = FALSE]
    /\ CancelRun
    /\ UNCHANGED <<feed, worker, client>>


(* cflow_subscription_close returns when no task of the run is left.          *)
Closed == worker.at = "idle" /\ (s.started => run.terminated)

DestroyEnd ==
    /\ outer.at = "closing" /\ Closed
    /\ s' = [s EXCEPT !.on = FALSE, !.value = 0]
    /\ outer' = [outer EXCEPT !.at = "gone"]
    /\ UNCHANGED <<feed, run, worker, client>>

-----------------------------------------------------------------------------
(* A client cancels the outer run, which withdraws its wait and then cancels  *)
(* the waitable outside the outer run's lock.                                 *)
ClientCancel ==
    /\ client = "idle"
    /\ client' = IF outer.waiting THEN "unarm" ELSE "done"
    /\ outer' = [outer EXCEPT !.waiting = FALSE, !.cancelReq = TRUE]
    /\ UNCHANGED <<feed, s, run, worker>>

(* Nothing keeps the subflow for this call: it is modelled while it is there. *)
subflow_wait_cancel ==
    /\ client = "unarm" /\ s.on
    /\ s' = [s EXCEPT !.waiter = FALSE]
    /\ CancelRun
    /\ client' = "done"
    /\ UNCHANGED <<feed, worker, outer>>

-----------------------------------------------------------------------------
(* The inner run on its worker.                                               *)
SubflowEnds(end) ==
    /\ run' = [run EXCEPT !.terminated = TRUE]
    /\ worker' = [at |-> "end", end |-> end]

(* A value needs demand; so does an error, and an end that no value precedes. *)
RunPump ==
    /\ worker.at = "idle" /\ s.started /\ ~run.terminated
    /\ \/ run.cancelReq /\ run' = [run EXCEPT !.terminated = TRUE] /\ UNCHANGED worker
       \/ /\ ~run.cancelReq /\ run.sent < feed.values /\ run.demand > 0
          /\ run' = [run EXCEPT !.sent = @ + 1, !.demand = @ - 1]
          /\ worker' = [worker EXCEPT !.at = "value"]
       \/ /\ ~run.cancelReq /\ run.sent = feed.values
          /\ run.demand > 0 \/ (feed.end = "done" /\ run.sent > 0)
          /\ SubflowEnds(feed.end)
    /\ UNCHANGED <<feed, s, outer, client>>

(* The waiter is taken under the lock and woken outside it.                   *)
Rings == worker' = [worker EXCEPT !.at = IF s.waiter THEN "wake" ELSE "idle"]

(* Mutant: a value leaves the request marked as out.                          *)
StoredAsked == [s EXCEPT !.value = run.sent, !.waiter = FALSE]

Stored == [s EXCEPT !.value = run.sent, !.requested = FALSE, !.waiter = FALSE]

(* A value that is refused fails the run.                                     *)
subflow_on_value ==
    /\ worker.at = "value"
    /\ IF s.cancelled \/ s.value # 0 THEN SubflowEnds("error") /\ UNCHANGED s
       ELSE s' = Stored /\ Rings /\ UNCHANGED run
    /\ UNCHANGED <<feed, outer, client>>

subflow_on_error ==
    /\ worker.at = "end" /\ worker.end = "error"
    /\ s' = [s EXCEPT !.error = @ \/ ~s.cancelled, !.requested = FALSE, !.waiter = FALSE]
    /\ Rings
    /\ UNCHANGED <<feed, run, outer, client>>

subflow_on_done ==
    /\ worker.at = "end" /\ worker.end = "done"
    /\ s' = [s EXCEPT !.done = TRUE, !.requested = FALSE, !.waiter = FALSE]
    /\ Rings
    /\ UNCHANGED <<feed, run, outer, client>>

SubflowWake ==
    /\ worker.at = "wake"
    /\ worker' = [worker EXCEPT !.at = "idle"]
    /\ outer' = [outer EXCEPT !.waiting = FALSE]
    /\ UNCHANGED <<feed, s, run, client>>

SubflowNext ==
    \/ StartFails \/ subflow_resume \/ Request \/ Look \/ subflow_wait_arm \/ subflow_cancel \/ DestroyBegin \/ DestroyEnd
    \/ ClientCancel \/ subflow_wait_cancel
    \/ RunPump \/ subflow_on_value \/ subflow_on_error \/ subflow_on_done \/ SubflowWake

SubflowSpec == SubflowInit /\ [][SubflowNext]_subflow_vars

-----------------------------------------------------------------------------
(* The outer run is given every value of the subgraph once and in order, and  *)
(* an end that is the subgraph's: it is done when the slot is empty and all   *)
(* was taken, and it fails when the subgraph fails, when it cannot be started,   *)
(* or when the request came after its run had ended.                          *)
SubflowExact ==
    /\ outer.got = [i \in 1..Len(outer.got) |-> i]
    /\ outer.end = "done" => feed.end = "done" /\ Len(outer.got) = feed.values
    /\ outer.end = "error" => feed.end = "error" \/ outer.refused

(* A run is asked for one value at a time: the slot is free when one comes.   *)
OneAtATime == worker.at = "value" => s.value = 0

(* The outer run sleeps only while the waiter is stored and the inner run     *)
(* owes it something: a value, or an end.                                     *)
SubflowAwake ==
    outer.waiting /\ ~outer.cancelReq /\ outer.at = "idle" /\ worker.at = "idle" =>
        s.waiter /\ ~SubflowReady /\ run.demand > 0 /\ ~run.terminated

(* No callback of the inner run finds its subflow freed.                      *)
SubflowKept == worker.at \in {"value", "end"} => s.on

-----------------------------------------------------------------------------
(* The delay, debounce and timeout publishers (cflow/src/temporal.c): an     *)
(* inner publisher and one timer task of the run's scheduler.  The pump      *)
(* resumes and arms; the task fires on a worker; cancel and destroy may come *)
(* from another thread.  state->lock is held for one action.                 *)

temporal_vars == <<kind, pending, ready_cause, timer_task, timer_arming, timer_outstanding, timer_stale, inner_armed,
          need_inner, need_timer, yielding, inner_done, finished, cancelled, waiter, posted, called, posts,
          stamp, fed, waits, pump, loop, woken, killer, taken, destroying, freed, forgotten, out>>

timer == <<timer_task, timer_arming, timer_outstanding, timer_stale>>
wants == <<need_inner, need_timer>>
inner == <<fed, waits, inner_done>>
tasks == <<posted, called, posts, stamp>>
killing == <<killer, taken, destroying, freed, cancelled>>
ghosts == <<forgotten, out>>
locals == <<pump, loop, woken>>

NoLoop == [cause |-> "NONE", by |-> 0, count |-> 0, expired |-> FALSE, restart |-> FALSE, next |-> "idle"]

(* temporal_source_init.                                                     *)
TemporalInit ==
    /\ kind \in Kinds
    /\ pending = 0 /\ ready_cause = [cause |-> "NONE", by |-> 0] /\ timer_task = 0
    /\ timer_arming = FALSE /\ timer_outstanding = FALSE /\ timer_stale = FALSE
    /\ inner_armed = FALSE /\ need_inner = FALSE /\ need_timer = FALSE /\ yielding = FALSE
    /\ inner_done = FALSE /\ finished = "OPEN" /\ cancelled = FALSE /\ waiter = FALSE
    /\ posted = {} /\ called = {} /\ posts = 0 /\ stamp = <<>>
    /\ fed = 0 /\ waits = 0 /\ pump = "resume" /\ loop = NoLoop /\ woken = FALSE
    /\ killer = "idle" /\ taken = 0 /\ destroying = FALSE /\ freed = FALSE
    /\ forgotten = FALSE /\ out = <<>>
-----------------------------------------------------------------------------
(* temporal_resume up to the kind's own resume: temporal_take_ready.         *)
TemporalResume ==
    /\ pump = "resume" /\ ~destroying
    /\ woken' = FALSE
    /\ IF finished # "OPEN" \/ cancelled
       THEN pump' = "ended" /\ UNCHANGED <<ready_cause, inner_armed, waiter, wants, loop, yielding>>
       ELSE /\ loop' = [NoLoop EXCEPT !.cause = ready_cause.cause, !.by = ready_cause.by,
                                      !.expired = ready_cause.cause = "TIMER"]
            /\ ready_cause' = [cause |-> "NONE", by |-> 0]
            /\ inner_armed' = FALSE /\ waiter' = FALSE /\ need_inner' = FALSE /\ need_timer' = FALSE
            /\ yielding' = (yielding /\ ~(kind = "DEBOUNCE" /\ ready_cause.cause = "TIMER"))
            /\ pump' = IF kind = "DELAY" /\ pending # 0 THEN "retained" ELSE "step"
    /\ UNCHANGED <<kind, pending, timer, inner, finished, tasks, killing, ghosts>>

(* temporal_emit, and the end that comes with the last value.                *)
Emit(v, how) == out' = Append(out, [value |-> v, stamp |-> loop.by, cause |-> how])
Wait(i, t) == need_inner' = i /\ need_timer' = t /\ pump' = "arm"

(* delay_resume with a retained value.                                       *)
DelayRetained ==
    /\ pump = "retained"
    /\ IF loop.cause # "TIMER"
       THEN Wait(FALSE, TRUE) /\ UNCHANGED <<pending, finished, out>>
       ELSE /\ Emit(pending, "TIMER") /\ pending' = 0
            /\ finished' = IF inner_done THEN "DONE" ELSE finished
            /\ pump' = IF inner_done THEN "ended" ELSE "resume"
            /\ UNCHANGED wants
    /\ UNCHANGED <<kind, ready_cause, timer, inner_armed, yielding, inner, cancelled, waiter, tasks,
                   loop, woken, killer, taken, destroying, freed, forgotten>>

(* The inner publisher answers: a value, a last value, a wait, done, error.  *)
TemporalFeeds(last) == fed < MaxFed /\ ~inner_done /\ fed' = fed + 1 /\ inner_done' = last /\ UNCHANGED waits
Waits == waits < MaxSpurious /\ ~inner_done /\ waits' = waits + 1 /\ UNCHANGED <<fed, inner_done>>
TemporalEnds == inner_done' = TRUE /\ UNCHANGED <<fed, waits>>

DelayStep ==
    /\ pump = "step" /\ kind = "DELAY"
    /\ \/ /\ \E last \in BOOLEAN : TemporalFeeds(last)
          /\ pending' = fed' /\ Wait(FALSE, TRUE) /\ UNCHANGED finished
       \/ Waits /\ Wait(TRUE, FALSE) /\ UNCHANGED <<pending, finished>>
       \/ /\ TemporalEnds /\ finished' \in {"DONE", "ERROR"} /\ pump' = "ended"
          /\ UNCHANGED <<pending, wants>>
    /\ UNCHANGED <<kind, ready_cause, timer, inner_armed, yielding, cancelled, waiter, tasks,
                   loop, woken, killer, taken, destroying, freed, ghosts>>

(* One turn of debounce_resume's loop: a value replaces the retained one,    *)
(* and a last value or an end lets it out.                                   *)
DebounceValue ==
    /\ pump = "step" /\ kind = "DEBOUNCE" /\ loop.count < Quantum
    /\ \E last \in BOOLEAN :
        /\ TemporalFeeds(last)
        /\ IF last THEN /\ out' = Append(out, [value |-> fed', stamp |-> 0, cause |-> "LAST"])
                        /\ pending' = 0 /\ finished' = "DONE" /\ pump' = "ended" /\ UNCHANGED loop
           ELSE /\ pending' = fed'
                /\ loop' = [loop EXCEPT !.count = @ + 1, !.expired = FALSE, !.restart = TRUE]
                /\ UNCHANGED <<finished, pump, out>>
    /\ UNCHANGED <<kind, ready_cause, timer, inner_armed, wants, yielding, cancelled, waiter, tasks,
                   woken, killer, taken, destroying, freed, forgotten>>

DebounceWait ==
    /\ pump = "step" /\ kind = "DEBOUNCE" /\ loop.count < Quantum
    /\ Waits
    /\ pump' = IF loop.restart THEN "restart" ELSE "restarted"
    /\ loop' = [loop EXCEPT !.next = "restarted"]
    /\ UNCHANGED <<kind, pending, ready_cause, timer, inner_armed, wants, yielding, finished, cancelled, waiter,
                   tasks, woken, killer, taken, destroying, freed, ghosts>>

DebounceSettles ==
    /\ pump = "restarted"
    /\ IF loop.expired /\ pending # 0
       THEN Emit(pending, "TIMER") /\ pending' = 0 /\ pump' = "resume" /\ UNCHANGED wants
       ELSE Wait(TRUE, pending # 0) /\ UNCHANGED <<pending, out>>
    /\ UNCHANGED <<kind, ready_cause, timer, inner_armed, yielding, inner, finished, cancelled, waiter, tasks,
                   loop, woken, killer, taken, destroying, freed, forgotten>>

DebounceEnd ==
    /\ pump = "step" /\ kind = "DEBOUNCE" /\ loop.count < Quantum
    /\ TemporalEnds
    /\ \E end \in {"DONE", "ERROR"} :
        /\ finished' = end
        /\ out' = IF end = "DONE" /\ pending # 0
                  THEN Append(out, [value |-> pending, stamp |-> 0, cause |-> "LAST"]) ELSE out
    /\ pending' = 0 /\ pump' = "ended"
    /\ UNCHANGED <<kind, ready_cause, timer, inner_armed, wants, yielding, cancelled, waiter, tasks,
                   loop, woken, killer, taken, destroying, freed, forgotten>>

DebounceYield ==
    /\ pump = "step" /\ kind = "DEBOUNCE" /\ loop.count = Quantum
    /\ yielding' = TRUE
    /\ Wait(FALSE, TRUE)
    /\ UNCHANGED <<kind, pending, ready_cause, timer, inner_armed, inner, finished, cancelled, waiter, tasks,
                   loop, woken, killer, taken, destroying, freed, ghosts>>

(* timeout_resume.                                                           *)
TimeoutWait ==
    /\ pump = "step" /\ kind = "TIMEOUT"
    /\ Waits
    /\ IF loop.cause = "TIMER"
       THEN finished' = "ERROR" /\ pump' = "ended" /\ Emit(fed, "TIMEOUT") /\ UNCHANGED wants
       ELSE Wait(TRUE, TRUE) /\ UNCHANGED <<finished, out>>
    /\ UNCHANGED <<kind, pending, ready_cause, timer, inner_armed, yielding, cancelled, waiter, tasks,
                   loop, woken, killer, taken, destroying, freed, forgotten>>

TimeoutStep ==
    /\ pump = "step" /\ kind = "TIMEOUT"
    /\ \/ \E last \in BOOLEAN :
            /\ TemporalFeeds(last)
            /\ out' = Append(out, [value |-> fed', stamp |-> 0, cause |-> "VALUE"])
            /\ loop' = [loop EXCEPT !.next = IF last THEN "DONE" ELSE "resume"]
       \/ TemporalEnds /\ UNCHANGED out /\ \E end \in {"DONE", "ERROR"} : loop' = [loop EXCEPT !.next = end]
    /\ pump' = "restart"
    /\ UNCHANGED <<kind, pending, ready_cause, timer, inner_armed, wants, yielding, finished, cancelled, waiter,
                   tasks, woken, killer, taken, destroying, freed, forgotten>>
-----------------------------------------------------------------------------
(* temporal_restart_timer: forget the task, cancel it, and if it was too     *)
(* late mark what is still out as stale.  loop.count carries the task here.  *)
Restart ==
    /\ pump = "restart"
    /\ loop' = [loop EXCEPT !.count = timer_task]
    /\ timer_task' = 0
    /\ pump' = IF timer_task = 0 THEN "restartEnd" ELSE "restartCancel"
    /\ UNCHANGED <<kind, pending, ready_cause, timer_arming, timer_outstanding, timer_stale, inner_armed, wants,
                   yielding, inner, finished, waiter, tasks, woken, killing, ghosts>>

RestartCancel ==
    /\ pump = "restartCancel"
    /\ posted' = posted \ {loop.count}
    /\ pump' = IF loop.count \in posted THEN "restartDone" ELSE "restartStale"
    /\ UNCHANGED <<kind, pending, ready_cause, timer, inner_armed, wants, yielding, inner, finished, waiter,
                   called, posts, stamp, loop, woken, killing, ghosts>>

RestartMarks ==
    /\ pump \in {"restartDone", "restartStale"}
    /\ timer_outstanding' = (timer_outstanding /\ pump # "restartDone")
    /\ timer_stale' = (timer_stale \/ (pump = "restartStale" /\ timer_outstanding))
    /\ pump' = "restartEnd"
    /\ UNCHANGED <<kind, pending, ready_cause, timer_task, timer_arming, inner_armed, wants, yielding, inner, finished,
                   waiter, tasks, loop, woken, killing, ghosts>>

(* What follows the restart: back to the loop, a value, or the end.          *)
RestartEnd ==
    /\ pump = "restartEnd"
    /\ finished' = IF loop.next \in {"DONE", "ERROR"} THEN loop.next ELSE finished
    /\ pump' = IF loop.next \in {"DONE", "ERROR"} THEN "ended" ELSE loop.next
    /\ UNCHANGED <<kind, pending, ready_cause, timer, inner_armed, wants, yielding, inner, waiter, tasks,
                   loop, woken, killing, ghosts>>
-----------------------------------------------------------------------------
(* temporal_wait_arm.                                                        *)
TemporalArmBegin ==
    /\ pump = "arm"
    /\ IF cancelled \/ finished # "OPEN" \/ ready_cause.cause # "NONE"
       THEN pump' = "resume" /\ UNCHANGED <<waiter, timer_arming, timer_outstanding>>
       ELSE LET need == need_timer /\ ~timer_stale /\ ~timer_outstanding
            IN  /\ waiter' = TRUE /\ timer_arming' = need
                /\ timer_outstanding' = need
                /\ pump' = IF need_inner THEN "armInner" ELSE IF need THEN "post" ELSE "armed"
    /\ loop' = [loop EXCEPT !.restart = need_timer /\ ~timer_stale /\ ~timer_outstanding]
    /\ forgotten' = (forgotten \/ (timer_outstanding /\ ~timer_outstanding'))
    /\ UNCHANGED <<kind, pending, ready_cause, timer_task, timer_stale, inner_armed, wants, yielding, inner, finished,
                   tasks, woken, killing, out>>

ArmInner ==
    /\ pump = "armInner"
    /\ inner_armed' = TRUE
    /\ pump' = IF loop.restart THEN "post" ELSE "armed"
    /\ UNCHANGED <<kind, pending, ready_cause, timer, wants, yielding, inner, finished, waiter, tasks, loop, woken,
                   killing, ghosts>>

ArmPost ==
    /\ pump = "post" /\ posts < MaxPosts
    /\ posts' = posts + 1 /\ posted' = posted \cup {posts'}
    /\ stamp' = Append(stamp, IF yielding THEN 0 ELSE fed)
    /\ pump' = "posted"
    /\ UNCHANGED <<kind, pending, ready_cause, timer, inner_armed, wants, yielding, inner, finished, waiter,
                   called, loop, woken, killing, ghosts>>

(* A refused post withdraws the wait, and the run ends with an error.        *)
ArmRefused ==
    /\ pump = "post"
    /\ timer_arming' = FALSE /\ timer_outstanding' = FALSE /\ timer_task' = 0
    /\ inner_armed' = FALSE /\ waiter' = FALSE
    /\ pump' = "ended"
    /\ UNCHANGED <<kind, pending, ready_cause, timer_stale, wants, yielding, inner, finished, tasks, loop, woken,
                   killing, ghosts>>

ArmPosted ==
    /\ pump = "posted"
    /\ LET late == ready_cause.cause # "NONE" \/ cancelled \/ finished # "OPEN"
       IN  /\ timer_task' = IF late THEN timer_task ELSE posts
           /\ pump' = IF late THEN "armCancel" ELSE "armed"
    /\ timer_arming' = FALSE
    /\ UNCHANGED <<kind, pending, ready_cause, timer_outstanding, timer_stale, inner_armed, wants, yielding, inner,
                   finished, waiter, tasks, loop, woken, killing, ghosts>>

ArmCancels ==
    /\ pump = "armCancel"
    /\ posted' = posted \ {posts}
    /\ timer_outstanding' = (timer_outstanding /\ posts \notin posted)
    /\ pump' = "armed"
    /\ UNCHANGED <<kind, pending, ready_cause, timer_task, timer_arming, timer_stale, inner_armed, wants, yielding, inner,
                   finished, waiter, called, posts, stamp, loop, woken, killing, ghosts>>

(* The arm has returned; a wake that came meanwhile resumes the pump.        *)
Armed ==
    /\ pump = "armed"
    /\ pump' = IF cancelled \/ killer # "idle" THEN "ended" ELSE IF woken THEN "resume" ELSE "asleep"
    /\ UNCHANGED <<kind, pending, ready_cause, timer, inner_armed, wants, yielding, inner, finished, waiter, tasks,
                   loop, woken, killing, ghosts>>
-----------------------------------------------------------------------------
Arming == {"arm", "armInner", "post", "posted", "armCancel", "armed"}

TemporalWake == /\ pump' = IF pump = "asleep" THEN "resume" ELSE pump
        /\ woken' = (woken \/ pump \in Arming)

InnerFires ==
    /\ inner_armed /\ pump \in Arming \cup {"asleep"}
    /\ TemporalWake
    /\ UNCHANGED <<kind, pending, ready_cause, timer, inner_armed, wants, yielding, inner, finished, waiter, tasks, loop,
                   killing, ghosts>>

TimerCalled ==
    /\ \E k \in posted : posted' = posted \ {k} /\ called' = called \cup {k}
    /\ UNCHANGED <<kind, pending, ready_cause, timer, inner_armed, wants, yielding, inner, finished, waiter, posts, stamp,
                   locals, killing, ghosts>>

(* Mutant: a task that was restarted too late still counts as expired.       *)
CauseAlways(k) == [cause |-> "TIMER", by |-> k]

Cause(k) == IF timer_stale THEN [cause |-> "INNER", by |-> k] ELSE [cause |-> "TIMER", by |-> k]

temporal_timer_fire(k) ==
    /\ k \in called /\ called' = called \ {k}
    /\ timer_stale' = FALSE /\ timer_outstanding' = FALSE /\ timer_task' = 0
    /\ IF ~cancelled /\ finished = "OPEN" /\ (timer_arming \/ need_timer) /\ ready_cause.cause = "NONE"
       THEN /\ timer_arming' = FALSE /\ ready_cause' = Cause(k)
            /\ IF waiter THEN TemporalWake ELSE UNCHANGED <<pump, woken>>
            /\ waiter' = FALSE
       ELSE UNCHANGED <<timer_arming, ready_cause, waiter, pump, woken>>
    /\ UNCHANGED <<kind, pending, inner_armed, wants, yielding, inner, finished, posted, posts, stamp, loop,
                   killing, ghosts>>
-----------------------------------------------------------------------------
(* temporal_cancel_active_wait, from the run's cancel (the pump may be       *)
(* arming), and from temporal_cancel inside temporal_destroy once the pump   *)
(* is through.                                                               *)
KillBegin(destroys) ==
    /\ killer = "idle" /\ ~destroying
    /\ IF destroys THEN pump \in {"asleep", "resume", "ended"} ELSE pump \in Arming \cup {"asleep"}
    /\ destroying' = destroys /\ cancelled' = (cancelled \/ destroys)
    /\ taken' = timer_task /\ timer_task' = 0
    /\ timer_outstanding' = (timer_outstanding /\ ~(timer_task = 0 /\ timer_arming))
    /\ forgotten' = (forgotten \/ (timer_task = 0 /\ timer_arming))
    /\ timer_arming' = FALSE /\ inner_armed' = FALSE /\ waiter' = FALSE
    /\ killer' = "took"
    /\ pump' = IF pump \in {"asleep", "resume"} THEN "ended" ELSE pump
    /\ UNCHANGED <<kind, pending, ready_cause, timer_stale, wants, yielding, inner, finished, tasks, loop, woken,
                   freed, out>>

KillCancels ==
    /\ killer = "took"
    /\ posted' = posted \ {taken}
    /\ killer' = IF taken \in posted THEN "settle" ELSE "wait"
    /\ UNCHANGED <<kind, pending, ready_cause, timer, inner_armed, wants, yielding, inner, finished, waiter,
                   called, posts, stamp, locals, taken, destroying, freed, cancelled, ghosts>>

KillSettles ==
    /\ killer = "settle"
    /\ timer_outstanding' = FALSE
    /\ killer' = "wait"
    /\ UNCHANGED <<kind, pending, ready_cause, timer_task, timer_arming, timer_stale, inner_armed, wants, yielding, inner,
                   finished, waiter, tasks, locals, taken, destroying, freed, cancelled, ghosts>>

(* temporal_destroy waits for the task that is out.                          *)
Quiescent == ~timer_outstanding /\ ~timer_arming

KillEnds ==
    /\ killer = "wait" /\ (destroying => Quiescent)
    /\ ~destroying => pump = "ended"
    /\ killer' = IF destroying THEN "gone" ELSE "idle"
    /\ freed' = destroying
    /\ UNCHANGED <<kind, pending, ready_cause, timer, inner_armed, wants, yielding, inner, finished, waiter, tasks,
                   locals, taken, destroying, cancelled, ghosts>>

TemporalNext ==
    \/ TemporalResume \/ DelayRetained \/ DelayStep
    \/ DebounceValue \/ DebounceWait \/ DebounceSettles \/ DebounceEnd \/ DebounceYield
    \/ TimeoutWait \/ TimeoutStep
    \/ Restart \/ RestartCancel \/ RestartMarks \/ RestartEnd
    \/ TemporalArmBegin \/ ArmInner \/ ArmPost \/ ArmRefused \/ ArmPosted \/ ArmCancels \/ Armed
    \/ InnerFires \/ TimerCalled \/ \E k \in called : temporal_timer_fire(k)
    \/ \E b \in BOOLEAN : KillBegin(b)
    \/ KillCancels \/ KillSettles \/ KillEnds

TemporalSpec == TemporalInit /\ [][TemporalNext]_temporal_vars
-----------------------------------------------------------------------------
Last == out[Len(out)]

(* Values come out once and in order, a debounced one being the latest; and  *)
(* a delayed value or a timeout comes from a task that was posted after the  *)
(* last value had arrived, never from the timer of an earlier wait (again as *)
(* long as timer_outstanding tells of it).                                   *)
TimersExact ==
    /\ \A i \in 1 .. Len(out) - 1 : out[i].cause # "TIMEOUT" /\ out[i].value < out[i + 1].value + (IF i + 1 = Len(out) /\ Last.cause = "TIMEOUT" THEN 1 ELSE 0)
    /\ kind \in {"DELAY", "TIMEOUT"} => \A i \in 1 .. Len(out) :
          ~forgotten /\ out[i].cause \in {"TIMER", "TIMEOUT"} => stamp[out[i].stamp] = out[i].value
    /\ kind = "DELAY" => fed = Len(out) + (IF pending = 0 THEN 0 ELSE 1)

(* A pump that sleeps has an armed inner publisher, or a task that will lock *)
(* and find its waker.                                                       *)
TemporalSleepsRightly ==
    pump = "asleep" =>
        \/ inner_armed
        \/ need_timer /\ waiter /\ posted \cup called # {}

(* destroy frees the state after the last task that uses it has run, as long *)
(* as timer_outstanding told of it: a cancel between an arm's unlock and its *)
(* post clears it, and so does an arm that finds the task of an earlier wait *)
(* still out.                                                                *)
DestroyIsLast == freed /\ ~forgotten => posted = {} /\ called = {}
=============================================================================
