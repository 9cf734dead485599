--------------------------- MODULE StatechartInstance ---------------------------
(* The runtime of one Statechart instance (cflow/src/statechart_instance.c):    *)
(* the driver and microstep tasks it posts on a borrowed serial executor, the   *)
(* producers that send events, the threads that close, cancel, exit or attach   *)
(* the terminal adapter, the settlements it reports, and its destruction.       *)
(* What the chart itself does (which transition a trigger selects, which events *)
(* and completions it raises) is StatechartStep; here a trigger selects         *)
(* something, nothing, or fails, and a microstep raises what it likes.          *)
(* impl is the instance as its lock protects it; every step is one section      *)
(* under that lock, or one call made outside it.                                *)
EXTENDS Naturals, Sequences, FiniteSets

CONSTANTS Callers,           \* threads outside the executor
          MaxSends,          \* external events and adapter results sent, a bound
          MaxStops,          \* close, cancel, request_exit and attach calls, a bound
          ExternalCapacity, InternalCapacity, CompletionCapacity, MicrostepLimit,
          Hosts,             \* whether an on_host_transaction hook is installed
          GuardsRaise        \* whether guards raise internal events

VARIABLES impl, host, pc, resume, queue, open, accepted, ingress, stops, reports, life
vars == <<impl, host, pc, resume, queue, open, accepted, ingress, stops, reports, life>>

Executor == "executor"
Threads == Callers \cup {Executor}
OK == "OK"
CANCELLED == "CANCELLED"
FAILED == "FAILED"

(* reserve_instance_task: init posts the first driver task                      *)
Init ==
    /\ impl = [mailbox |-> <<>>, inflight |-> 0, dropped |-> FALSE, slot |-> <<>>, cancelled |-> <<>>,
               delivering |-> FALSE, internal |-> 0, adapter |-> 0, completions |-> <<>>, complete |-> FALSE,
               draining |-> FALSE, outcome |-> "NONE", cause |-> "none", closed |-> FALSE, exiting |-> FALSE,
               done |-> FALSE, active |-> TRUE, microsteps |-> 0, skip |-> FALSE, driver |-> TRUE,
               repost |-> FALSE, pending |-> FALSE, result |-> OK, tasks |-> 1,
               initial |-> TRUE, attached |-> FALSE, waiter |-> FALSE, jumped |-> FALSE]
    /\ host \in Hosts
    /\ pc = [t \in Threads |-> "idle"]
    /\ resume = [t \in Threads |-> "idle"]
    /\ queue = <<"driver">>
    /\ open = TRUE
    /\ accepted = 0
    /\ ingress = 0
    /\ stops = 0
    /\ reports = <<>>
    /\ life = "initializing"

---------------------------------------------------------------------------------
(* Sections under the lock                                                      *)

Errored(s) == s.outcome = "ERROR"
Settled(s) == s.done \/ Errored(s)

settle_external(s, status) ==
    IF s.inflight = 0 THEN s
    ELSE [s EXCEPT !.slot = <<[id |-> s.inflight,
                               kind |-> IF status = OK /\ s.dropped THEN "DROPPED" ELSE status]>>,
                   !.inflight = 0, !.dropped = FALSE]

cancel_pending_external(s) ==
    IF s.mailbox = <<>> THEN s ELSE [s EXCEPT !.cancelled = s.mailbox, !.mailbox = <<>>]

cancel_external_admission(s) == cancel_pending_external([s EXCEPT !.adapter = 0])

clear_semantic_queues(s) == [s EXCEPT !.internal = 0, !.completions = <<>>, !.draining = FALSE]

claim_external_for_failure(s) ==
    IF s.inflight # 0 \/ s.mailbox = <<>> THEN s
    ELSE [s EXCEPT !.inflight = Head(s.mailbox), !.mailbox = Tail(s.mailbox)]

finish_macrostep(s, status) ==
    [settle_external(s, status) EXCEPT !.active = FALSE, !.microsteps = 0, !.done = TRUE]

win_terminal(s, outcome, cause, settleNow, status) ==
    IF s.outcome # "NONE" THEN s
    ELSE LET won == [cancel_external_admission(clear_semantic_queues(s)) EXCEPT
                        !.outcome = outcome, !.cause = cause, !.closed = TRUE, !.repost = FALSE]
         IN  IF settleNow THEN finish_macrostep(won, status) ELSE won

Lose(s, cause) ==
    IF s.outcome # "NONE" THEN s
    ELSE win_terminal(claim_external_for_failure(s), "ERROR", cause, TRUE, FAILED)

Unreserved(s) == [s EXCEPT !.tasks = @ - 1]

(* a thread that has left the lock: where it goes on                            *)
Goes(t, stage) == pc' = [pc EXCEPT ![t] = stage]
(* finish_terminal_side_effects, then stage                                     *)
SideEffects(t, stage) ==
    /\ pc' = [pc EXCEPT ![t] = "side"]
    /\ resume' = [resume EXCEPT ![t] = stage]
Resumes(t) ==
    /\ pc' = [pc EXCEPT ![t] = resume[t]]
    /\ resume' = [resume EXCEPT ![t] = "idle"]
Still == UNCHANGED <<host, queue, open, accepted, ingress, stops, reports, life>>
Quietly == Still /\ UNCHANGED resume

(* latch_terminal_failure                                                       *)
latch_terminal_failure(t, s, cause, stage) ==
    /\ impl' = Lose(s, cause)
    /\ SideEffects(t, stage)
    /\ Still

---------------------------------------------------------------------------------
(* Settlement reports and waiters                                               *)

(* a settled instance gives its waiter away; the wake is called on the way out  *)
finish_terminal_side_effects(t) ==
    /\ pc[t] = "side"
    /\ impl' = [impl EXCEPT !.waiter = @ /\ ~Settled(impl)]
    /\ Goes(t, "deliver")
    /\ Quietly

DeliverEnter(t) ==
    /\ pc[t] = "deliver"
    /\ IF impl.delivering THEN Resumes(t) /\ UNCHANGED impl
       ELSE Goes(t, "delivering") /\ UNCHANGED resume /\ impl' = [impl EXCEPT !.delivering = TRUE]
    /\ Still

(* Mutant: cancelled events do not wait for the one in flight                   *)
ReportingEarly(s) == s.slot # <<>> \/ s.cancelled # <<>>
Reporting(s) == s.slot # <<>> \/ (s.inflight = 0 /\ s.cancelled # <<>>)

(* one report, and its callback outside the lock                                *)
DeliverOne(t) ==
    /\ pc[t] = "delivering"
    /\ Reporting(impl)
    /\ IF impl.slot # <<>>
       THEN /\ reports' = Append(reports, impl.slot[1])
            /\ impl' = [impl EXCEPT !.slot = <<>>]
       ELSE /\ reports' = Append(reports, [id |-> Head(impl.cancelled), kind |-> CANCELLED])
            /\ impl' = [impl EXCEPT !.cancelled = Tail(@)]
    /\ UNCHANGED <<host, pc, resume, queue, open, accepted, ingress, stops, life>>

DeliverLeave(t) ==
    /\ pc[t] = "delivering"
    /\ ~Reporting(impl)
    /\ impl' = [impl EXCEPT !.delivering = FALSE]
    /\ Resumes(t)
    /\ Still

---------------------------------------------------------------------------------
(* Scheduling the driver                                                        *)

(* schedule_statechart_driver, and ..._reserved by a task that hands its        *)
(* reservation on ("hand")                                                      *)
schedule_statechart_driver(t) ==
    /\ pc[t] \in {"schedule", "hand"}
    /\ LET hands == pc[t] = "hand"
           spared == IF hands THEN Unreserved(impl) ELSE impl
       IN  IF Settled(impl) THEN impl' = spared /\ Goes(t, "idle")
           ELSE IF impl.driver \/ impl.pending
           THEN impl' = [spared EXCEPT !.repost = TRUE] /\ Goes(t, "idle")
           ELSE /\ impl' = [impl EXCEPT !.driver = TRUE, !.tasks = IF hands THEN @ ELSE @ + 1]
                /\ Goes(t, IF hands THEN "handPost" ELSE "post")
    /\ Quietly

DriverPosted(t) ==
    /\ pc[t] \in {"post", "handPost"}
    /\ open
    /\ queue' = Append(queue, "driver")
    /\ Goes(t, "idle")
    /\ UNCHANGED <<impl, host, resume, open, accepted, ingress, stops, reports, life>>

DriverRefused(t) ==
    /\ pc[t] \in {"post", "handPost"}
    /\ ~open
    /\ LET s == Lose([impl EXCEPT !.driver = FALSE], "other")
       IN  impl' = IF pc[t] = "post" THEN Unreserved(s) ELSE s
    /\ SideEffects(t, IF pc[t] = "post" THEN "idle" ELSE "release")
    /\ Still

release_instance_task(t) ==
    /\ pc[t] = "release"
    /\ impl' = Unreserved(impl)
    /\ Goes(t, "idle")
    /\ Quietly

---------------------------------------------------------------------------------
(* The driver task                                                              *)

TakeTask ==
    /\ pc[Executor] = "idle"
    /\ queue # <<>>
    /\ Goes(Executor, Head(queue))
    /\ queue' = Tail(queue)
    /\ UNCHANGED <<impl, host, resume, open, accepted, ingress, stops, reports, life>>

(* a shut down executor cancels what it still holds                             *)
statechart_driver_cancel ==
    /\ pc[Executor] = "driver"
    /\ ~open
    /\ latch_terminal_failure(Executor, impl, "other", "driverEnds")

(* the exit request is looked at once more, after the initial entry actions     *)
Enters(jumped) ==
    IF impl.exiting THEN "exit" ELSE IF impl.draining THEN "drain" ELSE IF jumped THEN "admit" ELSE "eventless"

DriverBegin ==
    /\ pc[Executor] = "driver"
    /\ impl' = [impl EXCEPT !.repost = FALSE, !.skip = FALSE, !.jumped = impl.skip]
    /\ Goes(Executor, IF impl.outcome # "NONE" THEN "driverEnds" ELSE IF impl.initial THEN "enter" ELSE Enters(impl.skip))
    /\ Quietly

(* what a commit publishes: raised events, completions staged in document       *)
(* order, and a root that newly completes                                       *)
Commit(s, raised, parts, complete) ==
    [s EXCEPT !.internal = @ + raised, !.complete = complete,
              !.completions = @ \o parts \o (IF complete /\ ~s.complete THEN <<"root">> ELSE <<>>)]
Commits(s) ==
    {Commit(s, raised, parts, complete) : raised \in 0..1, parts \in {<<>>, <<"part">>}, complete \in BOOLEAN}
Fits(s) == s.internal <= InternalCapacity /\ Len(s.completions) <= CompletionCapacity

execute_initial_entry_actions ==
    /\ pc[Executor] = "enter"
    /\ \/ /\ \E s \in Commits(impl) : Fits(s) /\ impl' = [s EXCEPT !.initial = FALSE]
          /\ Goes(Executor, "checkExit")
          /\ Quietly
       \/ latch_terminal_failure(Executor, impl, "other", "driverEnds")

CheckExit ==
    /\ pc[Executor] = "checkExit"
    /\ UNCHANGED impl
    /\ Goes(Executor, IF impl.outcome # "NONE" THEN "driverEnds" ELSE Enters(impl.jumped))
    /\ Quietly

(* the exit actions run; then the exit is published, unless something else won  *)
execute_controlled_exit ==
    /\ pc[Executor] = "exit"
    /\ \/ /\ impl' = win_terminal(impl, "CANCEL", "none", TRUE, CANCELLED)
          /\ SideEffects(Executor, "driverEnds")
          /\ Still
       \/ latch_terminal_failure(Executor, impl, "other", "driverEnds")

(* driver_try_trigger: select, then a microstep, or where nothing is selected   *)
(* the stage none ("again": the driver reposts itself and ends)                 *)
TryTrigger(s, none) ==
    \/ /\ s.closed
       /\ impl' = s
       /\ Goes(Executor, "driverEnds")
       /\ Quietly
    \/ latch_terminal_failure(Executor, s, "other", "driverEnds")
    \/ /\ ~s.closed
       /\ \E raised \in {0} \cup (IF GuardsRaise /\ s.internal < InternalCapacity THEN {1} ELSE {}) :
             LET t == [s EXCEPT !.internal = @ + raised] IN
             \/ /\ impl' = [t EXCEPT !.repost = @ \/ none = "again"]
                /\ Goes(Executor, IF none = "again" THEN "driverEnds" ELSE none)
                /\ Quietly
             \/ /\ s.microsteps >= MicrostepLimit
                /\ latch_terminal_failure(Executor, t, "other", "driverEnds")
             \/ /\ s.microsteps < MicrostepLimit
                /\ impl' = [t EXCEPT !.microsteps = @ + 1, !.pending = TRUE, !.tasks = @ + 1]
                /\ Goes(Executor, "postMicrostep")
                /\ Quietly

MicrostepPosted ==
    /\ pc[Executor] = "postMicrostep"
    /\ open
    /\ queue' = Append(queue, "microstep")
    /\ Goes(Executor, "driverEnds")
    /\ UNCHANGED <<impl, host, resume, open, accepted, ingress, stops, reports, life>>

MicrostepRefused ==
    /\ pc[Executor] = "postMicrostep"
    /\ ~open
    /\ LET s == [impl EXCEPT !.pending = FALSE]
       IN  impl' = IF ~s.done /\ s.outcome \in {"CLOSE", "CANCEL"}
                   THEN clear_semantic_queues(finish_macrostep(s, CANCELLED)) ELSE s
    /\ pc' = [pc EXCEPT ![Executor] = "deliver"]
    /\ resume' = [resume EXCEPT ![Executor] = "unposted"]
    /\ Still

Unposted ==
    /\ pc[Executor] = "unposted"
    /\ LET s == [Unreserved(impl) EXCEPT !.microsteps = IF @ = 0 THEN 0 ELSE @ - 1]
       IN  IF s.closed THEN impl' = s /\ Goes(Executor, "driverEnds") /\ Quietly
           ELSE latch_terminal_failure(Executor, s, "other", "driverEnds")

(* run_host_transaction_runtime_hook: CONTINUE commits the events it raised     *)
HostHook(s, next) ==
    \/ /\ ~host
       /\ impl' = s
       /\ Goes(Executor, next)
       /\ Quietly
    \/ /\ host
       /\ s.outcome # "NONE"
       /\ impl' = s
       /\ Goes(Executor, "driverEnds")
       /\ Quietly
    \/ /\ host
       /\ s.outcome = "NONE"
       /\ \E raised \in 0..1 :
             /\ s.internal + raised <= InternalCapacity
             /\ impl' = [s EXCEPT !.internal = @ + raised]
       /\ Goes(Executor, next)
       /\ Quietly
    \/ host /\ latch_terminal_failure(Executor, s, "other", "driverEnds")

AfterDrain(s) == IF s.jumped THEN "admit" ELSE "eventless"

drain_root_completions ==
    /\ pc[Executor] = "drain"
    /\ LET s == [impl EXCEPT !.draining = @ /\ impl.complete] IN
       IF s.draining /\ s.completions # <<>>
       THEN HostHook([s EXCEPT !.completions = Tail(@)], "tryDrain")
       ELSE /\ impl' = [s EXCEPT !.draining = FALSE]
            /\ Goes(Executor, IF s.draining THEN "settle" ELSE AfterDrain(s))
            /\ Quietly
TryDrain == pc[Executor] = "tryDrain" /\ TryTrigger(impl, "drained")
Drained ==
    /\ pc[Executor] = "drained"
    /\ LET more == impl.complete /\ impl.completions # <<>>
       IN  /\ impl' = [impl EXCEPT !.draining = more, !.repost = @ \/ more]
           /\ Goes(Executor, IF more THEN "driverEnds" ELSE IF impl.complete THEN "settle" ELSE AfterDrain(impl))
    /\ Quietly

Eventless == pc[Executor] = "eventless" /\ TryTrigger(impl, "ready")

root_completion_ready(s) == s.complete /\ s.completions # <<>> /\ Head(s.completions) = "root"

(* a completed root is a boundary; otherwise internal events, adapter results   *)
(* and completions come first, in this order                                    *)
DriverPop ==
    /\ pc[Executor] = "ready"
    /\ IF root_completion_ready(impl)
       THEN impl' = [impl EXCEPT !.draining = TRUE] /\ Goes(Executor, "drain") /\ Quietly
       ELSE IF impl.internal # 0 THEN HostHook([impl EXCEPT !.internal = @ - 1], "tryInternal")
       ELSE IF impl.adapter # 0 THEN HostHook([impl EXCEPT !.adapter = @ - 1], "tryInternal")
       ELSE IF impl.completions # <<>> THEN HostHook([impl EXCEPT !.completions = Tail(@)], "tryInternal")
       ELSE IF impl.active THEN HostHook(impl, "quiet")
       ELSE UNCHANGED impl /\ Goes(Executor, "admit") /\ Quietly
TryInternal == pc[Executor] = "tryInternal" /\ TryTrigger(impl, "again")

Quiescent ==
    /\ pc[Executor] = "quiet"
    /\ LET work == impl.internal # 0 \/ impl.adapter # 0
       IN  /\ impl' = [impl EXCEPT !.repost = @ \/ work]
           /\ Goes(Executor, IF work THEN "driverEnds" ELSE "settleAgain")
    /\ Quietly

settle_quiescent_macrostep ==
    /\ pc[Executor] \in {"settle", "settleAgain"}
    /\ impl' = IF impl.outcome # "NONE" THEN impl
               ELSE IF impl.exiting THEN [impl EXCEPT !.repost = TRUE]
               ELSE IF impl.complete THEN win_terminal(impl, "DONE", "none", TRUE, OK)
               ELSE [settle_external(impl, OK) EXCEPT !.active = FALSE, !.microsteps = 0, !.skip = TRUE]
    /\ SideEffects(Executor, IF pc[Executor] = "settle" THEN "driverEnds" ELSE "settled")
    /\ Still
SettledAgain ==
    /\ pc[Executor] = "settled"
    /\ impl' = [impl EXCEPT !.repost = @ \/ ~impl.done]
    /\ Goes(Executor, "driverEnds")
    /\ Quietly

(* external_admission                                                           *)
Admit ==
    /\ pc[Executor] = "admit"
    /\ IF impl.adapter # 0
       THEN impl' = [impl EXCEPT !.skip = FALSE, !.repost = TRUE] /\ Goes(Executor, "driverEnds") /\ Quietly
       ELSE IF impl.outcome # "NONE"
       THEN UNCHANGED impl /\ Goes(Executor, "driverEnds") /\ Quietly
       ELSE IF impl.exiting        \* its mailbox is cancelled
       THEN latch_terminal_failure(Executor, impl, "mailbox", "driverEnds")
       ELSE IF impl.mailbox = <<>>
       THEN impl' = [impl EXCEPT !.skip = TRUE] /\ Goes(Executor, "driverEnds") /\ Quietly
       ELSE /\ impl' = [impl EXCEPT !.mailbox = Tail(@), !.inflight = Head(impl.mailbox),
                                    !.active = TRUE, !.microsteps = 0]
            /\ Goes(Executor, "observe")
            /\ Quietly
Observe == pc[Executor] = "observe" /\ HostHook(impl, "tryExternal")
HostDrops ==
    /\ pc[Executor] = "observe"
    /\ host
    /\ impl' = [impl EXCEPT !.dropped = TRUE, !.repost = TRUE]
    /\ Goes(Executor, "driverEnds")
    /\ Quietly
(* internal_work was read before the selection                                  *)
TryExternal ==
    /\ pc[Executor] = "tryExternal"
    /\ TryTrigger(impl, IF impl.internal # 0 \/ impl.adapter # 0 \/ host THEN "again" ELSE "settleAgain")

(* Mutant: the reservation is given back although the task is handed on         *)
DriverEndsReleased(s) == [s EXCEPT !.driver = FALSE, !.repost = FALSE, !.jumped = FALSE, !.tasks = @ - 1]
(* Mutant: the driver runs again only in the middle of a macrostep              *)
AgainActive(s) == s.repost /\ ~Settled(s) /\ ~s.pending /\ s.active
Again(s) == s.repost /\ ~Settled(s) /\ ~s.pending
DriverEnds(s) == [s EXCEPT !.driver = FALSE, !.repost = FALSE, !.jumped = FALSE]
statechart_driver_finalize ==
    /\ pc[Executor] = "driverEnds"
    /\ impl' = IF Again(impl) THEN DriverEnds(impl) ELSE Unreserved(DriverEnds(impl))
    /\ Goes(Executor, IF Again(impl) THEN "hand" ELSE "idle")
    /\ Quietly

---------------------------------------------------------------------------------
(* The microstep task                                                           *)

(* execute_microstep: its callbacks run, then it commits or finds itself        *)
(* cancelled; an action, the completion queue or the event queue may fail it    *)
execute_microstep ==
    /\ pc[Executor] = "microstep"
    /\ \/ /\ impl.outcome = "CANCEL"
          /\ impl' = [impl EXCEPT !.result = CANCELLED]
          /\ Goes(Executor, "microstepEnds")
          /\ Quietly
       \/ /\ impl.outcome # "CANCEL"
          /\ \E s \in Commits(impl) : Fits(s) /\ impl' = [s EXCEPT !.result = OK]
          /\ Goes(Executor, "microstepEnds")
          /\ Quietly
       \/ /\ impl' = [win_terminal(impl, "ERROR", "other", TRUE, FAILED) EXCEPT !.result = FAILED]
          /\ SideEffects(Executor, "microstepEnds")
          /\ Still

statechart_microstep_cancel ==
    /\ pc[Executor] = "microstep"
    /\ ~open
    /\ impl' = [win_terminal(impl, "ERROR", "other", TRUE, FAILED) EXCEPT
                   !.result = IF impl.outcome \in {"NONE", "ERROR"} THEN FAILED ELSE CANCELLED]
    /\ SideEffects(Executor, "microstepEnds")
    /\ Still

statechart_microstep_finalize ==
    /\ pc[Executor] = "microstepEnds"
    /\ LET s == IF impl.result = OK /\ impl.outcome = "NONE" THEN [impl EXCEPT !.repost = TRUE]
                ELSE IF impl.done THEN impl
                ELSE clear_semantic_queues(finish_macrostep(impl,
                        IF impl.outcome = "CLOSE" /\ impl.result = OK THEN OK ELSE CANCELLED))
           again == s.repost /\ ~Settled(s)
       IN  /\ impl' = [s EXCEPT !.pending = FALSE, !.repost = FALSE, !.result = OK]
           /\ pc' = [pc EXCEPT ![Executor] = "deliver"]
           /\ resume' = [resume EXCEPT ![Executor] = IF again THEN "hand" ELSE "release"]
    /\ Still

---------------------------------------------------------------------------------
(* The calls of other threads                                                   *)

(* init returns once the first quanta are over, or frees what failed            *)
InitReturns ==
    /\ life = "initializing"
    /\ impl.tasks = 0
    /\ life' = IF Errored(impl) THEN "freed" ELSE "live"
    /\ UNCHANGED <<impl, host, pc, resume, queue, open, accepted, ingress, stops, reports>>

Calls(t) == life = "live" /\ pc[t] = "idle"

try_send(t) ==
    /\ Calls(t)
    /\ accepted + ingress < MaxSends
    /\ ~impl.closed
    /\ Len(impl.mailbox) < ExternalCapacity
    /\ accepted' = accepted + 1
    /\ LET busy == impl.driver \/ impl.pending
       IN  /\ impl' = [impl EXCEPT !.mailbox = Append(@, accepted'), !.repost = @ \/ busy]
           /\ Goes(t, IF busy THEN "idle" ELSE "schedule")
    /\ UNCHANGED <<host, resume, queue, open, ingress, stops, reports, life>>

try_send_internal(t) ==
    /\ Calls(t)
    /\ accepted + ingress < MaxSends
    /\ ~impl.closed
    /\ ingress' = ingress + 1
    /\ impl' = [impl EXCEPT !.adapter = @ + 1, !.active = TRUE, !.skip = FALSE]
    /\ Goes(t, "schedule")
    /\ UNCHANGED <<host, resume, queue, open, accepted, stops, reports, life>>

Stopping(t) == Calls(t) /\ stops < MaxStops /\ stops' = stops + 1
Elsewhere == UNCHANGED <<host, queue, open, accepted, ingress, reports, life>>

close(t) ==
    /\ Stopping(t)
    /\ impl' = IF impl.exiting THEN impl ELSE win_terminal(impl, "CLOSE", "none", ~impl.pending, CANCELLED)
    /\ SideEffects(t, "idle")
    /\ Elsewhere

cancel(t) ==
    /\ Stopping(t)
    /\ impl' = win_terminal(impl, "CANCEL", "none", ~impl.pending, CANCELLED)
    /\ SideEffects(t, "idle")
    /\ Elsewhere

request_exit(t) ==
    /\ Stopping(t)
    /\ LET accepts == impl.outcome = "NONE" /\ ~impl.exiting
       IN  /\ impl' = IF accepts
                      THEN [cancel_external_admission(clear_semantic_queues(impl)) EXCEPT
                               !.exiting = TRUE, !.closed = TRUE]
                      ELSE impl
           /\ SideEffects(t, IF accepts THEN "schedule" ELSE "idle")
    /\ Elsewhere

(* the terminal adapter: attached, resumed into a wait, detached                *)
as_terminal_resumable(t) ==
    /\ Stopping(t)
    /\ ~impl.attached
    /\ impl' = [impl EXCEPT !.attached = TRUE, !.waiter = ~Settled(impl)]
    /\ UNCHANGED <<pc, resume>>
    /\ Elsewhere

terminal_detach(t) ==
    /\ Calls(t)
    /\ impl.attached
    /\ impl' = win_terminal(impl, "CANCEL", "none", ~impl.pending, CANCELLED)
    /\ SideEffects(t, "detach")
    /\ Still
Detached(t) ==
    /\ pc[t] = "detach"
    /\ impl' = [impl EXCEPT !.attached = FALSE, !.waiter = FALSE]
    /\ Goes(t, "idle")
    /\ Quietly

(* the other callers are done; destroy waits for the reserved tasks             *)
destroy ==
    /\ life = "live"
    /\ \A t \in Callers : pc[t] = "idle"
    /\ ~impl.attached
    /\ impl.tasks = 0
    /\ life' = "freed"
    /\ UNCHANGED <<impl, host, pc, resume, queue, open, accepted, ingress, stops, reports>>

Shutdown ==
    /\ open
    /\ open' = FALSE
    /\ UNCHANGED <<impl, host, pc, resume, queue, accepted, ingress, stops, reports, life>>

Next ==
    \/ TakeTask \/ DriverBegin \/ execute_initial_entry_actions \/ CheckExit \/ execute_controlled_exit
    \/ statechart_driver_cancel \/ drain_root_completions \/ TryDrain \/ Drained \/ Eventless \/ DriverPop
    \/ TryInternal \/ Quiescent \/ settle_quiescent_macrostep \/ SettledAgain
    \/ Admit \/ Observe \/ HostDrops \/ TryExternal \/ statechart_driver_finalize
    \/ MicrostepPosted \/ MicrostepRefused \/ Unposted
    \/ execute_microstep \/ statechart_microstep_cancel \/ statechart_microstep_finalize
    \/ \E t \in Threads :
          \/ finish_terminal_side_effects(t) \/ DeliverEnter(t) \/ DeliverOne(t) \/ DeliverLeave(t)
          \/ schedule_statechart_driver(t) \/ DriverPosted(t) \/ DriverRefused(t) \/ release_instance_task(t)
    \/ \E t \in Callers :
          \/ try_send(t) \/ try_send_internal(t) \/ close(t) \/ cancel(t) \/ request_exit(t)
          \/ as_terminal_resumable(t) \/ terminal_detach(t) \/ Detached(t)
    \/ InitReturns \/ destroy \/ Shutdown

Spec == Init /\ [][Next]_vars

---------------------------------------------------------------------------------
Ids(rs) == [i \in 1..Len(rs) |-> rs[i].id]

(* Every accepted event is in exactly one place, and the places hold them in    *)
(* the order of admission: reported, about to be, in flight, cancelled, queued. *)
(* So each is reported once and in order (statechart_instance.h:317-320).       *)
SettledInOrder ==
    Ids(reports) \o Ids(impl.slot) \o (IF impl.inflight = 0 THEN <<>> ELSE <<impl.inflight>>)
        \o impl.cancelled \o impl.mailbox = [i \in 1..accepted |-> i]

(* Nothing accepted waits for a driver nobody will run: an event, an adapter    *)
(* result or an exit request has a driver scheduled, a microstep pending, or a  *)
(* thread that is about to schedule one.                                        *)
Bound(t) ==
    \/ pc[t] \in {"schedule", "hand", "post", "handPost"}
    \/ resume[t] \in {"schedule", "hand"} /\ pc[t] \in {"side", "deliver", "delivering"}
DriverOwed ==
    /\ ~Settled(impl)
    /\ impl.mailbox # <<>> \/ impl.adapter # 0 \/ impl.exiting \/ impl.outcome # "NONE"
    => impl.driver \/ impl.pending \/ \E t \in Threads : Bound(t)

(* cflow_statechart_instance_destroy waits for the reserved tasks: a freed      *)
(* instance has no task queued, running or about to be posted.                  *)
FreedQuiet ==
    life = "freed" => queue = <<>> /\ \A t \in Threads : pc[t] = "idle"

(* statechart_instance.h:552-557, request_exit: "asynchronously execute every   *)
(* active state's exit actions on the owning SerialExecutor before reaching the *)
(* cancelled terminal state".  The request never ends in a driver that fails    *)
(* the instance because it found its mailbox cancelled.                         *)
ExitHonoured == impl.cause # "mailbox"
=================================================================================
