-------------------------- MODULE StreamExecution --------------------------
(* cflow/src/stream_execution.c: one asynchronous collection of a stream.  The *)
(* control owner starts, cancels, waits for and destroys the execution while   *)
(* a worker pumps the source into a collector (cmeta/include/cmeta/collector.h) *)
(* whose target the caller lent.  The collector is used outside the gate; what  *)
(* was seen of it is published under the gate afterwards.                       *)
EXTENDS Integers, Sequences

CONSTANTS Sources,   \* the streams: how many values, and how the source ends
          Limit,     \* the collector's limit
          Starts     \* the bound on the executions of one target

VARIABLES shown,     \* the handle: on, and the state, status and count under the gate
          collector, \* its state, status and count
          target,    \* what the collector's operations made of the caller's container
          run,       \* the subscription: its life, its pump, and what the source has left
          control,   \* the owner's call and its next step
          source     \* the stream that is collected, and how many were begun

vars == <<shown, collector, target, run, control, source>>

Zero == [state |-> "ZERO", status |-> "ok", count |-> 0]
Untouched == [open |-> FALSE, got |-> 0, kept |-> FALSE]
Absent == [on |-> FALSE, state |-> "ZERO", status |-> "ok", count |-> 0]
NoRun == [life |-> "none", pump |-> "idle", left |-> 0]
Idle == [call |-> "none", at |-> "idle", by |-> "owner"]

Init ==
    /\ shown = Absent /\ collector = Zero /\ target = Untouched
    /\ run = NoRun /\ control = Idle
    /\ source = [values |-> 0, end |-> "done", used |-> 0]

At(call, at) == control.call = call /\ control.at = at
Goto(at) == control' = [control EXCEPT !.at = at]
stream_execution_terminal(s) == s \in {"COMPLETED", "FAILED", "CANCELLED"}

-----------------------------------------------------------------------------
(* The collector's operations.  A failure keeps the first status and, unless    *)
(* the transaction is over, hands the target back destroyed.                    *)
Over == collector.state \in {"COMMITTED", "ABORTED"}
Live == collector.state \in {"BEGUN", "ACCEPTING"}

cmeta_collector_fail(status) ==
    /\ collector' = [collector EXCEPT !.status = IF @ = "ok" THEN status ELSE @,
                                      !.state = IF Over THEN @ ELSE "ABORTED"]
    /\ target' = IF Over THEN target ELSE Untouched

cmeta_collector_begin ==
    \/ /\ collector' = [collector EXCEPT !.state = "BEGUN"]
       /\ target' = [target EXCEPT !.open = TRUE]
    \/ cmeta_collector_fail("failed")

cmeta_collector_accept ==
    \/ /\ Live /\ collector.count < Limit
       /\ collector' = [collector EXCEPT !.count = @ + 1, !.state = "ACCEPTING"]
       /\ target' = [target EXCEPT !.got = @ + 1]
    \/ Live /\ cmeta_collector_fail(IF collector.count >= Limit THEN "capacity" ELSE "failed")

cmeta_collector_finish ==
    \/ /\ Live
       /\ collector' = [collector EXCEPT !.state = "COMMITTED"]
       /\ target' = [target EXCEPT !.kept = TRUE]
    \/ Live /\ cmeta_collector_fail("failed")

(* Mutant: an abort that comes behind the commit still destroys the target.     *)
cmeta_collector_abortLate ==
    /\ collector' = IF collector.state # "ZERO" THEN [collector EXCEPT !.state = "ABORTED"] ELSE collector
    /\ target' = IF collector.state # "ZERO" THEN Untouched ELSE target

cmeta_collector_abort ==
    /\ collector' = IF Live THEN [collector EXCEPT !.state = "ABORTED"] ELSE collector
    /\ target' = IF Live THEN Untouched ELSE target

-----------------------------------------------------------------------------
(* start(): each step that is refused rolls the ones before it back.            *)
cflow_stream_execution_start(stream) ==
    /\ control = Idle /\ ~shown.on
    /\ source.used < Starts /\ target = Untouched
    /\ source' = [values |-> stream.values, end |-> stream.end, used |-> source.used + 1]
    /\ collector' = Zero
    /\ shown' = [Absent EXCEPT !.on = TRUE, !.state = "RUNNING"]
    /\ control' = [Idle EXCEPT !.call = "start", !.at = "normalize"]
    /\ UNCHANGED <<target, run>>

Refused == Goto("rollback") /\ UNCHANGED <<shown, collector, target, run, source>>

(* cflow_graph_normalize and cflow_publisher_from_range_checked.                *)
Prepare ==
    /\ At("start", "normalize")
    /\ \/ Goto("begin") /\ UNCHANGED <<shown, collector, target, run, source>>
       \/ Refused

Begin ==
    /\ At("start", "begin")
    /\ cmeta_collector_begin
    /\ Goto(IF collector'.state = "BEGUN" THEN "subscribe" ELSE "rollback")
    /\ UNCHANGED <<shown, run, source>>

cflow_subscribe ==
    /\ At("start", "subscribe")
    /\ \/ /\ run' = [NoRun EXCEPT !.life = "open", !.left = source.values]
          /\ Goto("request")
          /\ UNCHANGED <<shown, collector, target, source>>
       \/ Refused

(* The worker may pump before the owner has returned from the request.          *)
cflow_subscription_request ==
    /\ At("start", "request")
    /\ \/ /\ run' = [run EXCEPT !.life = "flowing"]
          /\ control' = Idle
          /\ UNCHANGED <<shown, collector, target, source>>
       \/ Refused

(* The subscription is closed, the collector is aborted and the shell is freed. *)
stream_execution_rollback ==
    /\ At("start", "rollback") /\ run.pump = "idle"
    /\ cmeta_collector_abort
    /\ run' = NoRun /\ shown' = Absent /\ control' = Idle
    /\ UNCHANGED source

-----------------------------------------------------------------------------
(* The pump: one unit at a time, none once the subscription is to be closed.    *)
PumpTake ==
    /\ run.life = "flowing" /\ run.pump = "idle"
    /\ run' = IF run.left > 0 THEN [run EXCEPT !.pump = "value", !.left = @ - 1]
              ELSE [run EXCEPT !.pump = source.end]
    /\ UNCHANGED <<shown, collector, target, control, source>>

Accept ==
    /\ run.pump = "value"
    /\ cmeta_collector_accept
    /\ run' = [run EXCEPT !.pump = "accepted"]
    /\ UNCHANGED <<shown, control, source>>

Seen == [shown EXCEPT !.status = collector.status, !.count = collector.count]
Ended == [run EXCEPT !.pump = "idle", !.life = IF @ = "closing" THEN @ ELSE "ended"]

(* A value the collector refused fails the run.                                 *)
stream_execution_sink_value ==
    /\ run.pump = "accepted"
    /\ shown' = Seen
    /\ run' = [run EXCEPT !.pump = IF collector.status = "ok" THEN "idle" ELSE "error"]
    /\ UNCHANGED <<collector, target, control, source>>

stream_execution_sink_error ==
    /\ run.pump = "error"
    /\ IF collector.status = "ok" THEN cmeta_collector_fail("callback") ELSE UNCHANGED <<collector, target>>
    /\ run' = [run EXCEPT !.pump = "failed"]
    /\ UNCHANGED <<shown, control, source>>

(* Mutant: the state is overwritten whatever it is.                             *)
PublishOver(s, state) == [s EXCEPT !.state = state]

(* The first terminal state stays.                                              *)
Publish(s, state) == [s EXCEPT !.state = IF @ = "RUNNING" THEN state ELSE @]

stream_execution_publish_failure ==
    /\ run.pump = "failed"
    /\ shown' = Publish(Seen, "FAILED")
    /\ run' = Ended
    /\ UNCHANGED <<collector, target, control, source>>

Finish ==
    /\ run.pump = "done"
    /\ cmeta_collector_finish
    /\ run' = [run EXCEPT !.pump = "finished"]
    /\ UNCHANGED <<shown, control, source>>

stream_execution_sink_done ==
    /\ run.pump = "finished"
    /\ shown' = Publish(Seen, IF collector.state = "COMMITTED" THEN "COMPLETED" ELSE "FAILED")
    /\ run' = Ended
    /\ UNCHANGED <<collector, target, control, source>>

(* A worker scheduler that refuses the next pump fails the run.                 *)
PumpRefused ==
    /\ run.life = "flowing" /\ run.pump = "idle"
    /\ run' = [run EXCEPT !.pump = "error"]
    /\ UNCHANGED <<shown, collector, target, control, source>>

-----------------------------------------------------------------------------
(* Mutant: a callback of the execution may control it.                          *)
WouldBlockNever(caller) == FALSE

(* active_stream_execution, cflow_subscription_active_on_current_thread.        *)
WouldBlock(caller) == caller = "callback"

Called(caller) ==
    /\ shown.on /\ control = Idle
    /\ caller = "callback" => run.pump # "idle"
    /\ ~WouldBlock(caller)

(* cancel() samples the state and closes the subscription either way.           *)
cflow_stream_execution_cancel(caller) ==
    /\ Called(caller)
    /\ control' = [call |-> IF stream_execution_terminal(shown.state) THEN "release" ELSE "cancel", at |-> "close", by |-> caller]
    /\ UNCHANGED <<shown, collector, target, run, source>>

(* destroy() cancels an execution that runs, and closes again.                  *)
cflow_stream_execution_destroy(caller) ==
    /\ Called(caller)
    /\ control' = [call |-> IF shown.state = "RUNNING" THEN "destroy" ELSE "free", at |-> "close", by |-> caller]
    /\ UNCHANGED <<shown, collector, target, run, source>>

(* wait() returns when the state is terminal; it changes nothing.               *)
cflow_stream_execution_wait(caller) ==
    /\ Called(caller)
    /\ control' = [call |-> "wait", at |-> "wait", by |-> caller]
    /\ UNCHANGED <<shown, collector, target, run, source>>

WaitReturns ==
    /\ At("wait", "wait") /\ stream_execution_terminal(shown.state)
    /\ control' = Idle
    /\ UNCHANGED <<shown, collector, target, run, source>>

CloseBegin ==
    /\ control.at = "close"
    /\ run' = IF run.life = "flowing" THEN [run EXCEPT !.life = "closing"] ELSE run
    /\ Goto("closing")
    /\ UNCHANGED <<shown, collector, target, source>>

(* Mutant: the close does not wait for the pump.                                *)
QuietAlways == TRUE

(* cflow_subscription_close() waits for the pump's callback to return.          *)
Quiet == run.pump = "idle"

CloseEnd ==
    /\ control.at = "closing" /\ Quiet
    /\ run' = [NoRun EXCEPT !.pump = run.pump]
    /\ control' = IF control.call = "release" THEN Idle
                  ELSE [control EXCEPT !.at = IF control.call = "free" THEN "free" ELSE "abort"]
    /\ UNCHANGED <<shown, collector, target, source>>

stream_execution_collector_abort ==
    /\ control.at = "abort"
    /\ cmeta_collector_abort
    /\ Goto("publish")
    /\ UNCHANGED <<shown, run, source>>

PublishCancelled ==
    /\ control.at = "publish"
    /\ shown' = Publish(Seen, "CANCELLED")
    /\ control' = IF control.call = "destroy" THEN [control EXCEPT !.call = "free", !.at = "close"] ELSE Idle
    /\ UNCHANGED <<collector, target, run, source>>

stream_execution_shell_destroy ==
    /\ control.at = "free"
    /\ shown' = Absent /\ control' = Idle
    /\ UNCHANGED <<collector, target, run, source>>

(* The caller, whose container it is again, empties it.                         *)
CallerTakes ==
    /\ ~shown.on /\ target.kept
    /\ target' = Untouched
    /\ UNCHANGED <<shown, collector, run, control, source>>

Next ==
    \/ \E stream \in Sources : cflow_stream_execution_start(stream)
    \/ Prepare \/ Begin \/ cflow_subscribe \/ cflow_subscription_request \/ stream_execution_rollback
    \/ PumpTake \/ Accept \/ stream_execution_sink_value
    \/ stream_execution_sink_error \/ stream_execution_publish_failure
    \/ Finish \/ stream_execution_sink_done \/ PumpRefused
    \/ \E caller \in {"owner", "callback"} :
        \/ cflow_stream_execution_cancel(caller)
        \/ cflow_stream_execution_destroy(caller)
        \/ cflow_stream_execution_wait(caller)
    \/ WaitReturns
    \/ CloseBegin \/ CloseEnd \/ stream_execution_collector_abort \/ PublishCancelled
    \/ stream_execution_shell_destroy \/ CallerTakes

Spec == Init /\ [][Next]_vars

-----------------------------------------------------------------------------
Whole == [open |-> TRUE, got |-> source.values, kept |-> TRUE]

(* All or nothing: the target holds the whole stream exactly when COMPLETED is  *)
(* published, and nothing once the execution failed, was cancelled or was       *)
(* refused; what is published agrees with the collector by then.                *)
TargetWhole ==
    /\ shown.state = "COMPLETED" => target = Whole /\ source.end = "done"
    /\ shown.state \in {"FAILED", "CANCELLED"} => target = Untouched
    /\ ~shown.on => target \in {Untouched, Whole}
    /\ stream_execution_terminal(shown.state) =>
        /\ Over
        /\ shown.status = collector.status /\ shown.count = collector.count
        /\ shown.state = "COMPLETED" <=> collector.state = "COMMITTED"
        /\ shown.state = "FAILED" => shown.status # "ok"

(* No callback of the pump runs while the collector is aborted from outside, or *)
(* once the shell, which holds it, is freed; and none waits for its own return. *)
CallbacksBarred ==
    /\ run.pump # "idle" => shown.on /\ run.life \in {"flowing", "closing"}
    /\ control.at \in {"abort", "publish", "free", "rollback"} => run.pump = "idle"
    /\ control.by = "callback" /\ run.pump # "idle" => control.at \notin {"closing", "wait"}
=============================================================================
