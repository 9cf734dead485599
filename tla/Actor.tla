-------------------------------- MODULE Actor --------------------------------
(* An actor (cflow/src/actor.c): a machine or statechart instance, the run   *)
(* that pumps it, and a control block shared with producers.  impl->gate is  *)
(* held for one action; the runtime, the run, wakers and user callbacks are  *)
(* called without it.  The runtime and the run appear by what the actor sees *)
(* of them: MachineInstance and Subscription model their insides.            *)
EXTENDS Naturals, FiniteSets

CONSTANTS
    Stoppers,     \* threads that request a stop and wait
    Senders,      \* producer handles, each with its thread
    MaxSends      \* bound

VARIABLES
    natural,          \* runtime_ops->natural_done_is_success (statecharts)
    state,            \* START, RUNNING, STOPPING, STOPPED, FAILED
    terminal_settled, stale, starting, pending_wakes, refs,
    runtime,          \* OPEN, DONE, ERROR, GONE: what poll_terminal answers
    closing,          \* the runtime was asked to close
    demanded,         \* the run has demand
    run,              \* NONE, OPEN, ENDED (a terminal is being delivered or was), CLOSED
    own,              \* where the owner is in start or destroy
    stop,             \* stop[t]: a stopper inside request_stop or back from wait
    held,             \* senders that hold a reference
    send,             \* send[s]: a sender inside try_send
    sends,            \* sends so far
    work, settle,     \* the worker in the run's sink, and its local settle
    told              \* terminal callbacks the user has got

vars == <<natural, state, terminal_settled, stale, starting, pending_wakes, refs, runtime, closing,
          demanded, run, own, stop, held, send, sends, work, settle, told>>

life == <<state, terminal_settled, starting>>
producers == <<held, send, sends, pending_wakes, refs>>
sink == <<work, settle, told>>
engine == <<runtime, closing, demanded, run>>

Terminal == {"STOPPED", "FAILED"}

(* cflow_actor_init, cflow_statechart_actor_init: an initial state may       *)
(* already be final or an error.                                             *)
Init ==
    /\ natural \in BOOLEAN
    /\ state = "START" /\ terminal_settled = FALSE /\ stale = FALSE /\ starting = FALSE
    /\ pending_wakes = 0 /\ refs = 1
    /\ runtime \in {"OPEN", "DONE", "ERROR"} /\ closing = FALSE /\ demanded = FALSE
    /\ run = "NONE" /\ own = "idle"
    /\ stop = [t \in Stoppers |-> "idle"]
    /\ held = {} /\ send = [s \in Senders |-> "idle"] /\ sends = 0
    /\ work = "idle" /\ settle = FALSE /\ told = {}

Cancelled == IF runtime = "OPEN" THEN "DONE" ELSE runtime

(* actor_mark_failed up to the unlock and the cancel that follows it; first  *)
(* tells whether this call failed the actor.                                 *)
First == state \notin Terminal
mark_failed ==
    /\ starting' = FALSE
    /\ state' = IF First THEN "FAILED" ELSE state
    /\ terminal_settled' = IF First THEN FALSE ELSE terminal_settled
    /\ runtime' = IF First THEN Cancelled ELSE runtime
-----------------------------------------------------------------------------
(* cflow_actor_start, on the owner's thread.                                 *)
StartBegin ==
    /\ own = "idle" /\ state = "START"
    /\ starting' = TRUE /\ state' = "RUNNING"
    /\ own' = "attach"
    /\ UNCHANGED <<natural, terminal_settled, stale, engine, stop, producers, sink>>

(* as_source and subscribe, which binds the terminal waker.                  *)
StartAttach ==
    /\ own = "attach"
    /\ \/ run' = "OPEN" /\ own' = "opened"
       \/ own' = "failed" /\ UNCHANGED run
    /\ UNCHANGED <<natural, life, stale, runtime, closing, demanded, stop, producers, sink>>

StartOpened ==
    /\ own = "opened"
    /\ starting' = FALSE
    /\ own' = "request"
    /\ UNCHANGED <<natural, state, terminal_settled, stale, engine, stop, producers, sink>>

(* cflow_subscription_request: refused by a run that has ended or by a       *)
(* scheduler that does not take the pump, unless the terminal waker already  *)
(* has it scheduled.                                                         *)
StartRequest ==
    /\ own = "request"
    /\ \/ run = "OPEN" /\ demanded' = TRUE /\ own' = "idle"
       \/ /\ run # "OPEN" \/ runtime = "OPEN"
          /\ own' = "refused" /\ UNCHANGED demanded
    /\ UNCHANGED <<natural, life, stale, runtime, closing, run, stop, producers, sink>>

StartRefused ==
    /\ own = "refused"
    /\ own' = IF state = "STOPPED" THEN "closeRun" ELSE "failedLate"
    /\ UNCHANGED <<natural, life, stale, engine, stop, producers, sink>>

StartFails ==
    /\ own \in {"failed", "failedLate"}
    /\ mark_failed
    /\ own' = IF First THEN IF own = "failed" THEN "settleFailed" ELSE "settleLate"
              ELSE IF own = "failed" THEN "idle" ELSE "closeRun"
    /\ UNCHANGED <<natural, stale, closing, demanded, run, stop, producers, sink>>

StartSettles ==
    /\ own \in {"settleFailed", "settleLate", "settleStart"}
    /\ terminal_settled' = TRUE
    /\ own' = IF own = "settleLate" THEN "closeRun" ELSE "idle"
    /\ UNCHANGED <<natural, state, starting, stale, engine, stop, producers, sink>>

(* cflow_subscription_close returns once no callback of the run is active    *)
(* and none can begin.                                                       *)
CloseRun(next) ==
    /\ work = "idle"
    /\ run' = IF run = "NONE" THEN "NONE" ELSE "CLOSED"
    /\ runtime' = IF run = "NONE" THEN runtime ELSE Cancelled
    /\ own' = next
    /\ UNCHANGED <<natural, life, stale, closing, demanded, stop, producers, sink>>

StartCloses == own = "closeRun" /\ CloseRun("settleStart")
-----------------------------------------------------------------------------
(* The owner's handle is shared by owner-side threads; destroy is serialised *)
(* with all of them.                                                         *)
OwnerSide == own # "gone" /\ ~stale

cflow_actor_request_stop(t) ==
    /\ OwnerSide /\ stop[t] = "idle"
    /\ state \in {"START", "RUNNING"}
    /\ state' = IF state = "START" THEN "STOPPED" ELSE "STOPPING"
    /\ terminal_settled' = (terminal_settled \/ state = "START")
    /\ stop' = [stop EXCEPT ![t] = "close"]
    /\ UNCHANGED <<natural, starting, stale, engine, own, producers, sink>>

StopCloses(t) ==
    /\ stop[t] = "close"
    /\ closing' = TRUE
    /\ stop' = [stop EXCEPT ![t] = "idle"]
    /\ UNCHANGED <<natural, life, stale, runtime, demanded, run, own, producers, sink>>

cflow_actor_wait(t) ==
    /\ OwnerSide /\ stop[t] = "idle"
    /\ state \in Terminal /\ terminal_settled
    /\ stop' = [stop EXCEPT ![t] = "waited"]
    /\ UNCHANGED <<natural, life, stale, engine, own, producers, sink>>
-----------------------------------------------------------------------------
(* The runtime ends when it was closed, or as its events make it, which      *)
(* takes demand; its terminal waker makes a worker deliver the end.          *)
RuntimeEnds(how) ==
    /\ runtime = "OPEN"
    /\ demanded \/ (how = "DONE" /\ closing)
    /\ runtime' = how
    /\ UNCHANGED <<natural, life, stale, closing, demanded, run, own, stop, producers, sink>>

RunEnds ==
    /\ run = "OPEN" /\ runtime \in {"DONE", "ERROR"} /\ work = "idle"
    /\ run' = "ENDED"
    /\ work' = IF runtime = "ERROR" THEN "error" ELSE "done"
    /\ UNCHANGED <<natural, life, stale, runtime, closing, demanded, own, stop, producers, settle, told>>

(* A wake or a repost that the scheduler refuses ends the run with an error. *)
RunFails ==
    /\ run = "OPEN" /\ (demanded \/ runtime # "OPEN") /\ work = "idle"
    /\ run' = "ENDED" /\ work' = "error"
    /\ UNCHANGED <<natural, life, stale, runtime, closing, demanded, own, stop, producers, settle, told>>

actor_sink_error ==
    /\ work = "error"
    /\ mark_failed
    /\ settle' = First
    /\ work' = "on_error" /\ told' = told \cup {"on_error"}
    /\ UNCHANGED <<natural, stale, closing, demanded, run, own, stop, producers>>

(* An unexpected end of a machine fails the actor, the others stop it.       *)
actor_sink_done ==
    /\ work = "done"
    /\ LET stops == state = "STOPPING" \/ (state = "RUNNING" /\ natural)
           fails == state = "RUNNING" /\ ~natural
       IN  /\ state' = IF stops THEN "STOPPED" ELSE IF fails THEN "FAILED" ELSE state
           /\ terminal_settled' = IF stops \/ fails THEN FALSE ELSE terminal_settled
           /\ settle' = (stops \/ fails)
           /\ runtime' = IF fails THEN Cancelled ELSE runtime
           /\ work' = IF stops THEN "on_done" ELSE IF fails THEN "on_error" ELSE "idle"
           /\ told' = told \cup ({work'} \cap {"on_done", "on_error"})
    /\ UNCHANGED <<natural, starting, stale, closing, demanded, run, own, stop, producers>>

CallbackReturns ==
    /\ work \in {"on_done", "on_error"}
    /\ work' = IF settle THEN "settle" ELSE "idle"
    /\ UNCHANGED <<natural, life, stale, engine, own, stop, producers, settle, told>>

WorkerSettles ==
    /\ work = "settle"
    /\ terminal_settled' = TRUE
    /\ work' = "idle"
    /\ UNCHANGED <<natural, state, starting, stale, engine, own, stop, producers, settle, told>>
-----------------------------------------------------------------------------
(* Producer references: acquired from the owner's handle or retained from    *)
(* another reference, and released; the last one frees the control block.    *)
RefAcquire(s) ==
    /\ s \notin held /\ send[s] = "idle"
    /\ (OwnerSide \/ held # {}) /\ refs > 0
    /\ held' = held \cup {s} /\ refs' = refs + 1
    /\ UNCHANGED <<natural, life, stale, pending_wakes, engine, own, stop, send, sends, sink>>

RefRelease(s) ==
    /\ s \in held /\ send[s] = "idle"
    /\ held' = held \ {s} /\ refs' = refs - 1
    /\ UNCHANGED <<natural, life, stale, pending_wakes, engine, own, stop, send, sends, sink>>

Admits == ~stale /\ ~starting /\ state = "RUNNING"

(* try_send under the gate: the mailbox may detach the runtime's waker, and  *)
(* the reservation keeps destroy away until it has been invoked.             *)
TrySend(s, detaches) ==
    /\ s \in held /\ send[s] = "idle" /\ sends < MaxSends
    /\ Admits
    /\ sends' = sends + 1
    /\ send' = [send EXCEPT ![s] = IF detaches THEN "wake" ELSE "idle"]
    /\ pending_wakes' = pending_wakes + (IF detaches THEN 1 ELSE 0)
    /\ UNCHANGED <<natural, life, stale, engine, own, stop, held, refs, sink>>

SendWoken(s) ==
    /\ send[s] = "wake"
    /\ send' = [send EXCEPT ![s] = "idle"]
    /\ pending_wakes' = pending_wakes - 1
    /\ UNCHANGED <<natural, life, stale, engine, own, stop, held, sends, refs, sink>>
-----------------------------------------------------------------------------
(* cflow_actor_destroy.                                                      *)
DestroyBegin ==
    /\ own = "idle" /\ \A t \in Stoppers : stop[t] # "close"
    /\ stale' = TRUE
    /\ state' = CASE state = "START" -> "STOPPED" [] state = "RUNNING" -> "STOPPING" [] OTHER -> state
    /\ own' = "barrier"
    /\ UNCHANGED <<natural, starting, terminal_settled, engine, stop, producers, sink>>

(* Mutant: destroy does not wait for wakes that are on their way.            *)
BarrierOpen == TRUE

Barrier == pending_wakes = 0

DestroyCloses ==
    /\ own = "barrier" /\ Barrier
    /\ closing' = TRUE
    /\ own' = "destroyRun"
    /\ UNCHANGED <<natural, life, stale, runtime, demanded, run, stop, producers, sink>>

DestroyRun == own = "destroyRun" /\ CloseRun("destroyRuntime")

DestroyRuntime ==
    /\ own = "destroyRuntime"
    /\ runtime' = "GONE"
    /\ own' = "final"
    /\ UNCHANGED <<natural, life, stale, closing, demanded, run, stop, producers, sink>>

DestroyFinal ==
    /\ own = "final"
    /\ state' = IF state = "FAILED" THEN "FAILED" ELSE "STOPPED"
    /\ terminal_settled' = TRUE
    /\ own' = "gone" /\ refs' = refs - 1
    /\ UNCHANGED <<natural, starting, stale, engine, stop, held, send, sends, pending_wakes, sink>>

Next ==
    \/ StartBegin \/ StartAttach \/ StartOpened \/ StartRequest \/ StartRefused
    \/ StartFails \/ StartSettles \/ StartCloses
    \/ \E t \in Stoppers : cflow_actor_request_stop(t) \/ StopCloses(t) \/ cflow_actor_wait(t)
    \/ RuntimeEnds("DONE") \/ RuntimeEnds("ERROR") \/ RunEnds \/ RunFails
    \/ actor_sink_error \/ actor_sink_done \/ CallbackReturns \/ WorkerSettles
    \/ \E s \in Senders : RefAcquire(s) \/ RefRelease(s) \/ SendWoken(s) \/ \E d \in BOOLEAN : TrySend(s, d)
    \/ DestroyBegin \/ DestroyCloses \/ DestroyRun \/ DestroyRuntime \/ DestroyFinal

Spec == Init /\ [][Next]_vars
-----------------------------------------------------------------------------
Waited == \E t \in Stoppers : stop[t] = "waited"
Calling == work \in {"error", "done", "on_error", "on_done"}

(* The user hears of one end, the one the state shows; and a settled actor   *)
(* that nobody is starting any more has nothing left to tell.                *)
TerminalOnce ==
    /\ Cardinality(told) <= 1
    /\ "on_done" \in told => state = "STOPPED"
    /\ "on_error" \in told => state = "FAILED"
    /\ terminal_settled /\ own \in {"idle", "gone"} => state \in Terminal /\ ~Calling

(* destroy leaves nothing behind that runs in the runtime: no callback of    *)
(* the run, no waker on its way; and the control block lives exactly as long *)
(* as a handle to it.                                                        *)
RuntimeQuiet ==
    /\ runtime = "GONE" => /\ run \in {"NONE", "CLOSED"} /\ work = "idle"
                           /\ \A s \in Senders : send[s] = "idle"
    /\ refs = Cardinality(held) + (IF own = "gone" THEN 0 ELSE 1)

(* "Block until STOPPED or FAILED and the terminal user callback             *)
(* (on_done/on_error, if any) has returned"                                  *)
(* (cflow/include/cflow/actor.h:158-160).                                    *)
WaitQuiesces == Waited => work \notin {"on_done", "on_error"}
=============================================================================
