------------------------------ MODULE IoClients ------------------------------
(* What stands on the io actor: the publisher of a window of operations, and  *)
(* the asynchronous files.                                                    *)
EXTENDS Integers, Sequences, FiniteSets, FiniteSetsExt, SequencesExt

CONSTANTS
    Windows,        \* the capacities a publisher is built with
    MaxOperations,  \* operations prepare hands out
    Encodings,      \* what encode may make of a completion
    Files, Producers,
    FileCapacity, SlotCapacity, CommandCapacity,
    MaxRequests, MaxFaults

VARIABLES
    window, manual,    \* window_capacity; no drive callback is configured
    entries, occupied, demand, results,
    submission, prepare_done, seen, terminal, close_requested, publisher_live, owner_live,
    source_waker, wake_inflight, woken,
    driver_active, drive_pending, drive_inflight, asked, again,
    actor,             \* lease |-> id and stage of the request in the actor
    admission, tasks,  \* the actor is open; dispatched deliveries
    pc, cancelling,
    slot, held,        \* the pump's entry; what the driver has in hand
    issued, delivered, emitted,
    slots,             \* the operation slots
    open, closing,     \* files that count as open; close_requested per file
    runtime,           \* "open", "closing" (close_requested), "destroyed"
    driver,            \* driver_active and the driver's place
    producer,          \* where every producer is: step, slot, file, id
    control,           \* where the control thread is
    actor_closed, commands,
    native,            \* the native handles that are open
    calls,             \* id |-> files its completion was called for
    full,              \* files whose last close returned SALTS_ENOBUFS
    faults

-----------------------------------------------------------------------------
(* The publisher over an IO actor (cflow/src/io_publisher.c), sequential or   *)
(* windowed: a subscription's pump resumes and waits, one owner drives the    *)
(* actor and its manual executor, a backend completes, anyone may cancel.     *)
(* The actor is what IoActor promises of it: a slot per lease, an id per      *)
(* request.  Every action is one hold of the gate or a call made outside it.  *)

window_vars == <<window, manual, entries, occupied, demand, results, submission, prepare_done, seen, terminal, close_requested,
          publisher_live, owner_live, source_waker, wake_inflight, woken, driver_active, drive_pending, drive_inflight,
          asked, again, actor, admission, tasks, pc, cancelling, held, slot, issued, delivered, emitted>>

Pump == "pump"
Driver == "driver"
Canceller == "canceller"
Backend == "backend"
Threads == {Pump, Driver, Canceller, Backend}
None == "none"
windowed == window > 1
Entries == 1 .. window
FreeEntry == [used |-> FALSE, encoding |-> FALSE, ready |-> None, order |-> 0, delivered |-> FALSE, acked |-> FALSE,
              reserved |-> FALSE, request |-> 0]
Vacant == [id |-> 0, stage |-> None]
NoHold == [entry |-> 0, id |-> 0, back |-> None, moved |-> FALSE, ran |-> FALSE, serial |-> FALSE]

WindowInit ==
    /\ window \in Windows /\ manual \in BOOLEAN
    /\ entries = [i \in Entries |-> FreeEntry] /\ occupied = 0 /\ demand = 0 /\ results = 0
    /\ submission = FALSE /\ prepare_done = FALSE /\ seen = FALSE /\ terminal = "OPEN"
    /\ close_requested = FALSE /\ publisher_live = TRUE /\ owner_live = TRUE
    /\ source_waker = FALSE /\ wake_inflight = 0 /\ woken = FALSE
    /\ driver_active = FALSE /\ drive_pending = FALSE /\ drive_inflight = 0 /\ asked = FALSE /\ again = FALSE
    /\ actor = [i \in Entries |-> Vacant] /\ admission = TRUE /\ tasks = <<>>
    /\ pc = [t \in Threads |-> IF t = Pump THEN "resume" ELSE "idle"]
    /\ cancelling = [t \in Threads |-> None]
    /\ held = NoHold /\ slot = 0
    /\ issued = 0 /\ delivered = <<>> /\ emitted = <<>>

config == <<window, manual>>
books == <<entries, occupied, demand, results>>
window_control == <<submission, prepare_done, seen, terminal>>
lives == <<close_requested, publisher_live, owner_live>>
wakes == <<source_waker, wake_inflight, woken>>
drives == <<driver_active, drive_pending, drive_inflight, asked, again>>
acting == <<actor, admission, tasks>>
history == <<delivered, emitted>>

Goto(t, step) == pc' = [pc EXCEPT ![t] = step]
At(t, step) == pc[t] = step /\ cancelling[t] = None
First(S) == Min(S)

(* io_source_window_release_entry_locked.                                     *)
Release(i) == entries' = [entries EXCEPT ![i] = FreeEntry] /\ occupied' = occupied - 1

(* io_source_take_waker_locked.                                               *)
TakeWaker(t, back) ==
    /\ source_waker' = FALSE
    /\ wake_inflight' = wake_inflight + (IF source_waker THEN 1 ELSE 0)
    /\ UNCHANGED woken
    /\ Goto(t, IF source_waker THEN "wake" ELSE back)

(* Mutant: an edge that finds the driver at work is dropped.                  *)
EdgeIdle ==
    /\ drive_pending' = (drive_pending \/ (~manual /\ ~driver_active))
    /\ asked' = (asked \/ (~manual /\ ~drive_pending /\ ~driver_active))
    /\ UNCHANGED <<driver_active, again>>
(* io_source_actor_drive: an edge of the actor asks for the owner.            *)
Edge ==
    /\ drive_pending' = (drive_pending \/ ~manual \/ driver_active)
    /\ asked' = (asked \/ (~manual /\ ~drive_pending /\ ~driver_active))
    /\ UNCHANGED <<driver_active, again>>
-----------------------------------------------------------------------------
(* The pump in io_source_resume and io_source_window_resume.                  *)
Resuming == At(Pump, "resume")
Open == terminal = "OPEN" /\ ~close_requested /\ publisher_live

Ends ==
    /\ Resuming /\ ~Open
    /\ terminal' = IF terminal = "OPEN" THEN "ERROR" ELSE terminal
    /\ submission' = IF terminal = "OPEN" THEN FALSE ELSE submission
    /\ Goto(Pump, "ended")
    /\ UNCHANGED <<config, books, prepare_done, seen, lives, wakes, drives, acting, cancelling, held, slot, issued,
                   history>>

Ready == {i \in Entries : entries[i].ready # None}

(* io_source_window_find_ready_locked: the first by delivery.                 *)
NextReady == CHOOSE i \in Ready : \A j \in Ready : entries[i].order <= entries[j].order

TakeResult ==
    /\ Resuming /\ Open /\ Ready # {}
    /\ LET i == NextReady
           e == entries[i]
           over == e.ready # "VALUE"
       IN  /\ results' = results - 1
           /\ demand' = demand - (IF windowed /\ e.reserved THEN 1 ELSE 0)
           /\ IF windowed /\ e.acked THEN Release(i)
              ELSE /\ entries' = [entries EXCEPT ![i].ready = None, ![i].reserved = FALSE,
                                                 ![i].acked = @ /\ (windowed \/ e.request # 0)]
                   /\ UNCHANGED occupied
           /\ emitted' = IF e.ready \in {"VALUE", "VALUE_AND_DONE"} THEN Append(emitted, e.order) ELSE emitted
           /\ terminal' = CASE e.ready = "VALUE" -> "OPEN" [] e.ready = "ERROR" -> "ERROR" [] OTHER -> "DONE"
           /\ Goto(Pump, IF ~over THEN "resume" ELSE IF windowed THEN "close" ELSE "ended")
    /\ UNCHANGED <<config, submission, prepare_done, seen, lives, wakes, drives, acting, cancelling, held, slot,
                   issued, delivered>>

(* Windowed: after prepare said DONE, the reserved results are waited for.    *)
Drained ==
    /\ Resuming /\ Open /\ Ready = {} /\ prepare_done
    /\ terminal' = IF demand = 0 THEN "DONE" ELSE "OPEN"
    /\ Goto(Pump, IF demand = 0 THEN "ended" ELSE "arm")
    /\ UNCHANGED <<config, books, submission, prepare_done, seen, lives, wakes, drives, acting, cancelling, held,
                   slot, issued, history>>

(* Windowed: the target is the downstream's demand, at most the window.       *)
InTheWay == LET e == entries[1] IN submission \/ e.request # 0 \/ e.encoding \/ e.delivered
Backpressure(target) == IF windowed THEN demand >= target \/ occupied >= window ELSE InTheWay

Waits ==
    /\ Resuming /\ Open /\ Ready = {} /\ ~prepare_done /\ \E target \in Entries : Backpressure(target)
    /\ Goto(Pump, "arm")
    /\ UNCHANGED <<config, books, window_control, lives, wakes, drives, acting, cancelling, held, slot, issued, history>>

Reserves ==
    /\ Resuming /\ Open /\ Ready = {} /\ ~prepare_done /\ \E target \in Entries : ~Backpressure(target)
    /\ LET i == First({j \in Entries : ~entries[j].used})
       IN  /\ entries' = [entries EXCEPT ![i] = [FreeEntry EXCEPT !.used = windowed]]
           /\ occupied' = occupied + (IF windowed THEN 1 ELSE 0)
           /\ slot' = i
    /\ submission' = TRUE /\ Goto(Pump, "prepare")
    /\ UNCHANGED <<config, demand, results, prepare_done, seen, terminal, lives, wakes, drives, acting, cancelling, held,
                   issued, history>>

(* prepare answers OPERATION, DONE or ERROR.                                 *)
Preparing == At(Pump, "prepare")

PrepareEnds(answer) ==
    /\ Preparing
    /\ submission' = FALSE
    /\ prepare_done' = (windowed /\ answer = "DONE")
    /\ IF windowed THEN Release(slot) ELSE UNCHANGED <<entries, occupied>>
    /\ terminal' = IF terminal # "OPEN" \/ (windowed /\ answer = "DONE") THEN terminal ELSE answer
    /\ Goto(Pump, IF ~windowed THEN "ended" ELSE IF answer = "DONE" THEN "resume" ELSE "close")
    /\ UNCHANGED <<config, demand, results, seen, lives, wakes, drives, acting, cancelling, held, slot, issued,
                   history>>

PrepareOperation ==
    /\ Preparing /\ issued < MaxOperations
    /\ entries' = IF windowed THEN [entries EXCEPT ![slot].reserved = TRUE] ELSE entries
    /\ demand' = demand + (IF windowed THEN 1 ELSE 0)
    /\ Goto(Pump, "submit")
    /\ UNCHANGED <<config, occupied, results, window_control, lives, wakes, drives, acting, cancelling, held, slot, issued,
                   history>>

(* cflow_io_actor_try_submit of the entry's lease.                            *)
Submit ==
    /\ At(Pump, "submit") /\ admission /\ actor[slot].stage = None
    /\ issued' = issued + 1
    /\ actor' = [actor EXCEPT ![slot] = [id |-> issued + 1, stage |-> "queued"]]
    /\ Edge /\ UNCHANGED drive_inflight
    /\ Goto(Pump, "submitted")
    /\ UNCHANGED <<config, books, window_control, lives, wakes, admission, tasks, cancelling, held, slot, history>>

WindowSubmitRefused ==
    /\ At(Pump, "submit") /\ ~(admission /\ actor[slot].stage = None)
    /\ submission' = FALSE
    /\ demand' = demand - (IF windowed THEN 1 ELSE 0)
    /\ IF windowed THEN Release(slot) ELSE UNCHANGED <<entries, occupied>>
    /\ terminal' = IF windowed \/ terminal = "OPEN" THEN "ERROR" ELSE terminal
    /\ Goto(Pump, IF windowed THEN "close" ELSE "ended")
    /\ UNCHANGED <<config, results, prepare_done, seen, lives, wakes, drives, acting, cancelling, held, slot, issued,
                   history>>

Submitted ==
    /\ At(Pump, "submitted")
    /\ submission' = FALSE
    /\ LET e == entries[slot]
       IN  entries' = IF e.request = 0 /\ (windowed \/ ~e.acked)
                      THEN [entries EXCEPT ![slot].request = issued] ELSE entries
    /\ Goto(Pump, IF windowed THEN "resume" ELSE "arm")
    /\ UNCHANGED <<config, occupied, demand, results, prepare_done, seen, terminal, lives, wakes, drives, acting,
                   cancelling, held, slot, issued, history>>

(* io_source_wait_arm, called for the WAIT that resume returned.              *)
WaitOver ==
    IF windowed THEN results # 0 \/ (prepare_done /\ demand = 0) ELSE entries[1].ready # None \/ entries[1].acked
Waitable == IF windowed THEN occupied # 0 ELSE entries[1].request # 0

Arms ==
    /\ At(Pump, "arm") /\ publisher_live /\ ~close_requested
    /\ terminal # "OPEN" \/ WaitOver \/ Waitable
    /\ LET over == terminal # "OPEN" \/ WaitOver
       IN  /\ source_waker' = ~over
           /\ Goto(Pump, IF over THEN "resume" ELSE "sleep")
    /\ UNCHANGED <<config, books, window_control, lives, wake_inflight, woken, drives, acting, cancelling, held, slot, issued,
                   history>>

(* The arm is refused and the run fails: a publisher that was closed, or one  *)
(* that has nothing to wait for any more.                                     *)
ArmRefused ==
    /\ At(Pump, "arm")
    /\ ~publisher_live \/ close_requested \/ ~(terminal # "OPEN" \/ WaitOver \/ Waitable)
    /\ Goto(Pump, "ended")
    /\ UNCHANGED <<config, books, window_control, lives, wakes, drives, acting, cancelling, held, slot, issued, delivered,
                   emitted>>

Woken ==
    /\ At(Pump, "sleep") /\ woken
    /\ woken' = FALSE /\ Goto(Pump, "resume")
    /\ UNCHANGED <<config, books, window_control, lives, source_waker, wake_inflight, drives, acting, cancelling, held, slot,
                   issued, history>>
-----------------------------------------------------------------------------
(* cflow_io_actor_close: what the backend has not seen completes at once.     *)
CloseActor ==
    /\ admission' = FALSE
    /\ actor' = [i \in Entries |-> IF actor[i].stage = "queued" THEN [actor[i] EXCEPT !.stage = "completed"] ELSE actor[i]]
    /\ IF admission THEN Edge ELSE UNCHANGED <<driver_active, drive_pending, asked, again>>
    /\ UNCHANGED <<drive_inflight, tasks>>

(* Windowed: a terminal step closes the actor before resume returns it.       *)
ResumeCloses ==
    /\ At(Pump, "close") /\ CloseActor /\ Goto(Pump, "ended")
    /\ UNCHANGED <<config, books, window_control, lives, wakes, cancelling, held, slot, issued, history>>

(* io_source_window_discard_result_locked, for every entry.                   *)
Discardable(e) == e.acked /\ ~e.encoding
Discard(e) ==
    IF ~e.used THEN e
    ELSE IF Discardable(e) THEN FreeEntry
    ELSE [e EXCEPT !.ready = None, !.reserved = @ /\ ~e.delivered]

(* io_source_wait_cancel, by the pump's destroy, by another thread, or by the *)
(* wake callback that runs inside the driver.                                 *)
Cancels(t) ==
    /\ cancelling[t] = None /\ publisher_live
    /\ CASE t = Pump -> pc[t] = "ended" [] t = Driver -> pc[t] = "wake" [] t = Canceller -> pc[t] = "idle"
    /\ source_waker' = FALSE /\ close_requested' = TRUE
    /\ IF windowed
       THEN /\ entries' = [i \in Entries |-> Discard(entries[i])]
            /\ occupied' = occupied - Cardinality({i \in Entries : entries[i].used /\ Discardable(entries[i])})
            /\ demand' = demand - Cardinality({i \in Entries : entries[i].reserved /\ entries[i].delivered})
            /\ results' = results - Cardinality(Ready)
       ELSE UNCHANGED books
    /\ cancelling' = [cancelling EXCEPT ![t] = IF close_requested THEN "wait" ELSE "close"]
    /\ UNCHANGED <<config, window_control, publisher_live, owner_live, wake_inflight, woken, drives, acting, pc, held, slot,
                   issued, history>>

CancelCloses(t) ==
    /\ cancelling[t] = "close" /\ CloseActor
    /\ cancelling' = [cancelling EXCEPT ![t] = "wait"]
    /\ UNCHANGED <<config, books, window_control, lives, wakes, pc, held, slot, issued, history>>

(* io_source_wait_wakers_locked: the credits of the calling thread are its own. *)
Credits(t) == IF pc[t] = "wake" THEN 1 ELSE 0

CancelReturns(t) ==
    /\ cancelling[t] = "wait" /\ wake_inflight <= Credits(t)
    /\ cancelling' = [cancelling EXCEPT ![t] = None]
    /\ IF t = Driver THEN UNCHANGED <<pc, publisher_live>>
       ELSE Goto(t, "gone") /\ publisher_live' = (publisher_live /\ t # Pump)
    /\ UNCHANGED <<config, books, window_control, close_requested, owner_live, wakes, drives, acting, held, slot, issued, history>>

(* io_source_wake outside the gate; cancel has been returned from first.      *)
WakeReturns ==
    /\ At(Driver, "wake")
    /\ woken' = TRUE /\ wake_inflight' = wake_inflight - 1
    /\ Goto(Driver, held.back)
    /\ UNCHANGED <<config, books, window_control, lives, source_waker, drives, acting, cancelling, held, slot, issued, history>>
-----------------------------------------------------------------------------
(* io_source_owner_run_ready_impl.                                            *)
WindowDriverEnters(serial) ==
    /\ At(Driver, "idle") /\ owner_live /\ ~driver_active
    /\ asked \/ again \/ manual
    /\ serial => manual
    /\ driver_active' = TRUE /\ drive_pending' = FALSE /\ asked' = FALSE /\ again' = FALSE
    /\ held' = [NoHold EXCEPT !.serial = serial]
    /\ Goto(Driver, "ack")
    /\ UNCHANGED <<config, books, window_control, lives, wakes, drive_inflight, acting, cancelling, slot, issued, history>>

(* io_source_window_find_delivered_locked: the first by request.              *)
WindowDelivered == {i \in Entries : entries[i].delivered /\ ~(windowed /\ entries[i].acked) /\ entries[i].request # 0}
NextDelivered == CHOOSE i \in WindowDelivered : \A j \in WindowDelivered : entries[i].request <= entries[j].request

(* io_source_acknowledge_delivered: the actor's slot is released ...          *)
WindowAcknowledge ==
    /\ At(Driver, "ack") /\ WindowDelivered # {}
    /\ LET i == NextDelivered
       IN  /\ actor[i].id = entries[i].request /\ actor[i].stage = "delivered"
           /\ actor' = [actor EXCEPT ![i] = Vacant]
           /\ held' = [held EXCEPT !.entry = i, !.id = entries[i].request, !.moved = TRUE]
    /\ Edge /\ Goto(Driver, "acked")
    /\ UNCHANGED <<config, books, window_control, lives, wakes, drive_inflight, admission, tasks, cancelling, slot, issued, history>>

(* ... and then the entry hears of it.                                        *)
Acknowledged ==
    /\ At(Driver, "acked")
    /\ LET i == held.entry
           e == entries[i]
       IN  /\ IF ~windowed THEN /\ entries' = [entries EXCEPT ![i].request = 0, ![i].delivered = FALSE, ![i].acked = TRUE]
                                /\ UNCHANGED occupied
              ELSE IF e.ready = None /\ ~e.reserved THEN Release(i)
              ELSE entries' = [entries EXCEPT ![i].acked = TRUE] /\ UNCHANGED occupied
    /\ held' = [held EXCEPT !.back = "ack", !.entry = 0, !.id = 0]
    /\ TakeWaker(Driver, "ack")
    /\ UNCHANGED <<config, demand, results, window_control, lives, drives, acting, cancelling, slot, issued, history>>

AcknowledgedAll ==
    /\ At(Driver, "ack") /\ WindowDelivered = {}
    /\ Goto(Driver, IF held.serial /\ held.ran THEN "tail" ELSE "actor")
    /\ UNCHANGED <<config, books, window_control, lives, wakes, drives, acting, cancelling, held, slot, issued, history>>

(* cflow_io_actor_run_ready, a step at a time.                                *)
Stage(s) == {i \in Entries : actor[i].stage = s}

WindowActorSubmits(i) ==
    /\ At(Driver, "actor") /\ actor[i].stage = "queued"
    /\ actor' = [actor EXCEPT ![i].stage = "pending"] /\ held' = [held EXCEPT !.moved = TRUE]
    /\ UNCHANGED <<config, books, window_control, lives, wakes, drives, admission, tasks, pc, cancelling, slot, issued, history>>

ActorDispatches(i) ==
    /\ At(Driver, "actor") /\ actor[i].stage = "completed" /\ Stage("queued") = {}
    /\ actor' = [actor EXCEPT ![i].stage = "dispatched"] /\ tasks' = Append(tasks, i)
    /\ held' = [held EXCEPT !.moved = TRUE]
    /\ UNCHANGED <<config, books, window_control, lives, wakes, drives, admission, pc, cancelling, slot, issued, history>>

WindowActorIdle ==
    /\ At(Driver, "actor") /\ Stage("queued") \cup Stage("completed") = {}
    /\ Goto(Driver, "exec")
    /\ UNCHANGED <<config, books, window_control, lives, wakes, drives, acting, cancelling, held, slot, issued, history>>

(* Mutant: encode's result is kept although the publisher was cancelled.      *)
OverOpen == windowed /\ (terminal # "OPEN" \/ seen)
(* The completion callback in its first hold of the gate.  A publisher that   *)
(* is over drops the completion, any other has it encoded.                    *)
Over == close_requested \/ (windowed /\ (terminal # "OPEN" \/ seen))
Expected(e, id) ==
    /\ e.request \in {0, id} /\ ~e.encoding /\ ~e.delivered
    /\ IF windowed THEN e.used ELSE e.ready = None /\ (e.request = id \/ submission)

WindowCompletionBegins ==
    /\ At(Driver, "exec") /\ tasks # <<>>
    /\ tasks' = Tail(tasks)
    /\ LET i == Head(tasks)
           id == actor[i].id
       IN  /\ Expected(entries[i], id)
           /\ held' = [held EXCEPT !.entry = i, !.id = id, !.back = "exec", !.moved = TRUE, !.ran = TRUE]
           /\ IF Over
              THEN /\ entries' = [entries EXCEPT ![i].request = id, ![i].delivered = TRUE, ![i].reserved = FALSE]
                   /\ demand' = demand - (IF entries[i].reserved THEN 1 ELSE 0)
                   /\ actor' = [actor EXCEPT ![i].stage = "delivered"]
                   /\ TakeWaker(Driver, "exec")
              ELSE /\ entries' = [entries EXCEPT ![i].request = id, ![i].encoding = TRUE]
                   /\ Goto(Driver, "encode") /\ UNCHANGED <<demand, wakes, actor>>
    /\ UNCHANGED <<config, occupied, results, window_control, lives, drives, admission, cancelling, slot, issued, history>>

(* encode runs outside the gate; the window may be over when it returns.      *)
WindowCompletionEnds(encoded) ==
    /\ At(Driver, "encode")
    /\ LET i == held.entry
           e == entries[i]
           order == Len(delivered) + 1
       IN  IF windowed /\ Over
           THEN /\ entries' = [entries EXCEPT ![i].encoding = FALSE, ![i].delivered = TRUE, ![i].reserved = FALSE]
                /\ demand' = demand - (IF e.reserved THEN 1 ELSE 0)
                /\ UNCHANGED <<results, seen, delivered>>
           ELSE /\ entries' = [entries EXCEPT ![i].encoding = FALSE, ![i].delivered = TRUE, ![i].ready = encoded,
                                              ![i].order = order]
                /\ results' = results + 1
                /\ seen' = (seen \/ encoded # "VALUE")
                /\ delivered' = Append(delivered, held.id)
                /\ UNCHANGED demand
    /\ actor' = [actor EXCEPT ![held.entry].stage = "delivered"]
    /\ TakeWaker(Driver, "exec")
    /\ UNCHANGED <<config, occupied, submission, prepare_done, terminal, lives, drives, admission, tasks, cancelling, held,
                   slot, issued, emitted>>

(* The manual executor is empty: another round, the serial phase's second     *)
(* acknowledgement, or the end of the loop.                                   *)
ExecutorIdle ==
    /\ At(Driver, "exec") /\ tasks = <<>>
    /\ Goto(Driver, IF held.serial THEN (IF held.ran THEN "ack" ELSE "tail") ELSE IF held.moved THEN "ack" ELSE "tail")
    /\ held' = [held EXCEPT !.moved = FALSE, !.ran = held.serial /\ held.ran, !.entry = 0, !.id = 0]
    /\ UNCHANGED <<config, books, window_control, lives, wakes, drives, acting, cancelling, slot, issued, history>>

(* max_steps are spent: the caller is told and comes back.                    *)
StepsSpent ==
    /\ \E step \in {"ack", "actor", "exec"} : At(Driver, step)
    /\ again' = TRUE /\ Goto(Driver, "spent")
    /\ UNCHANGED <<config, books, window_control, lives, wakes, driver_active, drive_pending, drive_inflight, asked, acting,
                   cancelling, held, slot, issued, history>>

(* The last hold of the gate orders the pending edge against the release.     *)
WindowDriverLeaves ==
    /\ At(Driver, "tail") \/ At(Driver, "spent")
    /\ drive_pending' = FALSE
    /\ IF At(Driver, "tail") /\ ~held.serial /\ drive_pending
       THEN /\ Goto(Driver, "ack") /\ held' = NoHold
            /\ UNCHANGED <<driver_active, drive_inflight, asked>>
       ELSE LET drive == drive_pending /\ ~manual
            IN  /\ driver_active' = FALSE /\ held' = NoHold
                /\ asked' = (asked \/ drive)
                /\ drive_inflight' = drive_inflight + (IF drive THEN 1 ELSE 0)
                /\ Goto(Driver, IF drive THEN "drive" ELSE "idle")
    /\ UNCHANGED <<config, books, window_control, lives, wakes, again, acting, cancelling, slot, issued, history>>

(* io_source_invoke_drive gives its credit back.                              *)
DriveReturns(t) ==
    /\ At(t, "drive")
    /\ drive_inflight' = drive_inflight - 1 /\ Goto(t, "idle")
    /\ UNCHANGED <<config, books, window_control, lives, wakes, driver_active, drive_pending, asked, again, acting, cancelling,
                   held, slot, issued, history>>

(* The backend completes a request, which is an edge of the actor.            *)
WindowBackendCompletes(i) ==
    /\ At(Backend, "idle") /\ actor[i].stage = "pending"
    /\ actor' = [actor EXCEPT ![i].stage = "completed"]
    /\ Edge
    /\ LET drive == asked' /\ ~manual /\ ~drive_pending /\ ~driver_active
       IN  /\ drive_inflight' = drive_inflight + (IF drive THEN 1 ELSE 0)
           /\ Goto(Backend, IF drive THEN "drive" ELSE "idle")
    /\ UNCHANGED <<config, books, window_control, lives, wakes, admission, tasks, cancelling, held, slot, issued, history>>

(* Mutant: close does not look at the drive callbacks.                        *)
OwnerQuietUndriven == ~driver_active /\ wake_inflight = 0
OwnerQuiet == ~driver_active /\ wake_inflight = 0 /\ drive_inflight = 0

(* cflow_io_publisher_owner_close, when it is not EBUSY.                      *)
OwnerCloses ==
    /\ owner_live /\ ~publisher_live /\ OwnerQuiet
    /\ windowed => occupied = 0
    /\ ~admission /\ Stage(None) = Entries
    /\ owner_live' = FALSE
    /\ UNCHANGED <<config, books, window_control, close_requested, publisher_live, wakes, drives, acting, pc, cancelling, held,
                   slot, issued, history>>

WindowNext ==
    \/ Ends \/ TakeResult \/ Drained \/ Waits \/ Reserves
    \/ \E answer \in {"DONE", "ERROR"} : PrepareEnds(answer)
    \/ PrepareOperation \/ Submit \/ WindowSubmitRefused \/ Submitted \/ Arms \/ ArmRefused \/ Woken \/ ResumeCloses
    \/ \E t \in {Pump, Driver, Canceller} : Cancels(t) \/ CancelCloses(t) \/ CancelReturns(t)
    \/ WakeReturns
    \/ \E serial \in BOOLEAN : WindowDriverEnters(serial)
    \/ WindowAcknowledge \/ Acknowledged \/ AcknowledgedAll
    \/ \E i \in Entries : WindowActorSubmits(i) \/ ActorDispatches(i) \/ WindowBackendCompletes(i)
    \/ WindowActorIdle \/ WindowCompletionBegins \/ ExecutorIdle \/ StepsSpent \/ WindowDriverLeaves
    \/ \E encoded \in Encodings : WindowCompletionEnds(encoded)
    \/ \E t \in {Driver, Backend} : DriveReturns(t)
    \/ OwnerCloses

WindowSpec == WindowInit /\ [][WindowNext]_window_vars
-----------------------------------------------------------------------------
TypeOK ==
    /\ terminal \in {"OPEN", "DONE", "ERROR"}
    /\ wake_inflight \in 0 .. 1 /\ drive_inflight \in 0 .. 2

(* The window's counters are what its entries say, whatever was cancelled,    *)
(* refused or dropped while results were on their way, so that backpressure   *)
(* ends and close() can succeed: a publisher that is gone with an idle actor  *)
(* and nothing to acknowledge holds no entry.                                 *)
WindowExact ==
    /\ windowed => /\ occupied = Cardinality({i \in Entries : entries[i].used})
                   /\ demand = Cardinality({i \in Entries : entries[i].reserved})
                   /\ results = Cardinality(Ready)
    /\ \A i \in Entries : actor[i].stage # None /\ windowed => entries[i].used
    /\ ~publisher_live /\ Stage(None) = Entries /\ pc[Driver] # "acked" /\ windowed => occupied = 0


Work == Stage("queued") \cup Stage("completed") # {} \/ tasks # <<>> \/ WindowDelivered # {}
DriverOwed == asked \/ again \/ manual \/ (driver_active /\ (drive_pending \/ pc[Driver] \notin {"tail", "spent"}))

(* Work of the actor always has an owner's drive ahead of it, and a pump that *)
(* waits has a result, a completion or a cancellation ahead of it.            *)
WindowNotStranded ==
    /\ Work /\ cancelling[Canceller] # "close" /\ owner_live => DriverOwed
    /\ pc[Pump] = "sleep" /\ ~woken /\ source_waker => \/ Stage(None) # Entries \/ pc[Driver] = "acked"
    /\ pc[Pump] = "sleep" /\ ~source_waker => woken \/ close_requested \/ wake_inflight # 0

(* close() frees the owner only when no callback, wake or drive is inside it. *)
WindowClosedQuiet ==
    ~owner_live => /\ pc[Driver] = "idle" /\ pc[Backend] = "idle" /\ pc[Pump] = "gone"
                   /\ wake_inflight = 0 /\ tasks = <<>>

-----------------------------------------------------------------------------
(* The asynchronous files and their shared runtime (cflow/src/io_file.c):     *)
(* producers submit through operation slots, one driver runs the actor, the   *)
(* callbacks and the acknowledgements, and a control thread closes and        *)
(* destroys files and the runtime.  Every action is one hold of the runtime's *)
(* gate or one call made outside it; the actor (IoActor) is used by its       *)
(* contract.                                                                  *)

file_vars == <<slots, open, closing, runtime, driver, producer, control, actor, actor_closed, commands, native, calls, full, faults>>

Slots == 1 .. SlotCapacity
FreeSlot == [file |-> None, id |-> 0, in_use |-> FALSE, delivered |-> FALSE, cancel |-> FALSE]
Away == [step |-> "idle", slot |-> 0, file |-> None, id |-> 0]

FileInit ==
    /\ slots = [s \in Slots |-> FreeSlot]
    /\ open = {} /\ closing = {} /\ runtime = "open" /\ driver = Away
    /\ producer = [p \in Producers |-> Away] /\ control = Away
    /\ actor = <<>> /\ actor_closed = FALSE /\ commands = <<>>
    /\ native = {} /\ calls = <<>> /\ full = {} /\ faults = 0

lifecycle == <<open, closing, runtime, native>>
engine == <<actor, actor_closed, commands>>
bounds == <<full, faults>>

InUse(f) == {s \in Slots : slots[s].in_use /\ slots[s].file = f}
Live(f) == f \in open /\ f \in native
-----------------------------------------------------------------------------
(* The actor, by its contract.                                                *)
Held == {i \in DOMAIN actor : actor[i].phase # "RELEASED"}

(* cflow_io_actor_try_submit: CLOSED, FULL, or a new request.                 *)
ActorRefuses == actor_closed \/ Len(commands) >= CommandCapacity \/ Cardinality(Held) >= SlotCapacity
ActorAccepts(s) ==
    /\ actor' = Append(actor, [phase |-> "ADMITTED", slot |-> s, cancel |-> FALSE])
    /\ commands' = Append(commands, <<"submit", Len(actor) + 1>>)
    /\ calls' = Append(calls, {})

(* cflow_io_actor_try_cancel.                                                 *)
CancelStatus(i) ==
    CASE i \notin Held -> "NOT_FOUND"
      [] i \in Held /\ actor_closed -> "CLOSED"
      [] i \in Held /\ ~actor_closed /\ Len(commands) >= CommandCapacity -> "FULL"
      [] OTHER -> "ACCEPTED"

ActorCancels(i) == commands' = IF CancelStatus(i) = "ACCEPTED" THEN Append(commands, <<"cancel", i>>) ELSE commands

Settles(i) ==
    [actor EXCEPT ![i].cancel = TRUE, ![i].phase = IF @ \in {"ADMITTED", "READY"} THEN "COMPLETED" ELSE @]

Processed(command) ==
    LET i == command[2]
    IN  IF command[1] = "cancel" THEN IF i \in Held THEN Settles(i) ELSE actor
        ELSE [actor EXCEPT ![i].phase = IF @ = "ADMITTED" THEN "READY" ELSE @]

FileBackendCompletes(i) ==
    /\ i \in DOMAIN actor /\ actor[i].phase = "BACKEND"
    /\ actor' = [actor EXCEPT ![i].phase = "COMPLETED"]
    /\ UNCHANGED <<slots, lifecycle, driver, producer, control, actor_closed, commands, calls, bounds>>
-----------------------------------------------------------------------------
(* cflow_io_file_open: a place under the gate, then the native open.          *)
OpenReserves(f) ==
    /\ control.step = "idle" /\ runtime = "open" /\ f \notin open /\ f \notin closing
    /\ Cardinality(open) < FileCapacity
    /\ open' = open \cup {f} /\ control' = [Away EXCEPT !.step = "opening", !.file = f]
    /\ UNCHANGED <<slots, closing, runtime, driver, producer, engine, native, calls, bounds>>

OpenEnds(ok) ==
    /\ control.step = "opening" /\ control' = Away
    /\ IF ok THEN native' = native \cup {control.file} /\ UNCHANGED <<open, faults>>
       ELSE faults < MaxFaults /\ faults' = faults + 1 /\ open' = open \ {control.file} /\ UNCHANGED native
    /\ UNCHANGED <<slots, closing, runtime, driver, producer, engine, calls, full>>

Admits(f) == f \notin closing /\ runtime = "open"

(* file_try_submit: a slot under the gate, ...                                *)
SubmitReserves(p, f) ==
    /\ producer[p].step = "idle" /\ Live(f) /\ Admits(f) /\ Len(actor) < MaxRequests
    /\ \E s \in Slots : ~slots[s].in_use
    /\ LET s == Min({x \in Slots : ~slots[x].in_use})
       IN  /\ slots' = [slots EXCEPT ![s] = [FreeSlot EXCEPT !.file = f, !.in_use = TRUE]]
           /\ producer' = [producer EXCEPT ![p] = [step |-> "reserved", slot |-> s, file |-> f, id |-> 0]]
    /\ UNCHANGED <<lifecycle, driver, control, engine, calls, bounds>>

(* ... the actor, ...                                                         *)
FileSubmitRefused(p) ==
    /\ producer[p].step = "reserved" /\ ActorRefuses
    /\ slots' = [slots EXCEPT ![producer[p].slot] = FreeSlot]
    /\ producer' = [producer EXCEPT ![p] = Away]
    /\ UNCHANGED <<lifecycle, driver, control, engine, calls, bounds>>

SubmitAccepted(p) ==
    /\ producer[p].step = "reserved" /\ ~ActorRefuses /\ Len(actor) < MaxRequests
    /\ ActorAccepts(producer[p].slot)
    /\ producer' = [producer EXCEPT ![p].step = "accepted", ![p].id = Len(actor) + 1]
    /\ UNCHANGED <<slots, lifecycle, driver, control, actor_closed, bounds>>

CancelAfter(p) == slots[producer[p].slot].cancel \/ producer[p].file \in closing \/ runtime # "open"

(* ... the id under the gate, and the cancel of a close that came meanwhile.  *)
SubmitRecords(p) ==
    /\ producer[p].step = "accepted"
    /\ slots' = [slots EXCEPT ![producer[p].slot].id = producer[p].id, ![producer[p].slot].cancel = @ \/ CancelAfter(p)]
    /\ producer' = [producer EXCEPT ![p] = IF CancelAfter(p) THEN [@ EXCEPT !.step = "cancel"] ELSE Away]
    /\ UNCHANGED <<lifecycle, driver, control, engine, calls, bounds>>

SubmitCancels(p) ==
    /\ producer[p].step = "cancel"
    /\ ActorCancels(producer[p].id)
    /\ producer' = [producer EXCEPT ![p] = Away]
    /\ UNCHANGED <<slots, lifecycle, driver, control, actor, actor_closed, calls, bounds>>

(* cflow_io_file_try_cancel.                                                  *)
TryCancel(p, i) ==
    /\ producer[p].step = "idle" /\ i \in Held /\ ~actor[i].cancel /\ faults < MaxFaults
    /\ \E s \in Slots : slots[s].id = i /\ Live(slots[s].file)
    /\ faults' = faults + 1 /\ ActorCancels(i)
    /\ UNCHANGED <<slots, lifecycle, driver, producer, control, actor, actor_closed, calls, full>>
-----------------------------------------------------------------------------
(* cflow_io_file_runtime_run_ready.                                           *)
FileDriverEnters ==
    /\ driver.step = "idle" /\ runtime # "destroyed"
    /\ driver' = [driver EXCEPT !.step = "look"]
    /\ UNCHANGED <<slots, lifecycle, producer, control, engine, calls, bounds>>

FileDelivered == {s \in Slots : slots[s].in_use /\ slots[s].delivered}

(* file_delivered_request, then cflow_io_actor_acknowledge, which calls       *)
(* file_slot_release, or the actor's step, or the executor's.                 *)
Acknowledges == FileDelivered # {} /\ slots[Min(FileDelivered)].id # 0
FileAcknowledge ==
    /\ driver.step = "look" /\ Acknowledges
    /\ LET s == Min(FileDelivered)
       IN  /\ actor' = [actor EXCEPT ![slots[s].id].phase = "RELEASED"]
           /\ slots' = [slots EXCEPT ![s] = FreeSlot]
    /\ UNCHANGED <<lifecycle, driver, producer, control, actor_closed, commands, calls, bounds>>

ActorSteps ==
    /\ driver.step = "look" /\ ~Acknowledges /\ commands # <<>>
    /\ actor' = Processed(Head(commands)) /\ commands' = Tail(commands)
    /\ UNCHANGED <<slots, lifecycle, driver, producer, control, actor_closed, calls, bounds>>

InPhase(phase) == {i \in DOMAIN actor : actor[i].phase = phase}

FileActorSubmits(ok) ==
    /\ driver.step = "look" /\ ~Acknowledges /\ commands = <<>> /\ InPhase("READY") # {}
    /\ actor' = [actor EXCEPT ![Min(InPhase("READY"))].phase = IF ok THEN "BACKEND" ELSE "COMPLETED"]
    /\ IF ok THEN UNCHANGED faults ELSE faults < MaxFaults /\ faults' = faults + 1
    /\ UNCHANGED <<slots, lifecycle, driver, producer, control, actor_closed, commands, calls, full>>

FileActorIdle == commands = <<>> /\ InPhase("READY") = {}

(* file_actor_completion: the file under the gate, the callback, delivered.   *)
FileCompletionBegins ==
    /\ driver.step = "look" /\ ~Acknowledges /\ FileActorIdle /\ InPhase("COMPLETED") # {}
    /\ LET i == Min(InPhase("COMPLETED"))
       IN  /\ calls' = [calls EXCEPT ![i] = @ \cup {slots[actor[i].slot].file}]
           /\ actor' = [actor EXCEPT ![i].phase = "DELIVERING"]
           /\ driver' = [driver EXCEPT !.step = "callback", !.slot = actor[i].slot, !.id = i]
    /\ UNCHANGED <<slots, lifecycle, producer, control, actor_closed, commands, bounds>>

FileCompletionEnds ==
    /\ driver.step = "callback"
    /\ slots' = [slots EXCEPT ![driver.slot].delivered = TRUE]
    /\ actor' = [actor EXCEPT ![driver.id].phase = "DELIVERED"]
    /\ driver' = [Away EXCEPT !.step = "look"]
    /\ UNCHANGED <<lifecycle, producer, control, actor_closed, commands, calls, bounds>>

(* Nothing is left, or max_steps is spent.                                    *)
FileDriverLeaves ==
    /\ driver.step = "look" /\ driver' = Away
    /\ UNCHANGED <<slots, lifecycle, producer, control, engine, calls, bounds>>
-----------------------------------------------------------------------------
(* cflow_io_file_close of a file of the shared runtime: the flag, ...         *)
CloseFile(f) ==
    /\ control.step = "idle" /\ Live(f)
    /\ closing' = closing \cup {f} /\ full' = full \ {f} /\ control' = [Away EXCEPT !.step = "closing", !.file = f]
    /\ UNCHANGED <<slots, open, runtime, native, driver, producer, engine, calls, bounds>>

ToCancel(f) == {s \in InUse(f) : ~slots[s].cancel}

(* ... then file_cancel_operations: one slot after the other.                 *)
CancelFinds ==
    /\ control.step = "closing" /\ ToCancel(control.file) # {}
    /\ LET s == Min(ToCancel(control.file))
       IN  /\ slots' = [slots EXCEPT ![s].cancel = TRUE]
           /\ control' = IF slots[s].id = 0 THEN control
                         ELSE [control EXCEPT !.step = "cancel", !.slot = s, !.id = slots[s].id]
    /\ UNCHANGED <<lifecycle, driver, producer, engine, calls, bounds>>

Reverts(s, f, i) == slots[s].in_use /\ slots[s].file = f /\ slots[s].id = i

CancelAsks ==
    /\ control.step = "cancel"
    /\ ActorCancels(control.id)
    /\ control' = IF CancelStatus(control.id) = "FULL" THEN [control EXCEPT !.step = "revert"]
                  ELSE [Away EXCEPT !.step = "closing", !.file = control.file]
    /\ UNCHANGED <<slots, lifecycle, driver, producer, actor, actor_closed, calls, bounds>>

CancelReverts ==
    /\ control.step = "revert"
    /\ slots' = IF Reverts(control.slot, control.file, control.id) THEN [slots EXCEPT ![control.slot].cancel = FALSE]
                ELSE slots
    /\ control' = Away /\ full' = full \cup {control.file}
    /\ UNCHANGED <<lifecycle, driver, producer, engine, calls, faults>>

CloseReturns ==
    /\ control.step = "closing" /\ ToCancel(control.file) = {} /\ control' = Away
    /\ UNCHANGED <<slots, lifecycle, driver, producer, engine, calls, bounds>>

(* cflow_io_file_runtime_close: the actor, then the flag.                     *)
RuntimeCloses ==
    /\ control.step = "idle" /\ runtime = "open" /\ actor_closed' = TRUE
    /\ actor' = [i \in DOMAIN actor |-> IF actor[i].phase \in {"ADMITTED", "READY", "BACKEND"} THEN Settles(i)[i] ELSE actor[i]]
    /\ control' = [Away EXCEPT !.step = "runtime"]
    /\ UNCHANGED <<slots, lifecycle, driver, producer, commands, calls, bounds>>

RuntimeClosed ==
    /\ control.step = "runtime" /\ runtime' = "closing" /\ control' = Away
    /\ UNCHANGED <<slots, open, closing, native, driver, producer, engine, calls, bounds>>

Joined(f) == \A p \in Producers : producer[p].file # f

(* Mutant: destroy only looks at the operations that were accepted.           *)
FileQuietAccepted(f) == f \in closing /\ driver.step = "idle" /\ \A s \in InUse(f) : slots[s].delivered
(* cflow_io_file_destroy; the caller has joined the file's producers.         *)
FileQuiet(f) == f \in closing /\ driver.step = "idle" /\ InUse(f) = {}

DestroyFile(f) ==
    /\ control.step = "idle" /\ Live(f) /\ Joined(f) /\ FileQuiet(f)
    /\ native' = native \ {f} /\ open' = open \ {f}
    /\ UNCHANGED <<slots, closing, runtime, driver, producer, control, engine, calls, bounds>>

(* cflow_io_file_runtime_destroy.                                             *)
DestroyRuntime ==
    /\ control.step = "idle" /\ runtime = "closing" /\ driver.step = "idle" /\ open = {}
    /\ Held = {} /\ commands = <<>>
    /\ runtime' = "destroyed"
    /\ UNCHANGED <<slots, open, closing, native, driver, producer, control, engine, calls, bounds>>

FileNext ==
    \/ \E f \in Files : OpenReserves(f) \/ CloseFile(f) \/ DestroyFile(f)
    \/ \E ok \in BOOLEAN : OpenEnds(ok) \/ FileActorSubmits(ok)
    \/ \E p \in Producers : \/ \E f \in Files : SubmitReserves(p, f)
                            \/ FileSubmitRefused(p) \/ SubmitAccepted(p) \/ SubmitRecords(p) \/ SubmitCancels(p)
                            \/ \E i \in DOMAIN actor : TryCancel(p, i)
    \/ \E i \in DOMAIN actor : FileBackendCompletes(i)
    \/ FileDriverEnters \/ FileAcknowledge \/ ActorSteps \/ FileCompletionBegins \/ FileCompletionEnds \/ FileDriverLeaves
    \/ CancelFinds \/ CancelAsks \/ CancelReverts \/ CloseReturns \/ RuntimeCloses \/ RuntimeClosed \/ DestroyRuntime

FileSpec == FileInit /\ [][FileNext]_file_vars
-----------------------------------------------------------------------------
(* A request the actor holds owns its slot from its acceptance to its         *)
(* acknowledgement, whichever thread has got how far; its completion is       *)
(* called for the file it was submitted to.                                   *)
RequestsExact ==
    /\ \A i \in Held : /\ slots[actor[i].slot].in_use
                       /\ slots[actor[i].slot].id \in {0, i}
                       /\ calls[i] \subseteq {slots[actor[i].slot].file}
    /\ \A i, j \in Held : actor[i].slot = actor[j].slot => i = j
    /\ \A s \in Slots : slots[s].in_use =>
           \/ \E i \in Held : actor[i].slot = s
           \/ \E p \in Producers : producer[p].step = "reserved" /\ producer[p].slot = s

(* A native handle is closed only after the last operation on it, and a       *)
(* destroyed runtime has no file, slot or request left.                       *)
FileClosedQuiet ==
    /\ \A i \in Held : slots[actor[i].slot].file \in native
    /\ runtime = "destroyed" => native = {} /\ FileDelivered = {} /\ driver.step = "idle"

(* A close that returned without SALTS_ENOBUFS left no recorded operation of  *)
(* its file unmarked, however the producers raced it.                         *)
FileNotStranded ==
    \A s \in Slots :
        slots[s].file \in closing \ full /\ slots[s].id # 0 /\ control.step = "idle" => slots[s].cancel
=============================================================================
