----------------------------- MODULE IoBackends -----------------------------
(* The backends that carry a request to the platform: io_uring, completion    *)
(* ports, POSIX AIO, and non-blocking calls on sockets that became ready.     *)
EXTENDS Naturals, Sequences, FiniteSets, SequencesExt

CONSTANTS
    Records,        \* the indices of the records, 1 .. request_capacity
    MaxGeneration,  \* UINT32_MAX
    Batch,          \* completion_batch_capacity
    MaxRequests, MaxFaults,
    Submitters,     \* the drivers of the actors on this backend
    Handles,
    Capacity,       \* request_capacity
    Lanes           \* the read and the write lane of a socket

VARIABLES
    records,        \* index |-> phase, generation, request, kind, cancel
    active_requests, admission_open, worker_running, shutdown, alive,
    kernel,         \* the tokens the kernel holds
    cq,             \* the completion queue: token and result
    worker, owner,  \* where the two threads are
    drained,        \* how many entries of the batch are left
    cell,           \* what uring_finish carries out of the gate
    outcome,        \* request |-> the completion the actor got
    verdict,        \* request |-> the result the kernel gave it
    sockets,        \* request |-> who owns the accepted descriptor
    issued, faults,
    resources,      \* handle |-> "none", "associating" or "associated"
    windows,        \* the records whose operation Windows holds
    port,           \* the packets: a record and a result, or the stop key
    pc, loc,        \* where every submitter is, and its record
    asked,          \* the requests whose cancel was asked for
    stopping, inflight,
    cursor, scanned, delivered,
    waiting,        \* the records aio_suspend waits for
    lanes,          \* lane |-> active, armed, arm_pending, driving, terminal
    queue,          \* lane |-> the ids from head to tail
    registration,   \* lane |-> "none", "idle" or "armed"
    socket_active, closing

-----------------------------------------------------------------------------
(* The io_uring backend of native IO (cflow/src/io_native_io_uring.c): the    *)
(* actor's driver publishes submissions and cancels under the gate, the       *)
(* worker drains completions in batches and finishes records, the owner shuts *)
(* down.  The kernel is external: it answers every accepted submission once.  *)

uring_vars == <<records, active_requests, admission_open, worker_running, shutdown, alive, kernel, cq, worker, owner, drained,
          cell, outcome, verdict, sockets, issued, faults>>

Ids == 1 .. MaxRequests
Kinds == {"RECV", "ACCEPT"}
None == "none"
UringFreeRecord == [phase |-> "FREE", generation |-> 0, request |-> 0, kind |-> None, cancel |-> FALSE]
UringNoCell == [request |-> 0, kind |-> None, cancelled |-> FALSE, result |-> None]
CancelToken == <<0, 0>>
StopToken == <<1, 0>>

UringInit ==
    /\ records = [r \in Records |-> UringFreeRecord]
    /\ active_requests = 0 /\ admission_open = TRUE /\ worker_running = TRUE /\ shutdown = FALSE /\ alive = TRUE
    /\ kernel = {} /\ cq = <<>> /\ worker = "wait" /\ owner = "idle" /\ drained = 0 /\ cell = UringNoCell
    /\ outcome = [i \in Ids |-> <<>>] /\ verdict = [i \in Ids |-> None] /\ sockets = [i \in Ids |-> None]
    /\ issued = 0 /\ faults = 0

uring_life == <<admission_open, worker_running, shutdown, alive>>
uring_log == <<outcome, verdict, sockets>>
Fault == faults < MaxFaults /\ faults' = faults + 1

(* uring_make_record_token and uring_record_for_token.                        *)
Token(r, generation) == <<r, generation>>
RecordFor(token) == {r \in Records : token[2] # 0 /\ token[1] = r}

(* uring_find_free_locked: a record whose generation is spent is never used.  *)
FreeRecords == {r \in Records : records[r].phase = "FREE" /\ records[r].generation # MaxGeneration}
UringFirstFree(r) == r \in FreeRecords /\ \A q \in FreeRecords : r <= q

(* uring_submit_record; published is what uring_publish_sqe_locked returned.  *)
UringSubmit(kind, published) ==
    /\ alive /\ admission_open /\ issued < MaxRequests /\ issued' = issued + 1
    /\ IF published THEN UNCHANGED faults ELSE Fault
    /\ \E r \in Records :
        /\ UringFirstFree(r)
        /\ LET generation == records[r].generation + 1
           IN  IF published
               THEN /\ records' = [records EXCEPT ![r] = [phase |-> "PENDING", generation |-> generation,
                                                          request |-> issued', kind |-> kind, cancel |-> FALSE]]
                    /\ kernel' = kernel \cup {Token(r, generation)}
                    /\ active_requests' = active_requests + 1
               ELSE /\ records' = [records EXCEPT ![r].generation = generation]
                    /\ UNCHANGED <<kernel, active_requests>>
    /\ UNCHANGED <<uring_life, cq, worker, owner, drained, cell, uring_log>>

(* uring_cancel: an ASYNC_CANCEL whose own completion has the cancel token.   *)
UringCancel(r, published) ==
    /\ alive /\ records[r].phase = "PENDING" /\ ~records[r].cancel
    /\ IF published THEN UNCHANGED faults ELSE Fault
    /\ records' = [records EXCEPT ![r].cancel = published]
    /\ cq' = IF published THEN Append(cq, [token |-> CancelToken, result |-> None]) ELSE cq
    /\ UNCHANGED <<active_requests, uring_life, kernel, worker, owner, drained, cell, uring_log, issued>>

(* The kernel answers; only what was cancelled may come back cancelled.       *)
KernelCompletes(r, result) ==
    /\ Token(r, records[r].generation) \in kernel
    /\ result = "CANCELED" => records[r].cancel
    /\ result = "ZERO" => records[r].kind = "RECV"
    /\ kernel' = kernel \ {Token(r, records[r].generation)}
    /\ cq' = Append(cq, [token |-> Token(r, records[r].generation), result |-> result])
    /\ verdict' = [verdict EXCEPT ![records[r].request] = result]
    /\ sockets' = [sockets EXCEPT ![records[r].request] =
                      IF records[r].kind = "ACCEPT" /\ result = "DATA" THEN "backend" ELSE @]
    /\ UNCHANGED <<records, active_requests, uring_life, worker, owner, drained, cell, outcome, issued, faults>>
-----------------------------------------------------------------------------
(* uring_worker: a batch of what the queue holds now, ...                     *)
WorkerEnters ==
    /\ worker = "wait" /\ cq # <<>>
    /\ drained' = IF Len(cq) < Batch THEN Len(cq) ELSE Batch
    /\ worker' = "drain"
    /\ UNCHANGED <<records, active_requests, uring_life, kernel, cq, owner, cell, uring_log, issued, faults>>

WorkerLoops ==
    /\ worker = "drain" /\ drained = 0 /\ worker' = "wait"
    /\ UNCHANGED <<records, active_requests, uring_life, kernel, cq, owner, drained, cell, uring_log, issued, faults>>

(* The token names this life of the record.                                   *)
Matches(r, token) == records[r].phase = "PENDING" /\ token = Token(r, records[r].generation)

(* Mutant: whatever was asked to cancel is reported cancelled.                *)
FinishCancelled(r, result) ==
    /\ cell' = [request |-> records[r].request, kind |-> records[r].kind,
                cancelled |-> records[r].cancel, result |-> result]
    /\ records' = [records EXCEPT ![r] = [UringFreeRecord EXCEPT !.generation = records[r].generation]]
    /\ active_requests' = active_requests - 1

(* ... and uring_finish: the record is given back under the gate, ...         *)
UringFinish(r, result) ==
    /\ cell' = [request |-> records[r].request, kind |-> records[r].kind,
                cancelled |-> records[r].cancel /\ result = "CANCELED", result |-> result]
    /\ records' = [records EXCEPT ![r] = [UringFreeRecord EXCEPT !.generation = records[r].generation]]
    /\ active_requests' = active_requests - 1

UringWorkerTakes ==
    /\ worker = "drain" /\ drained > 0
    /\ drained' = drained - 1 /\ cq' = Tail(cq)
    /\ LET token == Head(cq).token
           matching == {r \in RecordFor(token) : Matches(r, token)}
       IN  IF token = StopToken
           THEN worker' = "stopping" /\ UNCHANGED <<records, active_requests, cell>>
           ELSE IF matching = {}
           THEN UNCHANGED <<worker, records, active_requests, cell>>
           ELSE worker' = "deliver" /\ \E r \in matching : UringFinish(r, Head(cq).result)
    /\ UNCHANGED <<uring_life, kernel, owner, uring_log, issued, faults>>

(* ... and outside it the result becomes a completion; a socket that no one   *)
(* took is closed.  fits: the peer's address fits the operation's; took: the  *)
(* actor accepts.                                                             *)
UringCompletion(fits) ==
    IF cell.cancelled THEN "CANCELLED"
    ELSE IF cell.result \in {"ERROR", "CANCELED"} \/ (cell.kind = "ACCEPT" /\ ~fits) THEN "FAILED"
    ELSE IF cell.kind = "RECV" /\ cell.result = "ZERO" THEN "EOF"
    ELSE "OK"

UringDeliver(fits, took) ==
    /\ worker \in {"deliver", "failing_deliver"}
    /\ outcome' = [outcome EXCEPT ![cell.request] = Append(@, UringCompletion(fits))]
    /\ sockets' = [sockets EXCEPT ![cell.request] =
                      IF cell.kind # "ACCEPT" \/ cell.result # "DATA" THEN @
                      ELSE IF UringCompletion(fits) = "OK" /\ took THEN "operation" ELSE "closed"]
    /\ cell' = UringNoCell
    /\ worker' = IF worker = "deliver" THEN "drain" ELSE "failing"
    /\ UNCHANGED <<records, active_requests, uring_life, kernel, cq, owner, drained, verdict, issued, faults>>

(* io_uring_enter fails: admission ends and uring_fail_all answers for the    *)
(* kernel.                                                                    *)
WorkerFails ==
    /\ worker = "wait" /\ Fault
    /\ admission_open' = FALSE /\ worker' = "failing"
    /\ UNCHANGED <<records, active_requests, worker_running, shutdown, alive, kernel, cq, owner, drained, cell, uring_log, issued>>

FailRecord(r) ==
    /\ worker = "failing" /\ records[r].phase = "PENDING" /\ \A q \in Records : q < r => records[q].phase = "FREE"
    /\ UringFinish(r, "ERROR") /\ worker' = "failing_deliver"
    /\ UNCHANGED <<uring_life, kernel, cq, owner, drained, uring_log, issued, faults>>

FailedAll ==
    /\ worker = "failing" /\ \A r \in Records : records[r].phase = "FREE"
    /\ worker' = "stopping"
    /\ UNCHANGED <<records, active_requests, uring_life, kernel, cq, owner, drained, cell, uring_log, issued, faults>>

WorkerStops ==
    /\ worker = "stopping" /\ worker' = "stopped" /\ worker_running' = FALSE
    /\ UNCHANGED <<records, active_requests, admission_open, shutdown, alive, kernel, cq, owner, drained, cell, uring_log, issued, faults>>
-----------------------------------------------------------------------------
(* Mutant: shutdown joins without telling the worker.                         *)
StopSilent == FALSE
Stop == worker_running

(* uring_shutdown.                                                            *)
UringShutdown(published) ==
    /\ owner = "idle" /\ alive /\ ~shutdown
    /\ admission_open' = FALSE
    /\ published \/ (active_requests = 0 /\ Stop)
    /\ IF published THEN UNCHANGED faults ELSE Fault
    /\ LET joins == active_requests = 0 /\ (published \/ ~Stop)
       IN  /\ owner' = IF joins THEN "join" ELSE "idle"
           /\ cq' = IF joins /\ Stop THEN Append(cq, [token |-> StopToken, result |-> None]) ELSE cq
    /\ UNCHANGED <<records, active_requests, worker_running, shutdown, alive, kernel, worker, drained, cell, uring_log, issued>>

UringJoined ==
    /\ owner = "join" /\ worker = "stopped" /\ owner' = "idle" /\ shutdown' = TRUE
    /\ UNCHANGED <<records, active_requests, admission_open, worker_running, alive, kernel, cq, worker, drained, cell, uring_log,
                   issued, faults>>

(* uring_destroy; io_native.h refuses it until shutdown succeeded.            *)
UringDestroy ==
    /\ owner = "idle" /\ alive /\ shutdown /\ alive' = FALSE
    /\ UNCHANGED <<records, active_requests, admission_open, worker_running, shutdown, kernel, cq, worker, owner, drained,
                   cell, uring_log, issued, faults>>

UringNext ==
    \/ \E published \in BOOLEAN : \/ \E kind \in Kinds : UringSubmit(kind, published)
                                  \/ \E r \in Records : UringCancel(r, published)
                                  \/ UringShutdown(published)
    \/ \E r \in Records, result \in {"DATA", "ZERO", "ERROR", "CANCELED"} : KernelCompletes(r, result)
    \/ WorkerEnters \/ WorkerLoops \/ UringWorkerTakes
    \/ \E fits \in BOOLEAN, took \in BOOLEAN : UringDeliver(fits, took)
    \/ WorkerFails \/ \E r \in Records : FailRecord(r)
    \/ FailedAll \/ WorkerStops \/ UringJoined \/ UringDestroy

UringSpec == UringInit /\ [][UringNext]_uring_vars
-----------------------------------------------------------------------------
(* io_actor.h: an accepted submit is completed exactly once, and with what    *)
(* the kernel said of it: a completion of a record's earlier life is stale.   *)
(* The counter that lets the backend shut down is the number of records.      *)
UringRequestsExact ==
    /\ active_requests = Cardinality({r \in Records : records[r].phase = "PENDING"})
    /\ \A i \in Ids :
        /\ Len(outcome[i]) <= 1
        /\ outcome[i] # <<>> => \A r \in Records : records[r].request # i
        /\ outcome[i] = <<"EOF">> => verdict[i] = "ZERO"
        /\ outcome[i] = <<"CANCELLED">> => verdict[i] = "CANCELED"
        /\ outcome[i] = <<"OK">> => verdict[i] \in {"DATA", "ZERO"}

(* Every pending record is still with the kernel, in the queue, or about to   *)
(* be failed; a shutdown that joins has told the worker, or it has gone.      *)
UringNotStranded ==
    /\ \A r \in Records : records[r].phase = "PENDING"
        => \/ Token(r, records[r].generation) \in kernel
           \/ \E n \in DOMAIN cq : cq[n].token = Token(r, records[r].generation)
           \/ worker \in {"failing", "failing_deliver"}
    /\ owner = "join" => worker \in {"stopping", "stopped", "failing", "failing_deliver"}
                         \/ \E n \in DOMAIN cq : cq[n].token = StopToken

(* After shutdown no completion is being delivered, and the descriptor of an  *)
(* accept that was delivered belongs to its operation or is closed, unless    *)
(* the worker failed before it read the descriptor.                           *)
UringClosedQuiet ==
    /\ shutdown => worker = "stopped" /\ active_requests = 0
    /\ \A i \in Ids : /\ sockets[i] = "operation" => outcome[i] = <<"OK">>
                      /\ sockets[i] = "backend" /\ outcome[i] # <<>> => outcome[i] = <<"FAILED">> /\ ~admission_open

-----------------------------------------------------------------------------
(* The IOCP backend of native IO (cflow/src/io_native_iocp.c): actors'        *)
(* drivers reserve a record under the gate and start the operation outside    *)
(* it, on a handle one of them associates with the port; the worker takes     *)
(* packets from the port and finishes records.  Windows is external: a        *)
(* started operation posts one packet.                                        *)

iocp_vars == <<records, resources, active_requests, admission_open, worker_running, shutdown, alive, windows, port, pc, loc,
          worker, owner, cell, outcome, verdict, asked, issued, faults>>

IocpFreeRecord == [phase |-> "FREE", request |-> 0, handle |-> None, cancel |-> FALSE]
IocpNoCell == [request |-> 0, cancelled |-> FALSE, result |-> None]
StopKey == 0

IocpInit ==
    /\ records = [r \in Records |-> IocpFreeRecord] /\ resources = [h \in Handles |-> None]
    /\ active_requests = 0 /\ admission_open = TRUE /\ worker_running = TRUE /\ shutdown = FALSE /\ alive = TRUE
    /\ windows = {} /\ port = <<>> /\ pc = [s \in Submitters |-> "idle"] /\ loc = [s \in Submitters |-> 0]
    /\ worker = "wait" /\ owner = "idle" /\ cell = IocpNoCell
    /\ outcome = [i \in Ids |-> <<>>] /\ verdict = [i \in Ids |-> None] /\ asked = {}
    /\ issued = 0 /\ faults = 0

iocp_life == <<admission_open, worker_running, shutdown, alive>>
iocp_log == <<outcome, verdict, asked>>
work == <<worker, owner, cell>>
IocpGoto(s, step, r) == pc' = [pc EXCEPT ![s] = step] /\ loc' = [loc EXCEPT ![s] = r]

(* iocp_find_free_locked.                                                     *)
IocpFirstFree(r) == records[r].phase = "FREE" /\ \A q \in Records : q < r => records[q].phase # "FREE"

(* iocp_submit_record: the record is pending before the operation starts; ... *)
IocpSubmit(s, h) ==
    /\ pc[s] = "idle" /\ alive /\ admission_open /\ issued < MaxRequests /\ issued' = issued + 1
    /\ \E r \in Records :
        /\ IocpFirstFree(r)
        /\ records' = [records EXCEPT ![r] = [phase |-> "PENDING", request |-> issued', handle |-> h, cancel |-> FALSE]]
        /\ IocpGoto(s, "associate", r)
    /\ active_requests' = active_requests + 1
    /\ UNCHANGED <<resources, iocp_life, windows, port, work, iocp_log, faults>>

(* Mutant: a submit does not wait for the association under way.              *)
AssociatesBlind(s) ==
    /\ pc[s] = "associate"
    /\ LET h == records[loc[s]].handle
       IN  /\ resources' = [resources EXCEPT ![h] = IF @ = None THEN "associating" ELSE @]
           /\ IocpGoto(s, IF resources[h] = None THEN "associating" ELSE "begin", loc[s])
    /\ UNCHANGED <<records, active_requests, iocp_life, windows, port, work, iocp_log, issued, faults>>

(* ... iocp_associate_resource: the first associates, others wait for it ...  *)
Associates(s) ==
    /\ pc[s] = "associate"
    /\ LET h == records[loc[s]].handle
       IN  /\ resources[h] # "associating"
           /\ resources' = [resources EXCEPT ![h] = IF @ = None THEN "associating" ELSE @]
           /\ IocpGoto(s, IF resources[h] = None THEN "associating" ELSE "begin", loc[s])
    /\ UNCHANGED <<records, active_requests, iocp_life, windows, port, work, iocp_log, issued, faults>>

Associated(s, ok) ==
    /\ pc[s] = "associating"
    /\ IF ok THEN UNCHANGED faults ELSE Fault
    /\ resources' = [resources EXCEPT ![records[loc[s]].handle] = IF ok THEN "associated" ELSE None]
    /\ IocpGoto(s, IF ok THEN "begin" ELSE "failed", loc[s])
    /\ UNCHANGED <<records, active_requests, iocp_life, windows, port, work, iocp_log, issued>>

(* ... iocp_begin_operation, iocp_begin_vector_operation or                   *)
(* iocp_begin_file_operation; after that the record is the worker's ...       *)
Begin(s, ok) ==
    /\ pc[s] = "begin"
    /\ IF ok THEN windows' = windows \cup {loc[s]} /\ IocpGoto(s, "idle", 0) /\ UNCHANGED faults
       ELSE Fault /\ IocpGoto(s, "failed", loc[s]) /\ UNCHANGED windows
    /\ UNCHANGED <<records, resources, active_requests, iocp_life, port, work, iocp_log, issued>>

(* ... or the submit gives it back.                                           *)
SubmitFails(s) ==
    /\ pc[s] = "failed"
    /\ records' = [records EXCEPT ![loc[s]] = IocpFreeRecord]
    /\ active_requests' = active_requests - 1
    /\ IocpGoto(s, "idle", 0)
    /\ UNCHANGED <<resources, iocp_life, windows, port, work, iocp_log, issued, faults>>

(* iocp_cancel marks the record under the gate and calls CancelIoEx after it. *)
IocpCancel(s, r) ==
    /\ pc[s] = "idle" /\ alive /\ records[r].phase = "PENDING" /\ records[r].request \notin asked
    /\ records' = [records EXCEPT ![r].cancel = TRUE]
    /\ asked' = asked \cup {records[r].request}
    /\ IocpGoto(s, "cancel", r)
    /\ UNCHANGED <<resources, active_requests, iocp_life, windows, port, work, outcome, verdict, issued, faults>>

Posts(r, result) ==
    /\ windows' = windows \ {r}
    /\ port' = Append(port, [record |-> r, result |-> result])
    /\ verdict' = [verdict EXCEPT ![records[r].request] = result]

CancelIoEx(s) ==
    /\ pc[s] = "cancel" /\ IocpGoto(s, "idle", 0)
    /\ \/ loc[s] \in windows /\ Posts(loc[s], "ABORTED")
       \/ UNCHANGED <<windows, port, verdict>>
    /\ UNCHANGED <<records, resources, active_requests, iocp_life, work, outcome, asked, issued, faults>>

Completes(r, result) ==
    /\ r \in windows /\ Posts(r, result)
    /\ UNCHANGED <<records, resources, active_requests, iocp_life, pc, loc, work, outcome, asked, issued, faults>>
-----------------------------------------------------------------------------
(* iocp_worker and iocp_finish_record.                                        *)
IocpWorkerTakes ==
    /\ worker = "wait" /\ port # <<>> /\ port' = Tail(port)
    /\ LET r == Head(port).record
       IN  IF r = StopKey
           THEN worker' = "stopped" /\ worker_running' = FALSE /\ UNCHANGED <<records, active_requests, cell>>
           ELSE IF records[r].phase # "PENDING"
           THEN UNCHANGED <<worker, worker_running, records, active_requests, cell>>
           ELSE /\ cell' = [request |-> records[r].request, result |-> Head(port).result,
                            cancelled |-> records[r].cancel /\ Head(port).result = "ABORTED"]
                /\ records' = [records EXCEPT ![r] = IocpFreeRecord]
                /\ active_requests' = active_requests - 1 /\ worker' = "deliver"
                /\ UNCHANGED worker_running
    /\ UNCHANGED <<resources, admission_open, shutdown, alive, windows, pc, loc, owner, iocp_log, issued, faults>>

IocpCompletion ==
    IF cell.cancelled THEN "CANCELLED" ELSE IF cell.result = "EOF" THEN "EOF"
    ELSE IF cell.result = "DATA" THEN "OK" ELSE "FAILED"

IocpDeliver ==
    /\ worker = "deliver" /\ worker' = "wait" /\ cell' = IocpNoCell
    /\ outcome' = [outcome EXCEPT ![cell.request] = Append(@, IocpCompletion)]
    /\ UNCHANGED <<records, resources, active_requests, iocp_life, windows, port, pc, loc, owner, verdict, asked, issued, faults>>

(* iocp_forget_resource: refused while a record or an association uses it.    *)
Forget(h) ==
    /\ alive /\ resources[h] = "associated"
    /\ \A r \in Records : records[r].handle # h
    /\ resources' = [resources EXCEPT ![h] = None]
    /\ UNCHANGED <<records, active_requests, iocp_life, windows, port, pc, loc, work, iocp_log, issued, faults>>

(* Mutant: shutdown does not wait for the requests.                           *)
DrainedAlways == TRUE
Drained == active_requests = 0

(* iocp_shutdown and iocp_destroy.                                            *)
IocpShutdown ==
    /\ owner = "idle" /\ alive /\ ~shutdown
    /\ admission_open' = FALSE
    /\ IF Drained THEN owner' = "join" /\ port' = Append(port, [record |-> StopKey, result |-> None])
       ELSE UNCHANGED <<owner, port>>
    /\ UNCHANGED <<records, resources, active_requests, worker_running, shutdown, alive, windows, pc, loc, worker, cell, iocp_log,
                   issued, faults>>

IocpJoined ==
    /\ owner = "join" /\ worker = "stopped" /\ owner' = "idle" /\ shutdown' = TRUE
    /\ UNCHANGED <<records, resources, active_requests, admission_open, worker_running, alive, windows, port, pc, loc, worker,
                   cell, iocp_log, issued, faults>>

IocpDestroy ==
    /\ owner = "idle" /\ alive /\ shutdown /\ \A s \in Submitters : pc[s] = "idle"
    /\ alive' = FALSE
    /\ UNCHANGED <<records, resources, active_requests, admission_open, worker_running, shutdown, windows, port, pc, loc, work,
                   iocp_log, issued, faults>>

IocpNext ==
    \/ \E s \in Submitters : \/ \E h \in Handles : IocpSubmit(s, h)
                             \/ Associates(s) \/ SubmitFails(s) \/ CancelIoEx(s)
                             \/ \E ok \in BOOLEAN : Associated(s, ok) \/ Begin(s, ok)
                             \/ \E r \in Records : IocpCancel(s, r)
    \/ \E r \in Records, result \in {"DATA", "EOF", "ERROR"} : Completes(r, result)
    \/ IocpWorkerTakes \/ IocpDeliver \/ IocpShutdown \/ IocpJoined \/ IocpDestroy
    \/ \E h \in Handles : Forget(h)

IocpSpec == IocpInit /\ [][IocpNext]_iocp_vars
-----------------------------------------------------------------------------
(* io_actor.h: an accepted submit is completed exactly once, with what        *)
(* Windows said of it; only an aborted request that was asked to cancel is    *)
(* reported cancelled; a refused submit is never completed.                   *)
IocpRequestsExact ==
    /\ active_requests = Cardinality({r \in Records : records[r].phase = "PENDING"})
    /\ \A i \in Ids :
        /\ Len(outcome[i]) <= 1
        /\ outcome[i] # <<>> => verdict[i] # None /\ \A r \in Records : records[r].request # i
        /\ outcome[i] = <<"CANCELLED">> => i \in asked /\ verdict[i] = "ABORTED"
        /\ outcome[i] \in {<<"OK">>, <<"EOF">>} => verdict[i] \in {"DATA", "EOF"}

(* A record is started on a handle that is associated with the port, and a    *)
(* pending record is a submitter's, with Windows or in the port.              *)
IocpNotStranded ==
    \A r \in Records : records[r].phase = "PENDING"
        => \/ \E s \in Submitters : loc[s] = r /\ pc[s] \in {"associate", "associating", "begin", "failed"}
           \/ r \in windows /\ resources[records[r].handle] = "associated"
           \/ \E n \in DOMAIN port : port[n].record = r

(* After shutdown no packet and no delivery is left.                          *)
IocpClosedQuiet == shutdown => port = <<>> /\ windows = {} /\ worker = "stopped" /\ active_requests = 0

-----------------------------------------------------------------------------
(* The Darwin AIO file backend (cflow/src/io_native_darwin_aio.c): submits    *)
(* start an aiocb under the gate; one worker polls the records from a moving  *)
(* cursor, reaps what is no longer in progress and delivers it outside the    *)
(* gate.  The kernel's aio calls are external.                                *)

aio_vars == <<records, active_requests, admission_open, stopping, worker_running, shutdown, inflight, worker, cursor, scanned,
          delivered, cell, waiting, outcome, issued, faults>>

Slots == 0 .. Capacity - 1
AioFreeRecord == [active |-> FALSE, request |-> 0, native |-> "none"]
AioNoCell == [request |-> 0, native |-> "none"]

AioInit ==
    /\ records = [r \in Slots |-> AioFreeRecord] /\ active_requests = 0 /\ admission_open = TRUE
    /\ stopping = FALSE /\ worker_running = TRUE /\ shutdown = FALSE /\ inflight = FALSE
    /\ worker = "top" /\ cursor = 0 /\ scanned = 0 /\ delivered = 0 /\ cell = AioNoCell /\ waiting = {}
    /\ outcome = [i \in Ids |-> <<>>] /\ issued = 0 /\ faults = 0

aio_life == <<admission_open, stopping, worker_running, shutdown, inflight>>
scan == <<worker, cursor, scanned, delivered, cell, waiting>>

(* darwin_aio_submit_file: the first record that is not active; a call that   *)
(* fails leaves it so.                                                        *)
AioSubmit(started) ==
    /\ admission_open /\ issued < MaxRequests /\ issued' = issued + 1
    /\ IF started THEN UNCHANGED faults ELSE faults < MaxFaults /\ faults' = faults + 1
    /\ \E r \in Slots :
        /\ ~records[r].active /\ \A q \in Slots : q < r => records[q].active
        /\ records' = IF started THEN [records EXCEPT ![r] = [active |-> TRUE, request |-> issued', native |-> "INPROGRESS"]]
                      ELSE records
    /\ active_requests' = active_requests + (IF started THEN 1 ELSE 0)
    /\ UNCHANGED <<aio_life, scan, outcome>>

(* The kernel ends an operation; darwin_aio_cancel may end it cancelled, and  *)
(* never releases its record.                                                 *)
Ends(r, native) ==
    /\ records[r].native = "INPROGRESS"
    /\ records' = [records EXCEPT ![r].native = native]
    /\ UNCHANGED <<active_requests, aio_life, scan, outcome, issued, faults>>
-----------------------------------------------------------------------------
(* darwin_aio_worker: it sleeps without requests, leaves when stopping, ...   *)
Top ==
    /\ worker = "top" /\ (active_requests # 0 \/ stopping)
    /\ IF stopping THEN worker' = "gone" /\ worker_running' = FALSE ELSE worker' = "scan" /\ UNCHANGED worker_running
    /\ scanned' = 0 /\ delivered' = 0
    /\ UNCHANGED <<records, active_requests, admission_open, stopping, shutdown, inflight, cursor, cell, waiting, outcome,
                   issued, faults>>

(* ... looks at one record after the other from the cursor, reaping, ...      *)
Scan ==
    /\ worker = "scan" /\ scanned < Capacity
    /\ scanned' = scanned + 1 /\ cursor' = (cursor + 1) % Capacity
    /\ IF records[cursor].active /\ records[cursor].native # "INPROGRESS"
       THEN /\ cell' = [request |-> records[cursor].request, native |-> records[cursor].native]
            /\ records' = [records EXCEPT ![cursor] = AioFreeRecord]
            /\ active_requests' = active_requests - 1 /\ worker' = "deliver"
       ELSE UNCHANGED <<cell, records, active_requests, worker>>
    /\ UNCHANGED <<aio_life, delivered, waiting, outcome, issued, faults>>

AioCompletion == CASE cell.native = "CANCELED" -> "CANCELLED" [] cell.native = "ERROR" -> "FAILED" [] OTHER -> "OK"

AioDeliver ==
    /\ worker = "deliver"
    /\ outcome' = [outcome EXCEPT ![cell.request] = Append(@, AioCompletion)]
    /\ cell' = AioNoCell /\ delivered' = delivered + 1
    /\ worker' = IF delivered' = Batch THEN "top" ELSE "scan"
    /\ UNCHANGED <<records, active_requests, aio_life, cursor, scanned, waiting, issued, faults>>

(* ... and, when it delivered nothing, waits a bounded time for what is       *)
(* active: what is submitted meanwhile is in the next round.                  *)
Scanned ==
    /\ worker = "scan" /\ scanned = Capacity
    /\ IF delivered # 0 THEN worker' = "top" /\ UNCHANGED waiting
       ELSE worker' = "suspend" /\ waiting' = {r \in Slots : records[r].active}
    /\ UNCHANGED <<records, active_requests, aio_life, cursor, scanned, delivered, cell, outcome, issued, faults>>

Suspended ==
    /\ worker = "suspend" /\ worker' = "top" /\ waiting' = {}
    /\ UNCHANGED <<records, active_requests, aio_life, cursor, scanned, delivered, cell, outcome, issued, faults>>

(* Mutant: shutdown stops the worker while requests are active.               *)
MayStopBusy == ~inflight
MayStop == active_requests = 0 /\ ~inflight

(* darwin_aio_shutdown and its join.                                          *)
AioShutdown ==
    /\ ~shutdown
    /\ admission_open' = FALSE
    /\ stopping' = (stopping \/ MayStop) /\ inflight' = (inflight \/ MayStop)
    /\ UNCHANGED <<records, active_requests, worker_running, shutdown, scan, outcome, issued, faults>>

AioJoined ==
    /\ inflight /\ worker = "gone"
    /\ inflight' = FALSE /\ shutdown' = TRUE
    /\ UNCHANGED <<records, active_requests, admission_open, stopping, worker_running, scan, outcome, issued, faults>>

AioNext ==
    \/ \E started \in BOOLEAN : AioSubmit(started)
    \/ \E r \in Slots, native \in {"DONE", "ERROR", "CANCELED"} : Ends(r, native)
    \/ Top \/ Scan \/ AioDeliver \/ Scanned \/ Suspended \/ AioShutdown \/ AioJoined

AioSpec == AioInit /\ [][AioNext]_aio_vars
-----------------------------------------------------------------------------
(* Each accepted operation is reaped and completed once, and the worker waits *)
(* only for control blocks that are active.                                   *)
AioRequestsExact ==
    /\ active_requests = Cardinality({r \in Slots : records[r].active})
    /\ \A i \in Ids : Len(outcome[i]) <= 1
    /\ \A r \in waiting : records[r].active

(* While requests are active the worker is alive and not asleep for good.     *)
AioNotStranded == active_requests # 0 => worker # "gone" /\ ~(worker = "top" /\ stopping)

(* After shutdown nothing is active and no completion is being delivered.     *)
AioClosedQuiet == shutdown => active_requests = 0 /\ worker = "gone" /\ ~worker_running

-----------------------------------------------------------------------------
(* The readiness backend of native IO (cflow/src/io_native_readiness.c): the  *)
(* actor's driver submits and cancels, reactor callbacks continue, the owner  *)
(* forgets a socket and shuts down.  Whoever set a lane driving attempts the  *)
(* head of its queue, outside the gate.  The platform's reactor is external:  *)
(* an arm is one callback, an arm during a callback counts, close waits for   *)
(* the lane's callback.                                                       *)

ready_vars == <<records, lanes, queue, registration, socket_active, closing, active_requests, admission_open, shutdown, alive,
          pc, loc, outcome, issued, faults>>

Actor == "actor"
Reactor == "reactor"
Owner == "owner"
Threads == {Actor, Reactor, Owner}
Drivers == {Actor, Reactor}
ReadyFreeRecord == [phase |-> "FREE", lane |-> None, cancel |-> FALSE]
ClosedLane == [active |-> FALSE, armed |-> FALSE, arm_pending |-> FALSE, driving |-> FALSE, terminal |-> FALSE]
NoLoc == [lane |-> None, callback |-> FALSE, processed |-> 0, failed |-> FALSE, id |-> 0, kind |-> None]

ReadyInit ==
    /\ records = [i \in Ids |-> ReadyFreeRecord]
    /\ lanes = [l \in Lanes |-> ClosedLane] /\ queue = [l \in Lanes |-> <<>>]
    /\ registration = [l \in Lanes |-> None]
    /\ socket_active = FALSE /\ closing = FALSE /\ active_requests = 0
    /\ admission_open = TRUE /\ shutdown = FALSE /\ alive = TRUE
    /\ pc = [t \in Threads |-> "idle"] /\ loc = [t \in Threads |-> NoLoc]
    /\ outcome = <<>> /\ issued = 0 /\ faults = 0

socket == <<socket_active, closing>>
ready_life == <<admission_open, shutdown, alive>>

ReadyGoto(t, step) == pc' = [pc EXCEPT ![t] = step]
SetLane(l, r) == lanes' = [lanes EXCEPT ![l] = r]
Leave(t) == ReadyGoto(t, "idle") /\ loc' = [loc EXCEPT ![t] = NoLoc]

(* The callback's result goes to the reactor, which may arm again.            *)
Exit(t, rearm) ==
    IF t = Reactor THEN ReadyGoto(t, IF rearm THEN "rearm" ELSE "return") /\ UNCHANGED loc ELSE Leave(t)

(* readiness_find_free_locked and the free record it finds.                   *)
Full == Cardinality({i \in Ids : records[i].phase # "FREE"}) >= Capacity

(* readiness_submit_record: a record is reserved ...                          *)
ReadySubmit(l) ==
    /\ pc[Actor] = "idle" /\ alive /\ issued < MaxRequests
    /\ admission_open /\ ~Full /\ ~closing
    /\ issued' = issued + 1
    /\ records' = [records EXCEPT ![issued + 1] = [ReadyFreeRecord EXCEPT !.phase = "RESERVED", !.lane = l]]
    /\ socket_active' = TRUE /\ active_requests' = active_requests + 1
    /\ loc' = [loc EXCEPT ![Actor] = [NoLoc EXCEPT !.lane = l, !.id = issued + 1]]
    /\ ReadyGoto(Actor, "ensure")
    /\ UNCHANGED <<lanes, queue, registration, closing, ready_life, outcome, faults>>

(* ... readiness_ensure_lane duplicates and registers the socket once ...     *)
EnsureLane ==
    /\ pc[Actor] = "ensure"
    /\ LET l == loc[Actor].lane
       IN  /\ SetLane(l, [lanes[l] EXCEPT !.active = TRUE])
           /\ registration' = [registration EXCEPT ![l] = IF lanes[l].active THEN @ ELSE "idle"]
    /\ ReadyGoto(Actor, "append")
    /\ UNCHANGED <<records, queue, socket, active_requests, ready_life, loc, outcome, issued, faults>>

EnsureFails ==
    /\ pc[Actor] = "ensure" /\ ~lanes[loc[Actor].lane].active /\ Fault
    /\ records' = [records EXCEPT ![loc[Actor].id] = ReadyFreeRecord]
    /\ active_requests' = active_requests - 1
    /\ socket_active' = (active_requests' # 0 \/ \E l \in Lanes : lanes[l].active)
    /\ Leave(Actor)
    /\ UNCHANGED <<lanes, queue, registration, closing, ready_life, outcome, issued>>

(* ... and the record joins its lane, which the submit may have to drive.     *)
Append_ ==
    /\ pc[Actor] = "append"
    /\ LET l == loc[Actor].lane
           rests == ~lanes[l].armed /\ ~lanes[l].arm_pending /\ ~lanes[l].driving
       IN  /\ queue' = [queue EXCEPT ![l] = Append(@, loc[Actor].id)]
           /\ records' = [records EXCEPT ![loc[Actor].id].phase = "QUEUED"]
           /\ SetLane(l, [lanes[l] EXCEPT !.driving = @ \/ rests])
           /\ IF rests THEN ReadyGoto(Actor, "drive") /\ UNCHANGED loc ELSE Leave(Actor)
    /\ UNCHANGED <<registration, socket, active_requests, ready_life, outcome, issued, faults>>
-----------------------------------------------------------------------------
(* readiness_finish_record_locked: the record leaves; its delivery waits for  *)
(* the gate to be released.                                                   *)
Kind(i, kind) == IF records[i].cancel THEN "CANCELLED" ELSE kind
ReadyFinish(t, i, kind, failed, counted) ==
    /\ queue' = [queue EXCEPT ![records[i].lane] = SelectSeq(@, LAMBDA j : j # i)]
    /\ records' = [records EXCEPT ![i] = ReadyFreeRecord]
    /\ active_requests' = active_requests - 1
    /\ loc' = [loc EXCEPT ![t].id = i, ![t].kind = Kind(i, kind), ![t].failed = failed,
                          ![t].processed = @ + (IF counted THEN 1 ELSE 0)]
    /\ ReadyGoto(t, "deliver")
    /\ UNCHANGED <<registration, socket, ready_life, outcome, issued, faults>>

ReadyDeliver(t) ==
    /\ pc[t] = "deliver"
    /\ outcome' = Append(outcome, [id |-> loc[t].id, kind |-> loc[t].kind])
    /\ loc' = [loc EXCEPT ![t].id = 0, ![t].kind = None] /\ ReadyGoto(t, "drive")
    /\ UNCHANGED <<records, lanes, queue, registration, socket, active_requests, ready_life, issued, faults>>

(* readiness_find_cancelled_locked.                                           *)
Cancelled(l) == SelectSeq(queue[l], LAMBDA i : records[i].cancel /\ records[i].phase = "QUEUED")

(* readiness_drive_lane: one hold of the gate.                                *)
Drive(t) ==
    /\ pc[t] = "drive"
    /\ LET l == loc[t].lane
           lane == lanes[l]
           failed == loc[t].failed \/ lane.terminal
           here == [lane EXCEPT !.terminal = FALSE]
       IN  IF ~lane.active \/ closing
           THEN /\ SetLane(l, [here EXCEPT !.driving = FALSE]) /\ Exit(t, FALSE)
                /\ UNCHANGED <<records, queue, registration, socket, active_requests, ready_life, outcome, issued, faults>>
           ELSE IF queue[l] = <<>>
           THEN /\ SetLane(l, [here EXCEPT !.driving = FALSE, !.armed = FALSE]) /\ Exit(t, FALSE)
                /\ UNCHANGED <<records, queue, registration, socket, active_requests, ready_life, outcome, issued, faults>>
           ELSE IF failed
           THEN SetLane(l, here) /\ ReadyFinish(t, Head(queue[l]), "FAILED", TRUE, FALSE)
           ELSE IF Cancelled(l) # <<>>
           THEN SetLane(l, here) /\ ReadyFinish(t, Head(Cancelled(l)), "OK", FALSE, TRUE)
           ELSE IF loc[t].processed >= Batch
           THEN /\ IF loc[t].callback
                   THEN SetLane(l, [here EXCEPT !.driving = FALSE, !.armed = TRUE]) /\ Exit(t, TRUE)
                   ELSE ReadyGoto(t, "arm") /\ UNCHANGED <<lanes, loc>>
                /\ UNCHANGED <<records, queue, registration, socket, active_requests, ready_life, outcome, issued, faults>>
           ELSE /\ records' = [records EXCEPT ![Head(queue[l])].phase = "PROCESSING"]
                /\ SetLane(l, here) /\ ReadyGoto(t, "attempt")
                /\ UNCHANGED <<queue, registration, socket, active_requests, ready_life, loc, outcome, issued, faults>>

(* readiness_attempt on the head, and the hold of the gate after it.          *)
Attempt(t, kind) ==
    /\ pc[t] = "attempt"
    /\ LET l == loc[t].lane
           i == Head(queue[l])
       IN  IF records[i].cancel \/ kind # "BLOCKS"
           THEN ReadyFinish(t, i, kind, FALSE, TRUE) /\ UNCHANGED lanes
           ELSE /\ records' = [records EXCEPT ![i].phase = "QUEUED"]
                /\ IF loc[t].callback
                   THEN SetLane(l, [lanes[l] EXCEPT !.driving = FALSE, !.armed = TRUE]) /\ Exit(t, TRUE)
                   ELSE ReadyGoto(t, "arm") /\ UNCHANGED <<lanes, loc>>
                /\ UNCHANGED <<queue, registration, socket, active_requests, ready_life, outcome, issued, faults>>

(* readiness_arm_lane around the platform's arm, whose callback may come      *)
(* before it returns.                                                         *)
Arm(t) ==
    /\ pc[t] = "arm"
    /\ LET l == loc[t].lane
           over == ~lanes[l].active \/ queue[l] = <<>> \/ closing
       IN  /\ SetLane(l, [lanes[l] EXCEPT !.driving = FALSE, !.arm_pending = @ \/ ~over])
           /\ IF over THEN Exit(t, FALSE) ELSE ReadyGoto(t, "arming") /\ UNCHANGED loc
    /\ UNCHANGED <<records, queue, registration, socket, active_requests, ready_life, outcome, issued, faults>>

PlatformArms(t) ==
    /\ pc[t] = "arming" /\ registration[loc[t].lane] # None
    /\ registration' = [registration EXCEPT ![loc[t].lane] = "armed"]
    /\ ReadyGoto(t, "armed")
    /\ UNCHANGED <<records, lanes, queue, socket, active_requests, ready_life, loc, outcome, issued, faults>>

PlatformRefuses(t) ==
    /\ pc[t] = "arming" /\ ReadyGoto(t, "refused")
    /\ IF registration[loc[t].lane] = None THEN UNCHANGED faults ELSE Fault
    /\ UNCHANGED <<records, lanes, queue, registration, socket, active_requests, ready_life, loc, outcome, issued>>

ArmEnds(t) ==
    /\ pc[t] \in {"armed", "refused"}
    /\ LET l == loc[t].lane
           fails == lanes[l].arm_pending /\ pc[t] = "refused"
       IN  /\ SetLane(l, [lanes[l] EXCEPT !.arm_pending = FALSE, !.armed = @ \/ (lanes[l].arm_pending /\ ~fails),
                                          !.driving = @ \/ fails])
           /\ IF fails THEN /\ loc' = [loc EXCEPT ![t] = [NoLoc EXCEPT !.lane = l, !.failed = TRUE]]
                            /\ ReadyGoto(t, "drive")
              ELSE Exit(t, FALSE)
    /\ UNCHANGED <<records, queue, registration, socket, active_requests, ready_life, outcome, issued, faults>>
-----------------------------------------------------------------------------
(* readiness_native_continuation on the reactor's thread.                     *)
Callback(l, failed) ==
    /\ pc[Reactor] = "idle" /\ registration[l] = "armed"
    /\ IF failed THEN Fault ELSE UNCHANGED faults
    /\ registration' = [registration EXCEPT ![l] = "idle"]
    /\ loc' = [loc EXCEPT ![Reactor] = [NoLoc EXCEPT !.lane = l, !.callback = TRUE, !.failed = failed]]
    /\ IF ~lanes[l].active \/ closing THEN ReadyGoto(Reactor, "return") /\ UNCHANGED lanes
       ELSE /\ SetLane(l, [lanes[l] EXCEPT !.armed = FALSE, !.arm_pending = FALSE, !.driving = TRUE,
                                           !.terminal = @ \/ (lanes[l].driving /\ failed)])
            /\ ReadyGoto(Reactor, IF lanes[l].driving THEN "return" ELSE "drive")
    /\ UNCHANGED <<records, queue, socket, active_requests, ready_life, outcome, issued>>

CallbackReturns ==
    /\ pc[Reactor] \in {"return", "rearm"}
    /\ registration' = [registration EXCEPT ![loc[Reactor].lane] = IF pc[Reactor] = "rearm" THEN "armed" ELSE @]
    /\ Leave(Reactor)
    /\ UNCHANGED <<records, lanes, queue, socket, active_requests, ready_life, outcome, issued, faults>>

(* Mutant: cancel drives a lane that has its driver.                          *)
CancelDrives(i) ==
    /\ pc[Actor] = "idle" /\ alive /\ records[i].phase # "FREE" /\ ~records[i].cancel
    /\ records' = [records EXCEPT ![i].cancel = TRUE]
    /\ LET l == records[i].lane
           lane == lanes[l]
       IN  IF records[i].phase = "PROCESSING" THEN UNCHANGED <<lanes, pc, loc>>
           ELSE /\ SetLane(l, [lane EXCEPT !.armed = FALSE, !.arm_pending = FALSE, !.driving = TRUE])
                /\ loc' = [loc EXCEPT ![Actor] = [NoLoc EXCEPT !.lane = l]]
                /\ ReadyGoto(Actor, IF lane.armed \/ lane.arm_pending THEN "unarm" ELSE "drive")
    /\ UNCHANGED <<queue, registration, socket, active_requests, ready_life, outcome, issued, faults>>

(* readiness_cancel: a lane that nobody drives is unarmed and driven; any     *)
(* other is left to its driver.                                               *)
ReadyCancel(i) ==
    /\ pc[Actor] = "idle" /\ alive /\ records[i].phase # "FREE" /\ ~records[i].cancel
    /\ records' = [records EXCEPT ![i].cancel = TRUE]
    /\ LET l == records[i].lane
           lane == lanes[l]
       IN  IF records[i].phase = "PROCESSING" \/ lane.driving THEN UNCHANGED <<lanes, pc, loc>>
           ELSE /\ SetLane(l, [lane EXCEPT !.armed = FALSE, !.arm_pending = FALSE, !.driving = TRUE])
                /\ loc' = [loc EXCEPT ![Actor] = [NoLoc EXCEPT !.lane = l]]
                /\ ReadyGoto(Actor, IF lane.armed \/ lane.arm_pending THEN "unarm" ELSE "drive")
    /\ UNCHANGED <<queue, registration, socket, active_requests, ready_life, outcome, issued, faults>>

Unarm ==
    /\ pc[Actor] = "unarm"
    /\ registration' = [registration EXCEPT ![loc[Actor].lane] = "idle"]
    /\ ReadyGoto(Actor, "drive")
    /\ UNCHANGED <<records, lanes, queue, socket, active_requests, ready_life, loc, outcome, issued, faults>>
-----------------------------------------------------------------------------
Undisturbed == \A l \in Lanes : ~lanes[l].driving /\ ~lanes[l].arm_pending

(* readiness_forget_socket and readiness_shutdown close the lanes one by one; *)
(* io_native.h has shutdown retried after the Actor has drained.              *)
ForgetSocket ==
    /\ pc[Owner] = "idle" /\ alive /\ socket_active /\ ~closing /\ active_requests = 0
    /\ Undisturbed
    /\ closing' = TRUE /\ ReadyGoto(Owner, "forget")
    /\ UNCHANGED <<records, lanes, queue, registration, socket_active, active_requests, ready_life, loc, outcome, issued, faults>>

(* Mutant: shutdown does not wait for the requests.                          *)
ShutdownBusy ==
    /\ pc[Owner] = "idle" /\ alive /\ ~shutdown
    /\ active_requests # 0 \/ pc[Actor] = "idle"
    /\ admission_open' = FALSE
    /\ closing' = (closing \/ socket_active)
    /\ ReadyGoto(Owner, "shutdown")
    /\ UNCHANGED <<records, lanes, queue, registration, socket_active, active_requests, shutdown, alive, loc, outcome,
                   issued, faults>>

ReadyShutdown ==
    /\ pc[Owner] = "idle" /\ alive /\ ~shutdown
    /\ active_requests # 0 \/ pc[Actor] = "idle"
    /\ admission_open' = FALSE
    /\ closing' = (closing \/ (active_requests = 0 /\ socket_active))
    /\ ReadyGoto(Owner, IF active_requests = 0 THEN "shutdown" ELSE "idle")
    /\ UNCHANGED <<records, lanes, queue, registration, socket_active, active_requests, shutdown, alive, loc, outcome,
                   issued, faults>>

(* readiness_close_lane: the platform's close waits for the lane's callback.  *)
CloseLane(l) ==
    /\ pc[Owner] \in {"forget", "shutdown"} /\ lanes[l].active
    /\ loc[Reactor].lane # l
    /\ registration' = [registration EXCEPT ![l] = None]
    /\ SetLane(l, ClosedLane)
    /\ UNCHANGED <<records, queue, socket, active_requests, ready_life, pc, loc, outcome, issued, faults>>

CloseFails(l) ==
    /\ pc[Owner] \in {"forget", "shutdown"} /\ lanes[l].active /\ Fault
    /\ closing' = (closing /\ pc[Owner] = "shutdown")
    /\ ReadyGoto(Owner, "idle")
    /\ UNCHANGED <<records, lanes, queue, registration, socket_active, active_requests, ready_life, loc, outcome, issued>>

LanesClosed ==
    /\ pc[Owner] \in {"forget", "shutdown"} /\ \A l \in Lanes : ~lanes[l].active
    /\ IF pc[Owner] = "forget" THEN socket_active' = FALSE /\ closing' = FALSE /\ UNCHANGED shutdown
       ELSE shutdown' = TRUE /\ UNCHANGED socket
    /\ ReadyGoto(Owner, "idle")
    /\ UNCHANGED <<records, lanes, queue, registration, active_requests, admission_open, alive, loc, outcome, issued, faults>>

(* readiness_destroy, after the actor's driver is gone.                       *)
ReadyDestroy ==
    /\ pc[Owner] = "idle" /\ alive /\ shutdown /\ pc[Actor] = "idle"
    /\ alive' = FALSE
    /\ UNCHANGED <<records, lanes, queue, registration, socket, active_requests, admission_open, shutdown, pc, loc,
                   outcome, issued, faults>>

ReadyNext ==
    \/ \E l \in Lanes : ReadySubmit(l) \/ CloseLane(l) \/ CloseFails(l) \/ \E failed \in BOOLEAN : Callback(l, failed)
    \/ EnsureLane \/ EnsureFails \/ Append_
    \/ \E t \in Drivers : \/ ReadyDeliver(t) \/ Drive(t) \/ Arm(t) \/ PlatformArms(t) \/ PlatformRefuses(t) \/ ArmEnds(t)
                          \/ \E kind \in {"OK", "BLOCKS"} : Attempt(t, kind)
    \/ CallbackReturns
    \/ \E i \in Ids : ReadyCancel(i)
    \/ Unarm \/ ForgetSocket \/ ReadyShutdown \/ LanesClosed \/ ReadyDestroy

ReadySpec == ReadyInit /\ [][ReadyNext]_ready_vars
-----------------------------------------------------------------------------

(* io_actor.h: an accepted submit is completed exactly once; a lane completes *)
(* what was not cancelled in the order it was submitted; and the counters     *)
(* that let a socket be forgotten and the backend shut down stay exact.       *)
ReadyRequestsExact ==
    /\ \A a \in DOMAIN outcome : \A b \in DOMAIN outcome : a # b => outcome[a].id # outcome[b].id
    /\ active_requests = Cardinality({i \in Ids : records[i].phase # "FREE"})
    /\ \A a \in DOMAIN outcome : records[outcome[a].id].phase = "FREE"
    /\ \A l \in Lanes : /\ IsInjective(queue[l])
                        /\ \A i \in Ids : records[i].phase \in {"QUEUED", "PROCESSING"} /\ records[i].lane = l
                                          <=> Contains(queue[l], i)

(* A lane with work has one driver, or an arm whose callback will drive it.   *)
ReadyNotStranded ==
    \A l \in Lanes :
        LET drivers == {t \in Drivers : loc[t].lane = l /\ pc[t] \in {"drive", "deliver", "attempt", "arm", "unarm"}}
        IN  /\ Cardinality(drivers) <= 1
            /\ lanes[l].driving /\ ~closing => drivers # {}
            /\ queue[l] # <<>> /\ ~lanes[l].driving
               => \/ registration[l] = "armed"
                  \/ \E t \in Drivers : loc[t].lane = l /\ pc[t] \in {"arming", "refused", "rearm"}

(* A backend that was shut down has no callback in it and no lane registered. *)
ReadyClosedQuiet == shutdown => /\ \A l \in Lanes : registration[l] = None /\ queue[l] = <<>>
                           /\ pc[Reactor] = "idle" /\ active_requests = 0
=============================================================================
