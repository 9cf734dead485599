-------------------------------- MODULE MCIo --------------------------------
(* Small instances of the IO components side by side: which names the         *)
(* component that moves; it uses the variables x1, x2, ... as its own.      *)
EXTENDS Naturals, Sequences, TLC

CONSTANTS c1, d1, d2, l1, l2, s1, s2, h1, f1, p1, p2

VARIABLES which,
          x1, x2, x3, x4, x5, x6, x7, x8, x9, x10, x11, x12, x13, x14, x15, x16, x17, x18, x19,
          x20, x21, x22, x23, x24, x25, x26, x27, x28, x29, x30, x31

vars == <<which, x1, x2, x3, x4, x5, x6, x7, x8, x9, x10, x11, x12, x13, x14, x15, x16, x17,
          x18, x19, x20, x21, x22, x23, x24, x25, x26, x27, x28, x29, x30, x31>>

(* Constants that have one value wherever they are used.                      *)
Files == {f1}
Producers == {p1, p2}
FileCapacity == 1
SlotCapacity == 2
CommandCapacity == 2
Bridges == 2
MaxSteps == 2
Records == {1, 2}
MaxGeneration == 2
Submitters == {s1, s2}
Handles == {h1}
Capacity == 2
Lanes == {"READ"}
MaxReads == 3
Windows == {1, 2}
MaxOperations == 2
Encodings == {"VALUE", "DONE"}

ActorSide == INSTANCE IoActor WITH
    Callers <- {c1}, Drivers <- {d1, d2}, Leases <- {l1, l2}, RequestCapacity <- 2,
    CommandCapacity <- 2, MaxRequests <- 2, MaxFaults <- 1,
    requests <- x1, commands <- x2, lifecycle <- x3, driver_active <- x4, wake_pending <- x5,
    callbacks_inflight <- x6, pc <- x7, plan <- x8, asked <- x9, again <- x10, tasks <- x11,
    backend <- x12, history <- x13, faults <- x14, alive <- x15

Source == INSTANCE IoClients WITH
    window <- x1, manual <- x2, entries <- x3, occupied <- x4, demand <- x5, results <- x6,
    submission <- x7, prepare_done <- x8, seen <- x9, terminal <- x10, close_requested <- x11,
    publisher_live <- x12, owner_live <- x13, source_waker <- x14, wake_inflight <- x15,
    woken <- x16, driver_active <- x17, drive_pending <- x18, drive_inflight <- x19,
    asked <- x20, again <- x21, actor <- x22, admission <- x23, tasks <- x24, pc <- x25,
    cancelling <- x26, slot <- x27, held <- x28, issued <- x29, delivered <- x30, emitted <- x31,
    MaxRequests <- 1, MaxFaults <- 0, slots <- x1, open <- x2, closing <- x3, runtime <- x4,
    driver <- x5, producer <- x6, control <- x7, actor_closed <- x9, commands <- x10,
    native <- x11, calls <- x12, full <- x13, faults <- x14

ReadinessSide == INSTANCE IoAdapters WITH
    MaxFaults <- 2,
    phase <- x1, waker <- x2, references <- x3, publisher_live <- x4, owner_live <- x5,
    cancelled <- x6, cleanup_inflight <- x7, cleanup_complete <- x8, registration <- x9,
    pc <- x10, closer <- x11, woken <- x12, reads <- x13, faults <- x14, closes <- x15,
    wakes <- x16, freed <- x17,
    MaxRequests <- 1, Batch <- 1, bridges <- x1, free <- x2, closed <- x3, alive <- x4,
    loc <- x6, shard <- x7, at <- x8, native <- x9, heard <- x10, outcome <- x11, issued <- x12,
    commands <- x3, posting <- x4, backend <- x6, ready <- x7, batch <- x8, polled <- x10,
    steps <- x11

Sockets == INSTANCE IoBackends WITH
    Batch <- 1, MaxRequests <- 3, MaxFaults <- 1,
    records <- x1, lanes <- x2, queue <- x3, registration <- x4, socket_active <- x5,
    closing <- x6, active_requests <- x7, admission_open <- x8, shutdown <- x9, alive <- x10,
    pc <- x11, loc <- x12, outcome <- x13, issued <- x14, faults <- x15,
    worker_running <- x4, kernel <- x7, cq <- x8, worker <- x9, owner <- x10, drained <- x11,
    cell <- x12, verdict <- x14, sockets <- x15, resources <- x2, windows <- x8, port <- x9,
    asked <- x17, stopping <- x4, inflight <- x7, cursor <- x9, scanned <- x10,
    delivered <- x11, waiting <- x13

Uring == INSTANCE IoBackends WITH
    Batch <- 2, MaxRequests <- 2, MaxFaults <- 1,
    records <- x1, active_requests <- x2, admission_open <- x3, worker_running <- x4,
    shutdown <- x5, alive <- x6, kernel <- x7, cq <- x8, worker <- x9, owner <- x10,
    drained <- x11, cell <- x12, outcome <- x13, verdict <- x14, sockets <- x15, issued <- x16,
    faults <- x17,
    resources <- x2, windows <- x8, port <- x9, pc <- x10, loc <- x11, asked <- x17,
    stopping <- x4, inflight <- x7, cursor <- x9, scanned <- x10, delivered <- x11,
    waiting <- x13, lanes <- x2, queue <- x3, registration <- x4, socket_active <- x5,
    closing <- x6

Ports == INSTANCE IoBackends WITH
    MaxRequests <- 2, MaxFaults <- 1,
    records <- x1, resources <- x2, active_requests <- x3, admission_open <- x4,
    worker_running <- x5, shutdown <- x6, alive <- x7, windows <- x8, port <- x9, pc <- x10,
    loc <- x11, worker <- x12, owner <- x13, cell <- x14, outcome <- x15, verdict <- x16,
    asked <- x17, issued <- x18, faults <- x19,
    Batch <- 1, kernel <- x7, cq <- x8, drained <- x11, sockets <- x15, stopping <- x4,
    inflight <- x7, cursor <- x9, scanned <- x10, delivered <- x11, waiting <- x13, lanes <- x2,
    queue <- x3, registration <- x4, socket_active <- x5, closing <- x6

Aio == INSTANCE IoBackends WITH
    Batch <- 1, MaxRequests <- 3, MaxFaults <- 1,
    records <- x1, active_requests <- x2, admission_open <- x3, stopping <- x4,
    worker_running <- x5, shutdown <- x6, inflight <- x7, worker <- x8, cursor <- x9,
    scanned <- x10, delivered <- x11, cell <- x12, waiting <- x13, outcome <- x14,
    issued <- x15, faults <- x16,
    alive <- x6, kernel <- x7, cq <- x8, owner <- x10, drained <- x11, verdict <- x14,
    sockets <- x15, resources <- x2, windows <- x8, port <- x9, pc <- x10, loc <- x11,
    asked <- x17, lanes <- x2, queue <- x3, registration <- x4, socket_active <- x5,
    closing <- x6

Sharded == INSTANCE IoAdapters WITH
    MaxRequests <- 2, MaxFaults <- 1,
    bridges <- x1, free <- x2, closed <- x3, alive <- x4, pc <- x5, loc <- x6, shard <- x7,
    at <- x8, native <- x9, heard <- x10, outcome <- x11, issued <- x12, faults <- x13,
    Batch <- 1, commands <- x3, posting <- x4, woken <- x5, backend <- x6, ready <- x7,
    batch <- x8, polled <- x10, steps <- x11, phase <- x1, waker <- x2, references <- x3,
    publisher_live <- x4, owner_live <- x5, cancelled <- x6, cleanup_inflight <- x7,
    cleanup_complete <- x8, registration <- x9, closer <- x11, reads <- x13, closes <- x15,
    wakes <- x16, freed <- x17

Adapter == INSTANCE IoAdapters WITH
    Batch <- 1, MaxRequests <- 3, MaxFaults <- 1,
    bridges <- x1, free <- x2, commands <- x3, posting <- x4, woken <- x5, backend <- x6,
    ready <- x7, batch <- x8, pc <- x9, polled <- x10, steps <- x11, closed <- x12,
    outcome <- x13, issued <- x14, faults <- x15,
    alive <- x4, loc <- x6, shard <- x7, at <- x8, native <- x9, heard <- x10, phase <- x1,
    waker <- x2, references <- x3, publisher_live <- x4, owner_live <- x5, cancelled <- x6,
    cleanup_inflight <- x7, cleanup_complete <- x8, registration <- x9, closer <- x11,
    reads <- x13, closes <- x15, wakes <- x16, freed <- x17

FileSide == INSTANCE IoClients WITH
    MaxRequests <- 2, MaxFaults <- 1,
    slots <- x1, open <- x2, closing <- x3, runtime <- x4, driver <- x5, producer <- x6,
    control <- x7, actor <- x8, actor_closed <- x9, commands <- x10, native <- x11,
    calls <- x12, full <- x13, faults <- x14,
    window <- x1, manual <- x2, entries <- x3, occupied <- x4, demand <- x5, results <- x6,
    submission <- x7, prepare_done <- x8, seen <- x9, terminal <- x10, close_requested <- x11,
    publisher_live <- x12, owner_live <- x13, source_waker <- x14, wake_inflight <- x15,
    woken <- x16, driver_active <- x17, drive_pending <- x18, drive_inflight <- x19,
    asked <- x20, again <- x21, admission <- x23, tasks <- x24, pc <- x25, cancelling <- x26,
    slot <- x27, held <- x28, issued <- x29, delivered <- x30, emitted <- x31

(* A component of n variables has no use for the others.                     *)
Idle(n) ==
    /\ (IF n < 14 THEN x14 = 0 ELSE TRUE) /\ (IF n < 15 THEN x15 = 0 ELSE TRUE) /\ (IF n < 16 THEN x16 = 0 ELSE TRUE)
    /\ (IF n < 17 THEN x17 = 0 ELSE TRUE) /\ (IF n < 18 THEN x18 = 0 ELSE TRUE) /\ (IF n < 19 THEN x19 = 0 ELSE TRUE)
    /\ (IF n < 20 THEN x20 = 0 ELSE TRUE) /\ (IF n < 21 THEN x21 = 0 ELSE TRUE) /\ (IF n < 22 THEN x22 = 0 ELSE TRUE)
    /\ (IF n < 23 THEN x23 = 0 ELSE TRUE) /\ (IF n < 24 THEN x24 = 0 ELSE TRUE) /\ (IF n < 25 THEN x25 = 0 ELSE TRUE)
    /\ (IF n < 26 THEN x26 = 0 ELSE TRUE) /\ (IF n < 27 THEN x27 = 0 ELSE TRUE) /\ (IF n < 28 THEN x28 = 0 ELSE TRUE)
    /\ (IF n < 29 THEN x29 = 0 ELSE TRUE) /\ (IF n < 30 THEN x30 = 0 ELSE TRUE) /\ (IF n < 31 THEN x31 = 0 ELSE TRUE)

Still(n) ==
    /\ (IF n < 14 THEN UNCHANGED x14 ELSE TRUE) /\ (IF n < 15 THEN UNCHANGED x15 ELSE TRUE) /\ (IF n < 16 THEN UNCHANGED x16 ELSE TRUE)
    /\ (IF n < 17 THEN UNCHANGED x17 ELSE TRUE) /\ (IF n < 18 THEN UNCHANGED x18 ELSE TRUE) /\ (IF n < 19 THEN UNCHANGED x19 ELSE TRUE)
    /\ (IF n < 20 THEN UNCHANGED x20 ELSE TRUE) /\ (IF n < 21 THEN UNCHANGED x21 ELSE TRUE) /\ (IF n < 22 THEN UNCHANGED x22 ELSE TRUE)
    /\ (IF n < 23 THEN UNCHANGED x23 ELSE TRUE) /\ (IF n < 24 THEN UNCHANGED x24 ELSE TRUE) /\ (IF n < 25 THEN UNCHANGED x25 ELSE TRUE)
    /\ (IF n < 26 THEN UNCHANGED x26 ELSE TRUE) /\ (IF n < 27 THEN UNCHANGED x27 ELSE TRUE) /\ (IF n < 28 THEN UNCHANGED x28 ELSE TRUE)
    /\ (IF n < 29 THEN UNCHANGED x29 ELSE TRUE) /\ (IF n < 30 THEN UNCHANGED x30 ELSE TRUE) /\ (IF n < 31 THEN UNCHANGED x31 ELSE TRUE)

Init ==
    \/ which = "actor" /\ ActorSide!Init /\ Idle(15)
    \/ which = "source" /\ Source!WindowInit
    \/ which = "readiness" /\ ReadinessSide!ReadinessInit /\ Idle(17)
    \/ which = "sockets" /\ Sockets!ReadyInit /\ Idle(15)
    \/ which = "uring" /\ Uring!UringInit /\ Idle(17)
    \/ which = "iocp" /\ Ports!IocpInit /\ Idle(19)
    \/ which = "aio" /\ Aio!AioInit /\ Idle(16)
    \/ which = "sharded" /\ Sharded!ShardedInit /\ Idle(13)
    \/ which = "adapter" /\ Adapter!NativeInit /\ Idle(15)
    \/ which = "file" /\ FileSide!FileInit /\ Idle(14)

Next ==
    /\ \/ which = "actor" /\ ActorSide!Next /\ Still(15)
       \/ which = "source" /\ Source!WindowNext
       \/ which = "readiness" /\ ReadinessSide!ReadinessNext /\ Still(17)
       \/ which = "sockets" /\ Sockets!ReadyNext /\ Still(15)
       \/ which = "uring" /\ Uring!UringNext /\ Still(17)
       \/ which = "iocp" /\ Ports!IocpNext /\ Still(19)
       \/ which = "aio" /\ Aio!AioNext /\ Still(16)
       \/ which = "sharded" /\ Sharded!ShardedNext /\ Still(13)
       \/ which = "adapter" /\ Adapter!NativeNext /\ Still(15)
       \/ which = "file" /\ FileSide!FileNext /\ Still(14)
    /\ UNCHANGED which

Spec == Init /\ [][Next]_vars

Symmetry == Permutations({d1, d2}) \cup Permutations({l1, l2})
-----------------------------------------------------------------------------
(* A request that was accepted is given to the backend at most once, is      *)
(* completed once, with the result that is its own, and its record, bridge,  *)
(* slot or window entry is not another request's in between.                 *)
RequestsExact ==
    /\ which = "actor" => ActorSide!TypeOK /\ ActorSide!RequestsExact
    /\ which = "source" => Source!TypeOK /\ Source!WindowExact
    /\ which = "sockets" => Sockets!ReadyRequestsExact
    /\ which = "uring" => Uring!UringRequestsExact
    /\ which = "iocp" => Ports!IocpRequestsExact
    /\ which = "aio" => Aio!AioRequestsExact
    /\ which = "sharded" => Sharded!ShardedRequestsExact
    /\ which = "adapter" => Adapter!NativeRequestsExact
    /\ which = "file" => FileSide!RequestsExact

(* Nothing sleeps on what nobody will bring: an actor, a publisher, a worker *)
(* or an armed lane that has work left has been asked to do it, and a close  *)
(* has reached every operation of its file.                                  *)
NotStranded ==
    /\ which = "actor" => ActorSide!NotStranded
    /\ which = "source" => Source!WindowNotStranded
    /\ which = "readiness" => ReadinessSide!ReadinessNotStranded
    /\ which = "sockets" => Sockets!ReadyNotStranded
    /\ which = "uring" => Uring!UringNotStranded
    /\ which = "iocp" => Ports!IocpNotStranded
    /\ which = "aio" => Aio!AioNotStranded
    /\ which = "sharded" => Sharded!ShardedNotStranded
    /\ which = "adapter" => Adapter!NativeNotStranded
    /\ which = "file" => FileSide!FileNotStranded

(* Shutdown, close and destroy leave nothing behind that still runs, holds a *)
(* request, or is about to call back.                                        *)
ClosedQuiet ==
    /\ which = "actor" => ActorSide!DestroyQuiet
    /\ which = "source" => Source!WindowClosedQuiet
    /\ which = "readiness" => ReadinessSide!ReadinessClosedQuiet
    /\ which = "sockets" => Sockets!ReadyClosedQuiet
    /\ which = "uring" => Uring!UringClosedQuiet
    /\ which = "iocp" => Ports!IocpClosedQuiet
    /\ which = "aio" => Aio!AioClosedQuiet
    /\ which = "sharded" => Sharded!ShardedClosedQuiet
    /\ which = "file" => FileSide!FileClosedQuiet

=============================================================================
