------------------------------ MODULE IoActor ------------------------------
(* The IO actor (cflow/src/io_actor.c): callers submit, cancel, acknowledge   *)
(* and close; a driver turns commands into backend calls and completions into *)
(* executor tasks; a backend completes, workers deliver.  Every action is one *)
(* hold of the gate or one call made outside it.  A wake is the call of       *)
(* impl->wake: it asks the host to drive.                                     *)
EXTENDS Naturals, Sequences, FiniteSets, FiniteSetsExt

CONSTANTS Callers, Drivers, Leases,
          RequestCapacity, CommandCapacity,
          MaxRequests,      \* requests ever accepted
          MaxFaults         \* cancels accepted and posts refused

VARIABLES requests,         \* slot |-> id, lease, phase, completion, cancel flags
          commands, lifecycle, driver_active, wake_pending, callbacks_inflight,
          pc, plan,         \* where every thread is; the driver's step plan
          asked, again,     \* the host was woken; a driver has steps left to run
          tasks,            \* slots posted to the executor
          backend,          \* ids the backend still has to complete
          history,          \* id |-> what became of it
          faults, alive

vars == <<requests, commands, lifecycle, driver_active, wake_pending, callbacks_inflight, pc, plan, asked, again, tasks,
          backend, history, faults, alive>>

Slots == 1 .. RequestCapacity
Ids == 1 .. MaxRequests
Worker == "worker"
Backend == "backend"
Threads == Callers \cup Drivers \cup {Worker, Backend}
Unheard == "none"
FreeSlot == [id |-> 0, lease |-> Unheard, phase |-> "FREE", completion |-> Unheard, requested |-> FALSE,
             dispatched |-> FALSE]
NoPlan == [slot |-> 0, id |-> 0]

Init ==
    /\ requests = [s \in Slots |-> FreeSlot]
    /\ commands = <<>> /\ lifecycle = "RUNNING"
    /\ driver_active = FALSE /\ wake_pending = FALSE /\ callbacks_inflight = 0
    /\ pc = [t \in Threads |-> "idle"] /\ plan = NoPlan
    /\ asked = FALSE /\ again = FALSE
    /\ tasks = {} /\ backend = {} /\ history = <<>>
    /\ faults = 0 /\ alive = TRUE

gate == <<requests, commands, lifecycle>>
waking == <<driver_active, wake_pending, callbacks_inflight, asked>>
outside == <<tasks, backend, history>>
bounds == <<faults, alive>>

Goto(t, step) == pc' = [pc EXCEPT ![t] = step]

(* io_find_request_locked.                                                   *)
Of(id) == {s \in Slots : requests[s].phase # "FREE" /\ requests[s].id = id}

InPhase(phase) == {s \in Slots : requests[s].phase = phase}

SetPhase(s, phase) == [requests EXCEPT ![s].phase = phase]

(* A terminal completion: the slot's, and with it the evidence of the request. *)
Completed(s, kind) ==
    /\ requests' = [requests EXCEPT ![s].phase = "COMPLETED", ![s].completion = kind]
    /\ history' = [history EXCEPT ![requests[s].id].evidence = kind]

(* Mutant: a wake that finds a driver at work is dropped.                     *)
DeferredNever == FALSE
(* io_prepare_wake_locked leaves a pending wake to the driver at work.        *)
Deferred == driver_active

prepare_wake ==
    /\ wake_pending' = (IF driver_active THEN Deferred ELSE FALSE)
    /\ asked' = (asked \/ ~driver_active)

(* io_notify: its gate, the call of wake, and the credit given back.          *)
io_notify(t) ==
    /\ pc[t] = "notify"
    /\ prepare_wake
    /\ callbacks_inflight' = callbacks_inflight + (IF driver_active THEN 0 ELSE 1)
    /\ Goto(t, IF ~driver_active THEN "wake" ELSE IF t \in Drivers THEN "plan" ELSE "idle")
    /\ UNCHANGED <<gate, driver_active, plan, again, outside, bounds>>

WakeReturns(t) ==
    /\ pc[t] = "wake"
    /\ callbacks_inflight' = callbacks_inflight - 1
    /\ Goto(t, "idle")
    /\ UNCHANGED <<gate, driver_active, wake_pending, asked, plan, again, outside, bounds>>
-----------------------------------------------------------------------------
(* The callers.                                                               *)
Calls(t) == alive /\ t \in Callers /\ pc[t] = "idle"

(* io_lease_in_use_locked.                                                    *)
LeaseInUse(l) == \E s \in Slots : requests[s].phase # "FREE" /\ requests[s].lease = l

FirstFree == Min(InPhase("FREE"))

cflow_io_actor_try_submit(t, l) ==
    /\ Calls(t) /\ lifecycle = "RUNNING"
    /\ ~LeaseInUse(l)
    /\ InPhase("FREE") # {} /\ Len(commands) < CommandCapacity
    /\ Len(history) < MaxRequests
    /\ LET id == Len(history) + 1
       IN  /\ commands' = Append(commands, [kind |-> "SUBMIT", id |-> id])
           /\ requests' = [requests EXCEPT ![FirstFree] = [FreeSlot EXCEPT !.id = id, !.lease = l, !.phase = "ADMITTED"]]
    /\ history' = Append(history, [handed |-> 0, evidence |-> Unheard, delivered |-> <<>>, released |-> 0])
    /\ Goto(t, "notify")
    /\ UNCHANGED <<lifecycle, waking, plan, again, tasks, backend, bounds>>

cflow_io_actor_try_cancel(t, id) ==
    /\ Calls(t) /\ lifecycle = "RUNNING"
    /\ Of(id) # {} /\ Len(commands) < CommandCapacity
    /\ faults < MaxFaults /\ faults' = faults + 1
    /\ commands' = Append(commands, [kind |-> "CANCEL", id |-> id])
    /\ Goto(t, "notify")
    /\ UNCHANGED <<requests, lifecycle, waking, plan, again, outside, alive>>

(* cflow_io_actor_acknowledge: RELEASING, the release callback outside the    *)
(* gate, then the slot is cleared.                                            *)
AckBegins(t, s) ==
    /\ Calls(t) /\ requests[s].phase = "DELIVERED"
    /\ requests' = SetPhase(s, "RELEASING")
    /\ history' = [history EXCEPT ![requests[s].id].released = @ + 1]
    /\ Goto(t, "releasing")
    /\ UNCHANGED <<commands, lifecycle, waking, plan, again, tasks, backend, bounds>>

AckEnds(t) ==
    /\ pc[t] = "releasing"
    /\ \E s \in InPhase("RELEASING") : requests' = [requests EXCEPT ![s] = FreeSlot]
    /\ Goto(t, "notify")
    /\ UNCHANGED <<commands, lifecycle, waking, plan, again, outside, bounds>>

Unsubmitted == InPhase("ADMITTED") \cup InPhase("READY")

cflow_io_actor_close(t) ==
    /\ Calls(t) /\ lifecycle = "RUNNING"
    /\ lifecycle' = "CLOSING"
    /\ requests' = [s \in Slots |->
           IF s \in Unsubmitted THEN [requests[s] EXCEPT !.phase = "COMPLETED", !.completion = "CANCELLED"]
           ELSE [requests[s] EXCEPT !.requested = @ \/ requests[s].phase = "BACKEND_PENDING"]]
    /\ history' = [id \in DOMAIN history |->
           IF Of(id) \cap Unsubmitted # {} THEN [history[id] EXCEPT !.evidence = "CANCELLED"] ELSE history[id]]
    /\ Goto(t, "notify")
    /\ UNCHANGED <<commands, waking, plan, again, tasks, backend, bounds>>

(* Mutant: destroy does not wait for callbacks.                               *)
QuiescentUncounted == lifecycle = "CLOSING" /\ commands = <<>> /\ InPhase("FREE") = Slots /\ ~driver_active
(* cflow_io_actor_is_quiescent; destroy needs the API entries to be quiet too. *)
Quiescent ==
    /\ lifecycle = "CLOSING" /\ commands = <<>> /\ InPhase("FREE") = Slots
    /\ ~driver_active /\ callbacks_inflight = 0

cflow_io_actor_destroy ==
    /\ alive /\ Quiescent
    /\ \A t \in Callers \cup Drivers : pc[t] = "idle"
    /\ alive' = FALSE
    /\ UNCHANGED <<gate, waking, pc, plan, again, outside, faults>>
-----------------------------------------------------------------------------
(* The driver.                                                                *)
io_driver_enter(d) ==
    /\ alive /\ pc[d] = "idle" /\ (asked \/ again)
    /\ asked' = FALSE
    /\ IF driver_active THEN UNCHANGED <<driver_active, again, pc>>
       ELSE driver_active' = TRUE /\ again' = FALSE /\ Goto(d, "plan")
    /\ UNCHANGED <<gate, wake_pending, callbacks_inflight, plan, outside, bounds>>

(* io_process_command_locked.                                                 *)
ProcessCommand(d) ==
    /\ pc[d] = "plan" /\ commands # <<>>
    /\ commands' = Tail(commands)
    /\ LET command == Head(commands)
           known == Of(command.id)
           s == Min(known)
           phase == requests[s].phase
       IN  IF known = {} THEN UNCHANGED <<requests, history>>
           ELSE IF /\ phase \in {"ADMITTED", "READY"}
                   /\ command.kind = "CANCEL" \/ (phase = "ADMITTED" /\ lifecycle = "CLOSING")
                THEN Completed(s, "CANCELLED")
           ELSE /\ requests' = IF command.kind = "SUBMIT" /\ phase = "ADMITTED" THEN SetPhase(s, "READY")
                               ELSE [requests EXCEPT ![s].requested = @ \/ (/\ command.kind = "CANCEL"
                                                                            /\ phase = "BACKEND_PENDING")]
                /\ UNCHANGED history
    /\ UNCHANGED <<lifecycle, waking, pc, plan, again, tasks, backend, bounds>>

ToCancel == {s \in InPhase("BACKEND_PENDING") : requests[s].requested /\ ~requests[s].dispatched}

(* io_plan_step_locked once no command is left: a cancel, then the oldest     *)
(* ready request, then the first completion.                                  *)
Plan(d) ==
    /\ pc[d] = "plan" /\ commands = <<>>
    /\ IF ToCancel # {}
       THEN LET s == Min(ToCancel)
            IN  /\ requests' = [requests EXCEPT ![s].dispatched = TRUE]
                /\ plan' = [slot |-> s, id |-> requests[s].id] /\ Goto(d, "cancel")
                /\ UNCHANGED history
       ELSE IF InPhase("READY") # {}
       THEN LET s == CHOOSE r \in InPhase("READY") : \A q \in InPhase("READY") : requests[r].id <= requests[q].id
            IN  /\ requests' = SetPhase(s, "BACKEND_PENDING") /\ Goto(d, "submit")
                /\ plan' = [slot |-> s, id |-> requests[s].id]
                /\ UNCHANGED history
       ELSE IF InPhase("COMPLETED") # {}
       THEN LET s == Min(InPhase("COMPLETED"))
            IN  /\ requests' = SetPhase(s, "DISPATCH_QUEUED")
                /\ plan' = [slot |-> s, id |-> requests[s].id] /\ Goto(d, "dispatch")
                /\ UNCHANGED history
       ELSE Goto(d, "leave") /\ UNCHANGED <<requests, history, plan>>
    /\ UNCHANGED <<commands, lifecycle, waking, again, tasks, backend, bounds>>

(* max_steps is reached: the driver's caller knows there may be more.         *)
StepsSpent(d) ==
    /\ pc[d] = "plan" /\ Goto(d, "leave") /\ again' = TRUE
    /\ UNCHANGED <<gate, waking, plan, outside, bounds>>

(* io_execute_cancel: a request to the backend, which completes as it likes.  *)
ExecuteCancel(d) ==
    /\ pc[d] = "cancel" /\ Goto(d, "plan") /\ plan' = NoPlan
    /\ UNCHANGED <<gate, waking, again, outside, bounds>>

(* io_execute_submit: the call, what may complete inside it, and its status.  *)
SubmitCalls(d) ==
    /\ pc[d] = "submit"
    /\ backend' = backend \cup {plan.id}
    /\ history' = [history EXCEPT ![plan.id].handed = @ + 1]
    /\ Goto(d, "submitting")
    /\ UNCHANGED <<gate, waking, plan, again, tasks, bounds>>

SubmitReturns(d) ==
    /\ pc[d] = "submitting" /\ Goto(d, "plan") /\ plan' = NoPlan
    /\ UNCHANGED <<gate, waking, again, outside, bounds>>

SubmitFails(d) ==
    /\ pc[d] = "submitting"
    /\ backend' = backend \ {plan.id}
    /\ LET pending == Of(plan.id) \cap InPhase("BACKEND_PENDING")
       IN  IF pending = {} THEN Goto(d, "plan") /\ UNCHANGED <<requests, history>>
           ELSE Completed(Min(pending), "FAILED") /\ Goto(d, "notify")
    /\ plan' = NoPlan
    /\ UNCHANGED <<commands, lifecycle, waking, again, tasks, bounds>>

(* io_execute_dispatch: a post, or a refusal that keeps the completion for a  *)
(* later drive.                                                               *)
Dispatch(d) ==
    /\ pc[d] = "dispatch"
    /\ tasks' = tasks \cup {plan.slot}
    /\ Goto(d, "plan") /\ plan' = NoPlan
    /\ UNCHANGED <<gate, waking, again, backend, history, bounds>>

DispatchRefused(d) ==
    /\ pc[d] = "dispatch" /\ faults < MaxFaults /\ faults' = faults + 1
    /\ requests' = SetPhase(plan.slot, "COMPLETED")
    /\ Goto(d, "leave") /\ plan' = NoPlan /\ again' = TRUE
    /\ UNCHANGED <<commands, lifecycle, waking, outside, alive>>

io_driver_leave(d) ==
    /\ pc[d] = "leave"
    /\ driver_active' = FALSE /\ wake_pending' = FALSE
    /\ asked' = (asked \/ wake_pending)
    /\ callbacks_inflight' = callbacks_inflight + (IF wake_pending THEN 1 ELSE 0)
    /\ Goto(d, IF wake_pending THEN "wake" ELSE "idle")
    /\ UNCHANGED <<gate, plan, again, outside, bounds>>
-----------------------------------------------------------------------------
(* Mutant: a completion is taken in any phase.                                *)
PendingAny(id) == Of(id)
Pending(id) == Of(id) \cap InPhase("BACKEND_PENDING")

(* io_complete_impl from the backend; a late or second one changes nothing.   *)
Complete(id, kind) ==
    /\ pc[Backend] = "idle" /\ id \in DOMAIN history /\ history[id].handed # 0
    /\ backend' = backend \ {id}
    /\ IF Pending(id) = {} THEN UNCHANGED <<requests, history, waking, pc>>
       ELSE /\ requests' = [requests EXCEPT ![Min(Pending(id))].phase = "COMPLETED", ![Min(Pending(id))].completion = kind]
            /\ history' = IF history[id].evidence # Unheard THEN history ELSE [history EXCEPT ![id].evidence = kind]
            /\ prepare_wake /\ UNCHANGED driver_active
            /\ callbacks_inflight' = callbacks_inflight + (IF driver_active THEN 0 ELSE 1)
            /\ Goto(Backend, IF driver_active THEN "idle" ELSE "wake")
    /\ UNCHANGED <<commands, lifecycle, plan, again, tasks, bounds>>

(* io_delivery_task on the executor.                                          *)
DeliveryBegins ==
    /\ pc[Worker] = "idle"
    /\ \E s \in tasks :
        /\ tasks' = tasks \ {s}
        /\ requests' = SetPhase(s, "DISPATCH_RUNNING")
        /\ history' = [history EXCEPT ![requests[s].id].delivered = Append(@, requests[s].completion)]
    /\ callbacks_inflight' = callbacks_inflight + 1
    /\ Goto(Worker, "callback")
    /\ UNCHANGED <<commands, lifecycle, driver_active, wake_pending, asked, plan, again, backend, bounds>>

DeliveryEnds ==
    /\ pc[Worker] = "callback"
    /\ \E s \in InPhase("DISPATCH_RUNNING") : requests' = SetPhase(s, "DELIVERED")
    /\ prepare_wake
    /\ callbacks_inflight' = callbacks_inflight - (IF driver_active THEN 1 ELSE 0)
    /\ Goto(Worker, IF driver_active THEN "idle" ELSE "wake")
    /\ UNCHANGED <<commands, lifecycle, driver_active, plan, again, outside, bounds>>

Drives(d) ==
    \/ io_driver_enter(d) \/ ProcessCommand(d) \/ Plan(d) \/ StepsSpent(d) \/ ExecuteCancel(d)
    \/ SubmitCalls(d) \/ SubmitReturns(d) \/ SubmitFails(d) \/ Dispatch(d) \/ DispatchRefused(d) \/ io_driver_leave(d)

Next ==
    \/ \E t \in Callers : \/ \E l \in Leases : cflow_io_actor_try_submit(t, l)
                          \/ \E id \in Ids : cflow_io_actor_try_cancel(t, id)
                          \/ \E s \in Slots : AckBegins(t, s)
                          \/ AckEnds(t) \/ cflow_io_actor_close(t)
    \/ \E t \in Threads : io_notify(t) \/ WakeReturns(t)
    \/ \E d \in Drivers : Drives(d)
    \/ \E id \in Ids : Complete(id, "OK")
    \/ DeliveryBegins \/ DeliveryEnds
    \/ cflow_io_actor_destroy

Spec == Init /\ [][Next]_vars
-----------------------------------------------------------------------------
TypeOK ==
    /\ callbacks_inflight \in 0 .. Cardinality(Threads)
    /\ \A s \in Slots : requests[s].phase \in {"FREE", "ADMITTED", "READY", "BACKEND_PENDING", "COMPLETED",
           "DISPATCH_QUEUED", "DISPATCH_RUNNING", "DELIVERED", "RELEASING"}

(* io_actor.h: an accepted request is handed to the backend at most once,     *)
(* delivered once with its first authoritative completion, released once and  *)
(* after that, and holds its slot and its lease alone until then.             *)
RequestsExact ==
    /\ \A id \in DOMAIN history :
        LET h == history[id]
        IN  /\ h.handed <= 1 /\ h.released <= 1 /\ Len(h.delivered) <= 1
            /\ \A i \in DOMAIN h.delivered : h.delivered[i] = h.evidence
            /\ h.released = 1 => Len(h.delivered) = 1
            /\ h.handed = 0 => h.evidence \in {Unheard, "CANCELLED"}
            /\ Cardinality(Of(id)) <= 1
            /\ Of(id) = {} => h.released = 1
    /\ \A s, r \in Slots : s # r /\ requests[s].phase # "FREE" /\ requests[r].phase # "FREE"
                           => requests[s].lease # requests[r].lease

(* Work the driver could do is never left behind: a driver is at work or will *)
(* be asked for by the host, by a pending wake or by a thread on its way.     *)
Work == commands # <<>> \/ ToCancel # {} \/ InPhase("READY") # {} \/ InPhase("COMPLETED") # {}
NotStranded ==
    Work => \/ asked \/ again \/ wake_pending
            \/ \E d \in Drivers : pc[d] \notin {"idle", "leave", "wake"}
            \/ \E t \in Threads : pc[t] = "notify"

(* A destroyed actor has no task posted, no completion outstanding and no     *)
(* callback running.                                                          *)
DestroyQuiet ==
    ~alive => tasks = {} /\ backend = {} /\ \A t \in Threads : pc[t] = "idle"
=============================================================================
