--------------------------- MODULE OwnerScheduler ---------------------------
(* The owner executor and the scheduler bound to it.                          *)
EXTENDS Integers, Sequences, FiniteSets

CONSTANTS
    ExecutorCapacity, NoTask,
    MaxTails,       \* bound: threads between a post or a shutdown and its wake
    ReadyCapacity,  \* slots of the scheduler
    Foreign,        \* threads other than the owner that post and cancel
    Owner,
    Direct,         \* descriptors other users post to the executor
    MaxId           \* bound: task ids of one binding

VARIABLES
    mailbox,                  \* the queued descriptors; queued is its length
    running,                  \* the descriptor being run, or NoTask
    cancel,                   \* run_one's local: the descriptor is cancelled, not run
    lifecycle, policy,
    tails,                    \* threads that have posted and not woken the host yet
    signal,                   \* the host's wake target is signalled
    host,                     \* RUN: in its loop; WAIT: asleep on the signal; GONE
    life,                     \* UNBOUND, LIVE, DESTROYING
    phase, slotId, consumed,  \* the slots
    free, pending, settling, dispatching, nextId, stopping,
    step,                     \* where the owner is in a run_one
    cancelling,               \* slot whose cancel a thread is in, or 0
    calls                     \* ghost: run or cancel calls of each task id

-----------------------------------------------------------------------------
(* The owner-bound executor (cflow/src/executor_owner.c): any thread posts   *)
(* task descriptors into one bounded mailbox, and one host thread, the       *)
(* owner, takes them out and runs or cancels them.  Every operation is one   *)
(* critical section of the gate; a task's callbacks and the wake run outside *)
(* it.  The actions are composed with a user of the executor in              *)
(* OwnerScheduler.                                                           *)

executorVars == <<mailbox, running, cancel, lifecycle, policy, tails, signal, host>>

cflow_executor_owner_init ==
    /\ mailbox = <<>> /\ running = NoTask /\ cancel = FALSE
    /\ lifecycle = "OPEN" /\ policy = "NONE"
    /\ tails = 0 /\ signal = FALSE /\ host = "RUN"

owner_maybe_close(state) ==
    IF state = "CLOSING" /\ mailbox' = <<>> /\ running' = NoTask THEN "CLOSED" ELSE state

(* Mutant: a post wakes the host only while it runs a task.                  *)
NeedsWakeBusy == running # NoTask

(* Whether a post or a shutdown has to signal the host.                      *)
NeedsWake == mailbox = <<>> /\ running = NoTask

(* Mutant: the newest task goes first.                                       *)
owner_task_admitFirst(task) ==
    /\ lifecycle = "OPEN"
    /\ Len(mailbox) < ExecutorCapacity
    /\ mailbox' = <<task>> \o mailbox
    /\ tails' = IF NeedsWake THEN tails + 1 ELSE tails
    /\ tails' <= MaxTails
    /\ UNCHANGED <<running, cancel, lifecycle, policy, signal, host>>

owner_task_admit(task) ==
    /\ lifecycle = "OPEN"
    /\ Len(mailbox) < ExecutorCapacity
    /\ mailbox' = Append(mailbox, task)
    /\ tails' = IF NeedsWake THEN tails + 1 ELSE tails
    /\ tails' <= MaxTails
    /\ UNCHANGED <<running, cancel, lifecycle, policy, signal, host>>

(* The poster calls wake after it has released the gate.                     *)
WakeTail ==
    /\ tails > 0
    /\ tails' = tails - 1
    /\ signal' = TRUE
    /\ UNCHANGED <<mailbox, running, cancel, lifecycle, policy, host>>

(* run_one up to the callbacks ...                                           *)
RunBegin ==
    /\ host = "RUN"
    /\ running = NoTask
    /\ mailbox # <<>>
    /\ running' = Head(mailbox)
    /\ mailbox' = Tail(mailbox)
    /\ cancel' = (policy = "CANCEL_PENDING")
    /\ UNCHANGED <<lifecycle, policy, tails, signal, host>>

(* ... and after them.                                                       *)
RunEnd ==
    /\ running # NoTask
    /\ running' = NoTask
    /\ cancel' = FALSE
    /\ UNCHANGED <<mailbox, policy, tails, signal, host>>
    /\ lifecycle' = owner_maybe_close(lifecycle)

owner_control_shutdown(p) ==
    /\ policy = "NONE"
    /\ policy' = p
    /\ tails' = IF mailbox # <<>> /\ running = NoTask THEN tails + 1 ELSE tails
    /\ tails' <= MaxTails
    /\ UNCHANGED <<mailbox, running, cancel, signal, host>>
    /\ lifecycle' = owner_maybe_close("CLOSING")

(* The host's loop: it drives run_one until nothing is pending, then waits   *)
(* for its wake target.                                                      *)
HostIdle ==
    /\ host = "RUN" /\ running = NoTask /\ mailbox = <<>>
    /\ host' = "WAIT"
    /\ UNCHANGED <<mailbox, running, cancel, lifecycle, policy, tails, signal>>

HostWoken ==
    /\ host = "WAIT" /\ signal
    /\ host' = "RUN"
    /\ signal' = FALSE
    /\ UNCHANGED <<mailbox, running, cancel, lifecycle, policy, tails>>

(* owner_destroy up to its first run_one; the posters, their wakes included, *)
(* are quiescent.                                                            *)
ExecutorDestroy ==
    /\ host \in {"RUN", "WAIT"}
    /\ running = NoTask /\ tails = 0
    /\ host' = "RUN"
    /\ policy' = IF lifecycle = "OPEN" THEN "CANCEL_PENDING" ELSE policy
    /\ signal' = (signal \/ (lifecycle = "OPEN" /\ mailbox # <<>>))
    /\ UNCHANGED <<mailbox, running, cancel, tails>>
    /\ lifecycle' = owner_maybe_close(IF lifecycle = "OPEN" THEN "CLOSING" ELSE lifecycle)

(* The drain loop of owner_destroy is over and the memory is freed.          *)
ExecutorFree ==
    /\ host = "RUN" /\ lifecycle # "OPEN"
    /\ running = NoTask /\ mailbox = <<>> /\ tails = 0
    /\ host' = "GONE"
    /\ UNCHANGED <<mailbox, running, cancel, lifecycle, policy, tails, signal>>

-----------------------------------------------------------------------------
(* The scheduler bound to an owner executor (cflow/src/scheduler_owner.c),   *)
(* composed with that executor.  A post takes a slot and queues the slot's   *)
(* descriptor; the owner settles a descriptor by running or cancelling the   *)
(* slot's task; any thread may cancel a task by its id, and then the slot is *)
(* a tombstone until both the canceller and the owner are through with it.   *)

schedulerVars == <<life, phase, slotId, consumed, free, pending, settling, dispatching,
                   nextId, stopping, step, cancelling, calls>>
vars == <<executorVars, schedulerVars>>

Slots == 1..ReadyCapacity
Threads == Foreign \cup {Owner}
Ids == 1..MaxId
Queued == {mailbox[k] : k \in DOMAIN mailbox}

Init ==
    /\ cflow_executor_owner_init
    /\ life = "UNBOUND"
    /\ phase = [s \in Slots |-> "FREE"]
    /\ slotId = [s \in Slots |-> 0]
    /\ consumed = [s \in Slots |-> FALSE]
    /\ free = <<>>
    /\ pending = 0 /\ settling = 0 /\ dispatching = 0
    /\ nextId = 0
    /\ stopping = FALSE
    /\ step = "idle"
    /\ cancelling = [t \in Threads |-> 0]
    /\ calls = [i \in Ids |-> 0]

(* The owner is in a callback: it may post, cancel and shut down from there. *)
InCallback == step = "callback" \/ running \in Direct

(* The owner thread can take its next step: it is not inside a cancel.       *)
OwnerFree == cancelling[Owner] = 0

(* Other threads use the scheduler until the host, for destroy, has stopped  *)
(* them; the owner's callbacks may use it even then.                         *)
MayCall(t) ==
    \/ t \in Foreign /\ life = "LIVE"
    \/ /\ t = Owner /\ OwnerFree /\ host # "GONE"
       /\ \/ life = "LIVE" /\ step = "idle"
          \/ life # "UNBOUND" /\ InCallback

-----------------------------------------------------------------------------
cflow_scheduler_owner_bind ==
    /\ life = "UNBOUND"
    /\ step = "idle" /\ OwnerFree
    /\ lifecycle = "OPEN" /\ host # "GONE"
    /\ life' = "LIVE"
    /\ phase' = [s \in Slots |-> "FREE"]
    /\ slotId' = [s \in Slots |-> 0]
    /\ consumed' = [s \in Slots |-> FALSE]
    /\ free' = [k \in Slots |-> ReadyCapacity + 1 - k]
    /\ pending' = 0 /\ settling' = 0 /\ dispatching' = 0
    /\ nextId' = 0
    /\ stopping' = FALSE
    /\ calls' = [i \in Ids |-> 0]
    /\ UNCHANGED <<executorVars, step, cancelling>>

(* A post that the executor rejects puts the slot back.                      *)
owner_try_post_task_after(t) ==
    LET s == free[Len(free)] IN
    /\ MayCall(t)
    /\ ~stopping
    /\ nextId < MaxId
    /\ free # <<>>
    /\ owner_task_admit(s)
    /\ free' = SubSeq(free, 1, Len(free) - 1)
    /\ phase' = [phase EXCEPT ![s] = "PENDING"]
    /\ slotId' = [slotId EXCEPT ![s] = nextId + 1]
    /\ consumed' = [consumed EXCEPT ![s] = FALSE]
    /\ nextId' = nextId + 1
    /\ pending' = pending + 1
    /\ UNCHANGED <<life, settling, dispatching, stopping, step, cancelling, calls>>

(* Other users of the shared executor.                                       *)
DirectPost(task) ==
    /\ host # "GONE"
    /\ task \notin Queued /\ running # task
    /\ owner_task_admit(task)
    /\ UNCHANGED schedulerVars

slot_return_locked(s) ==
    /\ phase' = [phase EXCEPT ![s] = "FREE"]
    /\ consumed' = [consumed EXCEPT ![s] = FALSE]
    /\ slotId' = [slotId EXCEPT ![s] = 0]
    /\ free' = Append(free, s)
    /\ pending' = pending - 1

Called(i) == calls' = [calls EXCEPT ![i] = @ + 1]

-----------------------------------------------------------------------------
(* owner_cancel up to the user's callbacks, and after them.                  *)

Cancellable(s) == phase[s] = "PENDING"

CancelBegin(t, s) ==
    /\ MayCall(t)
    /\ cancelling[t] = 0
    /\ Cancellable(s)
    /\ phase' = [phase EXCEPT ![s] = "CANCEL_SETTLING"]
    /\ settling' = settling + 1
    /\ cancelling' = [cancelling EXCEPT ![t] = s]
    /\ Called(slotId[s])
    /\ UNCHANGED <<executorVars, life, slotId, consumed, free, pending, dispatching, nextId,
                   stopping, step>>

CancelEnd(t) ==
    LET s == cancelling[t] IN
    /\ s # 0
    /\ settling' = settling - 1
    /\ cancelling' = [cancelling EXCEPT ![t] = 0]
    /\ IF consumed[s]
       THEN slot_return_locked(s)
       ELSE /\ phase' = [phase EXCEPT ![s] = "CANCELLED"]
            /\ UNCHANGED <<slotId, consumed, free, pending>>
    /\ UNCHANGED <<executorVars, life, dispatching, nextId, stopping, step, calls>>

-----------------------------------------------------------------------------
(* The owner: run_one of the executor, and owner_slot_settle within it.      *)

OwnerRunBegin ==
    /\ step = "idle" /\ OwnerFree
    /\ life = "DESTROYING" => pending # 0
    /\ RunBegin
    /\ step' = "taken"
    /\ UNCHANGED <<life, phase, slotId, consumed, free, pending, settling, dispatching,
                   nextId, stopping, cancelling, calls>>

(* Mutant: the task no longer counts once its callback has been entered.     *)
SettlePendingEarly ==
    LET s == running IN
    /\ step = "taken" /\ s \in Slots
    /\ phase[s] = "PENDING"
    /\ phase' = [phase EXCEPT ![s] = "RUNNING"]
    /\ pending' = pending - 1
    /\ dispatching' = dispatching + 1
    /\ Called(slotId[s])
    /\ step' = "callback"
    /\ UNCHANGED <<executorVars, life, slotId, consumed, free, settling, nextId, stopping,
                   cancelling>>

SettlePending ==
    LET s == running IN
    /\ step = "taken" /\ s \in Slots
    /\ phase[s] = "PENDING"
    /\ phase' = [phase EXCEPT ![s] = "RUNNING"]
    /\ settling' = IF cancel THEN settling + 1 ELSE settling
    /\ dispatching' = IF cancel THEN dispatching ELSE dispatching + 1
    /\ Called(slotId[s])
    /\ step' = "callback"
    /\ UNCHANGED <<executorVars, life, slotId, consumed, free, pending, nextId, stopping,
                   cancelling>>

(* A cancel is under way: it will give the slot back.                        *)
SettleCancelling ==
    LET s == running IN
    /\ step = "taken" /\ s \in Slots
    /\ phase[s] = "CANCEL_SETTLING"
    /\ consumed' = [consumed EXCEPT ![s] = TRUE]
    /\ step' = "settled"
    /\ UNCHANGED <<executorVars, life, phase, slotId, free, pending, settling, dispatching,
                   nextId, stopping, cancelling, calls>>

SettleTombstone ==
    LET s == running IN
    /\ step = "taken" /\ s \in Slots
    /\ phase[s] = "CANCELLED"
    /\ slot_return_locked(s)
    /\ step' = "settled"
    /\ UNCHANGED <<executorVars, life, settling, dispatching, nextId, stopping, cancelling,
                   calls>>

CallbackReturns ==
    /\ step = "callback" /\ OwnerFree
    /\ settling' = IF cancel THEN settling - 1 ELSE settling
    /\ dispatching' = IF cancel THEN dispatching ELSE dispatching - 1
    /\ slot_return_locked(running)
    /\ step' = "settled"
    /\ UNCHANGED <<executorVars, life, nextId, stopping, cancelling, calls>>

OwnerRunEnd ==
    /\ step = "settled" \/ (step = "taken" /\ running \in Direct)
    /\ OwnerFree
    /\ RunEnd
    /\ step' = "idle"
    /\ UNCHANGED <<life, phase, slotId, consumed, free, pending, settling, dispatching,
                   nextId, stopping, cancelling, calls>>

-----------------------------------------------------------------------------
owner_shutdown(t) ==
    /\ MayCall(t)
    /\ ~stopping
    /\ stopping' = TRUE
    /\ UNCHANGED <<executorVars, life, phase, slotId, consumed, free, pending, settling,
                   dispatching, nextId, step, cancelling, calls>>

(* The host has stopped the other threads and calls destroy on the owner,    *)
(* outside a callback.                                                       *)
owner_destroy ==
    /\ life = "LIVE"
    /\ step = "idle"
    /\ \A t \in Threads : cancelling[t] = 0
    /\ host \in {"RUN", "WAIT"}
    /\ host' = "RUN"
    /\ life' = "DESTROYING"
    /\ stopping' = TRUE
    /\ UNCHANGED <<mailbox, running, cancel, lifecycle, policy, tails, signal, phase, slotId,
                   consumed, free, pending, settling, dispatching, nextId, step, cancelling,
                   calls>>

(* owner_wait_idle after the loop over run_one.                              *)
Drained == pending = 0 /\ settling = 0

DestroyDone ==
    /\ life = "DESTROYING"
    /\ step = "idle" /\ OwnerFree
    /\ Drained
    /\ life' = "UNBOUND"
    /\ UNCHANGED <<executorVars, phase, slotId, consumed, free, pending, settling,
                   dispatching, nextId, stopping, step, cancelling, calls>>

(* The executor's own operations, by its other users and by the host.        *)
Wake == WakeTail /\ UNCHANGED schedulerVars

HostLoop ==
    /\ step = "idle" /\ life # "DESTROYING" /\ OwnerFree
    /\ HostIdle \/ HostWoken
    /\ UNCHANGED schedulerVars

ExecutorShutdown ==
    /\ host # "GONE"
    /\ \E p \in {"DRAIN", "CANCEL_PENDING"} : owner_control_shutdown(p)
    /\ UNCHANGED schedulerVars

ExecutorEnd ==
    /\ step = "idle" /\ life = "UNBOUND"
    /\ ExecutorDestroy \/ ExecutorFree
    /\ UNCHANGED schedulerVars

OwnerStep ==
    \/ OwnerRunBegin \/ SettlePending \/ SettleCancelling \/ SettleTombstone
    \/ CallbackReturns \/ OwnerRunEnd \/ DestroyDone

Next ==
    \/ cflow_scheduler_owner_bind \/ owner_destroy
    \/ \E t \in Threads :
          \/ owner_try_post_task_after(t) \/ owner_shutdown(t) \/ CancelEnd(t)
          \/ \E s \in Slots : CancelBegin(t, s)
    \/ \E d \in Direct : DirectPost(d)
    \/ OwnerStep
    \/ Wake \/ HostLoop \/ ExecutorShutdown \/ ExecutorEnd

Spec == Init /\ [][Next]_vars

-----------------------------------------------------------------------------

(* "Successful admission invokes exactly one of run or cancel": a task whose  *)
(* slot is still pending has had no call, every other accepted one has had   *)
(* exactly one, however cancel, the owner and a cancelling shutdown race.    *)
ExactlyOnce ==
    life # "UNBOUND" =>
        \A i \in 1..nextId :
            calls[i] = IF \E s \in Slots : phase[s] = "PENDING" /\ slotId[s] = i THEN 0 ELSE 1

(* None of the abort() calls is reached: a descriptor is settled once and    *)
(* its slot is not given back before that, no slot is recycled under a       *)
(* canceller, and destroy always finds the work it waits for.                *)
NeverAborts ==
    /\ step = "taken" /\ running \in Slots =>
          phase[running] \in {"PENDING", "CANCEL_SETTLING", "CANCELLED"}
    /\ \A t \in Threads : cancelling[t] # 0 => phase[cancelling[t]] = "CANCEL_SETTLING"
    /\ life = "DESTROYING" /\ step = "idle" /\ OwnerFree =>
          IF pending = 0 THEN settling = 0 ELSE mailbox # <<>>

(* The owner has the descriptor of the slot and has not settled it yet.      *)
Taken(s) == running = s /\ step \in {"taken", "callback"}

(* A slot is on the free list, or is owed one descriptor by the executor, or *)
(* waits for its canceller; pending counts the slots that are not free, and  *)
(* no slot gets lost or is listed twice.                                     *)
SlotsConserved ==
    life # "UNBOUND" =>
        /\ pending = Cardinality({s \in Slots : phase[s] # "FREE"})
        /\ pending + Len(free) = ReadyCapacity
        /\ \A s \in Slots :
              /\ phase[s] = "FREE" <=> \E k \in DOMAIN free : free[k] = s
              /\ Cardinality({k \in DOMAIN mailbox : mailbox[k] = s}) =
                    IF phase[s] = "FREE" \/ consumed[s] \/ Taken(s) THEN 0 ELSE 1

(* wait_idle tells the truth: nothing pending and nothing settling means no  *)
(* callback of a task is running on any thread.                              *)
IdleIsQuiet ==
    life # "UNBOUND" /\ Drained =>
        /\ step # "callback" /\ dispatching = 0
        /\ \A t \in Threads : cancelling[t] = 0

(* The memory of a destroyed scheduler is not reachable: the executor, which *)
(* outlives it, holds no descriptor of one of its slots.                     *)
NothingDangles ==
    life = "UNBOUND" => running \notin Slots /\ Queued \cap Slots = {}

(* Tasks are taken in the order of their ids.                                *)
OrderKept ==
    \A j, k \in DOMAIN mailbox :
        j < k /\ mailbox[j] \in Slots /\ mailbox[k] \in Slots
            => slotId[mailbox[j]] < slotId[mailbox[k]]

(* Every slot comes back: an accepted task is settled and its tombstone is   *)
(* reclaimed, though the host sleeps whenever it finds nothing to do.        *)
SlotsComeBack == \A s \in Slots : phase[s] # "FREE" ~> phase[s] = "FREE"
=============================================================================
