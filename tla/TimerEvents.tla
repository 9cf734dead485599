----------------------------- MODULE TimerEvents ------------------------------
(* The timed events of a machine (cflow/src/timer_event.c): slots that hold  *)
(* an event until its deadline, one consumer that claims and sends it outside *)
(* the lock, cancels by timer and by scope, and a close that waits.          *)
EXTENDS Naturals, FiniteSets

CONSTANTS
    Capacity, Scopes,
    Consumers, Closers,      \* the threads that run and that close the queue
    MaxTimers, MaxDeadline   \* bounds

Slot == 1 .. Capacity
Timer == 1 .. MaxTimers
Free == [state |-> "FREE"]

VARIABLES
    slots, closed, consumer_active, in_flight, cancelled_on_close, now,
    nextId,                  \* the timer queue's ids
    fate,                    \* per timer: unborn, pending, firing, delivered, rejected or cancelled
    lateCancel,              \* per timer: a cancel answered OK
    claim,                   \* per consumer: the slot it claimed, or 0
    closer                   \* per closer: idle, waiting, returned

vars == <<slots, closed, consumer_active, in_flight, cancelled_on_close, now, nextId, fate, lateCancel, claim, closer>>

Init ==
    /\ slots = [s \in Slot |-> Free] /\ closed = FALSE /\ consumer_active = FALSE /\ in_flight = 0
    /\ cancelled_on_close = 0 /\ now = 0 /\ nextId = 1 /\ fate = [t \in Timer |-> "unborn"]
    /\ lateCancel = {} /\ claim = [c \in Consumers |-> 0] /\ closer = [c \in Closers |-> "idle"]

Pending == {s \in Slot : slots[s].state = "PENDING"}

Now == <<closed, consumer_active, in_flight, cancelled_on_close, claim, closer>>

find_free_slot == CHOOSE s \in Slot : slots[s].state = "FREE" /\ \A r \in Slot : r < s => slots[r].state # "FREE"

(* schedule_at; a free slot always has room in the timer queue, whose bound  *)
(* is the same, so the second refusal of the code is never met.              *)
schedule_at ==
    /\ nextId <= MaxTimers /\ ~closed
    /\ \E s \in Slot : slots[s].state = "FREE"
    /\ \E scope \in Scopes, deadline \in 0 .. MaxDeadline :
        slots' = [slots EXCEPT ![find_free_slot] =
                    [state |-> "PENDING", id |-> nextId, scope |-> scope, deadline |-> deadline]]
    /\ nextId' = nextId + 1
    /\ fate' = [fate EXCEPT ![nextId] = "pending"]
    /\ UNCHANGED <<Now, now, lateCancel>>

Release(ss) == [s \in Slot |-> IF s \in ss THEN Free ELSE slots[s]]
IdsOf(ss) == {slots[s].id : s \in ss}
Fated(ss, how) == [t \in Timer |-> IF t \in IdsOf(ss) THEN how ELSE fate[t]]

(* cflow_timer_event_queue_cancel; a firing slot has won.                    *)
Cancel(t) ==
    /\ ~closed
    /\ \E s \in Pending :
        /\ slots[s].id = t
        /\ slots' = Release({s}) /\ fate' = Fated({s}, "cancelled")
    /\ lateCancel' = lateCancel \cup {t}
    /\ UNCHANGED <<Now, now, nextId>>

CancelScopes(S) ==
    /\ ~closed
    /\ LET hit == {s \in Pending : slots[s].scope \in S}
       IN  /\ hit # {}
           /\ slots' = Release(hit) /\ fate' = Fated(hit, "cancelled")
           /\ lateCancel' = lateCancel \cup IdsOf(hit)
    /\ UNCHANGED <<Now, now, nextId>>

(* The order of the timer queue: deadline, then admission.                   *)
Before(a, b) == a.deadline < b.deadline \/ (a.deadline = b.deadline /\ a.id < b.id)

Ready == {s \in Pending : slots[s].deadline <= now}

(* cflow_timer_event_queue_claim_one_ready.                                  *)
ClaimOneReady(c) ==
    /\ claim[c] = 0 /\ ~closed /\ ~consumer_active
    /\ \E s \in Ready :
        /\ \A r \in Ready \ {s} : Before(slots[s], slots[r])
        /\ slots' = [slots EXCEPT ![s].state = "FIRING"]
        /\ claim' = [claim EXCEPT ![c] = s]
        /\ fate' = Fated({s}, "firing")
    /\ consumer_active' = TRUE /\ in_flight' = 1
    /\ UNCHANGED <<closed, cancelled_on_close, now, nextId, lateCancel, closer>>

(* cflow_timer_event_queue_commit_claim: the target's mailbox has answered,  *)
(* outside the lock; the slot, still FIRING, is released under it.           *)
CommitClaim(c, ok) ==
    /\ claim[c] # 0
    /\ slots' = Release({claim[c]})
    /\ fate' = Fated({claim[c]}, IF ok THEN "delivered" ELSE "rejected")
    /\ claim' = [claim EXCEPT ![c] = 0]
    /\ consumer_active' = FALSE /\ in_flight' = 0
    /\ UNCHANGED <<closed, cancelled_on_close, now, nextId, lateCancel, closer>>

(* cflow_timer_event_queue_close_begin_internal.                             *)
CloseBegin(k) ==
    /\ closer[k] = "idle"
    /\ closer' = [closer EXCEPT ![k] = "waiting"]
    /\ closed' = TRUE
    /\ slots' = IF closed THEN slots ELSE Release(Pending)
    /\ fate' = IF closed THEN fate ELSE Fated(Pending, "cancelled")
    /\ cancelled_on_close' = IF closed THEN cancelled_on_close ELSE Cardinality(Pending)
    /\ UNCHANGED <<consumer_active, in_flight, now, nextId, lateCancel, claim>>

Drained == in_flight = 0

(* The wait of cflow_timer_event_queue_close, and of destroy, which calls it. *)
CloseReturns(k) ==
    /\ closer[k] = "waiting" /\ Drained
    /\ closer' = [closer EXCEPT ![k] = "returned"]
    /\ UNCHANGED <<slots, closed, consumer_active, in_flight, cancelled_on_close, now, nextId, fate, lateCancel, claim>>

Tick ==
    /\ now < MaxDeadline /\ now' = now + 1
    /\ UNCHANGED <<slots, Now, nextId, fate, lateCancel>>

Next ==
    \/ schedule_at \/ Tick
    \/ \E t \in Timer : Cancel(t)
    \/ \E S \in SUBSET Scopes : CancelScopes(S)
    \/ \E c \in Consumers : ClaimOneReady(c) \/ \E ok \in BOOLEAN : CommitClaim(c, ok)
    \/ \E k \in Closers : CloseBegin(k) \/ CloseReturns(k)

Spec == Init /\ [][Next]_vars
-----------------------------------------------------------------------------
(* Every timer is held by one slot until its single fate, so the counters of *)
(* get_stats add up; a cancel that answered OK is never followed by a send,  *)
(* and nothing waits in a closed queue.                                      *)
TimersSettleOnce ==
    /\ \A t \in Timer : Cardinality({s \in Slot : slots[s] # Free /\ slots[s].id = t})
                          = IF fate[t] \in {"pending", "firing"} THEN 1 ELSE 0
    /\ \A t \in lateCancel : fate[t] = "cancelled"
    /\ in_flight = Cardinality({s \in Slot : slots[s].state = "FIRING"})
    /\ consumer_active = (in_flight = 1)
    /\ closed => Pending = {}

(* timer_event.h:161-162, "No Timer Event can be emitted after this function  *)
(* returns": a close that returned, and so destroy, left nothing in flight.  *)
CloseWaits == \A k \in Closers : closer[k] = "returned" => in_flight = 0
=============================================================================
