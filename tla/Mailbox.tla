------------------------------- MODULE Mailbox -------------------------------
(* The bounded mailbox (cflow/src/event.c): producers commit typed events    *)
(* into a ring under one lock, one consumer takes them out, and a consumer   *)
(* that found the ring empty arms a waker.  Whoever makes the mailbox ready  *)
(* detaches the waker under the lock and invokes it after the unlock, so a   *)
(* detached waker is a step of its own.                                      *)
EXTENDS Integers, Sequences, FiniteSets

CONSTANTS
    Capacity,
    Schemas,      \* the schemas the host may initialise with: sequences of ids
    Ids,          \* the event ids a producer may name, those outside the schema included
    Size,         \* Size[id]: bytes of the payload type of the id
    CounterMax,   \* UINT64_MAX, where the counters saturate
    MaxSends,     \* bound: events committed in a behaviour
    MaxArms       \* bound: wakers armed in a behaviour

VARIABLES
    alive,        \* mailbox->impl is set
    schema,       \* the sorted ids
    terminal,     \* OPEN, DRAINING, CANCELLED
    head, count,
    slots,        \* slots[i]: the type index and the payload at ring position i
    waiter,       \* the number of the armed waker, 0 for none
    accepted, received, cancelled,   \* the statistics
    detached,     \* wakers taken out under the lock and not yet invoked
    rung,         \* rung[a]: how often waker a has been invoked
    arms,         \* wakers armed so far
    consumer,     \* POLL: about to receive; ARM: saw EMPTY; WAIT; DONE
    room,         \* bytes of the consumer's payload buffer
    log,          \* history: the committed events, in commit order
    taken         \* history: how many of them have left the ring

ring == <<head, count, slots>>
stats == <<accepted, received, cancelled>>
wakers == <<waiter, detached, rung, arms>>
history == <<log, taken>>
vars == <<alive, schema, terminal, ring, stats, wakers, consumer, room, history>>

Positions == 0 .. Capacity - 1
Min2(a, b) == IF a <= b THEN a ELSE b
MaxSize == IF Ids = {} THEN 0 ELSE CHOOSE s \in {Size[i] : i \in Ids} : \A i \in Ids : Size[i] <= s

cflow_counter_increment(c) == IF c # CounterMax THEN c + 1 ELSE c

cflow_counter_add_size(c, n) == IF CounterMax - c < n THEN CounterMax ELSE c + n

(* Every row names a nonzero id and none twice.                              *)
cflow_schema_measure(rows) ==
    /\ rows # <<>>
    /\ \A i \in DOMAIN rows : rows[i] # 0 /\ \A j \in 1 .. i - 1 : rows[j] # rows[i]

(* The sorted copy of the schema that init keeps (qsort by id).              *)
SortedRows(rows) ==
    CHOOSE s \in [DOMAIN rows -> {rows[i] : i \in DOMAIN rows}] :
        /\ \A i, j \in DOMAIN s : i < j => s[i] <= s[j]
        /\ {s[i] : i \in DOMAIN s} = {rows[i] : i \in DOMAIN rows}

(* Binary search over the half-open interval [left, right) of the sorted     *)
(* rows; 0 when the id is unknown, else the row's position from 1.           *)
cflow_mailbox_type_index(rows, id) ==
    LET search[l \in 0 .. Len(rows), r \in 0 .. Len(rows)] ==
            IF l >= r THEN 0
            ELSE LET m == l + (r - l) \div 2
                 IN  IF rows[m + 1] = id THEN m + 1
                     ELSE IF rows[m + 1] < id THEN search[m + 1, r] ELSE search[l, m]
    IN  IF id = 0 THEN 0 ELSE search[0, Len(rows)]

EmptySlots == [p \in Positions |-> [type |-> 0, payload |-> 0]]

Init ==
    /\ alive = FALSE /\ schema = <<>>
    /\ terminal = "OPEN" /\ head = 0 /\ count = 0 /\ slots = EmptySlots
    /\ accepted = 0 /\ received = 0 /\ cancelled = 0
    /\ waiter = 0 /\ detached = {} /\ arms = 0 /\ rung = [a \in 1 .. MaxArms |-> 0]
    /\ consumer = "POLL" /\ room = 0 /\ log = <<>> /\ taken = 0

cflow_mailbox_init(rows) ==
    /\ ~alive
    /\ cflow_schema_measure(rows)
    /\ alive' = TRUE
    /\ schema' = SortedRows(rows)
    /\ terminal' = "OPEN" /\ head' = 0 /\ count' = 0 /\ slots' = EmptySlots
    /\ accepted' = 0 /\ received' = 0 /\ cancelled' = 0
    /\ consumer' = "POLL" /\ room' = 0 /\ log' = <<>> /\ taken' = 0
    /\ UNCHANGED wakers

(* Mutant: the comparison is off by one, so the last position wraps early.   *)
TailOver == IF count + 1 >= Capacity - head THEN 0 ELSE head + count

(* The ring position of the next event, computed without overflow.           *)
Tail_ == IF count >= Capacity - head THEN count - (Capacity - head) ELSE head + count

(* The armed waker moves from the mailbox to the thread that leaves the lock.*)
Detach ==
    /\ detached' = IF waiter # 0 THEN detached \cup {waiter} ELSE detached
    /\ waiter' = 0
    /\ UNCHANGED <<rung, arms>>

(* A producer commits an event; id and type are checked before the lock.     *)
TrySend(id) ==
    LET type == cflow_mailbox_type_index(schema, id)
    IN  /\ alive /\ type # 0
        /\ terminal = "OPEN"
        /\ count # Capacity
        /\ Len(log) < MaxSends
        /\ slots' = [slots EXCEPT ![Tail_] = [type |-> type, payload |-> Len(log) + 1]]
        /\ count' = count + 1
        /\ accepted' = cflow_counter_increment(accepted)
        /\ log' = Append(log, id)
        /\ Detach
        /\ UNCHANGED <<alive, schema, terminal, head, received, cancelled, consumer, room, taken>>

NextHead == IF head + 1 = Capacity THEN 0 ELSE head + 1

(* The thread that detached waker a invokes it.                              *)
Invoke(a) ==
    /\ a \in detached
    /\ detached' = detached \ {a}
    /\ rung' = [rung EXCEPT ![a] = @ + 1]
    /\ UNCHANGED <<alive, schema, terminal, ring, stats, waiter, arms, consumer, room, history>>

(* The consumer finds its buffer too small for the oldest event, which stays,*)
(* and comes back with cflow_mailbox_payload_capacity() bytes.               *)
BufferTooSmall ==
    /\ alive /\ consumer = "POLL" /\ count # 0
    /\ room < Size[schema[slots[head].type]]
    /\ room' = MaxSize
    /\ UNCHANGED <<alive, schema, terminal, ring, stats, wakers, consumer, history>>

Receive ==
    /\ alive /\ consumer = "POLL" /\ count # 0
    /\ room >= Size[schema[slots[head].type]]
    /\ head' = NextHead
    /\ count' = count - 1
    /\ received' = cflow_counter_increment(received)
    /\ taken' = taken + 1
    /\ UNCHANGED <<alive, schema, terminal, slots, accepted, cancelled, wakers, consumer, room, log>>

(* EMPTY sends the consumer to arm its waker, CLOSED and CANCELLED end it.   *)
ReceiveNothing ==
    /\ alive /\ consumer = "POLL" /\ count = 0
    /\ consumer' = IF terminal = "OPEN" THEN "ARM" ELSE "DONE"
    /\ UNCHANGED <<alive, schema, terminal, ring, stats, wakers, room, history>>

(* Mutant: close leaves the armed waker for the next event.                  *)
CloseSilently ==
    /\ alive /\ terminal = "OPEN"
    /\ terminal' = "DRAINING"
    /\ UNCHANGED <<alive, schema, ring, stats, wakers, consumer, room, history>>

cflow_mailbox_close ==
    /\ alive /\ terminal = "OPEN"
    /\ terminal' = "DRAINING"
    /\ Detach
    /\ UNCHANGED <<alive, schema, ring, stats, consumer, room, history>>

cflow_mailbox_cancel ==
    /\ alive /\ terminal # "CANCELLED"
    /\ terminal' = "CANCELLED"
    /\ cancelled' = cflow_counter_add_size(cancelled, count)
    /\ head' = 0 /\ count' = 0
    /\ taken' = Len(log)
    /\ Detach
    /\ UNCHANGED <<alive, schema, slots, accepted, received, consumer, room, log>>

Ready == count # 0 \/ terminal # "OPEN"

(* Mutant: arm stores the waker without looking at the ring again.           *)
cflow_mailbox_wait_armBlind ==
    /\ alive /\ consumer = "ARM" /\ arms < MaxArms
    /\ arms' = arms + 1
    /\ waiter = 0 /\ waiter' = arms + 1
    /\ consumer' = "WAIT"
    /\ UNCHANGED <<alive, schema, terminal, ring, stats, detached, rung, room, history>>

(* A ready mailbox invokes the new waker itself, after the unlock.           *)
cflow_mailbox_wait_arm ==
    /\ alive /\ consumer = "ARM" /\ arms < MaxArms
    /\ arms' = arms + 1
    /\ \/ Ready /\ detached' = detached \cup {arms + 1} /\ UNCHANGED waiter
       \/ ~Ready /\ waiter = 0 /\ waiter' = arms + 1 /\ UNCHANGED detached
    /\ consumer' = "WAIT"
    /\ UNCHANGED <<alive, schema, terminal, ring, stats, rung, room, history>>

(* The consumer sees its newest waker rung and polls again.                  *)
Woken ==
    /\ consumer = "WAIT" /\ rung[arms] > 0
    /\ consumer' = "POLL"
    /\ UNCHANGED <<alive, schema, terminal, ring, stats, wakers, room, history>>

(* The consumer stops waiting; a waker detached before stays in flight.      *)
cflow_mailbox_wait_cancel ==
    /\ alive /\ consumer = "WAIT"
    /\ waiter' = 0
    /\ consumer' = "POLL"
    /\ UNCHANGED <<alive, schema, terminal, ring, stats, detached, rung, arms, room, history>>

(* Producers, consumer and wakers have stopped (event.h).                    *)
cflow_mailbox_destroy ==
    /\ alive /\ detached = {} /\ consumer = "DONE"
    /\ alive' = FALSE
    /\ UNCHANGED <<schema, terminal, ring, stats, wakers, consumer, room, history>>

Next ==
    \/ \E rows \in Schemas : cflow_mailbox_init(rows)
    \/ \E id \in Ids : TrySend(id)
    \/ \E a \in 1 .. MaxArms : Invoke(a)
    \/ BufferTooSmall \/ Receive \/ ReceiveNothing
    \/ cflow_mailbox_close \/ cflow_mailbox_cancel
    \/ cflow_mailbox_wait_arm \/ Woken \/ cflow_mailbox_wait_cancel
    \/ cflow_mailbox_destroy

Spec == Init /\ [][Next]_vars

-----------------------------------------------------------------------------

(* The ring position of the k-th pending event, from 0.                      *)
At(k) == IF k >= Capacity - head THEN k - (Capacity - head) ELSE head + k

(* What the ring holds is exactly the committed events that have not left    *)
(* it, in commit order, each with its own id and payload: the wrap of        *)
(* try_send's tail and try_receive's head agree.                             *)
FifoRing ==
    /\ count = Len(log) - taken
    /\ \A k \in 0 .. count - 1 :
           LET s == slots[At(k)]
           IN  s.payload = taken + k + 1 /\ schema[s.type] = log[taken + k + 1]

(* A producer finds every id of the schema, and only those: the binary       *)
(* search of type_index agrees with membership.                              *)
LookupExact ==
    \A id \in Ids :
        LET t == cflow_mailbox_type_index(schema, id)
        IN  IF id # 0 /\ \E i \in DOMAIN schema : schema[i] = id
            THEN t \in DOMAIN schema /\ schema[t] = id ELSE t = 0

(* The counters are the true numbers of events until they saturate, and the  *)
(* events accepted are those received, cancelled or pending.                 *)
StatsExact ==
    /\ accepted = Min2(Len(log), CounterMax)
    /\ received <= taken
    /\ (accepted < CounterMax => accepted = received + cancelled + count)

(* A consumer that waits while the mailbox is ready has a waker that has     *)
(* been rung or is being carried to it: the event or the terminal transition *)
(* that came between EMPTY and arm is not missed.                            *)
WakeNotLost ==
    /\ consumer = "WAIT" => waiter = arms \/ arms \in detached \/ rung[arms] > 0
    /\ waiter # 0 => ~Ready

(* A waker is armed, detached or rung, never two of them, and rung at most   *)
(* once: later events coalesce until the consumer arms again.                *)
WakeOnce ==
    \A a \in 1 .. MaxArms :
        (IF waiter = a THEN 1 ELSE 0) + (IF a \in detached THEN 1 ELSE 0) + rung[a] <= 1

(* Every committed event is received or discarded by a cancel in the end, as *)
(* long as the consumer has arms left to wait with.                          *)
EventuallyTaken ==
    \A n \in 1 .. MaxSends :
        Len(log) >= n ~> taken >= n \/ ~alive \/ (consumer = "ARM" /\ arms = MaxArms)
=============================================================================
