---------------------------- MODULE Subscription ----------------------------
(* A run: its data path and its life.                                         *)
EXTENDS Integers, Sequences, SequencesExt, FiniteSetsExt

CONSTANTS
    MaxContinuations,       \* CMETA_RUN_MAX_CONTINUATIONS
    Clients,                \* threads that request, cancel and close
    Workers,                \* threads of a concurrent scheduler
    Waker,                  \* the thread that fires wakes
    Setups,                 \* [nodes, feed, amounts, clients, concurrent, events]: the graph, the source's values, what a request asks for, who calls, the scheduler's kind, and what may happen besides demand
    DemandMax,              \* SIZE_MAX, where demand saturates
    Quantum,                \* CMETA_RUN_QUANTUM
    MaxRequests, MaxWaits   \* bounds

VARIABLES
    setup,          \* the setup chosen at subscribe
    run,            \* the data path: RunPipeline's run state
    fed,            \* values the source has handed out
    source,         \* OPEN, DONE, ERROR: what poll_terminal answers; CANCELLED
    flags,          \* the flags under r->lock
    task,           \* the scheduled task: whether, its id, its generation (here the thread that reserved it), who settles its cancellation, whether close has tried to cancel it
    refs, posting,  \* task_refs, task_posting
    queue,          \* ids of the pump tasks the scheduler holds
    life,           \* LIVE, FREED
    external_closer, destroying,
    armed,          \* the waitable holds the waker
    waits,          \* waits so far
    requests,       \* requests so far
    at,             \* at[t]: where thread t is
    frame,          \* frame[t]: the locals of schedule_pump, pump_task and close on t
    sink,           \* the subscriber's terminal calls so far
    dropped,        \* history: the last post was refused and nobody needed it
    closedBy        \* threads to which close() has returned

-----------------------------------------------------------------------------
(* The data path of a Run (cflow/src/subscription.c): one value at a time    *)
(* walks a linear path of operator nodes.  Operators that produce several    *)
(* values push a continuation; reduce and sorted keep what they collect and  *)
(* are flushed once the source is done.  A run state is a record and every   *)
(* operator maps run states to run states.                                   *)

(* What a callable computes: the property tells values apart, not functions. *)
Keep(v) == v % 2 = 1
Mapped(v) == v + 1
Expand(v) == <<v, v + 10>>
Reduced(a, b) == a + b

(* Per node: the slice count, the set of distinct values, the sorted         *)
(* sequence with its cursor, and the reduction (<<>> when not live).         *)
FreshNode(node) ==
    [count |-> 0, seen |-> {}, seq |-> <<>>, started |-> FALSE, flushed |-> FALSE,
     reduce |-> IF node.op = "REDUCE" /\ node.seeded THEN <<node.n>> ELSE <<>>]

(* subscribe allocates the per-node states; a take(0) node ends the source.  *)
NewRun(nodes, sourceOpen) ==
    [nodes |-> nodes, at |-> [i \in DOMAIN nodes |-> FreshNode(nodes[i])],
     conts |-> <<>>, demand |-> 0, out |-> <<>>, failed |-> FALSE, cancelSource |-> FALSE,
     source_done |-> ~sourceOpen \/ \E i \in DOMAIN nodes : nodes[i].op = "TAKE" /\ nodes[i].n = 0]

Fail(r) == [r EXCEPT !.failed = TRUE]

(* Everything upstream of node i is finished: the source is cancelled, every *)
(* continuation is marked, and sorted nodes before i count as flushed.       *)
short_circuit_before_current_node(r, i) ==
    [r EXCEPT !.source_done = TRUE,
              !.cancelSource = @ \/ ~r.source_done,
              !.conts = [k \in DOMAIN @ |-> [@[k] EXCEPT !.done = TRUE]],
              !.at = [k \in DOMAIN @ |-> IF k < i /\ r.nodes[k].op = "SORTED"
                                         THEN [@[k] EXCEPT !.flushed = TRUE] ELSE @[k]]]

push_continuation(r, i, values) ==
    IF Len(r.conts) >= MaxContinuations THEN Fail(r)
    ELSE [r EXCEPT !.conts = Append(@, [node |-> i, rest |-> values, done |-> FALSE])]

(* The node handlers.  Each returns the run, the value that goes on, and     *)
(* whether the path continues.                                               *)
Stop(r) == [run |-> r, go |-> FALSE, v |-> 0]
Go(r, v) == [run |-> r, go |-> TRUE, v |-> v]

semantic_filter(r, i, v) == IF Keep(v) THEN Go(r, v) ELSE Stop(r)

semantic_map(r, i, v) == Go(r, Mapped(v))

(* Mutant: the source is cut one value late.                                 *)
semantic_takeLate(r, i, v) ==
    IF r.at[i].count > r.nodes[i].n THEN Stop(r)
    ELSE Go([r EXCEPT !.at[i].count = @ + 1], v)

semantic_take(r, i, v) ==
    IF r.at[i].count >= r.nodes[i].n THEN Stop(r)
    ELSE LET counted == [r EXCEPT !.at[i].count = @ + 1]
         IN  Go(IF counted.at[i].count = r.nodes[i].n
                THEN short_circuit_before_current_node(counted, i) ELSE counted, v)

semantic_skip(r, i, v) ==
    IF r.at[i].count < r.nodes[i].n THEN Stop([r EXCEPT !.at[i].count = @ + 1])
    ELSE Go(r, v)

(* insert_if_absent of the set backend, which holds at most n values.        *)
semantic_distinct(r, i, v) ==
    IF v \in r.at[i].seen THEN Stop(r)
    ELSE IF Cardinality(r.at[i].seen) >= r.nodes[i].n THEN Stop(Fail(r))
    ELSE Go([r EXCEPT !.at[i].seen = @ \cup {v}], v)

(* append of the sequence backend, which holds at most n values.             *)
semantic_sorted(r, i, v) ==
    IF Len(r.at[i].seq) >= r.nodes[i].n THEN Stop(Fail(r))
    ELSE Stop([r EXCEPT !.at[i].seq = Append(@, v)])

semantic_reduce(r, i, v) ==
    Stop([r EXCEPT !.at[i].reduce = IF @ = <<>> THEN <<v>> ELSE <<Reduced(@[1], v)>>])

semantic_flat_map(r, i, v) == Stop(push_continuation(r, i, Expand(v)))

(* A relation runs its child subgraphs as one resumable; here its values.    *)
semantic_relation(r, i, v) == Stop(push_continuation(r, i, <<v, v>>))

Handler(r, i, v) ==
    CASE r.nodes[i].op = "FILTER" -> semantic_filter(r, i, v)
      [] r.nodes[i].op = "MAP" -> semantic_map(r, i, v)
      [] r.nodes[i].op = "TAKE" -> semantic_take(r, i, v)
      [] r.nodes[i].op = "SKIP" -> semantic_skip(r, i, v)
      [] r.nodes[i].op = "DISTINCT" -> semantic_distinct(r, i, v)
      [] r.nodes[i].op = "SORTED" -> semantic_sorted(r, i, v)
      [] r.nodes[i].op = "REDUCE" -> semantic_reduce(r, i, v)
      [] r.nodes[i].op = "FLATMAP" -> semantic_flat_map(r, i, v)
      [] r.nodes[i].op = "RELATION" -> semantic_relation(r, i, v)

(* The end of the path: one unit of demand pays for the delivery.            *)
Deliver(r, v) ==
    IF r.demand = 0 THEN Fail(r)
    ELSE [r EXCEPT !.demand = @ - 1, !.out = Append(@, v)]

RECURSIVE process_path(_, _, _)
process_path(r, i, v) ==
    IF i > Len(r.nodes) THEN Deliver(r, v)
    ELSE LET a == Handler(r, i, v)
         IN  IF a.run.failed \/ ~a.go THEN a.run ELSE process_path(a.run, i + 1, a.v)

(* A finished frame is popped; a live one yields its next value, the last    *)
(* one together with done (VALUE_AND_DONE) or done alone.                    *)
resume_top_continuation(r, last) ==
    LET top == Len(r.conts)
        f == r.conts[top]
    IN  IF f.done THEN [r EXCEPT !.conts = Front(@)]
        ELSE IF f.rest = <<>> THEN [r EXCEPT !.conts[top].done = TRUE]
        ELSE process_path([r EXCEPT !.conts[top] = [f EXCEPT !.rest = Tail(@),
                                                            !.done = last /\ Len(f.rest) = 1]],
                          f.node + 1, Head(f.rest))

Collects(r, i) ==
    \/ r.nodes[i].op = "SORTED" /\ ~r.at[i].flushed
    \/ r.nodes[i].op = "REDUCE" /\ r.at[i].reduce # <<>> /\ ~r.at[i].flushed

terminal_nodes_done(r) == \A i \in DOMAIN r.nodes : ~Collects(r, i)

(* The first collecting node whose collecting predecessors are all flushed.  *)
Flushable(r) == Min({i \in DOMAIN r.nodes : Collects(r, i) /\ \A k \in 1 .. i - 1 : ~Collects(r, k)})

(* The backend sorts once, then a cursor hands the values out one by one.    *)
flush_sorted_value(r, i) ==
    LET s == [r EXCEPT !.at[i].started = TRUE,
                       !.at[i].seq = IF r.at[i].started THEN @ ELSE SortSeq(@, LAMBDA a, b : a < b)]
    IN  IF s.at[i].seq = <<>> THEN [s EXCEPT !.at[i].flushed = TRUE]
        ELSE process_path([s EXCEPT !.at[i].seq = Tail(@)], i + 1, Head(s.at[i].seq))

flush_one_terminal_node(r) ==
    LET i == Flushable(r)
    IN  IF r.nodes[i].op = "SORTED" THEN flush_sorted_value(r, i)
        ELSE LET p == process_path([r EXCEPT !.at[i].flushed = TRUE], i + 1, r.at[i].reduce[1])
             IN  [p EXCEPT !.at[i].reduce = IF p.failed THEN @ ELSE <<>>]

(* A value of the source enters the path at its first node.                  *)
process_source_value(r, v) == process_path(r, 1, v)

-----------------------------------------------------------------------------
(* The reference: every node is a function from lists to lists.              *)
ListOf(node, s) ==
    CASE node.op = "FILTER" -> SelectSeq(s, Keep)
      [] node.op = "MAP" -> [k \in DOMAIN s |-> Mapped(s[k])]
      [] node.op = "TAKE" -> SubSeq(s, 1, Min({node.n, Len(s)}))
      [] node.op = "SKIP" -> SubSeq(s, node.n + 1, Len(s))
      [] node.op = "DISTINCT" -> FoldLeft(LAMBDA acc, v : IF Contains(acc, v) THEN acc ELSE Append(acc, v), <<>>, s)
      [] node.op = "SORTED" -> SortSeq(s, LAMBDA a, b : a < b)
      [] node.op = "REDUCE" ->
            LET all == IF node.seeded THEN <<node.n>> \o s ELSE s
            IN  IF all = <<>> THEN <<>> ELSE <<FoldLeft(Reduced, 0, all)>>
      [] node.op = "FLATMAP" -> FlattenSeq([k \in DOMAIN s |-> Expand(s[k])])
      [] node.op = "RELATION" -> FlattenSeq([k \in DOMAIN s |-> <<s[k], s[k]>>])

Reference(nodes, s) == FoldLeft(LAMBDA acc, node : ListOf(node, acc), s, nodes)

-----------------------------------------------------------------------------
(* A Run (cflow/src/subscription.c).  Demand, cancellation, wakes and close  *)
(* all end in schedule_pump(), which posts one pump task to the scheduler;   *)
(* whoever runs the task pumps values until it waits, ends or has used its   *)
(* quantum.  r->lock is held for one action; callbacks, the scheduler, the   *)
(* waitable and the publisher are called without it.                         *)

Threads == Clients \cup Workers \cup {Waker}

vars == <<setup, run, fed, source, flags, task, refs, posting, queue, life,
          external_closer, destroying, armed, waits, requests, at, frame, sink, dropped, closedBy>>

IdleTask == [on |-> FALSE, id |-> 0, gen |-> Waker, settles |-> FALSE, tried |-> FALSE]
NoFrame == [fail |-> FALSE, res |-> 0, back |-> "idle",   \* schedule_pump and its return
            units |-> 0, next |-> "idle", home |-> "idle",            \* pump_task, a terminal callback, the pump's return
            gone |-> 0]                                               \* task references to drop
NoFlags == [mustFail |-> FALSE, pumping |-> FALSE, waiting |-> FALSE, cancelReq |-> FALSE,
            cancelled |-> FALSE, terminated |-> FALSE, closeReq |-> FALSE, error |-> FALSE, bound |-> TRUE]

(* cflow_subscribe_subgraph_with_options: a fresh run that owns its source.  *)
Init ==
    /\ setup \in Setups
    /\ run = NewRun(setup.nodes, TRUE) /\ fed = 0
    /\ source = IF run.source_done THEN "CANCELLED" ELSE "OPEN"
    /\ flags = NoFlags /\ task = IdleTask /\ refs = 0 /\ posting = 0
    /\ queue = {} /\ life = "LIVE"
    /\ external_closer = FALSE /\ destroying = FALSE
    /\ armed = FALSE /\ waits = 0 /\ requests = 0
    /\ at = [t \in Threads |-> "idle"] /\ frame = [t \in Threads |-> NoFrame]
    /\ sink = <<>> /\ dropped = FALSE /\ closedBy = {}

Goto(t, pc) == at' = [at EXCEPT ![t] = pc]
data == <<setup, run, fed, source, dropped>>
tasks == <<task, refs, posting, queue>>
ending == <<life, external_closer, destroying, closedBy>>

env == <<armed, waits, requests>>

(* The host's side of the contract: no other thread is inside request or    *)
(* cancel when close begins, and none begins afterwards.                     *)
Steady(t) == \A c \in Clients \ {t} : at[c] \in {"idle", "pump", "value", "terminal", "pumped", "unref"}

(* bind_terminal_waker: a publisher without a waker has no wake in flight.   *)
Unwoken == at[Waker] = "idle"

Saturated(d, n) == IF DemandMax - d < n THEN DemandMax ELSE d + n

cflow_subscription_request_result(t, n) ==
    /\ t \in setup.clients /\ at[t] = "idle" /\ life = "LIVE" /\ ~external_closer /\ ~flags.closeReq
    /\ requests < MaxRequests /\ requests' = requests + 1
    /\ ~flags.terminated
    /\ run' = [run EXCEPT !.demand = Saturated(@, n)]
    /\ Goto(t, "sched")
    /\ UNCHANGED <<setup, dropped, fed, source, flags, tasks, ending, armed, waits, frame, sink>>

(* The locked part of cancel; the waitable is cancelled after the unlock.    *)
CancelLocked(t, back) ==
    /\ flags' = [flags EXCEPT !.cancelReq = TRUE, !.waiting = FALSE]
    /\ frame' = [frame EXCEPT ![t].back = back, ![t].fail = FALSE]
    /\ Goto(t, IF flags.waiting THEN "unarm" ELSE "sched")

cflow_subscription_cancel(t) ==
    /\ t \in setup.clients /\ at[t] = "idle" /\ life = "LIVE" /\ "cancel" \in setup.events
    /\ ~external_closer /\ ~flags.closeReq /\ ~flags.cancelReq
    /\ CancelLocked(t, "idle")
    /\ UNCHANGED <<data, tasks, ending, env, sink>>

CancelWaitable(t) ==
    /\ at[t] = "unarm"
    /\ armed' = FALSE
    /\ Goto(t, "sched")
    /\ UNCHANGED <<data, flags, tasks, ending, waits, requests, frame, sink>>

(* Mutant: a pump that is running does not keep a second one out.            *)
MustPostTwice == ~flags.terminated /\ ~flags.waiting /\ ~task.on

MustPost == ~flags.terminated /\ ~flags.pumping /\ ~flags.waiting /\ ~task.on

(* schedule_pump up to the post: nothing to do, or a reservation of a task   *)
(* reference and a posting reference.                                        *)
SchedulePump(t) ==
    /\ at[t] = "sched"
    /\ IF MustPost
       THEN /\ task' = [IdleTask EXCEPT !.on = TRUE, !.gen = t]
            /\ flags' = [flags EXCEPT !.mustFail = frame[t].fail]
            /\ posting' = posting + 1 /\ refs' = refs + 2 /\ dropped' = FALSE
            /\ Goto(t, "post") /\ UNCHANGED frame
       ELSE /\ flags' = IF task.on /\ ~flags.terminated /\ ~flags.pumping /\ ~flags.waiting
                        THEN [flags EXCEPT !.mustFail = @ \/ frame[t].fail] ELSE flags
            /\ Goto(t, frame[t].back)
            /\ frame' = [frame EXCEPT ![t] = IF frame[t].back = "idle" THEN NoFrame ELSE @]
            /\ UNCHANGED <<task, posting, refs, dropped>>
    /\ UNCHANGED <<setup, run, fed, source, queue, ending, env, sink>>

(* Task ids are unique: here, unlike every id somebody still holds.          *)
NewId == Min(1 .. 2 * Cardinality(Threads) \ (queue \cup {task.id} \cup {frame[t].res : t \in Threads}))

(* The scheduler accepts the task or refuses it (full, closed, no memory).   *)
Post(t, accepted) ==
    /\ at[t] = "post"
    /\ accepted \/ "refuse" \in setup.events
    /\ queue' = IF accepted THEN queue \cup {NewId} ELSE queue
    /\ frame' = [frame EXCEPT ![t].res = IF accepted THEN NewId ELSE 0]
    /\ Goto(t, "posted")
    /\ UNCHANGED <<data, flags, task, refs, posting, ending, env, sink>>

(* The task is still the one this thread reserved: it has not run yet.       *)
Mine(t) == task.on /\ task.gen = t

(* Back under the lock: the id is recorded unless the task already ran; a    *)
(* refusal clears the reservation and fails the run when someone needs it.   *)
Posted(t, settles) ==
    LET refused == frame[t].res = 0
        fails == refused /\ Mine(t) /\ flags.mustFail /\ ~flags.cancelReq /\ ~flags.closeReq /\ ~flags.terminated
    IN  /\ at[t] = "posted"
        /\ posting' = posting - 1
        /\ task' = IF ~Mine(t) THEN task
                   ELSE IF refused THEN IdleTask
                   ELSE [task EXCEPT !.on = TRUE, !.id = frame[t].res, !.settles = settles]
        /\ flags' = IF refused /\ Mine(t)
                    THEN [flags EXCEPT !.mustFail = FALSE, !.terminated = @ \/ fails, !.error = @ \/ fails]
                    ELSE flags
        /\ sink' = IF fails THEN Append(sink, "error") ELSE sink
        /\ dropped' = (dropped \/ (refused /\ Mine(t) /\ ~fails))
        /\ Goto(t, IF fails THEN "terminal" ELSE "release")
        /\ frame' = [frame EXCEPT ![t].next = IF fails THEN "release" ELSE @]
        /\ UNCHANGED <<setup, run, fed, source, refs, queue, ending, env>>

(* Mutant: the last reference destroys even when a closer waits for it.      *)
DestroysEager(gone) == refs = gone /\ flags.closeReq /\ ~destroying

(* run_release_task_ref: the last reference destroys a run that was closed   *)
(* from a callback; an external closer destroys it itself.                   *)
Destroys(gone) == refs = gone /\ flags.closeReq /\ ~external_closer /\ ~destroying

DropRefs(t, gone, back) ==
    /\ refs' = refs - gone
    /\ destroying' = (destroying \/ Destroys(gone))
    /\ Goto(t, IF Destroys(gone) THEN "destroy" ELSE back)
    /\ frame' = [frame EXCEPT ![t] = IF back = "idle" THEN NoFrame ELSE @]
    /\ UNCHANGED <<data, flags, task, posting, queue, life, external_closer, closedBy, env, sink>>

(* schedule_pump's tail: the posting reference goes, and the task reference  *)
(* with it when the scheduler refused the task.                              *)
Release(t) ==
    /\ at[t] = "release"
    /\ DropRefs(t, IF frame[t].res = 0 THEN 2 ELSE 1, frame[t].back)

(* The tail of pump_task and pump_task_cancel.                               *)
Unref(t) ==
    /\ at[t] = "unref"
    /\ DropRefs(t, frame[t].gone, frame[t].home)
-----------------------------------------------------------------------------
(* pump_task: a worker, or with a cooperative scheduler the host or the      *)
(* closer, runs a queued task.                                               *)
Runs(t) == IF setup.concurrent THEN t \in Workers /\ at[t] = "idle"
           ELSE t \in setup.clients /\ at[t] \in {"idle", "closing"}

PumpBegin(t) ==
    /\ Runs(t)
    /\ \E id \in queue : queue' = queue \ {id}
    /\ task' = IdleTask
    /\ flags' = [flags EXCEPT !.mustFail = FALSE, !.pumping = TRUE]
    /\ frame' = [frame EXCEPT ![t] = [NoFrame EXCEPT !.home = at[t]]]
    /\ Goto(t, "pump")
    /\ UNCHANGED <<data, refs, posting, ending, env, sink>>

Blocked ==
    /\ run.demand = 0
    /\ \/ run.conts # <<>> /\ ~Last(run.conts).done
       \/ run.source_done /\ ~terminal_nodes_done(run)

Quits(t) == frame[t].units = Quantum \/ flags.waiting \/ flags.terminated \/ Blocked

PumpStops(t) ==
    /\ at[t] = "pump" /\ Quits(t)
    /\ Goto(t, "pumped")
    /\ UNCHANGED <<data, flags, tasks, ending, env, frame, sink>>

Working(t) == at[t] = "pump" /\ ~Quits(t)
Ready(t) == Working(t) /\ ~flags.cancelReq
Count(t) == frame' = [frame EXCEPT ![t].units = @ + 1]

(* take_cancel_request under the lock, then the source and the frames go.    *)
PumpCancelled(t) ==
    /\ Working(t) /\ flags.cancelReq
    /\ flags' = [flags EXCEPT !.cancelReq = FALSE, !.cancelled = TRUE, !.terminated = TRUE]
    /\ source' = "CANCELLED" /\ run' = [run EXCEPT !.conts = <<>>]
    /\ Goto(t, "pumped")
    /\ UNCHANGED <<setup, dropped, fed, tasks, ending, env, frame, sink>>

(* What a unit of work does to the run: nothing special, a value delivered   *)
(* to the subscriber, or a failure (run_fail_status).                        *)
Advance(t, next) ==
    /\ run' = next
    /\ flags' = [flags EXCEPT !.terminated = @ \/ next.failed, !.error = @ \/ next.failed]
    /\ sink' = IF next.failed THEN Append(sink, "error") ELSE sink
    /\ frame' = [frame EXCEPT ![t].units = @ + 1, ![t].next = IF next.failed THEN "pumped" ELSE @]
    /\ Goto(t, IF next.failed THEN "terminal" ELSE IF Len(next.out) > Len(run.out) THEN "value" ELSE "pump")
    /\ UNCHANGED <<setup, dropped, tasks, ending, requests>>

PumpContinuation(t, last) ==
    /\ Ready(t) /\ run.conts # <<>>
    /\ Advance(t, resume_top_continuation(run, last))
    /\ UNCHANGED <<fed, source, armed, waits>>

PumpFlush(t) ==
    /\ Ready(t) /\ run.conts = <<>> /\ run.source_done /\ ~terminal_nodes_done(run)
    /\ Advance(t, flush_one_terminal_node(run))
    /\ UNCHANGED <<fed, source, armed, waits>>

Finishable == run.source_done /\ run.conts = <<>> /\ terminal_nodes_done(run)

finish_if_possible(t) ==
    /\ Ready(t) /\ Finishable
    /\ flags' = [flags EXCEPT !.terminated = TRUE]
    /\ sink' = Append(sink, "done")
    /\ frame' = [frame EXCEPT ![t].next = "pumped"]
    /\ Goto(t, "terminal")
    /\ UNCHANGED <<data, tasks, ending, env>>

AtSource(t) == Ready(t) /\ run.conts = <<>> /\ ~run.source_done

(* Without demand only the end of the source is looked at.                   *)
poll_source_terminal(t) ==
    /\ AtSource(t) /\ run.demand = 0
    /\ \/ source = "ERROR" /\ Advance(t, Fail(run))
       \/ source = "DONE" /\ Advance(t, [run EXCEPT !.source_done = TRUE])
       \/ source = "OPEN" /\ Goto(t, "pumped") /\ UNCHANGED <<run, flags, sink, frame, setup, dropped, tasks, ending, requests>>
    /\ UNCHANGED <<fed, source, armed, waits>>

(* The source hands out its next value, alone or together with its end.      *)
SourceValue(t, last) ==
    LET next == process_source_value([run EXCEPT !.source_done = last], setup.feed[fed + 1])
    IN  /\ AtSource(t) /\ run.demand > 0 /\ source = "OPEN"
        /\ fed < Len(setup.feed) /\ (last => fed + 1 = Len(setup.feed))
        /\ fed' = fed + 1
        /\ Advance(t, next)
        /\ source' = IF next.cancelSource THEN "CANCELLED" ELSE IF last THEN "DONE" ELSE "OPEN"
        /\ UNCHANGED <<armed, waits>>

SourceDone(t) ==
    /\ AtSource(t) /\ run.demand > 0
    /\ source = "DONE" \/ (source = "OPEN" /\ fed = Len(setup.feed))
    /\ source' = "DONE"
    /\ Advance(t, [run EXCEPT !.source_done = TRUE])
    /\ UNCHANGED <<fed, armed, waits>>

SourceError(t) ==
    /\ AtSource(t) /\ run.demand > 0
    /\ source = "ERROR" \/ (source = "OPEN" /\ "error" \in setup.events)
    /\ source' = "ERROR"
    /\ Advance(t, Fail(run))
    /\ UNCHANGED <<fed, armed, waits>>

(* arm_waitable: the run waits from before the waker is armed.               *)
SourceWait(t) ==
    /\ AtSource(t) /\ run.demand > 0 /\ source = "OPEN" /\ "wait" \in setup.events
    /\ waits < MaxWaits /\ waits' = waits + 1
    /\ flags' = [flags EXCEPT !.waiting = TRUE]
    /\ Count(t) /\ Goto(t, "arm")
    /\ UNCHANGED <<data, tasks, ending, armed, requests, sink>>

Arm(t, ok) ==
    /\ at[t] = "arm"
    /\ IF ok THEN /\ armed' = flags.bound /\ Goto(t, "pump") /\ UNCHANGED <<flags, sink, frame>>
       ELSE /\ flags' = [flags EXCEPT !.waiting = FALSE, !.terminated = TRUE, !.error = TRUE]
            /\ sink' = Append(sink, "error")
            /\ frame' = [frame EXCEPT ![t].next = "pumped"]
            /\ Goto(t, "terminal") /\ UNCHANGED armed
    /\ UNCHANGED <<data, tasks, ending, waits, requests>>

Runnable ==
    \/ flags.cancelReq
    \/ run.conts # <<>> /\ (Last(run.conts).done \/ run.demand > 0)
    \/ ~run.source_done /\ run.demand > 0
    \/ run.source_done /\ run.conts = <<>> /\ terminal_nodes_done(run)
    \/ run.source_done /\ ~terminal_nodes_done(run) /\ run.demand > 0

(* The pump gives its turn up and decides about the next one under the lock. *)
PumpEnd(t) ==
    /\ at[t] = "pumped"
    /\ flags' = [flags EXCEPT !.pumping = FALSE]
    /\ frame' = [frame EXCEPT ![t] = [NoFrame EXCEPT !.fail = TRUE, !.back = "unref", !.gone = 1, !.home = frame[t].home]]
    /\ Goto(t, IF ~flags.terminated /\ ~flags.waiting /\ Runnable THEN "sched" ELSE "unref")
    /\ UNCHANGED <<data, tasks, ending, env, sink>>

(* pump_task_cancel: a queued task is dropped, by the closer through         *)
(* scheduler_cancel or by a scheduler that shuts down.                       *)
pump_task_cancel(t, id, home, settlements) ==
    /\ id \in queue /\ queue' = queue \ {id}
    /\ task' = IdleTask
    /\ flags' = IF flags.terminated THEN [flags EXCEPT !.mustFail = FALSE]
                ELSE [flags EXCEPT !.mustFail = FALSE, !.cancelReq = FALSE, !.cancelled = TRUE, !.terminated = TRUE]
    /\ source' = IF flags.terminated THEN source ELSE "CANCELLED"
    /\ run' = IF flags.terminated THEN run ELSE [run EXCEPT !.conts = <<>>]
    /\ frame' = [frame EXCEPT ![t].gone = settlements, ![t].home = home]
    /\ Goto(t, "unref")
    /\ UNCHANGED <<setup, dropped, fed, refs, posting, ending, env, sink>>

SchedulerDrops(t, id) ==
    /\ t \in Workers /\ at[t] = "idle" /\ "drop" \in setup.events
    /\ pump_task_cancel(t, id, "idle", 1)
-----------------------------------------------------------------------------
(* The subscriber's callbacks run on the pumping thread and may call back:   *)
(* active_pump_run makes close return at once and leave the rest to it.      *)
InCallback(t) == at[t] \in {"value", "terminal"}

CallbackRequest(t, n) ==
    /\ InCallback(t) /\ ~flags.closeReq /\ ~flags.terminated
    /\ requests < MaxRequests /\ requests' = requests + 1
    /\ run' = [run EXCEPT !.demand = Saturated(@, n)]
    /\ UNCHANGED <<setup, dropped, fed, source, flags, tasks, ending, armed, waits, at, frame, sink>>

CallbackCancel(t) ==
    /\ InCallback(t) /\ ~flags.closeReq /\ ~flags.cancelReq /\ "cancel" \in setup.events
    /\ flags' = [flags EXCEPT !.cancelReq = TRUE]
    /\ UNCHANGED <<data, tasks, ending, env, at, frame, sink>>

CallbackClose(t) ==
    /\ InCallback(t) /\ "callback close" \in setup.events /\ Unwoken /\ Steady(t) /\ ~flags.closeReq
    /\ flags' = [flags EXCEPT !.closeReq = TRUE, !.cancelReq = TRUE, !.bound = FALSE]
    /\ armed' = FALSE
    /\ UNCHANGED <<data, tasks, ending, waits, requests, at, frame, sink>>

CallbackReturns(t, accepted) ==
    /\ InCallback(t)
    /\ IF at[t] = "value" /\ ~accepted
       THEN /\ "reject" \in setup.events
            /\ flags' = [flags EXCEPT !.terminated = TRUE, !.error = TRUE]
            /\ sink' = Append(sink, "error") /\ Goto(t, "terminal")
            /\ frame' = [frame EXCEPT ![t].next = "pumped"]
       ELSE /\ Goto(t, IF at[t] = "value" THEN "pump" ELSE frame[t].next)
            /\ UNCHANGED <<flags, sink, frame>>
    /\ UNCHANGED <<data, tasks, ending, env>>

-----------------------------------------------------------------------------
(* wake_cb, from the waitable or from a publisher that has come to its end.  *)
WaitableFires ==
    /\ armed /\ at[Waker] = "idle" /\ flags.bound
    /\ armed' = FALSE
    /\ at' = [at EXCEPT ![Waker] = "woken"]
    /\ UNCHANGED <<data, flags, tasks, ending, waits, requests, frame, sink>>

SourceEnds(how) ==
    /\ source = "OPEN" /\ at[Waker] = "idle" /\ flags.bound /\ "end" \in setup.events
    /\ how = "DONE" => fed = Len(setup.feed)
    /\ source' = how
    /\ at' = [at EXCEPT ![Waker] = "woken"]
    /\ UNCHANGED <<setup, dropped, run, fed, flags, tasks, ending, env, frame, sink>>

wake_cb ==
    /\ at[Waker] = "woken"
    /\ flags' = [flags EXCEPT !.waiting = FALSE]
    /\ frame' = [frame EXCEPT ![Waker] = [NoFrame EXCEPT !.fail = TRUE]]
    /\ Goto(Waker, "sched")
    /\ UNCHANGED <<data, tasks, ending, env, sink>>
-----------------------------------------------------------------------------
(* cflow_subscription_close from outside.  One closer at a time; the others  *)
(* wait until the run is gone.                                               *)
CloseEnter(t) ==
    /\ t \in setup.clients /\ at[t] = "idle" /\ t \notin closedBy /\ Steady(t) /\ "close" \in setup.events
    /\ IF life = "FREED" THEN closedBy' = closedBy \cup {t} /\ UNCHANGED <<external_closer, at>>
       ELSE /\ ~external_closer /\ ~destroying
            /\ external_closer' = TRUE /\ Goto(t, "close") /\ UNCHANGED closedBy
    /\ UNCHANGED <<data, flags, tasks, life, destroying, env, frame, sink>>

CloseRequest(t) ==
    /\ at[t] = "close"
    /\ flags' = [flags EXCEPT !.closeReq = TRUE]
    /\ Goto(t, IF flags.closeReq THEN "closing" ELSE "closeCancel")
    /\ UNCHANGED <<data, tasks, ending, env, frame, sink>>

CloseCancel(t) ==
    /\ at[t] = "closeCancel"
    /\ CancelLocked(t, "unbind")
    /\ UNCHANGED <<data, tasks, ending, env, sink>>

CloseUnbind(t) ==
    /\ at[t] = "unbind" /\ Unwoken
    /\ flags' = [flags EXCEPT !.bound = FALSE] /\ armed' = FALSE
    /\ Goto(t, "closing")
    /\ UNCHANGED <<data, tasks, ending, waits, requests, frame, sink>>

(* A foreign scheduler only forgets the function, so the run settles.        *)
RunSettles == IF task.settles THEN 0 ELSE 1
SchedulerSettles == IF task.settles THEN 1 ELSE 0

Cancellable(t) == posting = 0 /\ task.on /\ task.id # 0 /\ ~task.tried

CloseCancelsTask(t) ==
    /\ at[t] = "closing" /\ refs # 0 /\ Cancellable(t)
    /\ IF task.id \in queue THEN pump_task_cancel(t, task.id, "closing", SchedulerSettles + RunSettles)
       ELSE /\ task' = [task EXCEPT !.tried = TRUE]
            /\ UNCHANGED <<data, flags, refs, posting, queue, ending, env, at, frame, sink>>

CloseDestroys(t) ==
    /\ at[t] = "closing" /\ refs = 0
    /\ destroying' = TRUE
    /\ Goto(t, "destroy")
    /\ UNCHANGED <<data, flags, tasks, life, external_closer, closedBy, env, frame, sink>>

run_destroy_claimed(t) ==
    /\ at[t] = "destroy"
    /\ life' = "FREED" /\ source' = "CANCELLED" /\ armed' = FALSE
    /\ closedBy' = IF external_closer THEN closedBy \cup {t} ELSE closedBy
    /\ Goto(t, "idle") /\ frame' = [frame EXCEPT ![t] = NoFrame]
    /\ UNCHANGED <<setup, dropped, run, fed, flags, tasks, external_closer, destroying, waits, requests, sink>>

Next ==
    \/ \E t \in Threads :
        \/ \E n \in setup.amounts : cflow_subscription_request_result(t, n) \/ CallbackRequest(t, n)
        \/ cflow_subscription_cancel(t) \/ CancelWaitable(t)
        \/ SchedulePump(t) \/ Release(t) \/ Unref(t)
        \/ \E b \in BOOLEAN : Post(t, b) \/ Posted(t, b) \/ PumpContinuation(t, b) \/ SourceValue(t, b)
                              \/ Arm(t, b) \/ CallbackReturns(t, b)
        \/ PumpBegin(t) \/ PumpStops(t) \/ PumpCancelled(t) \/ PumpFlush(t) \/ finish_if_possible(t)
        \/ poll_source_terminal(t) \/ SourceDone(t) \/ SourceError(t) \/ SourceWait(t) \/ PumpEnd(t)
        \/ \E id \in queue : SchedulerDrops(t, id)
        \/ CallbackCancel(t) \/ CallbackClose(t)
        \/ CloseEnter(t) \/ CloseRequest(t) \/ CloseCancel(t) \/ CloseUnbind(t)
        \/ CloseCancelsTask(t) \/ CloseDestroys(t) \/ run_destroy_claimed(t)
    \/ WaitableFires \/ wake_cb
    \/ SourceEnds("DONE") \/ SourceEnds("ERROR")

Spec == Init /\ [][Next]_vars

(* Every thread keeps running and the scheduler runs what it has accepted.   *)
Fairness == \A t \in Threads :
    /\ WF_vars(SchedulePump(t) \/ Post(t, TRUE) \/ Posted(t, TRUE) \/ Release(t) \/ Unref(t) \/ run_destroy_claimed(t))
    /\ WF_vars(PumpBegin(t) \/ PumpStops(t) \/ PumpCancelled(t) \/ PumpContinuation(t, TRUE) \/ SourceValue(t, TRUE)
               \/ PumpFlush(t) \/ finish_if_possible(t) \/ poll_source_terminal(t) \/ SourceDone(t) \/ PumpEnd(t)
               \/ CallbackReturns(t, TRUE))
FairSpec == Spec /\ Fairness

-----------------------------------------------------------------------------
Idle == \A t \in Threads : at[t] = "idle"
Pumping(t) == at[t] \in {"pump", "arm", "value", "pumped"} \/ (at[t] = "terminal" /\ frame[t].next = "pumped")

(* One pump at a time touches the source and the operators, and the          *)
(* subscriber hears at most one terminal call, from a run that still exists, *)
(* and no value together with it or after it.                                *)
SubscriberProtocol ==
    /\ \A t, u \in Threads : Pumping(t) /\ Pumping(u) => t = u
    /\ Len(sink) <= 1
    /\ \A t \in Threads : InCallback(t) => life = "LIVE"
    /\ (\E t \in Threads : at[t] = "value") => sink = <<>>
    /\ flags.terminated = (sink # <<>> \/ flags.cancelled)

(* The task references a thread holds: for its post and for the task it has  *)
(* not handed over, and for the task it runs.                                *)
Posting(t) == at[t] \in {"post", "posted", "release"} \/ (at[t] = "terminal" /\ frame[t].next = "release")
Held(t) ==
    (IF ~Posting(t) THEN 0 ELSE IF at[t] = "post" \/ frame[t].res = 0 THEN 2 ELSE 1)
    + (IF at[t] = "unref" THEN frame[t].gone
       ELSE IF Pumping(t) \/ (frame[t].back = "unref" /\ (at[t] = "sched" \/ Posting(t))) THEN 1 ELSE 0)

(* A freed run is unreachable: no task is queued and nobody is inside an     *)
(* operation; and until then task_refs counts exactly the tasks that the     *)
(* scheduler holds, the ones being run and the posts in flight.              *)
NoUseAfterFree ==
    /\ life = "FREED" => queue = {} /\ refs = 0 /\ posting = 0 /\ \A t \in Threads : at[t] = "idle"
    /\ refs = Cardinality(queue) + MapThenSumSet(Held, Threads)

(* Work is never forgotten: when every thread is at rest, a run that can go  *)
(* on has a task queued, and one that waits has its waker armed.  A post     *)
(* that only a request needed may have been refused; its demand stays.       *)
NotStranded ==
    Idle /\ life = "LIVE" /\ ~flags.terminated =>
        /\ flags.waiting => armed \/ ~flags.bound
        /\ Runnable /\ ~flags.waiting /\ ~dropped => queue # {}


(* close() called from a callback of the subscriber destroys the run once    *)
(* the active pump has returned (cflow/include/cflow/reactive.h:216-218).    *)
DeferredCloseDestroys == flags.closeReq ~> life = "FREED"
=============================================================================
