-------------------------------- MODULE Plan --------------------------------
(* Plans: compilation and evaluation, and the parallel reduction.             *)
EXTENDS Integers, Sequences, FiniteSets, SequencesExt

CONSTANTS
    Callables,    \* name -> its types, contract, raw dispatch, function and the arguments it fails on
    Sizes,        \* the size in cells of a type that is copied as bytes, 0 of a managed one
    Nodes,        \* the nodes that a graph is made of
    MaxNodes,     \* the bound on a graph
    Arrays,       \* the inputs
    Capacities,   \* the capacities of the workspaces
    MaxItems,     \* the bound on the values before the reduce
    MaxTasks,     \* the options' task limits
    MinItems,     \* the options' least chunk sizes
    Evaluations   \* the bound on the evaluations

VARIABLES
    graph,    \* the surface graph
    plan,     \* what it was compiled to
    space,    \* the workspace: its capacity and its two buffers
    result,   \* the last evaluation: its path, its input, its outcome and what is alive
    frame,    \* the shared frame: alive, how many settled, and whether one failed
    task,     \* each task's range and how far it is
    partial,  \* the accumulators, one for each task
    caller    \* the evaluating thread: its step, its counts and its result

-----------------------------------------------------------------------------
(* cflow/src/opt.c, plan_compile.c and plan_exec.c: a graph, which is a chain of *)
(* nodes, is optimized, compiled to a plan and evaluated on arrays: step by step *)
(* on owned vectors, by one fused pass, or in the two buffers of a workspace     *)
(* that is used again and again.  What the graph means is what a subscription    *)
(* makes of it, which passes one value at a time through every node.             *)

plan_vars == <<graph, plan, space, result>>

None == "none"
NoPlan == [on |-> FALSE, code |-> <<>>, managed |-> FALSE, fused |-> FALSE, filters |-> 0]
NoSpace == [capacity |-> 0, a |-> <<>>, b |-> <<>>]
NoResult == [path |-> None, in |-> <<>>, ok |-> FALSE, out |-> <<>>, live |-> 0, at |-> None]

PlanInit == graph = <<>> /\ plan = NoPlan /\ space = NoSpace /\ result = NoResult

-----------------------------------------------------------------------------
(* Nodes.  A typed adapter is called through its adapter alone.                 *)
Pure(node) == \A k \in DOMAIN node.chain : Callables[node.chain[k]].pure
Includes(c, props) == props \subseteq c.props
storage_supported(type) == Sizes[type] > 0
maplike(node) == ~node.explicit /\ node.op \in {"MAP", "TRANSFORM"}

(* Mutant: a map that is only declared idempotent may also fail or vary.        *)
IdempotentDeclared(c) == c.pure /\ Includes(c, {"idempotent"})

cflow_callable_declares_idempotent_endomap(c) ==
    c.pure /\ Includes(c, {"deterministic", "total", "idempotent"}) /\ c.in = c.out

(* The chain grows by a callable, unless it repeats an idempotent one.          *)
Chained(chain, fn) ==
    IF chain # <<>> /\ Last(chain) = fn /\ cflow_callable_declares_idempotent_endomap(Callables[fn])
    THEN chain ELSE Append(chain, fn)

append_plain_node(node) == [node EXCEPT !.op = IF @ = "TRANSFORM" THEN "MAP" ELSE @]

(* append_map_chain goes on while the next node is a pure map.                  *)
Extends(s, node) == s.open /\ maplike(node) /\ Pure(node)

Starts(node) == maplike(node) /\ Pure(node) /\ storage_supported(node.in) /\ storage_supported(node.out)

optimize_node(s, node) ==
    IF Extends(s, node)
    THEN [s EXCEPT !.out = Append(Front(@), [Last(@) EXCEPT !.chain = FoldLeft(Chained, @, node.chain), !.out = node.out])]
    ELSE [out |-> Append(s.out, IF Starts(node)
                                THEN [append_plain_node(node) EXCEPT !.chain = FoldLeft(Chained, <<>>, node.chain)]
                                ELSE append_plain_node(node)),
          open |-> Starts(node)]

cflow_graph_optimize(g) == FoldLeft(optimize_node, [out |-> <<>>, open |-> FALSE], g).out

-----------------------------------------------------------------------------
(* Compilation.                                                                 *)
Slices == {"TAKE", "SKIP"}

(* Mutant: slices and callables are mixed.                                      *)
MixedNever(g) == FALSE

plan_path_mixes_slices_and_callables(g) ==
    /\ \E k \in DOMAIN g : g[k].op \in Slices
    /\ \E k \in DOMAIN g : g[k].op \notin Slices

(* Mutant: a callable that may fail is fused.                                   *)
FusiblePure(c) == c.pure

call_is_fusible_value(c) == c.pure /\ Includes(c, {"deterministic", "total", "noalias"})

(* Filters first, then maps, each of a fusible callable.                        *)
prepare_fused_value(code, managed) ==
    /\ ~managed /\ code # <<>>
    /\ \A pc \in DOMAIN code :
        /\ code[pc].op \in {"FILTER", "MAP"}
        /\ code[pc].op = "FILTER" => \A before \in 1..(pc - 1) : code[before].op = "FILTER"
        /\ \A k \in DOMAIN code[pc].chain : call_is_fusible_value(Callables[code[pc].chain[k]])

(* cflow_value_storage_graph_supported.                                         *)
ManagedValues(code) == \E pc \in DOMAIN code : ~storage_supported(code[pc].in) \/ ~storage_supported(code[pc].out)

Compiled(code) ==
    IF plan_path_mixes_slices_and_callables(code) THEN NoPlan
    ELSE [on |-> TRUE, code |-> code, managed |-> ManagedValues(code),
          fused |-> prepare_fused_value(code, ManagedValues(code)),
          filters |-> Cardinality({pc \in DOMAIN code : code[pc].op = "FILTER"})]

-----------------------------------------------------------------------------
(* Steps on owned vectors: v holds the values, live counts the managed ones     *)
(* that are constructed, in vectors and slots together.                         *)
Counts(type, n) == IF storage_supported(type) THEN 0 ELSE n
Vector(ok, v, type, live) == [ok |-> ok, v |-> v, type |-> type, live |-> live]

(* The outputs up to the first call that fails.                                 *)
Outputs(c, v) ==
    LET bad == {n \in DOMAIN v : v[n] \in c.fails}
        stop == CHOOSE n \in bad \cup {Len(v) + 1} : \A m \in bad : n <= m
    IN  [n \in 1..(stop - 1) |-> c.fn[v[n]]]

Keep(v, keep) == LET kept == SetToSortSeq({n \in DOMAIN v : keep[n]}, <) IN [n \in DOMAIN kept |-> v[kept[n]]]

(* A failing predicate leaves the vector to the caller.                         *)
step_filter(inst, s) ==
    LET keep == Outputs(Callables[inst.chain[1]], s.v)
    IN  IF Len(keep) < Len(s.v) THEN [s EXCEPT !.ok = FALSE]
        ELSE LET out == Keep(s.v, keep)
             IN  Vector(TRUE, out, s.type, s.live + Counts(s.type, Len(out)) - Counts(s.type, Len(s.v)))

(* Mutant: the vector that a call has consumed is not destroyed.                *)
map_callKept(s, fn) ==
    LET c == Callables[fn]
        next == Outputs(c, s.v)
    IN  IF ~s.ok THEN s
        ELSE IF Len(next) < Len(s.v) THEN Vector(FALSE, <<>>, s.type, s.live - Counts(s.type, Len(s.v)))
        ELSE Vector(TRUE, next, c.out, s.live + Counts(c.out, Len(next)))

(* Both vectors are destroyed when a call fails.                                *)
map_call(s, fn) ==
    LET c == Callables[fn]
        next == Outputs(c, s.v)
    IN  IF ~s.ok THEN s
        ELSE IF Len(next) < Len(s.v) THEN Vector(FALSE, <<>>, s.type, s.live - Counts(s.type, Len(s.v)))
        ELSE Vector(TRUE, next, c.out, s.live + Counts(c.out, Len(next)) - Counts(s.type, Len(s.v)))

step_map(inst, s) == FoldLeft(map_call, s, inst.chain)

step_flat_map(inst, s) ==
    LET c == Callables[inst.chain[1]]
        made == Outputs(c, s.v)
    IN  IF Len(made) < Len(s.v) THEN [s EXCEPT !.ok = FALSE]
        ELSE LET out == FlattenSeq(made)
             IN  Vector(TRUE, out, c.out, s.live + Counts(c.out, Len(out)) - Counts(s.type, Len(s.v)))

(* An accumulator is a sequence: empty before the first value, or once a call   *)
(* has failed.                                                                  *)
Combine(c, acc, x) == IF <<acc[1], x>> \in c.fails THEN <<>> ELSE <<c.fn[<<acc[1], x>>]>>
Reduced(c, acc, v) == FoldLeft(LAMBDA a, x : IF a = <<>> THEN a ELSE Combine(c, a, x), acc, v)

(* Nothing is reduced to nothing, unless there is a seed.                       *)
step_reduce(inst, s) ==
    LET c == Callables[inst.chain[1]]
        acc == IF inst.seed # <<>> THEN Reduced(c, inst.seed, s.v) ELSE Reduced(c, <<s.v[1]>>, Tail(s.v))
    IN  IF s.v = <<>> /\ inst.seed = <<>> THEN s
        ELSE IF acc = <<>> THEN [s EXCEPT !.ok = FALSE]
        ELSE Vector(TRUE, acc, s.type, s.live + Counts(s.type, 1) - Counts(s.type, Len(s.v)))

(* Mutant: the tail that is cut off is not destroyed.                           *)
step_takeKept(inst, s) == Vector(TRUE, SubSeq(s.v, 1, IF Len(s.v) > inst.n THEN inst.n ELSE Len(s.v)), s.type, s.live)

step_take(inst, s) ==
    LET n == IF Len(s.v) > inst.n THEN inst.n ELSE Len(s.v)
    IN  Vector(TRUE, SubSeq(s.v, 1, n), s.type, s.live - Counts(s.type, Len(s.v) - n))

step_skip(inst, s) ==
    LET n == IF inst.n >= Len(s.v) THEN Len(s.v) ELSE inst.n
    IN  Vector(TRUE, SubSeq(s.v, n + 1, Len(s.v)), s.type, s.live - Counts(s.type, n))

Step(s, inst) ==
    IF ~s.ok THEN s
    ELSE CASE inst.op = "FILTER" -> step_filter(inst, s)
           [] inst.op = "MAP" -> step_map(inst, s)
           [] inst.op = "FLAT_MAP" -> step_flat_map(inst, s)
           [] inst.op = "REDUCE" -> step_reduce(inst, s)
           [] inst.op = "TAKE" -> step_take(inst, s)
           [] inst.op = "SKIP" -> step_skip(inst, s)

InputType == IF graph = <<>> THEN "int" ELSE graph[1].in

(* A step that failed: what is left of the vector is destroyed.                 *)
eval_materialized(v) ==
    LET s == FoldLeft(Step, Vector(TRUE, v, InputType, Counts(InputType, Len(v))), plan.code)
    IN  IF s.ok THEN s ELSE [s EXCEPT !.v = <<>>, !.live = @ - Counts(s.type, Len(s.v))]

-----------------------------------------------------------------------------
(* The fused pass: the filters narrow a selection, the first map reads through  *)
(* it, and each later one reads what the one before has written.                *)
MapCalls == FlattenSeq([pc \in 1..(Len(plan.code) - plan.filters) |-> plan.code[plan.filters + pc].chain])

(* Mutant: every filter sees every value.                                       *)
filterAll(selection, v, c) == {n \in DOMAIN v : c.fn[v[n]]}

filter(selection, v, c) == {n \in selection : c.fn[v[n]]}

eval_fused_filters(v) ==
    FoldLeft(LAMBDA selection, pc : filter(selection, v, Callables[plan.code[pc].chain[1]]),
             DOMAIN v, [pc \in 1..plan.filters |-> pc])

Selected(v) == LET order == SetToSortSeq(eval_fused_filters(v), <) IN [n \in DOMAIN order |-> v[order[n]]]

eval_fused_value(v) ==
    Vector(TRUE, FoldLeft(LAMBDA s, fn : Outputs(Callables[fn], s), Selected(v), MapCalls), InputType, 0)

-----------------------------------------------------------------------------
(* A buffer is a sequence of cells and a value fills as many as its type has; a *)
(* value of unlike cells was overwritten while it was read.                     *)
Torn == -1
Put(buffer, n, size, value) == [c \in DOMAIN buffer |-> IF c \in ((n - 1) * size + 1)..(n * size) THEN value ELSE buffer[c]]
Get(buffer, n, size) ==
    LET cells == {buffer[c] : c \in ((n - 1) * size + 1)..(n * size)}
    IN  IF Cardinality(cells) = 1 THEN CHOOSE x \in cells : TRUE ELSE Torn

(* A buffer takes the widest output of a map; without one, the values selected. *)
Width ==
    IF MapCalls = <<>> THEN Sizes[InputType]
    ELSE FoldLeft(LAMBDA w, fn : IF Sizes[Callables[fn].out] > w THEN Sizes[Callables[fn].out] ELSE w, 0, MapCalls)

raw_fused_workspace_supported ==
    plan.fused /\ \A pc \in DOMAIN plan.code :
        ~plan.code[pc].explicit /\ \A k \in DOMAIN plan.code[pc].chain : Callables[plan.code[pc].chain[k]].raw

(* Mutant: the output buffer is always the first.                               *)
PendingFirst(at) == "a"

(* The buffer that does not hold the input of the call.                         *)
Pending(at) == IF at = "a" THEN "b" ELSE "a"

(* m holds both buffers, and the caller's array under its own name.             *)
raw_batch(m, from, to, fn, order) ==
    LET c == Callables[fn]
        at(mem, n) == Get(mem[from], n, Sizes[c.in])
    IN  FoldLeft(LAMBDA mem, n : [mem EXCEPT ![to] = Put(mem[to], n, Sizes[c.out],
                                      IF at(mem, order[n]) = Torn THEN Torn ELSE c.fn[at(mem, order[n])])],
                 m, [n \in DOMAIN order |-> n])

(* memmove of the selected values to the first buffer, when there is no map.    *)
Compact(m, from, order) ==
    FoldLeft(LAMBDA mem, n : [mem EXCEPT !["a"] = Put(mem["a"], n, Sizes[InputType], Get(mem[from], order[n], Sizes[InputType]))],
             m, [n \in DOMAIN order |-> n])

OutputType == IF plan.code = <<>> THEN InputType ELSE Last(plan.code).out

WorkspaceEval(m, from, v) ==
    LET order == SetToSortSeq(eval_fused_filters(v), <)
        all == [n \in DOMAIN order |-> n]
        stage(s, k) == [mem |-> raw_batch(s.mem, s.at, Pending(s.at), MapCalls[k], IF k = 1 THEN order ELSE all),
                        at |-> Pending(s.at)]
        end == IF MapCalls = <<>> THEN [mem |-> Compact(m, from, order), at |-> "a"]
               ELSE FoldLeft(stage, [mem |-> m, at |-> from], [k \in DOMAIN MapCalls |-> k])
    IN  [mem |-> end.mem, at |-> end.at, out |-> [n \in DOMAIN order |-> Get(end.mem[end.at], n, Sizes[OutputType])]]

-----------------------------------------------------------------------------
cflow_plan_compile(g) ==
    /\ ~plan.on /\ space = NoSpace
    /\ \A k \in DOMAIN g : g[k].op # "TRANSFORM"
    /\ graph' = g /\ plan' = Compiled(g)
    /\ UNCHANGED <<space, result>>

cflow_plan_compile_surface(g) ==
    /\ ~plan.on /\ space = NoSpace
    /\ graph' = g /\ plan' = Compiled(cflow_graph_optimize(g))
    /\ UNCHANGED <<space, result>>

cflow_plan_eval_array(v) ==
    /\ plan.on
    /\ \E s \in {IF plan.fused THEN eval_fused_value(v) ELSE eval_materialized(v)} :
        result' = [path |-> IF plan.fused THEN "fused" ELSE "materialized", in |-> v,
                   ok |-> s.ok, out |-> s.v, live |-> s.live, at |-> None]
    /\ UNCHANGED <<graph, plan, space>>

cflow_plan_batch_workspace_init(capacity) ==
    /\ plan.on /\ space = NoSpace /\ raw_fused_workspace_supported
    /\ space' = [capacity |-> capacity, a |-> [c \in 1..(capacity * Width) |-> 0], b |-> [c \in 1..(capacity * Width) |-> 0]]
    /\ UNCHANGED <<graph, plan, result>>

(* The array is the caller's, or the last result, which the workspace holds.    *)
Evaluated(from, v, mem) ==
    /\ Len(v) <= space.capacity
    /\ \E e \in {WorkspaceEval(mem, from, v)} :
        /\ space' = [space EXCEPT !.a = e.mem["a"], !.b = e.mem["b"]]
        /\ result' = [path |-> "workspace", in |-> v, ok |-> TRUE, out |-> e.out, live |-> 0, at |-> e.at]
    /\ UNCHANGED <<graph, plan>>

cflow_plan_eval_array_workspace(v) ==
    /\ plan.on /\ space # NoSpace
    /\ Evaluated("caller", v, [a |-> space.a, b |-> space.b,
                               caller |-> [c \in 1..(Len(v) * Sizes[InputType]) |-> v[((c - 1) \div Sizes[InputType]) + 1]]])

EvalAgain ==
    /\ plan.on /\ space # NoSpace /\ result.path = "workspace" /\ result.out # <<>>
    /\ InputType = OutputType
    /\ Evaluated(result.at, result.out, [a |-> space.a, b |-> space.b])

cflow_plan_batch_workspace_destroy ==
    /\ space # NoSpace
    /\ space' = NoSpace /\ result' = NoResult
    /\ UNCHANGED <<graph, plan>>

Graphs == UNION {{g \in [1..n -> Nodes] : \A k \in 1..(n - 1) : g[k].out = g[k + 1].in} : n \in 1..MaxNodes}

PlanNext ==
    \/ graph = <<>> /\ \E g \in Graphs : cflow_plan_compile(g) \/ cflow_plan_compile_surface(g)
    \/ \E v \in Arrays : cflow_plan_eval_array(v) \/ cflow_plan_eval_array_workspace(v)
    \/ \E c \in Capacities : cflow_plan_batch_workspace_init(c)
    \/ EvalAgain \/ cflow_plan_batch_workspace_destroy

PlanSpec == PlanInit /\ [][PlanNext]_plan_vars

-----------------------------------------------------------------------------
(* What a subscription makes of the graph: each value goes through every node   *)
(* before the next is pulled, and nothing is pulled once a take is satisfied.   *)
Fresh(g) == [seen |-> [k \in DOMAIN g |-> 0], acc |-> [k \in DOMAIN g |-> g[k].seed],
             out |-> <<>>, err |-> FALSE, over |-> \E k \in DOMAIN g : g[k].op = "TAKE" /\ g[k].n = 0]

(* A sequence of the output, empty when a callable of the chain fails.          *)
Apply(node, x) == FoldLeft(LAMBDA y, fn : IF y = <<>> THEN y ELSE IF y[1] \in Callables[fn].fails THEN <<>>
                                          ELSE <<Callables[fn].fn[y[1]]>>, <<x>>, node.chain)

RECURSIVE Push(_, _, _, _)
Push(g, k, x, s) ==
    IF s.err THEN s
    ELSE IF k > Len(g) THEN [s EXCEPT !.out = Append(@, x)]
    ELSE LET node == g[k]
             acc == IF s.acc[k] = <<>> THEN <<x>> ELSE Combine(Callables[node.chain[1]], s.acc[k], x)
             y == IF node.op = "REDUCE" THEN acc ELSE Apply(node, x)
             on(z, t) == Push(g, k + 1, z, t)
         IN  IF y = <<>> THEN [s EXCEPT !.err = TRUE]
             ELSE CASE node.op \in {"MAP", "TRANSFORM"} -> on(y[1], s)
                    [] node.op = "FILTER" -> IF y[1] THEN on(x, s) ELSE s
                    [] node.op = "FLAT_MAP" -> FoldLeft(LAMBDA t, z : on(z, t), s, y[1])
                    [] node.op = "REDUCE" -> [s EXCEPT !.acc[k] = acc]
                    [] node.op = "TAKE" -> IF s.seen[k] >= node.n THEN s
                                           ELSE on(x, [s EXCEPT !.seen[k] = @ + 1, !.over = @ \/ s.seen[k] + 1 = node.n])
                    [] node.op = "SKIP" -> IF s.seen[k] < node.n THEN [s EXCEPT !.seen[k] = @ + 1] ELSE on(x, s)

Meaning(g, v) ==
    LET pulled == FoldLeft(LAMBDA s, x : IF s.err \/ s.over THEN s ELSE Push(g, 1, x, s), Fresh(g), v)
    IN  FoldLeft(LAMBDA s, k : IF g[k].op = "REDUCE" /\ s.acc[k] # <<>> THEN Push(g, k + 1, s.acc[k][1], s) ELSE s,
                 pulled, [k \in DOMAIN g |-> k])

(* Whichever path evaluates it, optimized or not, a plan computes what its      *)
(* graph means, and fails when a callable does; a workspace that was used       *)
(* before, or that holds the input itself, makes no difference.                 *)
PlanExact ==
    result.path # None =>
        \E m \in {Meaning(graph, result.in)} : IF m.err THEN ~result.ok ELSE result.ok /\ result.out = m.out

(* No value is leaked or destroyed twice: what is alive is what is returned.    *)
ValuesOwned == result.path # None => result.live = IF result.ok THEN Counts(OutputType, Len(result.out)) ELSE 0

-----------------------------------------------------------------------------
(* cflow/src/plan_parallel_reduce.c: the caller cuts the values before a       *)
(* terminal reduce into chunks, posts one task for each to a concurrent         *)
(* executor, waits for the ones it accepted and merges their partial results.   *)
(* The reducer is only known to be associative, so a value is the sequence of   *)
(* the items that it stands for and the reducer concatenates.                   *)

reduce_vars == <<frame, task, partial, caller>>

NoFrame == [on |-> FALSE, completed |-> 0, failed |-> FALSE]
Ready == [at |-> "idle", items |-> 0, tasks |-> 0, accepted |-> 0, refused |-> FALSE,
          ok |-> FALSE, result |-> <<>>, done |-> 0]

ReduceInit == frame = NoFrame /\ task = <<>> /\ partial = <<>> /\ caller = Ready

-----------------------------------------------------------------------------
parallel_task_count(items, max, min) ==
    LET desired == (items \div min) + (IF items % min # 0 THEN 1 ELSE 0)
    IN  IF desired < max THEN desired ELSE max

(* Mutant: the remainder of the division is left out.                           *)
ChunkFloor(index, items, tasks) == items \div tasks

Chunk(index, items, tasks) ==
    (items \div tasks) + (IF index <= items % tasks THEN 1 ELSE 0)

ChunkBegin(index, items, tasks) == FoldLeft(LAMBDA sum, i : sum + Chunk(i, items, tasks), 0, [i \in 1..(index - 1) |-> i])

parallel_reduce_frame_init == frame' = [NoFrame EXCEPT !.on = TRUE]

parallel_reduce_frame_allocate_tasks(n) ==
    /\ task' = [i \in 1..n |-> [state |-> "new", begin |-> 0, count |-> 0, offset |-> 0]]
    /\ partial' = [i \in 1..n |-> <<>>]

(* Fewer than two chunks, or a chunk without a value, are refused.              *)
eval_parallel_reduce(items, max, min) ==
    /\ caller.at = "idle" /\ caller.done < Evaluations
    /\ \E n \in {parallel_task_count(items, max, min)} :
        IF n < 2 \/ n > items
        THEN /\ caller' = [Ready EXCEPT !.done = caller.done + 1, !.items = items]
             /\ UNCHANGED <<frame, task, partial>>
        ELSE /\ parallel_reduce_frame_init
             /\ parallel_reduce_frame_allocate_tasks(n)
             /\ caller' = [Ready EXCEPT !.at = "post", !.items = items, !.tasks = n, !.done = caller.done + 1]

(* The executor is full or closed: what it has accepted must still settle.      *)
Post ==
    LET i == caller.accepted + 1
    IN  /\ caller.at = "post"
        /\ \/ /\ task' = [task EXCEPT ![i] = [state |-> "queued", offset |-> 0,
                              begin |-> ChunkBegin(i, caller.items, caller.tasks),
                              count |-> Chunk(i, caller.items, caller.tasks)]]
              /\ caller' = [caller EXCEPT !.accepted = i, !.at = IF i = caller.tasks THEN "wait" ELSE "post"]
           \/ /\ caller' = [caller EXCEPT !.refused = TRUE, !.at = "wait"]
              /\ UNCHANGED task
    /\ UNCHANGED <<frame, partial>>

parallel_reduce_task_settle(i, succeeded) ==
    /\ frame' = [frame EXCEPT !.failed = @ \/ ~succeeded, !.completed = @ + 1]
    /\ task' = [task EXCEPT ![i].state = "settled"]

(* Mutant: the workers share one accumulator.                                   *)
SlotShared(i) == 1

managed_slot_at(i) == i

(* The first value is copied, which may fail for a managed one.                 *)
RunBegin(i) ==
    /\ task[i].state = "queued"
    /\ \/ /\ task' = [task EXCEPT ![i].state = "running", ![i].offset = 1]
          /\ partial' = [partial EXCEPT ![managed_slot_at(i)] = <<task[i].begin + 1>>]
          /\ UNCHANGED frame
       \/ parallel_reduce_task_settle(i, FALSE) /\ UNCHANGED partial
    /\ UNCHANGED caller

(* One call of the reducer, which may fail; after the last the task settles.    *)
parallel_reduce_task_run(i) ==
    /\ task[i].state = "running"
    /\ IF task[i].offset < task[i].count
       THEN \/ /\ partial' = [partial EXCEPT ![managed_slot_at(i)] = Append(@, task[i].begin + task[i].offset + 1)]
               /\ task' = [task EXCEPT ![i].offset = @ + 1]
               /\ UNCHANGED frame
            \/ parallel_reduce_task_settle(i, FALSE) /\ UNCHANGED partial
       ELSE parallel_reduce_task_settle(i, TRUE) /\ UNCHANGED partial
    /\ UNCHANGED caller

(* The executor is shut down with the task in its queue.                        *)
parallel_reduce_task_cancel(i) ==
    /\ task[i].state = "queued"
    /\ parallel_reduce_task_settle(i, FALSE)
    /\ UNCHANGED <<partial, caller>>

(* Mutant: the caller that was refused a task does not wait for the others.     *)
SettledUnlessRefused == caller.refused \/ frame.completed >= caller.accepted

Settled == frame.completed >= caller.accepted

wait_for_accepted ==
    /\ caller.at = "wait" /\ Settled
    /\ caller' = [caller EXCEPT !.at = IF frame.failed \/ caller.refused THEN "done" ELSE "merge"]
    /\ UNCHANGED <<frame, task, partial>>

(* The merge calls the reducer too, and may fail as it does.                    *)
merge_partials ==
    /\ caller.at = "merge"
    /\ caller' \in {[caller EXCEPT !.at = "done", !.ok = TRUE, !.result = FlattenSeq(partial)],
                    [caller EXCEPT !.at = "done"]}
    /\ UNCHANGED <<frame, task, partial>>

parallel_reduce_frame_destroy ==
    /\ caller.at = "done"
    /\ frame' = NoFrame
    /\ partial' = <<>>
    /\ caller' = [caller EXCEPT !.at = "idle"]
    /\ UNCHANGED task

ReduceNext ==
    \/ \E items \in 0..MaxItems, max \in MaxTasks, min \in MinItems : eval_parallel_reduce(items, max, min)
    \/ Post
    \/ \E i \in DOMAIN task : RunBegin(i) \/ parallel_reduce_task_run(i) \/ parallel_reduce_task_cancel(i)
    \/ wait_for_accepted \/ merge_partials \/ parallel_reduce_frame_destroy

ReduceSpec == ReduceInit /\ [][ReduceNext]_reduce_vars

-----------------------------------------------------------------------------
(* A result is the reduction of every value, in order, whatever the order the   *)
(* tasks ran in; a task that failed or was refused leaves no result.            *)
ReduceExact ==
    caller.ok => /\ caller.result = [i \in 1..caller.items |-> i]
                 /\ ~caller.refused
                 /\ \A i \in DOMAIN task : task[i].offset = task[i].count

(* The frame outlives every task that the executor has accepted.                *)
FrameOutlives == \A i \in DOMAIN task : task[i].state \in {"queued", "running"} => frame.on
=============================================================================
