---------------------------- MODULE MCAlgorithms ----------------------------
(* Small instances of the containers of cstl, of its sort, of compiled plans  *)
(* and of parallel reductions side by side: which names the one that is used. *)
EXTENDS Integers, Sequences, FiniteSets

VARIABLES which,
          x1, x2, x3, x4, x5

vars == <<which, x1, x2, x3, x4, x5>>

(* Entries of the keys, with the values 1, 1, 2 or all with the value 1.      *)
Pairs(ks) == [i \in DOMAIN ks |-> [key |-> ks[i], value |-> 1 + (i - 1) \div 2]]
Ones(ks) == [i \in DOMAIN ks |-> [key |-> ks[i], value |-> 1]]


(* Values of a plan's types; the callables over them: total and partial,     *)
(* pure and impure, in place and through slots.                              *)
V == 0 .. 3
Declared == {"deterministic", "total", "noalias"}
Callable(in, out, pure, declared, raw, fails, fn) ==
    [in |-> in, out |-> out, pure |-> pure, props |-> declared, raw |-> raw, fails |-> fails, fn |-> fn]

MCCallables ==
    [inc |-> Callable("int", "int", TRUE, Declared, TRUE, {}, [x \in V |-> (x + 1) % 4]),
     clamp |-> Callable("int", "int", TRUE, Declared \cup {"idempotent"}, TRUE, {}, [x \in V |-> IF x > 1 THEN 1 ELSE x]),
     part |-> Callable("int", "int", TRUE, {"deterministic", "noalias", "idempotent"}, FALSE, {2}, [x \in V |-> (x + 1) % 4]),
     noisy |-> Callable("int", "int", FALSE, Declared, FALSE, {}, [x \in V |-> x]),
     odd |-> Callable("int", "bool", TRUE, Declared, TRUE, {}, [x \in V |-> x % 2 = 1]),
     low |-> Callable("int", "bool", TRUE, Declared, TRUE, {}, [x \in V |-> x < 3]),
     widen |-> Callable("int", "wide", TRUE, Declared, TRUE, {}, [x \in V |-> 3 - x]),
     narrow |-> Callable("wide", "int", TRUE, Declared, TRUE, {}, [x \in V |-> x]),
     box |-> Callable("int", "obj", TRUE, Declared, FALSE, {}, [x \in V |-> x]),
     bump |-> Callable("obj", "obj", TRUE, {"deterministic"}, FALSE, {3}, [x \in V |-> (x + 1) % 4]),
     dup |-> Callable("int", "int", TRUE, Declared, FALSE, {}, [x \in V |-> [i \in 1 .. x % 3 |-> x]]),
     sub |-> Callable("int", "int", TRUE, Declared, FALSE, {}, [p \in V \X V |-> (p[1] + p[2] * 2) % 4]),
     merge |-> Callable("obj", "obj", TRUE, Declared, FALSE, {<<1, 2>>}, [p \in V \X V |-> (p[1] + p[2]) % 4])]

PlanNode(op, chain, in, out) ==
    [op |-> op, chain |-> chain, in |-> in, out |-> out, n |-> 0, seed |-> <<>>, explicit |-> FALSE]
OnInts(op, name) == PlanNode(op, <<name>>, "int", "int")

MCNodes ==
    {OnInts("MAP", "inc"), OnInts("MAP", "clamp"), OnInts("TRANSFORM", "clamp"), OnInts("MAP", "part"), OnInts("MAP", "noisy"),
     OnInts("FILTER", "odd"), OnInts("FILTER", "low"), [OnInts("MAP", "inc") EXCEPT !.explicit = TRUE],
     PlanNode("MAP", <<"widen">>, "int", "wide"), PlanNode("MAP", <<"narrow">>, "wide", "int"),
     PlanNode("MAP", <<"box">>, "int", "obj"), PlanNode("MAP", <<"bump">>, "obj", "obj"),
     OnInts("FLAT_MAP", "dup"), OnInts("REDUCE", "sub"), [OnInts("REDUCE", "sub") EXCEPT !.seed = <<1>>],
     PlanNode("REDUCE", <<"merge">>, "obj", "obj"), PlanNode("TAKE", <<>>, "int", "int")}
    \cup {[PlanNode(op, <<>>, type, type) EXCEPT !.n = 1] : op \in {"TAKE", "SKIP"}, type \in {"int", "obj"}}

(* Constants that have one value wherever they are used.                      *)
T == 2
MinCapacity == 2
Priorities == {1, 2, 3}
Tags == {1, 2}
Lengths == 0 .. 7
Fails == TRUE
Values == {1, 2}
MaxItems == 5
MaxTasks == {1, 2, 3}
MinItems == {1, 2}
Evaluations == 1
Callables == MCCallables
Sizes == [int |-> 1, wide |-> 2, obj |-> 0]
Nodes == MCNodes
MaxNodes == 3
Capacities == {3}

Ordered == INSTANCE Trees WITH
    Keys <- 1 .. 9, Twice <- {5}, Limit <- 3, Arrays <- {Pairs(<<2, 9, 2>>)},
    root <- x1, links <- x2, limit <- x3, walk <- x4, entries <- x5,
    Kind <- "map", Copies <- 1, nodes <- x1, tree <- x1

Leaves == INSTANCE Trees WITH
    Keys <- 1 .. 7, Twice <- {4}, Limit <- 3, Arrays <- {Pairs(<<6, 3, 6>>)},
    nodes <- x1, links <- x2, limit <- x3, walk <- x4, entries <- x5,
    Kind <- "map", Copies <- 1, root <- x1, tree <- x1

Sorted == INSTANCE Trees WITH
    Keys <- 1 .. 7, Twice <- {3}, Kind <- "map", Copies <- 1, Limit <- 9,
    Arrays <- {Pairs(<<6, 2, 6>>)},
    tree <- x1, walk <- x2, entries <- x3,
    root <- x1, links <- x2, limit <- x3, nodes <- x1

Multi == INSTANCE Trees WITH
    Keys <- 1 .. 3, Twice <- {2}, Kind <- "multimap", Copies <- 3, Limit <- 6,
    Arrays <- {Pairs(<<3, 1, 3>>)},
    tree <- x1, walk <- x2, entries <- x3,
    root <- x1, links <- x2, limit <- x3, nodes <- x1

Unique == INSTANCE Trees WITH
    Keys <- 1 .. 5, Twice <- {}, Kind <- "set", Copies <- 1, Limit <- 4,
    Arrays <- {Ones(<<4, 2>>)},
    tree <- x1, walk <- x2, entries <- x3,
    root <- x1, links <- x2, limit <- x3, nodes <- x1

Hashed == INSTANCE HashMap WITH
    Keys <- 1 .. 6, Twice <- {2}, Hash <- <<0, 1, 3, 7, 1, 9>>, Set <- FALSE, MinBuckets <- 4,
    Limit <- 4, Arrays <- {<<<<2, 1>>, <<5, 1>>, <<2, 2>>>>},
    table <- x1, limit <- x2, walk <- x3, entries <- x4

Members == INSTANCE HashMap WITH
    Keys <- 1 .. 4, Twice <- {}, Hash <- <<3, 3, 0, 1>>, Set <- TRUE, MinBuckets <- 4,
    Limit <- 3, Arrays <- {<<<<2, 1>>, <<1, 1>>>>},
    table <- x1, limit <- x2, walk <- x3, entries <- x4

Linked == INSTANCE LinearContainers WITH
    Limit <- 3, Most <- 4,
    list <- x1, limit <- x2, iter <- x3, walk <- x4, entries <- x5,
    Keys <- {}, slots <- x1, size <- x2, handle <- x3, ring <- x1, data <- x1, capacity <- x2,
    base <- x1, scratch <- x2, pass <- x3, input <- x4, status <- x5

Ring == INSTANCE LinearContainers WITH
    Limit <- 5, Most <- 5,
    ring <- x1, size <- x2, limit <- x3, walk <- x4, entries <- x5,
    Keys <- {}, slots <- x1, handle <- x3, list <- x1, iter <- x3, data <- x1, capacity <- x2,
    base <- x1, scratch <- x2, pass <- x3, input <- x4, status <- x5

Heaped == INSTANCE LinearContainers WITH
    Limit <- 3, Most <- 5,
    data <- x1, capacity <- x2, limit <- x3, walk <- x4, entries <- x5,
    Keys <- {}, slots <- x1, size <- x2, handle <- x3, ring <- x1, list <- x1, iter <- x3,
    base <- x1, scratch <- x2, pass <- x3, input <- x4, status <- x5

Array == INSTANCE LinearContainers WITH
    Limit <- 4, Most <- 5,
    slots <- x1, size <- x2, handle <- x3, walk <- x4, entries <- x5,
    Keys <- {}, ring <- x1, limit <- x3, list <- x1, iter <- x3, data <- x1, capacity <- x2,
    base <- x1, scratch <- x2, pass <- x3, input <- x4, status <- x5

Sorting == INSTANCE LinearContainers WITH
    Keys <- {1, 2, 3},
    base <- x1, scratch <- x2, pass <- x3, input <- x4, status <- x5,
    Limit <- 1, Most <- 1, slots <- x1, size <- x2, handle <- x3, walk <- x4, entries <- x5,
    ring <- x1, limit <- x3, list <- x1, iter <- x3, data <- x1, capacity <- x2

Compiled == INSTANCE Plan WITH
    Arrays <- {<<3>>, <<1, 2>>, <<0, 1, 3>>},
    graph <- x1, plan <- x2, space <- x3, result <- x4,
    frame <- x1, task <- x2, partial <- x3, caller <- x4

Reduced == INSTANCE Plan WITH
    frame <- x1, task <- x2, partial <- x3, caller <- x4,
    Arrays <- {}, graph <- x1, plan <- x2, space <- x3, result <- x4

(* A component of n variables has no use for the others.                     *)
Idle(n) ==
    /\ (IF n < 4 THEN x4 = 0 ELSE TRUE) /\ (IF n < 5 THEN x5 = 0 ELSE TRUE)

Still(n) ==
    /\ (IF n < 4 THEN UNCHANGED x4 ELSE TRUE) /\ (IF n < 5 THEN UNCHANGED x5 ELSE TRUE)

Init ==
    \/ which = "btree" /\ Ordered!BTreeInit
    \/ which = "bplus" /\ Leaves!BPlusInit
    \/ which = "map" /\ Sorted!RbInit /\ Idle(3)
    \/ which = "multimap" /\ Multi!RbInit /\ Idle(3)
    \/ which = "set" /\ Unique!RbInit /\ Idle(3)
    \/ which = "hash" /\ Hashed!Init /\ Idle(4)
    \/ which = "hash_set" /\ Members!Init /\ Idle(4)
    \/ which = "list" /\ Linked!ListInit
    \/ which = "deque" /\ Ring!DequeInit
    \/ which = "heap" /\ Heaped!HeapInit
    \/ which = "vec" /\ Array!VecInit
    \/ which = "sort" /\ Sorting!SortInit
    \/ which = "plan" /\ Compiled!PlanInit /\ Idle(4)
    \/ which = "reduce" /\ Reduced!ReduceInit /\ Idle(4)

Next ==
    /\ \/ which = "btree" /\ Ordered!BTreeNext
       \/ which = "bplus" /\ Leaves!BPlusNext
       \/ which = "map" /\ Sorted!RbNext /\ Still(3)
       \/ which = "multimap" /\ Multi!RbNext /\ Still(3)
       \/ which = "set" /\ Unique!RbNext /\ Still(3)
       \/ which = "hash" /\ Hashed!Next /\ Still(4)
       \/ which = "hash_set" /\ Members!Next /\ Still(4)
       \/ which = "list" /\ Linked!ListNext
       \/ which = "deque" /\ Ring!DequeNext
       \/ which = "heap" /\ Heaped!HeapNext
       \/ which = "vec" /\ Array!VecNext
       \/ which = "sort" /\ Sorting!SortNext
       \/ which = "plan" /\ Compiled!PlanNext /\ Still(4)
       \/ which = "reduce" /\ Reduced!ReduceNext /\ Still(4)
    /\ UNCHANGED which

Spec == Init /\ [][Next]_vars

-----------------------------------------------------------------------------
(* Whatever sequence of operations made it, a container holds what its        *)
(* operations say it holds: every lookup, bound and traversal of btree.c,     *)
(* bplus_tree.c, rbtree.c, hash_map.c, list.c, deque.c, heap.c and vec.c      *)
(* agrees with the reference, and stable_sort sorts.                          *)
ContentsAgree ==
    /\ which = "btree" => Ordered!BTreeContentsAgree
    /\ which = "bplus" => Leaves!BPlusContentsAgree
    /\ which = "map" => Sorted!RbContentsAgree
    /\ which = "multimap" => Multi!RbContentsAgree
    /\ which = "set" => Unique!RbContentsAgree
    /\ which = "hash" => Hashed!ContentsAgree
    /\ which = "hash_set" => Members!ContentsAgree
    /\ which = "list" => Linked!ListContentsAgree
    /\ which = "deque" => Ring!DequeContentsAgree
    /\ which = "heap" => Heaped!HeapContentsAgree
    /\ which = "vec" => Array!VecContentsAgree
    /\ which = "sort" => Sorting!SortContentsAgree

(* The shape the next operation relies on is kept: balance, fill, colours and *)
(* links of the trees and lists, counters and load of the table, heap order,  *)
(* capacities within the limit, and one constructed copy of every element.    *)
ShapeSound ==
    /\ which = "btree" => Ordered!BTreeShapeSound
    /\ which = "bplus" => Leaves!BPlusShapeSound
    /\ which = "map" => Sorted!RbShapeSound
    /\ which = "multimap" => Multi!RbShapeSound
    /\ which = "set" => Unique!RbShapeSound
    /\ which = "hash" => Hashed!ShapeSound
    /\ which = "hash_set" => Members!ShapeSound
    /\ which = "list" => Linked!ListShapeSound
    /\ which = "deque" => Ring!DequeShapeSound
    /\ which = "heap" => Heaped!HeapShapeSound
    /\ which = "vec" => Array!VecShapeSound
    /\ which = "sort" => Sorting!SortShapeSound

(* A range that is still accepted, because the generation it was opened at is *)
(* the container's, yields every element once and in the container's order.   *)
WalkExact ==
    /\ which = "btree" => Ordered!BTreeWalkExact
    /\ which = "bplus" => Leaves!BPlusWalkExact
    /\ which = "map" => Sorted!RbWalkExact
    /\ which = "multimap" => Multi!RbWalkExact
    /\ which = "set" => Unique!RbWalkExact
    /\ which = "hash" => Hashed!WalkExact
    /\ which = "hash_set" => Members!WalkExact
    /\ which = "list" => Linked!ListWalkExact
    /\ which = "deque" => Ring!DequeWalkExact
    /\ which = "heap" => Heaped!HeapWalkExact
    /\ which = "vec" => Array!VecWalkExact

(* A pipeline that was optimised, compiled, fused and evaluated in batches, or *)
(* whose reduction was cut into chunks for the tasks of an executor, answers  *)
(* what its nodes say one value at a time.                                    *)
PlanExact ==
    /\ which = "plan" => Compiled!PlanExact
    /\ which = "reduce" => Reduced!ReduceExact

(* Every value a plan constructed is destroyed once, on every path that ends  *)
(* early; and the frame of a parallel reduction outlives its accepted tasks.  *)
ValuesOwned ==
    /\ which = "plan" => Compiled!ValuesOwned
    /\ which = "reduce" => Reduced!FrameOutlives
=============================================================================
