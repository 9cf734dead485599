-------------------------- MODULE LinearContainers --------------------------
(* The vector, the deque, the list and the heap of cstl, and its sort.        *)
EXTENDS Integers, Sequences, SequencesExt, FiniteSets, FiniteSetsExt, Bags,
        BagsExt

CONSTANTS
    Values, Limit,
    MinCapacity,  \* SALTS_VEC_MIN_CAPACITY
    Most,         \* the bound on the elements of a vector without a limit
    Priorities, Tags,
    Keys, Lengths,
    Fails         \* whether copy_construct may fail

VARIABLES
    slots,    \* the storage, as long as the capacity
    size,
    handle,   \* whether it is typed, and element_limit, 0 if semantically zero
    walk,     \* what a range opened at the current generation has yielded
    entries,  \* the reference: the elements in order
    ring,     \* the slots from 0 to capacity - 1, and the index of the first element
    limit,    \* element_limit; 0 while the typed handle is semantically zero
    list,     \* head, tail, size, and the nodes by name
    iter,     \* the node of the caller's iterator, 0 at the end
    data,     \* the elements, slot 0 first
    capacity,
    base,     \* the caller's array
    scratch,  \* the other array, <<>> while there is none
    pass,     \* the width of the next pass, and where the last one left the elements
    input,    \* the elements as they were given
    status

-----------------------------------------------------------------------------
(* The growable array of cstl/src/vec.c, raw or typed, on the default allocator *)
(* or owned by a vec_alloc.  The storage is replaced when it grows, never grows *)
(* past the limit, and what is inserted is copied before that: it may be one of *)
(* the vector's own elements.                                                   *)

vec_vars == <<slots, size, handle, walk, entries>>

VecUnlimited == 1000   \* SIZE_MAX
VecRaw == -1           \* what a slot without an element reads as
vec_capacity == Len(slots)

VecInit ==
    /\ slots = <<>> /\ size = 0
    /\ handle \in {[typed |-> TRUE, limit |-> 0]} \cup [typed : BOOLEAN, limit : {Limit}]
    /\ walk = <<>> /\ entries = <<>>

VecMaterialized == IF handle.limit = 0 THEN VecUnlimited ELSE handle.limit

(* Mutant: the capacity is doubled past the limit.                              *)
vec_next_capacityPast(least) ==
    LET f[c \in 1 .. 2 * (least + MinCapacity)] == IF c >= least THEN c ELSE f[2 * c]
    IN f[IF vec_capacity = 0 THEN MinCapacity ELSE vec_capacity]

vec_next_capacity(least) ==
    LET first == IF vec_capacity = 0 THEN MinCapacity ELSE vec_capacity
        f[c \in 1 .. 2 * (least + first)] ==
            IF c >= least THEN c ELSE IF c > VecMaterialized - c THEN VecMaterialized ELSE f[2 * c]
    IN f[IF first > VecMaterialized THEN VecMaterialized ELSE first]

vec_grow_to(least) ==
    IF least <= vec_capacity THEN slots
    ELSE [i \in 1 .. vec_next_capacity(least) |-> IF i <= size THEN slots[i] ELSE VecRaw]

(* An element from outside, or the vector's own element at a place.             *)
VecSources == {[own |-> FALSE, v |-> x] : x \in Values} \cup {[own |-> TRUE, v |-> i] : i \in 1 .. size}
vec_prepare_copy(s) == IF s.own THEN slots[s.v] ELSE s.v
VecMeant(s) == IF s.own THEN entries[s.v] ELSE s.v

(* Every place from i to the end gives its element to the next one.             *)
ShiftedUp(t, i, v) == [j \in DOMAIN t |-> IF j = i THEN v ELSE IF j > i /\ j <= size + 1 THEN t[j - 1] ELSE t[j]]

(* Mutant: the copy is made after the elements have been moved.                 *)
vec_insertLate(i, s) ==
    /\ i <= size + 1 /\ handle.limit # 0 /\ size < handle.limit /\ size < Most
    /\ slots' = LET t == ShiftedUp(vec_grow_to(size + 1), i, VecRaw)
                IN [t EXCEPT ![i] = IF s.own THEN t[s.v] ELSE s.v]
    /\ size' = size + 1
    /\ walk' = <<>>
    /\ entries' = InsertAt(entries, i, VecMeant(s))
    /\ UNCHANGED handle

vec_insert(i, s) ==
    /\ i <= size + 1 /\ handle.limit # 0 /\ size < handle.limit /\ size < Most
    /\ slots' = ShiftedUp(vec_grow_to(size + 1), i, vec_prepare_copy(s))
    /\ size' = size + 1
    /\ walk' = <<>>
    /\ entries' = InsertAt(entries, i, VecMeant(s))
    /\ UNCHANGED handle

(* vec_push and vec_alloc_push.                                                 *)
vec_push_using(s) ==
    /\ size < VecMaterialized /\ size < Most
    /\ slots' = [vec_grow_to(size + 1) EXCEPT ![size + 1] = vec_prepare_copy(s)]
    /\ size' = size + 1
    /\ handle' = [handle EXCEPT !.limit = VecMaterialized]
    /\ walk' = <<>>
    /\ entries' = Append(entries, VecMeant(s))

vec_pop ==
    /\ size > 0
    /\ slots' = [slots EXCEPT ![size] = VecRaw]
    /\ size' = size - 1
    /\ walk' = <<>> /\ entries' = Front(entries)
    /\ UNCHANGED handle

(* Mutant: an element is replaced without the generation moving.                *)
vec_setQuietly(i, s) ==
    /\ i <= size
    /\ slots' = [slots EXCEPT ![i] = vec_prepare_copy(s)]
    /\ entries' = [entries EXCEPT ![i] = VecMeant(s)]
    /\ UNCHANGED <<size, handle, walk>>

vec_set(i, s) ==
    /\ i <= size
    /\ slots' = [slots EXCEPT ![i] = vec_prepare_copy(s)]
    /\ walk' = <<>>
    /\ entries' = [entries EXCEPT ![i] = VecMeant(s)]
    /\ UNCHANGED <<size, handle>>

vec_erase(i) ==
    /\ i <= size
    /\ slots' = [j \in DOMAIN slots |-> IF j = size THEN VecRaw
                                        ELSE IF j >= i /\ j < size THEN slots[j + 1] ELSE slots[j]]
    /\ size' = size - 1
    /\ walk' = <<>> /\ entries' = RemoveAt(entries, i)
    /\ UNCHANGED handle

(* Mutant: the last element also stays in its old place.                        *)
SwappedTwice(i) == [slots EXCEPT ![i] = slots[size]]

(* The last element moves into the place, unless the place was its own.         *)
Swapped(i) == [slots EXCEPT ![i] = slots[size], ![size] = VecRaw]

vec_swap_remove(i) ==
    /\ i <= size
    /\ slots' = Swapped(i)
    /\ size' = size - 1
    /\ walk' = <<>>
    /\ entries' = Front([entries EXCEPT ![i] = Last(entries)])
    /\ UNCHANGED handle

(* Any vector shrinks; only a raw one grows, with elements of zero bytes.       *)
vec_resize_using(n) ==
    /\ handle.limit # 0 /\ n <= handle.limit /\ n # size
    /\ n > size => ~handle.typed
    /\ slots' = IF n > size
                THEN [j \in DOMAIN vec_grow_to(n) |-> IF j > size /\ j <= n THEN 0 ELSE vec_grow_to(n)[j]]
                ELSE [j \in DOMAIN slots |-> IF j > n THEN VecRaw ELSE slots[j]]
    /\ size' = n
    /\ walk' = <<>>
    /\ entries' = IF n > size THEN entries \o [j \in 1 .. n - size |-> 0] ELSE SubSeq(entries, 1, n)
    /\ UNCHANGED handle

vec_clear ==
    /\ size > 0
    /\ slots' = [j \in DOMAIN slots |-> VecRaw]
    /\ size' = 0
    /\ walk' = <<>> /\ entries' = <<>>
    /\ UNCHANGED handle

vec_reserve(n) ==
    /\ handle.limit # 0 /\ vec_capacity < n /\ n <= handle.limit
    /\ slots' = vec_grow_to(n)
    /\ walk' = <<>>
    /\ UNCHANGED <<size, handle, entries>>

vec_range_next ==
    /\ Len(walk) < size
    /\ walk' = Append(walk, slots[Len(walk) + 1])
    /\ UNCHANGED <<slots, size, handle, entries>>

VecNext ==
    \/ \E s \in VecSources : vec_push_using(s)
    \/ \E s \in VecSources, i \in 1 .. Most : vec_insert(i, s) \/ vec_set(i, s)
    \/ \E i \in 1 .. Most : vec_erase(i) \/ vec_swap_remove(i)
    \/ vec_pop
    \/ \E n \in 0 .. Most : vec_resize_using(n) \/ vec_reserve(n)
    \/ vec_clear
    \/ vec_range_next

VecSpec == VecInit /\ [][VecNext]_vec_vars

----------------------------------------------------------------------------
(* The slots up to the size are the elements in order.                          *)
VecContentsAgree == SubSeq(slots, 1, size) = entries

(* The storage holds the elements, is no larger than the limit, and has none    *)
(* behind them.                                                                 *)
VecShapeSound ==
    /\ size <= vec_capacity /\ vec_capacity <= VecMaterialized
    /\ \A i \in size + 1 .. vec_capacity : slots[i] = VecRaw

(* A range that no mutation has ended has yielded the first elements in order.  *)
VecWalkExact == IsPrefix(walk, entries)

-----------------------------------------------------------------------------
(* The ring of cstl/src/deque.c: it wraps, is laid out anew from its head when  *)
(* it grows, and never grows past its limit.  An element is copied before the   *)
(* ring may be replaced, because it may be one of the ring's own.               *)

deque_vars == <<ring, size, limit, walk, entries>>

DequeUnlimited == 1000   \* SIZE_MAX
DequeRaw == 0            \* what a slot without an element reads as
Cells(n) == [i \in 0 .. n - 1 |-> DequeRaw]
deque_capacity == ring.top
DequeStart == [cells |-> Cells(0), top |-> 0, head |-> 0]

DequeInit ==
    /\ ring = DequeStart /\ size = 0
    /\ limit \in {0, Limit}
    /\ walk = <<>> /\ entries = <<>>

DequeMaterialized == IF limit = 0 THEN DequeUnlimited ELSE limit

Physical(r, i) == (r.head + i) % r.top
deque_at(r, i) == r.cells[Physical(r, i)]

(* Mutant: the capacity is doubled past the limit.                              *)
deque_next_capacityPast(cap, least, most) ==
    LET f[c \in 1 .. 2 * (least + MinCapacity)] == IF c >= least THEN c ELSE f[2 * c]
    IN f[IF cap = 0 THEN MinCapacity ELSE cap]

(* Doubled from the capacity, or from the least one, and clamped to the limit.  *)
deque_next_capacity(cap, least, most) ==
    LET first == IF cap = 0 THEN MinCapacity ELSE cap
        f[c \in 1 .. 2 * (least + first)] ==
            IF c >= least THEN c ELSE IF c > most - c THEN most ELSE f[2 * c]
    IN f[IF first > most THEN most ELSE first]

(* Mutant: the slots are moved as they lie, and the head stays where it was.    *)
RelaidPlain(n) ==
    [cells |-> [i \in 0 .. n - 1 |-> IF i < deque_capacity THEN ring.cells[i] ELSE DequeRaw],
     top |-> n, head |-> ring.head]

(* The elements from slot 0 of n new slots.                                     *)
Relaid(n) ==
    [cells |-> [i \in 0 .. n - 1 |-> IF i < size THEN deque_at(ring, i) ELSE DequeRaw],
     top |-> n, head |-> 0]

deque_grow_to(least) ==
    IF least <= deque_capacity THEN ring
    ELSE Relaid(deque_next_capacity(deque_capacity, least, DequeMaterialized))

(* An element from outside, or the deque's own element at a place.              *)
DequeSources == {[own |-> FALSE, v |-> x] : x \in Values} \cup {[own |-> TRUE, v |-> i] : i \in 0 .. size - 1}

(* Mutant: the element is copied from where it was after the ring is replaced.  *)
deque_prepare_copyLate(s) ==
    IF ~s.own THEN s.v ELSE deque_grow_to(size + 1).cells[Physical(ring, s.v)]

deque_prepare_copy(s) == IF s.own THEN deque_at(ring, s.v) ELSE s.v
DequeMeant(s) == IF s.own THEN entries[s.v + 1] ELSE s.v

----------------------------------------------------------------------------
Pushable == size < DequeMaterialized /\ size < Most

PushedBack(r, v) == [r EXCEPT !.cells[Physical(r, size)] = v]

deque_push_back(s) ==
    /\ Pushable
    /\ ring' = PushedBack(deque_grow_to(size + 1), deque_prepare_copy(s))
    /\ size' = size + 1
    /\ limit' = DequeMaterialized
    /\ walk' = <<>>
    /\ entries' = Append(entries, DequeMeant(s))

PushedFront(r, v) ==
    LET h == IF r.head = 0 THEN r.top - 1 ELSE r.head - 1
    IN [r EXCEPT !.cells[h] = v, !.head = h]

deque_push_front(s) ==
    /\ Pushable
    /\ ring' = PushedFront(deque_grow_to(size + 1), deque_prepare_copy(s))
    /\ size' = size + 1
    /\ limit' = DequeMaterialized
    /\ walk' = <<>>
    /\ entries' = <<DequeMeant(s)>> \o entries

(* An empty ring starts at its first slot again.                                *)
DequePopped(i, head) == [ring EXCEPT !.cells[Physical(ring, i)] = DequeRaw, !.head = IF size = 1 THEN 0 ELSE head]

deque_pop_back ==
    /\ size > 0
    /\ ring' = DequePopped(size - 1, ring.head)
    /\ size' = size - 1
    /\ walk' = <<>> /\ entries' = Front(entries)
    /\ UNCHANGED limit

(* Mutant: the head runs past the last slot.                                    *)
AfterHeadOver == ring.head + 1

AfterHead == (ring.head + 1) % ring.top

deque_pop_front ==
    /\ size > 0
    /\ ring' = DequePopped(0, AfterHead)
    /\ size' = size - 1
    /\ walk' = <<>> /\ entries' = Tail(entries)
    /\ UNCHANGED limit

(* Mutant: an element is replaced without the generation moving.                *)
deque_setQuietly(i, s) ==
    /\ i < size
    /\ ring' = [ring EXCEPT !.cells[Physical(ring, i)] = deque_prepare_copy(s)]
    /\ entries' = [entries EXCEPT ![i + 1] = DequeMeant(s)]
    /\ UNCHANGED <<size, limit, walk>>

deque_set(i, s) ==
    /\ i < size
    /\ ring' = [ring EXCEPT !.cells[Physical(ring, i)] = deque_prepare_copy(s)]
    /\ walk' = <<>>
    /\ entries' = [entries EXCEPT ![i + 1] = DequeMeant(s)]
    /\ UNCHANGED <<size, limit>>

deque_clear ==
    /\ size > 0
    /\ ring' = [ring EXCEPT !.cells = Cells(deque_capacity), !.head = 0]
    /\ size' = 0
    /\ walk' = <<>> /\ entries' = <<>>
    /\ UNCHANGED limit

(* A semantically zero handle is refused.                                       *)
deque_reserve(n) ==
    /\ limit # 0 /\ deque_capacity < n /\ n <= limit
    /\ ring' = deque_grow_to(n)
    /\ walk' = <<>>
    /\ UNCHANGED <<size, limit, entries>>

deque_range_next ==
    /\ Len(walk) < size
    /\ walk' = Append(walk, deque_at(ring, Len(walk)))
    /\ UNCHANGED <<ring, size, limit, entries>>

DequeNext ==
    \/ \E s \in DequeSources : deque_push_back(s) \/ deque_push_front(s)
    \/ deque_pop_back \/ deque_pop_front
    \/ \E s \in DequeSources, i \in 0 .. size - 1 : deque_set(i, s)
    \/ deque_clear
    \/ \E n \in 1 .. Most : deque_reserve(n)
    \/ deque_range_next

DequeSpec == DequeInit /\ [][DequeNext]_deque_vars

----------------------------------------------------------------------------
(* Counted from the head round the ring, the slots hold the elements in order.  *)
DequeContentsAgree ==
    /\ size = Len(entries)
    /\ \A i \in 1 .. size : deque_at(ring, i - 1) = entries[i]

(* The ring is no larger than the limit, the head is one of its slots, and no   *)
(* element lies outside of the stretch from the head.                           *)
DequeShapeSound ==
    /\ size <= deque_capacity /\ deque_capacity <= DequeMaterialized
    /\ ring.head < deque_capacity \/ deque_capacity = 0
    /\ \A i \in size .. deque_capacity - 1 : deque_at(ring, i) = DequeRaw

(* A range that no mutation has ended has yielded the first elements in order.  *)
DequeWalkExact == IsPrefix(walk, entries)

-----------------------------------------------------------------------------
(* The doubly linked list of cstl/src/list.c with the iterator a caller keeps   *)
(* on one of its nodes and a cmeta range over it.  A node is built with its     *)
(* copy of the element before it is linked; an iterator stays valid until its   *)
(* own node leaves the list, and a caller drops it then.                        *)

list_vars == <<list, limit, iter, walk, entries>>

ListUnlimited == 1000  \* SIZE_MAX
Blank == [value |-> 0, previous |-> 0, next |-> 0]
Empty == [head |-> 0, tail |-> 0, size |-> 0, n |-> [x \in 1 .. Most |-> Blank]]
ListStart == [open |-> FALSE, at |-> 0, got |-> <<>>]
Live == {x \in 1 .. Most : list.n[x] # Blank}
(* Addresses mean nothing, so a new node has the least free name.               *)
Free == Min(1 .. Most \ Live)

ListInit ==
    /\ list = Empty
    /\ limit \in {0, Limit}
    /\ iter = 0
    /\ walk = ListStart
    /\ entries = [all |-> <<>>, at |-> 0]

ListMaterialized == IF limit = 0 THEN ListUnlimited ELSE limit

----------------------------------------------------------------------------
(* Mutant: a node that goes in last does not become the tail.                   *)
LinkedTailless(p, q, v) ==
    LET x == Free
        a == [list EXCEPT !.n[x] = [value |-> v, previous |-> p, next |-> q], !.size = @ + 1]
        b == IF p = 0 THEN [a EXCEPT !.head = x] ELSE [a EXCEPT !.n[p].next = x]
    IN IF q = 0 THEN IF a.tail = 0 THEN [b EXCEPT !.tail = x] ELSE b
       ELSE [b EXCEPT !.n[q].previous = x]

(* A new node between p and q, either of which may be missing.                  *)
Linked(p, q, v) ==
    LET x == Free
        a == [list EXCEPT !.n[x] = [value |-> v, previous |-> p, next |-> q], !.size = @ + 1]
        b == IF p = 0 THEN [a EXCEPT !.head = x] ELSE [a EXCEPT !.n[p].next = x]
    IN IF q = 0 THEN [b EXCEPT !.tail = x] ELSE [b EXCEPT !.n[q].previous = x]

(* i is the place the element takes; the caller may ask for an iterator on it.  *)
list_insert_between(p, q, v, i) ==
    /\ list.size < ListMaterialized /\ list.size < Most
    /\ list' = Linked(p, q, v)
    /\ walk' = ListStart
    /\ \E taken \in BOOLEAN :
        /\ iter' = IF taken THEN Free ELSE iter
        /\ entries' = [all |-> InsertAt(entries.all, i, v),
                       at |-> IF taken THEN i
                              ELSE entries.at + (IF i <= entries.at THEN 1 ELSE 0)]

list_push_front(v) == list_insert_between(0, list.head, v, 1) /\ limit' = ListMaterialized
list_push_back(v) ==
    list_insert_between(list.tail, 0, v, Len(entries.all) + 1) /\ limit' = ListMaterialized

list_insert_before(v) ==
    /\ iter # 0
    /\ list_insert_between(list.n[iter].previous, iter, v, entries.at)
    /\ UNCHANGED limit

list_insert_after(v) ==
    /\ iter # 0
    /\ list_insert_between(iter, list.n[iter].next, v, entries.at + 1)
    /\ UNCHANGED limit

Unlinked(x) ==
    LET p == list.n[x].previous
        q == list.n[x].next
        a == IF p = 0 THEN [list EXCEPT !.head = q] ELSE [list EXCEPT !.n[p].next = q]
        b == IF q = 0 THEN [a EXCEPT !.tail = p] ELSE [a EXCEPT !.n[q].previous = p]
    IN [b EXCEPT !.n[x] = Blank, !.size = @ - 1]

(* Mutant: a node is removed without the generation moving.                     *)
EndedQuietly(w) == w

(* What a mutation leaves of an open range: cmeta_range_next refuses it.        *)
Ended(w) == ListStart

(* x is the i-th node; an iterator on it is dropped.                            *)
list_remove_node(x, i) ==
    /\ list' = Unlinked(x)
    /\ walk' = Ended(walk)
    /\ iter' = IF iter = x THEN 0 ELSE iter
    /\ entries' = [all |-> RemoveAt(entries.all, i),
                   at |-> IF iter = x THEN 0
                          ELSE entries.at - (IF i < entries.at THEN 1 ELSE 0)]
    /\ UNCHANGED limit

list_erase == iter # 0 /\ list_remove_node(iter, entries.at)
list_pop_front == list.head # 0 /\ list_remove_node(list.head, 1)
list_pop_back == list.tail # 0 /\ list_remove_node(list.tail, Len(entries.all))

list_clear ==
    /\ list.head # 0
    /\ list' = Empty /\ walk' = ListStart /\ iter' = 0
    /\ entries' = [all |-> <<>>, at |-> 0]
    /\ UNCHANGED limit

list_begin ==
    /\ iter' = list.head
    /\ entries' = [entries EXCEPT !.at = IF entries.all = <<>> THEN 0 ELSE 1]
    /\ UNCHANGED <<list, limit, walk>>

list_iter_next ==
    /\ iter # 0
    /\ iter' = list.n[iter].next
    /\ entries' = [entries EXCEPT !.at = IF @ = Len(entries.all) THEN 0 ELSE @ + 1]
    /\ UNCHANGED <<list, limit, walk>>

(* From the end back to the last node; the first node has none before it.       *)
list_iter_prev ==
    /\ limit # 0
    /\ IF iter = 0 THEN list.tail # 0 ELSE list.n[iter].previous # 0
    /\ iter' = IF iter = 0 THEN list.tail ELSE list.n[iter].previous
    /\ entries' = [entries EXCEPT !.at = IF @ = 0 THEN Len(entries.all) ELSE @ - 1]
    /\ UNCHANGED <<list, limit, walk>>

Cursor == IF walk.open THEN walk.at ELSE list.head

list_range_next ==
    /\ Cursor # 0
    /\ walk' = [open |-> TRUE, at |-> list.n[Cursor].next, got |-> Append(walk.got, list.n[Cursor].value)]
    /\ UNCHANGED <<list, limit, iter, entries>>

ListNext ==
    \/ \E v \in Values : list_push_front(v) \/ list_push_back(v)
    \/ \E v \in Values : list_insert_before(v) \/ list_insert_after(v)
    \/ list_erase \/ list_pop_front \/ list_pop_back
    \/ list_clear
    \/ list_begin \/ list_iter_next \/ list_iter_prev
    \/ list_range_next

ListSpec == ListInit /\ [][ListNext]_list_vars

----------------------------------------------------------------------------
(* The first nodes along a link; one more than there are shows a cycle.         *)
Along(x, link) ==
    LET f[i \in 1 .. Most + 1] == IF i = 1 THEN x ELSE IF f[i - 1] = 0 THEN 0 ELSE list.n[f[i - 1]][link]
    IN SelectSeq([i \in 1 .. Most + 1 |-> f[i]], LAMBDA y : y # 0)
ValuesOf(xs) == [i \in DOMAIN xs |-> list.n[xs[i]].value]

(* Read in either direction the list holds the elements in order, and the       *)
(* caller's iterator is still on the element it was put on.                     *)
ListContentsAgree ==
    /\ ValuesOf(Along(list.head, "next")) = entries.all
    /\ iter = IF entries.at = 0 THEN 0 ELSE Along(list.head, "next")[entries.at]

(* Both links run through the same nodes, and no node is left outside.          *)
ListShapeSound ==
    /\ Along(list.tail, "previous") = Reverse(Along(list.head, "next"))
    /\ list.size = Cardinality(Live)
    /\ ToSet(Along(list.head, "next")) = Live

(* A range that no mutation has ended has yielded the first elements in order.  *)
ListWalkExact == IsPrefix(walk.got, entries.all)

-----------------------------------------------------------------------------
(* The binary heap of cstl/src/heap.c.  The element and the scratch slot of the *)
(* swaps are allocated before anything moves.  An element is a priority that    *)
(* compare() looks at, and a tag that it does not.                              *)

heap_vars == <<data, capacity, limit, walk, entries>>

HeapUnlimited == 1000     \* SIZE_MAX
Elements == Priorities \X Tags
Less(x, y) == x[1] < y[1]

HeapInit ==
    /\ data = <<>> /\ capacity = 0
    /\ limit \in {0, Limit}
    /\ walk = <<>>
    /\ entries = EmptyBag

HeapMaterialized == IF limit = 0 THEN HeapUnlimited ELSE limit

heap_next_capacity(least) ==
    LET first == IF capacity = 0 THEN MinCapacity ELSE capacity
        f[c \in 1 .. 2 * (least + first)] ==
            IF c >= least THEN c ELSE IF c > HeapMaterialized - c THEN HeapMaterialized ELSE f[2 * c]
    IN f[IF first > HeapMaterialized THEN HeapMaterialized ELSE first]

heap_grow_to(least) == IF least <= capacity THEN capacity ELSE heap_next_capacity(least)

heap_swap(d, i, j) == [d EXCEPT ![i] = d[j], ![j] = d[i]]

(* Mutant: an element is compared with the wrong parent.                        *)
ParentOff(i) == (i + 1) \div 2

(* Slot i of the code is place i + 1 of the sequence.                           *)
ParentOf(i) == i \div 2

RECURSIVE heap_sift_up(_, _)
heap_sift_up(d, i) ==
    IF i = 1 THEN d
    ELSE IF ~Less(d[i], d[ParentOf(i)]) THEN d
    ELSE heap_sift_up(heap_swap(d, i, ParentOf(i)), ParentOf(i))

(* Mutant: the right child is not looked at.                                    *)
BestLeft(d, i) == IF 2 * i > Len(d) THEN i ELSE IF Less(d[2 * i], d[i]) THEN 2 * i ELSE i

(* The least of an element and its children.                                    *)
Best(d, i) ==
    LET l == 2 * i
        b == IF l > Len(d) THEN i ELSE IF Less(d[l], d[i]) THEN l ELSE i
    IN IF l + 1 > Len(d) THEN b ELSE IF Less(d[l + 1], d[b]) THEN l + 1 ELSE b

RECURSIVE heap_sift_down(_, _)
heap_sift_down(d, i) ==
    IF Best(d, i) = i THEN d ELSE heap_sift_down(heap_swap(d, i, Best(d, i)), Best(d, i))

----------------------------------------------------------------------------
(* The element may be one of the heap's own, so it is copied first.             *)
heap_push(x) ==
    /\ Len(data) < HeapMaterialized /\ Len(data) < Most
    /\ data' = heap_sift_up(Append(data, x), Len(data) + 1)
    /\ capacity' = heap_grow_to(Len(data) + 1)
    /\ limit' = HeapMaterialized
    /\ walk' = <<>>
    /\ entries' = entries (+) SetToBag({x})

HeapPopped(d) == IF Len(d) = 1 THEN <<>> ELSE heap_sift_down(<<Last(d)>> \o Tail(Front(d)), 1)
heap_peek == data[1]

heap_pop ==
    /\ data # <<>>
    /\ data' = HeapPopped(data)
    /\ walk' = <<>>
    /\ entries' = entries (-) SetToBag({heap_peek})
    /\ UNCHANGED <<capacity, limit>>

(* Mutant: clear() does not move the generation.                                *)
heap_clearQuietly ==
    /\ data # <<>>
    /\ data' = <<>>
    /\ entries' = EmptyBag
    /\ UNCHANGED <<capacity, limit, walk>>

heap_clear ==
    /\ data # <<>>
    /\ data' = <<>>
    /\ walk' = <<>>
    /\ entries' = EmptyBag
    /\ UNCHANGED <<capacity, limit>>

heap_reserve(n) ==
    /\ limit # 0 /\ capacity < n /\ n <= limit
    /\ capacity' = heap_grow_to(n)
    /\ walk' = <<>>
    /\ UNCHANGED <<data, limit, entries>>

heap_range_next ==
    /\ Len(walk) < Len(data)
    /\ walk' = Append(walk, data[Len(walk) + 1])
    /\ UNCHANGED <<data, capacity, limit, entries>>

HeapNext ==
    \/ \E x \in Elements : heap_push(x)
    \/ heap_pop
    \/ heap_clear
    \/ \E n \in 1 .. Most : heap_reserve(n)
    \/ heap_range_next

HeapSpec == HeapInit /\ [][HeapNext]_heap_vars

----------------------------------------------------------------------------
BagOf(d) == FoldLeft(LAMBDA b, x : b (+) SetToBag({x}), EmptyBag, d)

(* The slots hold the elements that were pushed and not popped, and what pop()  *)
(* gives next is a least one of them.                                           *)
HeapContentsAgree ==
    /\ BagOf(data) = entries
    /\ \A x \in DOMAIN entries : ~Less(x, heap_peek)

(* No element is less than its parent, and the storage holds them all without   *)
(* ever being larger than the limit.                                            *)
HeapShapeSound ==
    /\ \A i \in 2 .. Len(data) : ~Less(data[i], data[i \div 2])
    /\ Len(data) <= capacity /\ capacity <= HeapMaterialized

(* A range that no mutation has ended has yielded no element more often than it *)
(* is there, and when it is done it has yielded them all.                       *)
HeapWalkExact ==
    /\ BagOf(walk) \sqsubseteq entries
    /\ Len(walk) >= Len(data) => BagOf(walk) = entries

-----------------------------------------------------------------------------
(* stable_sort of cstl/src/sort.c: every element is copied into a scratch array *)
(* first, and then merged bottom-up between the scratch array and the caller's, *)
(* each move leaving the slot it read destroyed.  An element is the key that    *)
(* compare() looks at and the place it had.                                     *)

sort_vars == <<base, scratch, pass, input, status>>

SortRaw == <<0, 0>>        \* a slot without a constructed element
Arrays == UNION {[1 .. n -> Keys] : n \in Lengths}
Given(a) == [i \in DOMAIN a |-> <<a[i], i>>]
compare(x, y) == x[1] - y[1]

SortInit ==
    /\ \E a \in Arrays : input = Given(a) /\ base = Given(a)
    /\ scratch = <<>> /\ pass = [width |-> 0, source |-> "base"]
    /\ status = "idle"

count == Len(input)
None(n) == [i \in 1 .. n |-> SortRaw]

(* Nothing to do for one element or none.                                       *)
Trivial ==
    /\ status = "idle" /\ count < 2
    /\ status' = "ok"
    /\ UNCHANGED <<base, scratch, pass, input>>

(* The copies that were made are destroyed, and the caller's array is untouched. *)
CopyFails ==
    /\ status = "idle" /\ count >= 2 /\ Fails
    /\ status' = "failed"
    /\ UNCHANGED <<base, scratch, pass, input>>

Copied ==
    /\ status = "idle" /\ count >= 2
    /\ scratch' = base /\ base' = None(count)
    /\ pass' = [width |-> 1, source |-> "scratch"]
    /\ status' = "sorting"
    /\ UNCHANGED input

(* Mutant: of two equal elements the one on the right goes first.               *)
FirstWinsStrict(x, y) == compare(x, y) < 0

FirstWins(x, y) == compare(x, y) <= 0

(* The two runs from left and from middle, merged.                              *)
RECURSIVE sort_merge(_, _)
sort_merge(a, b) ==
    IF a = <<>> THEN b
    ELSE IF b = <<>> THEN a
    ELSE IF FirstWins(a[1], b[1]) THEN <<a[1]>> \o sort_merge(Tail(a), b)
    ELSE <<b[1]>> \o sort_merge(a, Tail(b))

Least(a, b) == IF a < b THEN a ELSE b

RECURSIVE Merged(_, _, _)
Merged(s, w, left) ==
    IF left >= count THEN <<>>
    ELSE LET middle == Least(left + w, count)
             right == Least(middle + w, count)
         IN sort_merge(SubSeq(s, left + 1, middle), SubSeq(s, middle + 1, right)) \o Merged(s, w, left + 2 * w)

(* Mutant: the last width that is tried is half of the array.                   *)
NextWidthHalf(w) == IF 2 * w >= count \div 2 THEN count ELSE 2 * w

NextWidth(w) == IF w > count \div 2 THEN count ELSE 2 * w

(* A pass moves every element to the other array.                               *)
Pass ==
    /\ status = "sorting" /\ pass.width < count
    /\ IF pass.source = "base"
       THEN scratch' = Merged(base, pass.width, 0) /\ base' = None(count)
       ELSE base' = Merged(scratch, pass.width, 0) /\ scratch' = None(count)
    /\ pass' = [width |-> NextWidth(pass.width), source |-> IF pass.source = "base" THEN "scratch" ELSE "base"]
    /\ UNCHANGED <<input, status>>

(* Mutant: the last pass is taken to have ended in the caller's array.          *)
ResultPlain == base

(* What the last pass left in the scratch array is moved back.                  *)
Result == IF pass.source = "base" THEN base ELSE scratch

Finish ==
    /\ status = "sorting" /\ pass.width >= count
    /\ base' = Result /\ scratch' = <<>>
    /\ status' = "ok"
    /\ UNCHANGED <<pass, input>>

SortNext == Trivial \/ CopyFails \/ Copied \/ Pass \/ Finish
SortSpec == SortInit /\ [][SortNext]_sort_vars

----------------------------------------------------------------------------
Before(x, y) == x[1] < y[1] \/ (x[1] = y[1] /\ x[2] < y[2])

(* The sorted array is the given one, in order, equal elements in the order     *)
(* they were given in; a sort that fails leaves the array as it was.            *)
SortContentsAgree ==
    /\ status = "ok" => base = SortSeq(input, Before)
    /\ status = "failed" => base = input

(* At every moment each element is constructed in one slot of one array.        *)
SortShapeSound ==
    status = "sorting" =>
        LET full == IF pass.source = "base" THEN base ELSE scratch
            other == IF pass.source = "base" THEN scratch ELSE base
        IN /\ other = None(count)
           /\ ToSet(full) = ToSet(input) /\ Len(full) = count
=============================================================================
