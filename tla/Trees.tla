-------------------------------- MODULE Trees --------------------------------
(* The B-tree, the B+ tree and the red-black tree of cstl.                    *)
EXTENDS Integers, Sequences, FiniteSets, SequencesExt

CONSTANTS
    Keys,    \* a set of positive integers
    Twice,   \* the keys that are put with either of two values
    T,       \* min_degree, at least 2
    Limit,   \* entry_limit of a handle that is initialised with one
    Arrays,  \* the sequences of entries that from_arrays() is called with
    Kind,    \* "map", "set" or "multimap"
    Copies   \* how many entries may share a key in a multimap

VARIABLES
    root,     \* the tree, None when it is empty
    links,    \* the entry list, first to last
    limit,    \* entry_limit; 0 in a typed handle nothing was put in yet
    walk,     \* what a range opened at the current generation has yielded
    entries,  \* the reference: what each key was last put with, 0 if absent
    nodes,    \* the nodes, by name; the root is node 1
    tree      \* the nodes by name, and the tree's root, head and tail

-----------------------------------------------------------------------------
(* The ordered map of cstl/src/btree.c: a B-tree of minimum degree T whose      *)
(* entries are also threaded on a list, and the ranges that walk that list.     *)
(* A node is a record of its entries and its children (none in a leaf); the     *)
(* pool of nodes a put may need is allocated before it changes anything, so a   *)
(* put happens as a whole or not at all.                                        *)

btree_vars == <<root, links, limit, walk, entries>>

None == [es |-> <<>>, kids |-> <<>>]
Unlimited == 99
Entry(k, v) == [key |-> k, value |-> v]
Values(k) == IF k \in Twice THEN {1, 2} ELSE {1}
BTreeLeaf(n) == n.kids = <<>>
BTreeFull(n) == Len(n.es) = 2 * T - 1
Spare(n) == Len(n.es) >= T

btree_lower_bound(n, k) == 1 + Len(SelectSeq(n.es, LAMBDA e : e.key < k))

RECURSIVE btree_find_value(_, _)
btree_find_value(n, k) ==
    LET i == btree_lower_bound(n, k) IN
    IF (IF i <= Len(n.es) THEN n.es[i].key = k ELSE FALSE) THEN n.es[i].value
    ELSE IF BTreeLeaf(n) THEN 0 ELSE btree_find_value(n.kids[i], k)

(* Child i of p is full: its median goes up and its upper half becomes child i+1. *)
btree_split_child(p, i) ==
    LET left == p.kids[i]
        Half(a, b, c, d) == [es |-> SubSeq(left.es, a, b),
                             kids |-> IF BTreeLeaf(left) THEN <<>> ELSE SubSeq(left.kids, c, d)]
    IN [es |-> InsertAt(p.es, i, left.es[T]),
        kids |-> InsertAt([p.kids EXCEPT ![i] = Half(1, T - 1, 1, T)], i + 1,
                          Half(T + 1, 2 * T - 1, T + 1, 2 * T))]

(* Mutant: the link of the separator is not followed when the key goes left of it. *)
AfterSplitStale(e, p, i, next) == next

(* The next entry of e once child i of p was split, or was not.                 *)
AfterSplit(e, p, i, next) == IF e.key > p.es[i].key THEN next ELSE p.es[i]

(* The descent of btree_insert_prepared: full children are split on the way and *)
(* the entry that follows e is the last separator passed on its right.          *)
RECURSIVE Insert(_, _, _)
Insert(n, e, next) ==
    LET i == btree_lower_bound(n, e.key)
        after == IF i <= Len(n.es) THEN n.es[i] ELSE next
    IN IF BTreeLeaf(n) THEN [node |-> [n EXCEPT !.es = InsertAt(n.es, i, e)], next |-> after]
       ELSE LET split == BTreeFull(n.kids[i])
                p == IF split THEN btree_split_child(n, i) ELSE n
                j == IF split /\ (IF split THEN e.key > p.es[i].key ELSE FALSE) THEN i + 1 ELSE i
                r == Insert(p.kids[j], e, IF split THEN AfterSplit(e, p, i, after) ELSE after)
            IN [node |-> [p EXCEPT !.kids[j] = r.node], next |-> r.next]

btree_insert_prepared(r, e) ==
    IF r = None THEN [node |-> [None EXCEPT !.es = <<e>>], next |-> Entry(0, 0)]
    ELSE Insert(IF BTreeFull(r) THEN btree_split_child([None EXCEPT !.kids = <<r>>], 1) ELSE r,
                e, Entry(0, 0))

RECURSIVE BTreeDepth(_), Count(_)
BTreeDepth(n) == IF n = None THEN 0 ELSE IF BTreeLeaf(n) THEN 1 ELSE 1 + BTreeDepth(Head(n.kids))
Count(n) == IF n = None THEN 0 ELSE 1 + FoldLeft(LAMBDA c, m : c + Count(m), 0, n.kids)

(* Mutant: a node for every level, and none for a new root.                     *)
btree_pool_prepareLevels == BTreeDepth(root)

(* The nodes that are allocated before an entry is put in.                      *)
btree_pool_prepare == BTreeDepth(root) + 2

btree_link_insert_before(ls, next, e) ==
    IF next.key = 0 THEN Append(ls, e)
    ELSE InsertAt(ls, CHOOSE i \in DOMAIN ls : ls[i].key = next.key, e)

btree_borrow_previous(p, i) ==
    LET sibling == p.kids[i - 1] IN
    [es |-> [p.es EXCEPT ![i - 1] = Last(sibling.es)],
     kids |-> [p.kids EXCEPT
        ![i - 1] = [es |-> Front(@.es), kids |-> IF BTreeLeaf(@) THEN <<>> ELSE Front(@.kids)],
        ![i] = [es |-> <<p.es[i - 1]>> \o @.es,
                kids |-> IF BTreeLeaf(@) THEN <<>> ELSE <<Last(sibling.kids)>> \o @.kids]]]

btree_borrow_next(p, i) ==
    LET sibling == p.kids[i + 1] IN
    [es |-> [p.es EXCEPT ![i] = Head(sibling.es)],
     kids |-> [p.kids EXCEPT
        ![i] = [es |-> Append(@.es, p.es[i]),
                kids |-> IF BTreeLeaf(@) THEN <<>> ELSE Append(@.kids, Head(sibling.kids))],
        ![i + 1] = [es |-> Tail(@.es), kids |-> IF BTreeLeaf(@) THEN <<>> ELSE Tail(@.kids)]]]

btree_merge_children(p, i) ==
    LET left == p.kids[i] right == p.kids[i + 1] IN
    [es |-> RemoveAt(p.es, i),
     kids |-> RemoveAt([p.kids EXCEPT
        ![i] = [es |-> left.es \o <<p.es[i]>> \o right.es, kids |-> left.kids \o right.kids]], i + 1)]

RECURSIVE Lowest(_), Highest(_)
Lowest(n) == IF BTreeLeaf(n) THEN Head(n.es) ELSE Lowest(Head(n.kids))
Highest(n) == IF BTreeLeaf(n) THEN Last(n.es) ELSE Highest(Last(n.kids))

(* Mutant: a child at the minimum is entered as it is.                          *)
ThinDeep(n) == FALSE

(* A child that must be filled before the removal goes on below it.             *)
Thin(n) == Len(n.es) = T - 1

RECURSIVE btree_delete_structural(_, _)
btree_delete_structural(n, k) ==
    LET i == btree_lower_bound(n, k)
        here == IF i <= Len(n.es) THEN n.es[i].key = k ELSE FALSE
        Below(p, j) == [p EXCEPT !.kids[j] = btree_delete_structural(@, k)]
        BTreeReplace(j, e) == [es |-> [n.es EXCEPT ![i] = e],
                          kids |-> [n.kids EXCEPT ![j] = btree_delete_structural(@, e.key)]]
    IN CASE here /\ BTreeLeaf(n) -> [n EXCEPT !.es = RemoveAt(@, i)]
         [] here /\ ~BTreeLeaf(n) ->
              IF Spare(n.kids[i]) THEN BTreeReplace(i, Highest(n.kids[i]))
              ELSE IF Spare(n.kids[i + 1]) THEN BTreeReplace(i + 1, Lowest(n.kids[i + 1]))
              ELSE Below(btree_merge_children(n, i), i)
         [] ~here ->
              IF ~Thin(n.kids[i]) THEN Below(n, i)
              ELSE IF (IF i > 1 THEN Spare(n.kids[i - 1]) ELSE FALSE)
                   THEN btree_delete_structural(btree_borrow_previous(n, i), k)
              ELSE IF (IF i <= Len(n.es) THEN Spare(n.kids[i + 1]) ELSE FALSE)
                   THEN btree_delete_structural(btree_borrow_next(n, i), k)
              ELSE IF i <= Len(n.es) THEN Below(btree_merge_children(n, i), i)
              ELSE Below(btree_merge_children(n, i - 1), i - 1)

----------------------------------------------------------------------------
Materialized == IF limit = 0 THEN Unlimited ELSE limit

BTreeInit ==
    /\ root = None
    /\ links = <<>>
    /\ limit \in {0, Limit}
    /\ walk = <<>>
    /\ entries = [k \in Keys |-> 0]

RECURSIVE Replaced(_, _)
Replaced(n, e) ==
    LET i == btree_lower_bound(n, e.key) IN
    IF (IF i <= Len(n.es) THEN n.es[i].key = e.key ELSE FALSE) THEN [n EXCEPT !.es[i] = e]
    ELSE [n EXCEPT !.kids[i] = Replaced(@, e)]

(* Mutant: the new value is stored in the node and not in the entry's link.     *)
ReplaceNodeOnly(t, e) == [t EXCEPT !.root = Replaced(@, e)]

(* A key that is present keeps its place: the node and the link get the value.  *)
BTreeReplace(t, e) ==
    [root |-> Replaced(t.root, e),
     links |-> [i \in DOMAIN t.links |-> IF t.links[i].key = e.key THEN e ELSE t.links[i]]]

BTreeAdd(t, e) ==
    LET r == btree_insert_prepared(t.root, e)
    IN [root |-> r.node, links |-> btree_link_insert_before(t.links, r.next, e)]

btree_put_materialized(t, e) ==
    IF btree_find_value(t.root, e.key) # 0 THEN BTreeReplace(t, e) ELSE BTreeAdd(t, e)

(* Every successful change moves the generation, which ends the open ranges.    *)
btree_put(k, v) ==
    \E t \in {btree_put_materialized([root |-> root, links |-> links], Entry(k, v))} :
    /\ Len(t.links) <= Materialized
    /\ root' = t.root /\ links' = t.links
    /\ limit' = Materialized
    /\ walk' = <<>>
    /\ entries' = [entries EXCEPT ![k] = v]

(* Mutant: a key that comes twice is not looked for in the temporary.           *)
btree_from_arraysAdded(array) ==
    \E t \in {FoldLeft(BTreeAdd, [root |-> None, links |-> <<>>], array)} :
    /\ Len(t.links) <= Limit
    /\ root' = t.root /\ links' = t.links
    /\ limit' = Limit
    /\ walk' = <<>>
    /\ entries' = [k \in Keys |-> FoldLeft(LAMBDA v, e : IF e.key = k THEN e.value ELSE v, 0, array)]

(* The next of a sequence of puts, on a tree that is evaluated once.            *)
BTreeThen(t, e) == CHOOSE u \in {btree_put_materialized(v, e) : v \in {t}} : TRUE

(* The pairs are put into a temporary, which replaces what the handle held.     *)
btree_from_arrays(array) ==
    \E t \in {FoldLeft(BTreeThen, [root |-> None, links |-> <<>>], array)} :
    /\ Len(t.links) <= Limit
    /\ root' = t.root /\ links' = t.links
    /\ limit' = Limit
    /\ walk' = <<>>
    /\ entries' = [k \in Keys |-> FoldLeft(LAMBDA v, e : IF e.key = k THEN e.value ELSE v, 0, array)]

(* Mutant: an emptied root keeps its only child below it.                       *)
CollapsedKept(n) == n

(* A root without entries gives way to its only child, or to nothing.           *)
Collapsed(n) == IF n.es = <<>> /\ ~BTreeLeaf(n) THEN n.kids[1] ELSE n

btree_remove(k) ==
    /\ btree_find_value(root, k) # 0
    /\ root' = Collapsed(btree_delete_structural(root, k))
    /\ links' = SelectSeq(links, LAMBDA e : e.key # k)
    /\ walk' = <<>>
    /\ entries' = [entries EXCEPT ![k] = 0]
    /\ UNCHANGED limit

btree_clear ==
    /\ root # None
    /\ root' = None /\ links' = <<>> /\ walk' = <<>>
    /\ entries' = [k \in Keys |-> 0]
    /\ UNCHANGED limit

(* reserve only checks its argument, but it materialises the handle.            *)
btree_reserve ==
    /\ limit = 0
    /\ limit' = Unlimited
    /\ UNCHANGED <<root, links, walk, entries>>

(* A range yields the entry its cursor names and moves the cursor to the next.  *)
btree_range_next ==
    /\ Len(walk) < Len(links)
    /\ walk' = Append(walk, links[Len(walk) + 1])
    /\ UNCHANGED <<root, links, limit, entries>>

BTreeNext ==
    \/ \E k \in Keys : \E v \in Values(k) : btree_put(k, v)
    \/ \E k \in Keys : btree_remove(k)
    \/ \E array \in Arrays : btree_from_arrays(array)
    \/ btree_clear
    \/ btree_reserve
    \/ btree_range_next

BTreeSpec == BTreeInit /\ [][BTreeNext]_btree_vars

----------------------------------------------------------------------------
RECURSIVE InOrder(_)
InOrder(n) ==
    IF BTreeLeaf(n) THEN n.es
    ELSE FlattenSeq([i \in 1 .. Len(n.kids) |->
            InOrder(n.kids[i]) \o (IF i <= Len(n.es) THEN <<n.es[i]>> ELSE <<>>)])

(* The entries of the reference in key order.                                   *)
BTreeReference ==
    LET present == {k \in Keys : entries[k] # 0}
    IN [i \in 1 .. Cardinality(present) |->
          LET k == CHOOSE x \in present : Cardinality({y \in present : y < x}) = i - 1
          IN Entry(k, entries[k])]

(* get finds what was put last and nothing else, and the entry list is the      *)
(* map in key order, however splits, borrows and merges moved the entries.      *)
BTreeContentsAgree ==
    /\ \A k \in Keys : btree_find_value(root, k) = entries[k]
    /\ links = BTreeReference
    /\ InOrder(root) = BTreeReference
    /\ Len(links) <= Materialized

RECURSIVE Wellformed(_, _)
Wellformed(n, minimum) ==
    /\ Len(n.es) \in minimum .. (2 * T - 1)
    /\ ~BTreeLeaf(n) => /\ Len(n.kids) = Len(n.es) + 1
                   /\ \A i \in DOMAIN n.kids : BTreeDepth(n.kids[i]) = BTreeDepth(n.kids[1])
                                               /\ Wellformed(n.kids[i], T - 1)

(* The tree stays a B-tree: every node but the root at least half full and      *)
(* never over-full, all leaves at one depth; and no insertion takes more nodes  *)
(* than its pool has, which btree_pool_take does not check.                     *)
BTreeShapeSound ==
    /\ root = None \/ Wellformed(root, 1)
    /\ \A k \in Keys : entries[k] = 0 =>
        Count(btree_insert_prepared(root, Entry(k, 1)).node) - Count(root) <= btree_pool_prepare

(* A range that no mutation has ended has yielded the first entries in order.   *)
BTreeWalkExact == IsPrefix(walk, BTreeReference)

-----------------------------------------------------------------------------
(* The ordered map of cstl/src/bplus_tree.c: entries live in the leaves, which  *)
(* are chained by next; an inner node separates its children by pointers to the *)
(* first keys of the subtrees right of each, which are not copies: a separator  *)
(* that is not refreshed when that key is destroyed dangles.  Entries are also  *)
(* threaded on a list.  Nodes are named by numbers, and since a node's address  *)
(* means nothing they are renamed in tree order after every operation.          *)

bplus_vars == <<nodes, links, limit, walk, entries>>

Root(ns) == IF ns = <<>> THEN 0 ELSE 1
bplus_root == Root(nodes)
BPlusNames == 2 * Cardinality(Keys)

(* es: the entries of a leaf; kids, seps: the children of an inner node and     *)
(* the keys between them; first: first_key, the least key of the subtree.       *)
BPlusBlank == [es |-> <<>>, kids |-> <<>>, seps |-> <<>>, first |-> 0, next |-> 0, parent |-> 0]
Heap(ns) == ns \o [i \in 1 .. BPlusNames - Len(ns) |-> BPlusBlank]
BPlusFree(h) == CHOOSE x \in DOMAIN h : h[x] = BPlusBlank /\ \A y \in 1 .. (x - 1) : h[y] # BPlusBlank
BPlusLeaf(h, x) == h[x].kids = <<>>
num_keys(h, x) == IF BPlusLeaf(h, x) THEN Len(h[x].es) ELSE Len(h[x].kids) - 1
BPlusFull(h, x) == num_keys(h, x) = 2 * T - 1
Adopt(h, kids, p) == FoldSeq(LAMBDA c, g : [g EXCEPT ![c].parent = p], h, kids)

(* Mutant: the separators of an inner node are left as they were.               *)
bplus_refresh_nodeFirst(h, x) ==
    IF BPlusLeaf(h, x) THEN [h EXCEPT ![x].first = IF h[x].es = <<>> THEN 0 ELSE h[x].es[1].key]
    ELSE [h EXCEPT ![x].first = h[h[x].kids[1]].first,
                   ![x].seps = IF Len(@) = Len(h[x].kids) - 1 THEN @
                               ELSE [i \in 1 .. Len(h[x].kids) - 1 |-> h[h[x].kids[i + 1]].first]]

bplus_refresh_node(h, x) ==
    IF BPlusLeaf(h, x) THEN [h EXCEPT ![x].first = IF h[x].es = <<>> THEN 0 ELSE h[x].es[1].key]
    ELSE [h EXCEPT ![x].first = h[h[x].kids[1]].first,
                   ![x].seps = [i \in 1 .. Len(h[x].kids) - 1 |-> h[h[x].kids[i + 1]].first]]

RECURSIVE bplus_refresh_ancestors(_, _)
bplus_refresh_ancestors(h, x) ==
    IF x = 0 THEN h
    ELSE LET g == bplus_refresh_node(h, x) IN bplus_refresh_ancestors(g, g[x].parent)

Refresh2(h, x, y) == bplus_refresh_node(bplus_refresh_node(h, x), y)

bplus_leaf_lower_bound(h, x, k) == 1 + Len(SelectSeq(h[x].es, LAMBDA e : e.key < k))

(* The first child whose separator on the right is above k.                     *)
bplus_child_index(h, x, k) ==
    CHOOSE i \in DOMAIN h[x].kids :
        /\ \A j \in 1 .. (i - 1) : k >= h[x].seps[j]
        /\ IF i <= Len(h[x].seps) THEN k < h[x].seps[i] ELSE TRUE

RECURSIVE FindLeaf(_, _, _)
FindLeaf(h, x, k) == IF BPlusLeaf(h, x) THEN x ELSE FindLeaf(h, h[x].kids[bplus_child_index(h, x, k)], k)

bplus_find_value(ns, k) ==
    IF Root(ns) = 0 THEN 0
    ELSE LET x == FindLeaf(ns, Root(ns), k) IN
         IF \E i \in DOMAIN ns[x].es : ns[x].es[i].key = k
         THEN ns[x].es[bplus_leaf_lower_bound(ns, x, k)].value ELSE 0

(* Mutant: the new leaf is not linked behind the one it was split from.         *)
ChainSkipped(h, left, right) == [h EXCEPT ![right].next = h[left].next]

Chain(h, left, right) == [h EXCEPT ![right].next = h[left].next, ![left].next = right]

bplus_split_child(h, p, i) ==
    LET left == h[p].kids[i]
        right == BPlusFree(h)
        g == [h EXCEPT ![right].parent = p]
        k == IF BPlusLeaf(h, left)
             THEN Chain([g EXCEPT ![right].es = SubSeq(h[left].es, T + 1, 2 * T - 1),
                                  ![left].es = SubSeq(h[left].es, 1, T)], left, right)
             ELSE Adopt([g EXCEPT ![right].kids = SubSeq(h[left].kids, T + 1, 2 * T),
                                  ![left].kids = SubSeq(h[left].kids, 1, T)],
                        SubSeq(h[left].kids, T + 1, 2 * T), right)
    IN bplus_refresh_node([Refresh2(k, left, right) EXCEPT ![p].kids = InsertAt(@, i + 1, right)], p)

(* The descent of bplus_insert_prepared: full children are split on the way.    *)
RECURSIVE Down(_, _, _)
Down(h, x, k) ==
    IF BPlusLeaf(h, x) THEN <<h, x>>
    ELSE LET i == bplus_child_index(h, x, k)
             split == BPlusFull(h, h[x].kids[i])
             g == IF split THEN bplus_split_child(h, x, i) ELSE h
             j == IF split /\ k >= (IF split THEN g[x].seps[i] ELSE 0) THEN i + 1 ELSE i
         IN Down(g, g[x].kids[j], k)

(* The entry that follows place i of leaf x: there, or at the head of next.     *)
NextLink(h, x, i) ==
    IF i <= Len(h[x].es) THEN h[x].es[i].key
    ELSE IF h[x].next = 0 THEN 0
    ELSE IF h[h[x].next].es # <<>> THEN h[h[x].next].es[1].key ELSE 0

bplus_link_insert_before(ls, next, e) ==
    IF next = 0 THEN Append(ls, e)
    ELSE InsertAt(ls, CHOOSE i \in DOMAIN ls : ls[i].key = next, e)

(* Depth-first names, in place of addresses.                                    *)
RECURSIVE Preorder(_, _)
Preorder(h, xs) == IF xs = <<>> THEN <<>> ELSE <<Head(xs)>> \o Preorder(h, h[Head(xs)].kids \o Tail(xs))

Renamed(h, r) ==
    LET order == Preorder(h, IF r = 0 THEN <<>> ELSE <<r>>)
        Name(x) == Cardinality({i \in DOMAIN order : \E j \in i .. Len(order) : order[j] = x})
    IN [i \in DOMAIN order |->
          LET n == h[order[i]] IN
          [n EXCEPT !.kids = [j \in DOMAIN n.kids |-> Name(n.kids[j])],
                    !.next = Name(@), !.parent = Name(@)]]

----------------------------------------------------------------------------

BPlusInit ==
    /\ nodes = <<>>
    /\ links = <<>>
    /\ limit \in {0, Limit}
    /\ walk = <<>>
    /\ entries = [k \in Keys |-> 0]

BPlusReplace(t, e) ==
    LET x == FindLeaf(t.nodes, Root(t.nodes), e.key)
    IN [nodes |-> [t.nodes EXCEPT ![x].es[bplus_leaf_lower_bound(t.nodes, x, e.key)] = e],
        links |-> [i \in DOMAIN t.links |-> IF t.links[i].key = e.key THEN e ELSE t.links[i]]]

(* A full root is split below a new one.                                        *)
Grown(ns) ==
    IF ~BPlusFull(ns, Root(ns)) THEN <<Heap(ns), Root(ns)>>
    ELSE LET top == BPlusFree(Heap(ns))
             h == [Heap(ns) EXCEPT ![top].kids = <<Root(ns)>>, ![Root(ns)].parent = top]
         IN <<bplus_split_child(h, top, 1), top>>

(* The nodes with e put in its leaf, and the key of the entry that follows it.  *)
bplus_insert_prepared(ns, e) ==
    IF Root(ns) = 0
    THEN [nodes |-> bplus_refresh_node(<<[BPlusBlank EXCEPT !.es = <<e>>]>>, 1), next |-> 0]
    ELSE LET grown == Grown(ns)
             d == Down(grown[1], grown[2], e.key)
             i == bplus_leaf_lower_bound(d[1], d[2], e.key)
             h == [d[1] EXCEPT ![d[2]].es = InsertAt(@, i, e)]
         IN [nodes |-> Renamed(bplus_refresh_ancestors(h, d[2]), grown[2]),
             next |-> NextLink(d[1], d[2], i)]

RECURSIVE BPlusDepth(_)
BPlusDepth(x) == IF x = 0 THEN 0 ELSE IF BPlusLeaf(nodes, x) THEN 1 ELSE 1 + BPlusDepth(nodes[x].kids[1])

(* Mutant: a node for every level, and none for a new root.                     *)
bplus_pool_prepareLevels == BPlusDepth(bplus_root)

(* The nodes that are allocated before an entry is put in.                      *)
bplus_pool_prepare == BPlusDepth(bplus_root) + 2

BPlusAdd(t, e) ==
    LET r == bplus_insert_prepared(t.nodes, e)
    IN [nodes |-> r.nodes, links |-> bplus_link_insert_before(t.links, r.next, e)]

bplus_tree_put_materialized(t, e) ==
    IF bplus_find_value(t.nodes, e.key) # 0 THEN BPlusReplace(t, e) ELSE BPlusAdd(t, e)

bplus_tree_put(k, v) ==
    \E t \in {bplus_tree_put_materialized([nodes |-> nodes, links |-> links], Entry(k, v))} :
    /\ Len(t.links) <= Materialized
    /\ nodes' = t.nodes /\ links' = t.links
    /\ limit' = Materialized
    /\ walk' = <<>>
    /\ entries' = [entries EXCEPT ![k] = v]

(* The next of a sequence of puts, on a tree that is evaluated once.            *)
BPlusThen(t, e) == CHOOSE u \in {bplus_tree_put_materialized(v, e) : v \in {t}} : TRUE

(* The pairs are put into a temporary, which replaces what the handle held.     *)
bplus_tree_from_arrays(array) ==
    \E t \in {FoldLeft(BPlusThen, [nodes |-> <<>>, links |-> <<>>], array)} :
    /\ Len(t.links) <= Limit
    /\ nodes' = t.nodes /\ links' = t.links
    /\ limit' = Limit
    /\ walk' = <<>>
    /\ entries' = [k \in Keys |-> FoldLeft(LAMBDA v, e : IF e.key = k THEN e.value ELSE v, 0, array)]

----------------------------------------------------------------------------
(* Leaf or inner node x takes the last part of its left sibling, the first of   *)
(* its right one, or is merged with one of them into the left of the two.       *)
BorrowLeft(h, x, left) ==
    IF BPlusLeaf(h, x)
    THEN bplus_refresh_ancestors(
           bplus_refresh_node([h EXCEPT ![x].es = <<Last(h[left].es)>> \o @, ![left].es = Front(@)], left), x)
    ELSE bplus_refresh_ancestors(
           bplus_refresh_node(
             Adopt([h EXCEPT ![x].kids = <<Last(h[left].kids)>> \o @, ![left].kids = Front(@)],
                   <<Last(h[left].kids)>>, x), left), x)

BorrowRight(h, x, right) ==
    IF BPlusLeaf(h, x)
    THEN bplus_refresh_ancestors(
           bplus_refresh_node([h EXCEPT ![x].es = Append(@, Head(h[right].es)), ![right].es = Tail(@)], right), x)
    ELSE bplus_refresh_ancestors(
           bplus_refresh_node(
             Adopt([h EXCEPT ![x].kids = Append(@, Head(h[right].kids)), ![right].kids = Tail(@)],
                   <<Head(h[right].kids)>>, x), right), x)

(* Mutant: the chain still leads to the leaf that was merged away.              *)
MergeChained(h, l, r, p, i) ==
    LET g == Adopt([h EXCEPT ![l].es = @ \o h[r].es, ![l].kids = @ \o h[r].kids], h[r].kids, l)
    IN [bplus_refresh_node([bplus_refresh_node(g, l) EXCEPT ![p].kids = RemoveAt(@, i)], p) EXCEPT ![r] = BPlusBlank]

(* r, child i of p, is merged into l, the child before it.                      *)
Merge(h, l, r, p, i) ==
    LET g == Adopt([h EXCEPT ![l].es = @ \o h[r].es, ![l].kids = @ \o h[r].kids,
                             ![l].next = h[r].next], h[r].kids, l)
    IN [bplus_refresh_node([bplus_refresh_node(g, l) EXCEPT ![p].kids = RemoveAt(@, i)], p) EXCEPT ![r] = BPlusBlank]

(* The root gives way to its only child.                                        *)
bplus_collapse(h, x, r) ==
    IF ~BPlusLeaf(h, r) /\ num_keys(h, r) = 0
    THEN LET c == h[r].kids[1]
         IN <<bplus_refresh_ancestors([h EXCEPT ![r] = BPlusBlank, ![c].parent = 0], c), c>>
    ELSE <<bplus_refresh_ancestors(h, x), r>>

RECURSIVE bplus_rebalance_after_remove(_, _, _)
bplus_rebalance_after_remove(h, x, r) ==
    IF x = r \/ num_keys(h, x) >= T - 1 THEN bplus_collapse(h, x, r)
    ELSE LET p == h[x].parent
             i == CHOOSE j \in DOMAIN h[p].kids : h[p].kids[j] = x
             left == IF i > 1 THEN h[p].kids[i - 1] ELSE 0
             right == IF i < Len(h[p].kids) THEN h[p].kids[i + 1] ELSE 0
             Lends(y) == IF y = 0 THEN FALSE ELSE num_keys(h, y) > T - 1
         IN IF Lends(left) THEN <<BorrowLeft(h, x, left), r>>
            ELSE IF Lends(right) THEN <<BorrowRight(h, x, right), r>>
            ELSE bplus_rebalance_after_remove(
                   IF left # 0 THEN Merge(h, left, x, p, i) ELSE Merge(h, x, right, p, i + 1), p, r)

Removed(k) ==
    LET x == FindLeaf(nodes, bplus_root, k)
        es == RemoveAt(nodes[x].es, bplus_leaf_lower_bound(nodes, x, k))
        h == [Heap(nodes) EXCEPT ![x].es = es, ![x].first = IF es = <<>> THEN 0 ELSE es[1].key]
        b == bplus_rebalance_after_remove(h, x, bplus_root)
    IN IF x = bplus_root /\ es = <<>> THEN <<>> ELSE Renamed(b[1], b[2])

bplus_tree_remove(k) ==
    /\ bplus_find_value(nodes, k) # 0
    /\ nodes' = Removed(k)
    /\ links' = SelectSeq(links, LAMBDA e : e.key # k)
    /\ walk' = <<>>
    /\ entries' = [entries EXCEPT ![k] = 0]
    /\ UNCHANGED limit

bplus_tree_clear ==
    /\ bplus_root # 0
    /\ nodes' = <<>> /\ links' = <<>> /\ walk' = <<>>
    /\ entries' = [k \in Keys |-> 0]
    /\ UNCHANGED limit

bplus_tree_reserve ==
    /\ limit = 0
    /\ limit' = Unlimited
    /\ UNCHANGED <<nodes, links, walk, entries>>

bplus_tree_range_next ==
    /\ Len(walk) < Len(links)
    /\ walk' = Append(walk, links[Len(walk) + 1])
    /\ UNCHANGED <<nodes, links, limit, entries>>

BPlusNext ==
    \/ \E k \in Keys : \E v \in Values(k) : bplus_tree_put(k, v)
    \/ \E k \in Keys : bplus_tree_remove(k)
    \/ \E array \in Arrays : bplus_tree_from_arrays(array)
    \/ bplus_tree_clear
    \/ bplus_tree_reserve
    \/ bplus_tree_range_next

BPlusSpec == BPlusInit /\ [][BPlusNext]_bplus_vars

----------------------------------------------------------------------------
(* The leaf chain from x on, as key_at and value_at follow it.                  *)
RECURSIVE bplus_pairs(_, _)
bplus_pairs(x, n) == IF x = 0 \/ n = 0 THEN <<>> ELSE nodes[x].es \o bplus_pairs(nodes[x].next, n - 1)

RECURSIVE bplus_leftmost(_)
bplus_leftmost(x) == IF BPlusLeaf(nodes, x) THEN x ELSE bplus_leftmost(nodes[x].kids[1])

BPlusReference ==
    LET present == {k \in Keys : entries[k] # 0}
    IN [i \in 1 .. Cardinality(present) |->
          LET k == CHOOSE x \in present : Cardinality({y \in present : y < x}) = i - 1
          IN Entry(k, entries[k])]

(* get, the leaf chain and the entry list tell the same map, in key order.      *)
BPlusContentsAgree ==
    /\ \A k \in Keys : bplus_find_value(nodes, k) = entries[k]
    /\ links = BPlusReference
    /\ (IF bplus_root = 0 THEN <<>> ELSE bplus_pairs(bplus_leftmost(bplus_root), Len(nodes))) = BPlusReference
    /\ Len(links) <= Materialized

RECURSIVE Least(_)
Least(x) == IF BPlusLeaf(nodes, x) THEN nodes[x].es[1].key ELSE Least(nodes[x].kids[1])

(* Every separator names the least key right of it, which is alive; first_key   *)
(* the least key of its subtree; leaves are at one depth, parents know their    *)
(* children, and no node is over-full or, but for the root, under-full.  No     *)
(* insertion takes more nodes than its pool has.                                *)
BPlusShapeSound ==
    /\ \A k \in Keys : entries[k] = 0 =>
        Len(bplus_insert_prepared(nodes, Entry(k, 1)).nodes) - Len(nodes) <= bplus_pool_prepare
    /\ \A x \in DOMAIN nodes :
        /\ num_keys(nodes, x) \in (IF x = bplus_root THEN 1 ELSE T - 1) .. (2 * T - 1)
        /\ nodes[x].first = Least(x)
        /\ \A i \in DOMAIN nodes[x].kids :
            LET c == nodes[x].kids[i] IN
            /\ nodes[c].parent = x
            /\ BPlusDepth(c) = BPlusDepth(nodes[x].kids[1])
            /\ i > 1 => nodes[x].seps[i - 1] = Least(c)

(* A range that no mutation has ended has yielded the first entries in order.   *)
BPlusWalkExact == IsPrefix(walk, BPlusReference)

-----------------------------------------------------------------------------
(* The red-black tree of cstl/src/rbtree.c, whose nodes are also threaded in    *)
(* order, under the three containers built on it: map.c, where a key that is    *)
(* present is replaced, set.c, where it is left alone, and multimap.c, where    *)
(* equal keys stay in the order of their insertion.  An operation first makes   *)
(* every copy it needs, so it happens as a whole or not at all.                 *)

rb_vars == <<tree, walk, entries>>

RbBlank == [key |-> 0, value |-> 0, red |-> FALSE, parent |-> 0, left |-> 0, right |-> 0,
          previous |-> 0, next |-> 0]
RbNames == {10 * k + c : k \in Keys, c \in 1 .. Copies}
Empty == [n |-> [x \in RbNames |-> RbBlank], root |-> 0, head |-> 0, tail |-> 0]
(* The name of a new node for k: addresses mean nothing, so the least free one. *)
RbFree(t, k) == CHOOSE x \in RbNames : /\ x \div 10 = k /\ t.n[x] = RbBlank
                                   /\ \A y \in RbNames : y \div 10 = k /\ y < x => t.n[y] # RbBlank
Red(t, x) == IF x = 0 THEN FALSE ELSE t.n[x].red
Other(side) == IF side = "left" THEN "right" ELSE "left"

----------------------------------------------------------------------------
(* y takes the place of x below x's parent.                                     *)
Below(t, x, y) ==
    LET p == t.n[x].parent IN
    IF p = 0 THEN [t EXCEPT !.root = y]
    ELSE IF t.n[p].left = x THEN [t EXCEPT !.n[p].left = y] ELSE [t EXCEPT !.n[p].right = y]

Parent(t, x, p) == IF x = 0 THEN t ELSE [t EXCEPT !.n[x].parent = p]

(* rbtree_rotate_left and rbtree_rotate_right: x goes down on its side.         *)
Rotate(t, x, side) ==
    LET pivot == t.n[x][Other(side)]
        a == Parent([t EXCEPT !.n[x][Other(side)] = t.n[pivot][side]], t.n[pivot][side], x)
        b == Below([a EXCEPT !.n[pivot].parent = t.n[x].parent], x, pivot)
    IN [b EXCEPT !.n[pivot][side] = x, !.n[x].parent = pivot]

Paint(t, x, red) == IF x = 0 THEN t ELSE [t EXCEPT !.n[x].red = red]

(* Mutant: a red uncle is not looked for, the grandparent is always rotated.    *)
RedUncleNever(t, x) == FALSE

RedUncle(t, x) == Red(t, x)

RECURSIVE rbtree_insert_fix(_, _)
rbtree_insert_fix(t, x) ==
    IF ~Red(t, t.n[x].parent) THEN Paint(t, t.root, FALSE)
    ELSE LET p == t.n[x].parent
             g == t.n[p].parent
             side == IF t.n[g].left = p THEN "left" ELSE "right"
             uncle == t.n[g][Other(side)]
             inner == x = t.n[p][Other(side)]
             turned == IF inner THEN Rotate(t, p, side) ELSE t
             low == IF inner THEN p ELSE x
             top == turned.n[low].parent
         IN IF RedUncle(t, uncle)
            THEN rbtree_insert_fix(Paint(Paint(Paint(t, p, FALSE), uncle, FALSE), g, TRUE), g)
            ELSE rbtree_insert_fix(
                   Rotate(Paint(Paint(turned, top, FALSE), g, TRUE), g, Other(side)), low)

(* The node the search for a place ends at, and the side it would go to.        *)
RECURSIVE Place(_, _, _)
Place(t, x, k) ==
    LET side == IF k < t.n[x].key THEN "left" ELSE "right"
        y == t.n[x][side]
    IN IF y = 0 THEN <<x, side>> ELSE Place(t, y, k)

RECURSIVE Find(_, _, _)
Find(t, x, k) == IF x = 0 THEN 0
                 ELSE IF t.n[x].key = k THEN x
                 ELSE Find(t, IF k < t.n[x].key THEN t.n[x].left ELSE t.n[x].right, k)
rbtree_find(t, k) == Find(t, t.root, k)

RECURSIVE Bound(_, _, _)
Bound(x, k, found) ==
    IF x = 0 THEN found
    ELSE IF tree.n[x].key < k THEN Bound(tree.n[x].right, k, found) ELSE Bound(tree.n[x].left, k, x)
rbtree_lower_bound(k) == Bound(tree.root, k, 0)
rbtree_upper_bound(k) == Bound(tree.root, k + 1, 0)

(* Mutant: a node that becomes the first one does not become the head.          *)
ThreadHeadless(t, x, p, side) ==
    IF side = "left"
    THEN LET q == t.n[p].previous
             a == [t EXCEPT !.n[x].next = p, !.n[x].previous = q, !.n[p].previous = x]
         IN IF q = 0 THEN a ELSE [a EXCEPT !.n[q].next = x]
    ELSE LET q == t.n[p].next
             a == [t EXCEPT !.n[x].previous = p, !.n[x].next = q, !.n[p].next = x]
         IN IF q = 0 THEN [a EXCEPT !.tail = x] ELSE [a EXCEPT !.n[q].previous = x]

(* x is threaded just before its parent, or just behind it.                     *)
Thread(t, x, p, side) ==
    IF side = "left"
    THEN LET q == t.n[p].previous
             a == [t EXCEPT !.n[x].next = p, !.n[x].previous = q, !.n[p].previous = x]
         IN IF q = 0 THEN [a EXCEPT !.head = x] ELSE [a EXCEPT !.n[q].next = x]
    ELSE LET q == t.n[p].next
             a == [t EXCEPT !.n[x].previous = p, !.n[x].next = q, !.n[p].next = x]
         IN IF q = 0 THEN [a EXCEPT !.tail = x] ELSE [a EXCEPT !.n[q].previous = x]

Inserted(t, e) ==
    LET x == RbFree(t, e.key)
        node == [RbBlank EXCEPT !.key = e.key, !.value = e.value, !.red = TRUE]
        place == Place(t, t.root, e.key)
    IN IF t.root = 0
       THEN rbtree_insert_fix([Empty EXCEPT !.n[x] = node, !.root = x, !.head = x, !.tail = x], x)
       ELSE rbtree_insert_fix(
              Thread([t EXCEPT !.n[x] = [node EXCEPT !.parent = place[1]],
                               !.n[place[1]][place[2]] = x], x, place[1], place[2]), x)

(* Without duplicates a key that is present gets the value in its place.        *)
rbtree_put(t, e) ==
    IF Kind # "multimap" /\ rbtree_find(t, e.key) # 0
    THEN [t EXCEPT !.n[rbtree_find(t, e.key)].value = e.value]
    ELSE Inserted(t, e)

----------------------------------------------------------------------------
rbtree_transplant(t, x, y) == Parent(Below(t, x, y), y, t.n[x].parent)

(* Mutant: a sibling whose only red child is on the inside is lifted as it is.  *)
InnerRedSkipped(t, p, side) == t

(* A sibling whose only red child is on the inside is rotated first.            *)
InnerRed(t, p, side) ==
    LET s == t.n[p][Other(side)] IN
    IF Red(t, t.n[s][Other(side)]) THEN t
    ELSE Rotate(Paint(Paint(t, t.n[s][side], FALSE), s, TRUE), s, Other(side))

(* Mutant: the sibling keeps its colour when it takes the parent's place.       *)
LiftPlain(t, p, side) ==
    LET s == t.n[p][Other(side)]
    IN Rotate(Paint(Paint(t, p, FALSE), t.n[s][Other(side)], FALSE), p, side)

(* The sibling takes the parent's place and colour.                             *)
Lift(t, p, side) ==
    LET s == t.n[p][Other(side)]
        a == Paint(Paint(t, s, t.n[p].red), p, FALSE)
    IN Rotate(Paint(a, a.n[s][Other(side)], FALSE), p, side)

RECURSIVE rbtree_delete_fix(_, _, _)
rbtree_delete_fix(t, x, p) ==
    IF x = t.root \/ Red(t, x) \/ p = 0 THEN Paint(t, x, FALSE)
    ELSE LET side == IF t.n[p].left = x THEN "left" ELSE "right"
             s == t.n[p][Other(side)]
             a == IF Red(t, s) THEN Rotate(Paint(Paint(t, s, FALSE), p, TRUE), p, side) ELSE t
             b == a.n[p][Other(side)]
         IN IF b = 0 THEN rbtree_delete_fix(a, p, a.n[p].parent)
            ELSE IF ~Red(a, a.n[b].left) /\ ~Red(a, a.n[b].right)
                 THEN rbtree_delete_fix(Paint(a, b, TRUE), p, a.n[p].parent)
            ELSE LET c == Lift(InnerRed(a, p, side), p, side) IN Paint(c, c.root, FALSE)

RECURSIVE rbtree_minimum(_, _)
rbtree_minimum(t, x) == IF t.n[x].left = 0 THEN x ELSE rbtree_minimum(t, t.n[x].left)

(* x leaves the order, and its node is freed.                                   *)
Unthread(t, x) ==
    LET p == t.n[x].previous
        q == t.n[x].next
        a == IF p = 0 THEN [t EXCEPT !.head = q] ELSE [t EXCEPT !.n[p].next = q]
        b == IF q = 0 THEN [a EXCEPT !.tail = p] ELSE [a EXCEPT !.n[q].previous = p]
    IN [b EXCEPT !.n[x] = RbBlank]

(* With two children the least node of the right subtree takes x's place.       *)
rbtree_remove_node(t, x) ==
    LET l == t.n[x].left
        r == t.n[x].right
        m == IF l = 0 \/ r = 0 THEN x ELSE rbtree_minimum(t, r)
        child == IF l = 0 THEN r ELSE IF r = 0 THEN l ELSE t.n[m].right
        up == IF m = x THEN t.n[x].parent ELSE IF t.n[m].parent = x THEN m ELSE t.n[m].parent
        a == IF up = m THEN Parent(t, child, m)
             ELSE LET b == rbtree_transplant(t, m, t.n[m].right)
                  IN Parent([b EXCEPT !.n[m].right = r], r, m)
        c == rbtree_transplant(a, x, m)
        moved == IF m = x THEN rbtree_transplant(t, x, child)
                 ELSE Parent([c EXCEPT !.n[m].left = l, !.n[m].red = t.n[x].red], l, m)
    IN Unthread(IF t.n[m].red THEN moved ELSE rbtree_delete_fix(moved, child, up), x)

----------------------------------------------------------------------------
RbInit ==
    /\ tree = Empty
    /\ walk = <<>>
    /\ entries = <<>>

Present(k) == \E i \in DOMAIN entries : entries[i].key = k
UpTo(es, k) == Len(SelectSeq(es, LAMBDA e : e.key <= k))
RbReference(es, e) ==
    IF Kind # "multimap" /\ \E i \in DOMAIN es : es[i].key = e.key
    THEN [es EXCEPT ![UpTo(es, e.key)] = e] ELSE InsertAt(es, UpTo(es, e.key) + 1, e)
Fits(es) == Len(es) <= Limit /\ \A k \in Keys : Len(SelectSeq(es, LAMBDA e : e.key = k)) <= Copies

(* map_put and multimap_put; the entries that share a key are bounded by Copies. *)
put(k, v) ==
    /\ Fits(RbReference(entries, Entry(k, v)))
    /\ tree' = rbtree_put(tree, Entry(k, v))
    /\ walk' = <<>>
    /\ entries' = RbReference(entries, Entry(k, v))

map_put(k, v) == Kind = "map" /\ put(k, v)
multimap_put(k, v) == Kind = "multimap" /\ put(k, v)
(* A set is left alone when it has the key.                                     *)
set_add(k) == Kind = "set" /\ rbtree_find(tree, k) = 0 /\ put(k, 1)

(* The next of a sequence of puts, on a tree that is evaluated once.            *)
RbThen(t, e) == CHOOSE u \in {rbtree_put(v, e) : v \in {t}} : TRUE

(* map_from_common and its like: the entries are put into a temporary tree,     *)
(* which replaces what the handle held.                                         *)
from_arrays(array) ==
    \E es \in {FoldLeft(RbReference, <<>>, array)} :
    /\ Fits(es)
    /\ tree' = FoldLeft(RbThen, Empty, array)
    /\ walk' = <<>>
    /\ entries' = es

map_from_common(array) == Kind = "map" /\ from_arrays(array)
multimap_from_common(array) == Kind = "multimap" /\ from_arrays(array)
set_from_common(array) == Kind = "set" /\ from_arrays(array)

(* Mutant: a multimap gives up the first of the entries of the key.             *)
VictimFirst(k) == IF Kind = "multimap" THEN rbtree_lower_bound(k) ELSE rbtree_find(tree, k)

(* map_remove takes the node of the key, multimap_remove the last of its range. *)
Victim(k) ==
    IF Kind # "multimap" THEN rbtree_find(tree, k)
    ELSE IF rbtree_upper_bound(k) = 0 THEN tree.tail ELSE tree.n[rbtree_upper_bound(k)].previous

remove(k) ==
    /\ rbtree_lower_bound(k) # rbtree_upper_bound(k)
    /\ tree' = rbtree_remove_node(tree, Victim(k))
    /\ walk' = <<>>
    /\ entries' = RemoveAt(entries, UpTo(entries, k))

map_remove(k) == Kind = "map" /\ remove(k)
multimap_remove(k) == Kind = "multimap" /\ remove(k)
set_remove(k) == Kind = "set" /\ remove(k)

(* Every node of the range, each read for its successor before it is freed.     *)
RECURSIVE EraseFrom(_, _, _)
EraseFrom(t, x, end) == IF x = end THEN t ELSE EraseFrom(rbtree_remove_node(t, x), t.n[x].next, end)

multimap_erase(k) ==
    /\ Kind = "multimap" /\ Present(k)
    /\ tree' = EraseFrom(tree, rbtree_lower_bound(k), rbtree_upper_bound(k))
    /\ walk' = <<>>
    /\ entries' = SelectSeq(entries, LAMBDA e : e.key # k)

(* Mutant: clear() does not move the generation.                                *)
clearQuietly ==
    /\ tree.root # 0
    /\ tree' = Empty /\ entries' = <<>>
    /\ UNCHANGED walk

clear ==
    /\ tree.root # 0
    /\ tree' = Empty /\ walk' = <<>> /\ entries' = <<>>

RECURSIVE Follow(_, _)
Follow(x, link) ==
    IF x = 0 THEN <<>> ELSE <<Entry(tree.n[x].key, tree.n[x].value)>> \o Follow(tree.n[x][link], link)

(* map_range_next and its like, and the iterators: along next, from the head.   *)
range_next ==
    LET order == Follow(tree.head, "next") IN
    /\ Len(walk) < Len(order)
    /\ walk' = Append(walk, order[Len(walk) + 1])
    /\ UNCHANGED <<tree, entries>>

map_range_next == Kind = "map" /\ range_next
multimap_range_next == Kind = "multimap" /\ range_next
set_range_next == Kind = "set" /\ range_next

RbNext ==
    \/ \E k \in Keys : \E v \in Values(k) : map_put(k, v) \/ multimap_put(k, v)
    \/ \E k \in Keys : set_add(k)
    \/ \E array \in Arrays : map_from_common(array) \/ multimap_from_common(array) \/ set_from_common(array)
    \/ \E k \in Keys : map_remove(k) \/ multimap_remove(k) \/ set_remove(k) \/ multimap_erase(k)
    \/ clear
    \/ map_range_next \/ multimap_range_next \/ set_range_next

RbSpec == RbInit /\ [][RbNext]_rb_vars

----------------------------------------------------------------------------
Used == {x \in RbNames : tree.n[x] # RbBlank}
KeyAt(x) == IF x = 0 THEN 0 ELSE tree.n[x].key
FirstAbove(k) == LET i == UpTo(entries, k) + 1 IN IF i <= Len(entries) THEN entries[i].key ELSE 0

(* The threads in both directions are the entries in order, with equal keys in  *)
(* the order of their insertion; find and the bounds lead to where they say.    *)
RbContentsAgree ==
    /\ Follow(tree.head, "next") = entries
    /\ Follow(tree.tail, "previous") = Reverse(entries)
    /\ \A k \in Keys :
        /\ KeyAt(rbtree_find(tree, k)) = IF Present(k) THEN k ELSE 0
        /\ KeyAt(rbtree_lower_bound(k)) = FirstAbove(k - 1)
        /\ KeyAt(rbtree_upper_bound(k)) = FirstAbove(k)

RECURSIVE Height(_)
Height(x) == IF x = 0 THEN 1 ELSE Height(tree.n[x].left) + (IF Red(tree, x) THEN 0 ELSE 1)

(* No red node has a red child, every path holds as many black nodes, the root  *)
(* is black and every node knows its parent.                                    *)
RbShapeSound ==
    /\ ~Red(tree, tree.root)
    /\ \A x \in Used :
        /\ Red(tree, x) => ~Red(tree, tree.n[x].left) /\ ~Red(tree, tree.n[x].right)
        /\ Height(tree.n[x].left) = Height(tree.n[x].right)
        /\ tree.n[x].parent = 0 <=> tree.root = x
        /\ \A y \in {tree.n[x].left, tree.n[x].right} \ {0} : tree.n[y].parent = x

(* A range that no mutation has ended has yielded the first entries in order.   *)
RbWalkExact == IsPrefix(walk, entries)
=============================================================================
