------------------------- MODULE ConfiguratorProofs -------------------------
(* context_init and context_resolve keep the invariant of                     *)
(* ConfiguratorInvariant, and what follows from it.                           *)
EXTENDS ConfiguratorInvariant, FiniteSetTheorems, WellFoundedInduction

-----------------------------------------------------------------------------
(* Numbers and sequences.                                                     *)

LEMMA LeastIndex ==
    ASSUME NEW T, T \subseteq Nat, T # {}
    PROVE  \E x \in T : \A y \in T : x <= y
<1>1. PICK x \in T : \A y \in T : ~(<<y, x>> \in OpToRel(<, Nat))
  BY ZenonT(30), NatLessThanWellFounded, WFMin
<1>2. ASSUME NEW y \in T PROVE x <= y
  <2>1. <<y, x>> \in Nat \X Nat
    BY ZenonT(30)
  <2>2. ~(y < x)
    BY ZenonT(30), <1>1, <2>1 DEF OpToRel
  <2> QED BY <2>2
<1> QED BY ZenonT(30), <1>2

LEMMA IntervalSize ==
    ASSUME NEW m \in Nat
    PROVE  IsFiniteSet(1..m) /\ Cardinality(1..m) = m
<1>1. 1 \in Int /\ m \in Int
  BY SMT
<1>2. IsFiniteSet(1..m) /\ Cardinality(1..m) = IF 1 > m THEN 0 ELSE m - 1 + 1
  BY ZenonT(30), <1>1, FS_Interval
<1> QED BY <1>2

\* A sequence that is shorter than n misses an index, and one of length n
\* without repetitions misses none.
LEMMA ShortMisses ==
    ASSUME NEW q, NEW n \in Nat, q \in Seq(1..n), Len(q) < n
    PROVE  \E c \in 1..n : \A k \in 1..Len(q) : q[k] # c
<1> DEFINE T == {q[k] : k \in 1..Len(q)}
<1>1. /\ IsFiniteSet(1..Len(q)) /\ Cardinality(1..Len(q)) = Len(q) /\ Len(q) \in Nat
      /\ IsFiniteSet(1..n) /\ Cardinality(1..n) = n
  <2>1. Len(q) \in Nat
    BY SMT
  <2> QED BY ZenonT(30), <2>1, IntervalSize
<1>2. q \in Surjection(1..Len(q), T)
  <2>1. q \in [1..Len(q) -> T]
    BY SMT
  <2> QED BY ZenonT(30), <2>1 DEF Surjection
<1>3. IsFiniteSet(T) /\ Cardinality(T) <= Cardinality(1..Len(q))
  <2> HIDE DEF T
  <2> QED BY ZenonT(30), <1>1, <1>2, FS_Surjection
<1>4. SUFFICES ASSUME \A c \in 1..n : c \in T PROVE FALSE
  BY ZenonT(30)
<1>5. 1..n \in SUBSET T
  BY ZenonT(30), <1>4
<1>6. Cardinality(1..n) <= Cardinality(T)
  BY ZenonT(30), <1>3, <1>5, FS_Subset
<1>7. Cardinality(T) \in Nat
  BY ZenonT(30), <1>3, FS_CardinalityType
<1> HIDE DEF T
<1> QED BY <1>1, <1>3, <1>6, <1>7

LEMMA FullCovers ==
    ASSUME NEW q, NEW n \in Nat, q \in Seq(1..n), Len(q) = n,
           \A k \in 1..n : \A j \in 1..(k - 1) : q[j] # q[k]
    PROVE  \A c \in 1..n : \E k \in 1..n : c = q[k]
<1>1. IsFiniteSet(1..n)
  BY ZenonT(30), IntervalSize
<1>2. q \in Injection(1..n, 1..n)
  <2>1. q \in [1..n -> 1..n]
    BY SMT
  <2>2. ASSUME NEW a \in 1..n, NEW b \in 1..n, q[a] = q[b] PROVE a = b
    BY <2>2
  <2> QED BY ZenonT(30), <2>1, <2>2 DEF Injection, IsInjective
<1>3. q \in Surjection(1..n, 1..n)
  BY ZenonT(30), <1>1, <1>2, FS_Injection
<1> QED BY ZenonT(30), <1>3 DEF Surjection

LEMMA Prefix ==
    ASSUME NEW q \in Seq(Slots), NEW k \in 1..Len(q)
    PROVE  Members(SubSeq(q, 1, k - 1)) = {q[j] : j \in 1..(k - 1)}
<1> DEFINE p == SubSeq(q, 1, k - 1)
<1>1. Len(q) \in Nat /\ k - 1 \in Nat /\ k - 1 <= Len(q)
  BY SMT
<1>2. DOMAIN p = 1..(k - 1) /\ \A j \in 1..(k - 1) : p[j] = q[j]
  BY <1>1
<1> HIDE DEF p
<1>3. Members(p) = {q[j] : j \in 1..(k - 1)}
  BY ZenonT(30), <1>2 DEF Members
<1> QED BY ZenonT(30), <1>3 DEF p

LEMMA SequenceMembers ==
    ASSUME NEW q \in Seq(Slots)
    PROVE  Members(q) = {q[j] : j \in 1..Len(q)}
<1>1. DOMAIN q = 1..Len(q)
  BY SMT
<1> QED BY ZenonT(30), <1>1 DEF Members

LEMMA SequenceInto ==
    ASSUME NEW q \in Seq(Slots), NEW T, \A k \in 1..Len(q) : q[k] \in T
    PROVE  q \in Seq(T)
<1>1. Len(q) \in Nat /\ q \in [1..Len(q) -> Slots]
  BY SMT
<1>2. q \in [1..Len(q) -> T]
  BY <1>1
<1>3. ASSUME NEW m \in Nat, NEW f \in [1..m -> T] PROVE f \in Seq(T)
  BY SMT
<1> QED BY ZenonT(30), <1>1, <1>2, <1>3

-----------------------------------------------------------------------------
(* Admission and provider selection.                                          *)

\* What admission_status has checked when it answers OK.
LEMMA AdmittedShape ==
    ASSUME NEW g \in Inputs, admission_status(g) = "OK"
    PROVE  /\ g.n \in Nat /\ g.n <= Capacity
           /\ \A c, d \in 1..g.n : g.id[c] = g.id[d] => c = d
<1> DEFINE bad == {c \in 1..g.n : deployment_status(g, c) # "OK"}
<1>w. WellFormed(g) /\ g.n \in Nat
  BY ZenonT(30), InputsAssumption DEF WellFormed
<1>0. bad \subseteq Nat
  BY SMT
<1>1. ~(g.n > Capacity)
  BY DEF admission_status
<1>2. bad = {}
  <2>1. SUFFICES ASSUME bad # {} PROVE FALSE
    BY ZenonT(30)
  <2>2. \E c \in bad : \A d \in bad : c <= d
    <3> HIDE DEF bad
    <3> QED BY ZenonT(30), <1>0, <2>1, LeastIndex
  <2>3. (CHOOSE c \in bad : \A d \in bad : c <= d) \in bad
    <3> HIDE DEF bad
    <3> QED BY ZenonT(30), <2>2
  <2>4. deployment_status(g, CHOOSE c \in bad : \A d \in bad : c <= d) # "OK"
    BY ZenonT(30), <2>3
  <2>5. admission_status(g) \in {"INVALID_ARGUMENT", "CAPACITY_EXCEEDED",
                                 deployment_status(g, CHOOSE c \in bad : \A d \in bad : c <= d)}
    BY ZenonT(30), <2>1 DEF admission_status
  <2> QED BY <2>4, <2>5
<1>3. ASSUME NEW c \in 1..g.n, NEW d \in 1..(c - 1) PROVE g.id[d] # g.id[c]
  <2>1. deployment_status(g, c) = "OK"
    BY ZenonT(30), <1>2
  <2> QED BY <2>1 DEF deployment_status
<1>4. ASSUME NEW c \in 1..g.n, NEW d \in 1..g.n, g.id[c] = g.id[d] PROVE c = d
  BY <1>3, <1>4, <1>w
<1> QED BY SMT, <1>w, <1>1, <1>4, CapacityAssumption

\* Admission reports no cycle.
LEMMA AdmissionNoCycle ==
    ASSUME NEW g \in Inputs
    PROVE  admission_status(g) # "DEPENDENCY_CYCLE"
<1> DEFINE bad == {c \in 1..g.n : deployment_status(g, c) # "OK"}
<1>w. WellFormed(g)
  BY ZenonT(30), InputsAssumption
<1>1. ASSUME bad # {}
      PROVE  deployment_status(g, CHOOSE c \in bad : \A d \in bad : c <= d)
               # "DEPENDENCY_CYCLE"
  <2>0. bad \subseteq Nat
    BY SMT
  <2>2. \E c \in bad : \A d \in bad : c <= d
    <3> HIDE DEF bad
    <3> QED BY ZenonT(30), <2>0, <1>1, LeastIndex
  <2>3. (CHOOSE c \in bad : \A d \in bad : c <= d) \in bad
    <3> HIDE DEF bad
    <3> QED BY ZenonT(30), <2>2
  <2>4. ASSUME NEW c \in 1..g.n PROVE deployment_status(g, c) # "DEPENDENCY_CYCLE"
    <3>1. g.valid[c] \in {"OK", "INVALID_COMPONENT", "CONFIG_MISMATCH"}
      BY ZenonT(30), <1>w DEF WellFormed
    <3> QED BY <3>1 DEF deployment_status
  <2> QED BY ZenonT(30), <2>3, <2>4
<1>2. CASE bad = {}
  <2>1. admission_status(g)
          \in {"INVALID_ARGUMENT", "CAPACITY_EXCEEDED", "INVALID_SELECTION", "OK"}
    BY <1>2 DEF admission_status
  <2> QED BY <2>1
<1>3. CASE bad # {}
  <2>1. admission_status(g) \in {"INVALID_ARGUMENT", "CAPACITY_EXCEEDED",
                                 deployment_status(g, CHOOSE c \in bad : \A d \in bad : c <= d)}
    BY ZenonT(30), <1>3 DEF admission_status
  <2> QED BY <1>1, <1>3, <2>1
<1> QED BY ZenonT(30), <1>2, <1>3

\* Nor does the selection of a provider.
LEMMA SelectionNoCycle ==
    ASSUME NEW g, NEW c, NEW i
    PROVE  select_provider_status(g, c, i) # "DEPENDENCY_CYCLE"
BY DEF select_provider_status

\* When resolve finds nothing to report, every requirement has a provider, and
\* every row is between two deployments.
LEMMA ResolvedProviders ==
    ASSUME NEW g, g.n \in Nat, Unresolved(g) = {}, NEW d \in ResolvedRows(g)
    PROVE  d.consumer \in 1..g.n /\ d.provider \in 1..g.n
<1> DEFINE bad == {r \in Requirements(g) : select_provider_status(g, r[1], r[2]) # "OK"}
           firsts == {r[1] : r \in bad}
<1>1. \A r \in Requirements(g) : r[1] \in 1..g.n /\ r[1] \in Nat
  BY DEF Requirements
<1>2. bad = {}
  <2>1. SUFFICES ASSUME bad # {} PROVE FALSE
    BY ZenonT(30)
  <2>2. firsts \subseteq Nat /\ firsts # {}
    BY ZenonT(30), <1>1, <2>1
  <2>3. PICK x \in firsts : \A y \in firsts : x <= y
    <3> HIDE DEF firsts
    <3> QED BY ZenonT(30), <2>2, LeastIndex
  <2>4. PICK r \in bad : x = r[1]
    BY ZenonT(30)
  <2>5. \A q \in bad : r[1] <= q[1]
    BY ZenonT(30), <2>3, <2>4
  <2>6. r \in Unresolved(g)
    BY ZenonT(30), <2>5 DEF Unresolved
  <2> QED BY ZenonT(30), <2>6
<1>3. PICK r \in Requirements(g) :
        d = [consumer |-> r[1], interface |-> r[2],
             provider |-> CHOOSE p \in Candidates(g, r[1], r[2]) : TRUE]
  BY ZenonT(30) DEF ResolvedRows
<1>4. select_provider_status(g, r[1], r[2]) = "OK"
  BY ZenonT(30), <1>2
<1>5. Candidates(g, r[1], r[2]) # {}
  BY <1>4 DEF select_provider_status, Candidates
<1>6. Candidates(g, r[1], r[2]) \subseteq 1..g.n
  BY ZenonT(30) DEF Candidates, Providers
<1>7. (CHOOSE p \in Candidates(g, r[1], r[2]) : TRUE) \in 1..g.n
  BY ZenonT(30), <1>5, <1>6
<1> QED BY ZenonT(30), <1>1, <1>3, <1>7

-----------------------------------------------------------------------------
(* context_init and context_resolve.                                          *)

\* Before a start nothing is held, and after an end nothing is up.
LEMMA NothingUp ==
    ASSUME IInv, pc \notin Starting, pc \notin Undoing, state # "ACTIVE"
    PROVE  /\ \A c \in Slots : ~instances[c].active /\ instances[c].object # "LIVE"
           /\ \A c \in Slots : ~Hooked(c) /\ ~Pending(c)
           /\ \A c \in Slots : created[c] = released[c] /\ activated[c] = deactivated[c]
<1>i. TypeOK /\ UpShape /\ Books
  BY ZenonT(30) DEF IInv
<1>1. Level = 0 /\ pc \notin {"activate", "provide"} /\ pc # "provide"
  BY DEF Level, Starting
<1>2. \A c \in Slots : ~instances[c].active
  BY <1>i, <1>1 DEF UpShape
<1>3. \A c \in Slots : ~Pending(c)
  BY ZenonT(30), <1>1 DEF Pending
<1>4. \A c \in Slots : instances[c].object # "LIVE"
  BY ZenonT(30), <1>i, <1>2, <1>3 DEF UpShape
<1>5. \A c \in Slots : ~Hooked(c)
  BY ZenonT(30), <1>1, <1>2 DEF Hooked
<1>6. ASSUME NEW c \in Slots PROVE created[c] = released[c] /\ activated[c] = deactivated[c]
  <2>1. /\ created[c] = released[c] + (IF instances[c].object = "LIVE" THEN 1 ELSE 0)
        /\ activated[c] = deactivated[c] + (IF Hooked(c) THEN 1 ELSE 0)
    BY ZenonT(30), <1>i DEF Books
  <2>2. released[c] \in Nat /\ deactivated[c] \in Nat
    BY <1>i DEF TypeOK
  <2>3. instances[c].object # "LIVE" /\ ~Hooked(c)
    BY ZenonT(30), <1>4, <1>5
  <2> QED BY <2>1, <2>2, <2>3
<1> QED BY ZenonT(30), <1>2, <1>3, <1>4, <1>5, <1>6

\* A step to a context with nothing up and nothing planned.
LEMMA QuietContext ==
    ASSUME TypeOK', state' \in {"READY", "FAILED"}, pc' \in {"idle", "order"},
           pc' = "order" => state' = "READY", activation_count' = 0,
           \A c \in Slots : ~instances'[c].active /\ instances'[c].object = "EMPTY",
           \A c \in Slots : created'[c] = released'[c] /\ activated'[c] = deactivated'[c]
    PROVE  UpShape' /\ Books' /\ PlanFull' /\ CallShape'
<1>1. /\ Level' = 0 /\ pc' \notin {"activate", "provide"} /\ pc' # "provide"
      /\ pc' \notin Starting /\ pc' \notin Undoing /\ state' \notin {"RESOLVED", "ACTIVE"}
      /\ pc' # "rollback" /\ pc' # "stop" /\ pc' # "activate"
      /\ pc' \notin Starting \cup {"rollback"} /\ pc' \notin Starting \ {"project"}
  BY DEF Level, Starting, Undoing
<1>2. \A c \in Slots : ~Hooked(c)' /\ ~Pending(c)'
  BY ZenonT(30), <1>1 DEF Hooked, Pending
<1>3. UpShape'
  <2>1. \A c \in Slots : ~\E k \in 1..Level' : c = activation_order'[k]
    BY <1>1
  <2>2. "EMPTY" # "LIVE"
    BY ZenonT(30)
  <2> QED BY ZenonT(30), <1>2, <2>1, <2>2 DEF UpShape
<1>4. Books'
  <2>1. \A c \in Slots : instances'[c].object # "LIVE"
    BY ZenonT(30)
  <2>2. \A c \in Slots : released'[c] \in Nat /\ deactivated'[c] \in Nat
    BY DEF TypeOK
  <2>3. \A c \in Slots : created'[c] = released'[c] + 0 /\ activated'[c] = deactivated'[c] + 0
    BY <2>2
  <2> QED BY ZenonT(30), <1>2, <2>1, <2>3 DEF Books
<1>5. PlanFull'
  BY ZenonT(30), <1>1 DEF PlanFull
<1>6. CallShape'
  BY ZenonT(30), <1>1 DEF CallShape
<1> QED BY ZenonT(30), <1>3, <1>4, <1>5, <1>6

\* A failure before any object exists drops the arrays.
LEMMA FailEarlyKeeps ==
    ASSUME IInv, NEW status, fail_early(status), pc' = "idle",
           UNCHANGED <<instances, at, created, released, activated, deactivated>>,
           \A c \in Slots : ~instances[c].active /\ instances[c].object = "EMPTY",
           \A c \in Slots : created[c] = released[c] /\ activated[c] = deactivated[c],
           status = "DEPENDENCY_CYCLE" => Cyclic(input')
    PROVE  IInv'
<1>i. TypeOK
  BY ZenonT(30) DEF IInv
<1>u. /\ state' = "FAILED" /\ failure' = status /\ graph' = NoInput /\ dependencies' = {}
      /\ activation_order' = <<>> /\ activation_count' = 0
      /\ instances' = instances /\ at' = at /\ created' = created
      /\ released' = released /\ activated' = activated /\ deactivated' = deactivated
  BY ZenonT(30) DEF fail_early, detach_storage
<1>1. TypeOK'
  <2>1. pc' \in PCs /\ state' \in States /\ activation_order' \in Seq(Slots)
    BY <1>u DEF PCs, States
  <2>2. activation_count' \in Nat
    BY <1>u
  <2> QED BY ZenonT(30), <1>i, <1>u, <2>1, <2>2 DEF TypeOK
<1>2. UpShape' /\ Books' /\ PlanFull' /\ CallShape'
  <2>1. /\ state' \in {"READY", "FAILED"} /\ pc' \in {"idle", "order"} /\ pc' # "order"
        /\ \A c \in Slots : ~instances'[c].active /\ instances'[c].object = "EMPTY"
        /\ \A c \in Slots : created'[c] = released'[c] /\ activated'[c] = deactivated'[c]
    BY ZenonT(30), <1>u
  <2> QED BY ZenonT(30), <1>1, <1>u, <2>1, QuietContext
<1>3. Attached' /\ PlanShape' /\ OrderShape'
  BY <1>u DEF Attached, PlanShape, OrderShape
<1>4. CycleShape'
  BY <1>u DEF CycleShape
<1> QED BY ZenonT(30), <1>1, <1>2, <1>3, <1>4 DEF IInv

LEMMA ContextInitStep == ASSUME IInv, NEW g \in Inputs, ContextInit(g) PROVE IInv'
<1>i. TypeOK /\ UpShape
  BY ZenonT(30) DEF IInv
<1>p. /\ pc = "idle" /\ pc' = pc /\ at' = at /\ state \in {"ZERO", "STOPPED", "FAILED"}
      /\ state = "ZERO" => graph = NoInput
      /\ state \in {"STOPPED", "FAILED"} => instances_settled
      /\ created' = created /\ released' = released
      /\ activated' = activated /\ deactivated' = deactivated
      /\ input' = g
  BY ZenonT(30) DEF ContextInit
<1>q. pc \notin Starting /\ pc \notin Undoing /\ state # "ACTIVE"
  BY <1>p DEF Starting, Undoing
<1>n. /\ \A c \in Slots : ~instances[c].active
      /\ \A c \in Slots : created[c] = released[c] /\ activated[c] = deactivated[c]
  BY ZenonT(30), <1>q, NothingUp
<1>e. \A c \in Slots : ~instances[c].active /\ instances[c].object = "EMPTY"
  <2>1. CASE state = "ZERO"
    BY ZenonT(30), <1>i, <1>n, <1>p, <2>1 DEF UpShape
  <2>2. CASE state \in {"STOPPED", "FAILED"}
    BY ZenonT(30), <1>p, <2>2 DEF instances_settled, object_ref_empty
  <2> QED BY ZenonT(30), <1>p, <2>1, <2>2
<1>1. CASE admission_status(g) = "OK"
  <2>u. /\ state' = "READY" /\ graph' = g /\ dependencies' = {} /\ activation_order' = <<>>
        /\ activation_count' = 0 /\ instances' = [c \in Slots |-> EmptyInstance]
    BY ZenonT(30), <1>1 DEF ContextInit
  <2>g. g.n \in Nat /\ g.n <= Capacity /\ g # NoInput
    BY ZenonT(30), <1>1, AdmittedShape, NoInputAssumption
  <2>e. \A c \in Slots : instances'[c] = [active |-> FALSE, object |-> "EMPTY"]
    BY ZenonT(30), <2>u DEF EmptyInstance
  <2>1. TypeOK'
    <3>1. pc' \in PCs /\ state' \in States /\ activation_order' \in Seq(Slots)
      BY <1>p, <2>u DEF PCs, States
    <3>2. instances' \in [Slots -> [active : BOOLEAN, object : Objects]]
      BY <2>u DEF EmptyInstance, Objects
    <3>3. activation_count' \in Nat
      BY <2>u
    <3> QED BY ZenonT(30), <1>i, <1>p, <3>1, <3>2, <3>3 DEF TypeOK
  <2>2. UpShape' /\ Books' /\ PlanFull' /\ CallShape'
    <3>1. /\ state' \in {"READY", "FAILED"} /\ pc' \in {"idle", "order"}
          /\ pc' = "order" => state' = "READY"
      BY <1>p, <2>u
    <3>2. \A c \in Slots : ~instances'[c].active /\ instances'[c].object = "EMPTY"
      BY <2>e
    <3>3. \A c \in Slots : created'[c] = released'[c] /\ activated'[c] = deactivated'[c]
      BY ZenonT(30), <1>n, <1>p
    <3> QED BY ZenonT(30), <2>1, <2>u, <3>1, <3>2, <3>3, QuietContext
  <2>3. Attached' /\ CycleShape'
    BY <1>1, <1>p, <2>u DEF Attached, CycleShape
  <2>4. PlanShape' /\ OrderShape'
    BY <1>p, <2>u, <2>g DEF PlanShape, OrderShape
  <2> QED BY ZenonT(30), <2>1, <2>2, <2>3, <2>4 DEF IInv
<1>2. CASE admission_status(g) # "OK"
  <2>1. fail_early(admission_status(g)) /\ instances' = instances
    BY ZenonT(30), <1>2 DEF ContextInit
  <2>2. admission_status(g) # "DEPENDENCY_CYCLE"
    BY ZenonT(30), AdmissionNoCycle
  <2>3. UNCHANGED <<instances, at, created, released, activated, deactivated>> /\ pc' = "idle"
    BY ZenonT(30), <1>p, <2>1
  <2> QED BY ZenonT(30), <1>n, <1>e, <2>1, <2>2, <2>3, FailEarlyKeeps
<1> QED BY ZenonT(30), <1>1, <1>2

\* While a context is ready it holds nothing.
LEMMA ReadyHolds ==
    ASSUME IInv, state = "READY"
    PROVE  /\ pc \in {"idle", "order"} /\ graph # NoInput /\ activation_count = 0
           /\ graph = input /\ graph \in Inputs /\ graph.n \in Nat /\ graph.n <= Capacity
           /\ \A c \in Slots : ~instances[c].active /\ instances[c].object = "EMPTY"
           /\ \A c \in Slots : created[c] = released[c] /\ activated[c] = deactivated[c]
<1>i. TypeOK /\ Attached /\ PlanShape /\ CallShape /\ UpShape
  BY ZenonT(30) DEF IInv
<1>1. pc \in {"idle", "order"} /\ pc \notin Starting /\ pc \notin Undoing /\ state # "ACTIVE"
  BY <1>i DEF TypeOK, PCs, CallShape, Starting, Undoing
<1>2. graph # NoInput /\ activation_count = 0 /\ graph.n \in Nat /\ graph.n <= Capacity
  BY <1>i DEF PlanShape
<1>3. graph = input /\ graph \in Inputs
  BY ZenonT(30), <1>i, <1>2 DEF Attached
<1>4. /\ \A c \in Slots : ~instances[c].active
      /\ \A c \in Slots : created[c] = released[c] /\ activated[c] = deactivated[c]
  BY ZenonT(30), <1>1, NothingUp
<1>5. \A c \in Slots : instances[c].object = "EMPTY"
  BY ZenonT(30), <1>i DEF UpShape
<1> QED BY ZenonT(30), <1>1, <1>2, <1>3, <1>4, <1>5

LEMMA ContextResolveStep == ASSUME IInv, ContextResolve PROVE IInv'
<1>i. TypeOK /\ Attached /\ PlanShape
  BY ZenonT(30) DEF IInv
<1>p. pc = "idle" /\ state = "READY" /\ UNCHANGED <<instances, at, ghostVars>>
  BY ZenonT(30) DEF ContextResolve
<1>u. /\ instances' = instances /\ at' = at /\ input' = input /\ created' = created
      /\ released' = released /\ activated' = activated /\ deactivated' = deactivated
      /\ UNCHANGED <<instances, at, created, released, activated, deactivated>>
  BY ZenonT(30), <1>p DEF ghostVars
<1>r. /\ graph # NoInput /\ activation_count = 0 /\ graph.n \in Nat /\ graph.n <= Capacity
      /\ \A c \in Slots : ~instances[c].active /\ instances[c].object = "EMPTY"
      /\ \A c \in Slots : created[c] = released[c] /\ activated[c] = deactivated[c]
  BY ZenonT(30), <1>p, ReadyHolds
<1>1. ASSUME NEW status, status # "DEPENDENCY_CYCLE", fail_early(status), pc' = "idle"
      PROVE  IInv'
  BY ZenonT(30), <1>u, <1>r, <1>1, FailEarlyKeeps
<1>2. CASE Cardinality(Requirements(graph)) > graph.dependency_capacity
  <2>1. fail_early("CAPACITY_EXCEEDED") /\ pc' = "idle"
    BY ZenonT(30), <1>2, <1>p DEF ContextResolve
  <2> QED BY ZenonT(30), <1>1, <2>1
<1>3. CASE /\ ~(Cardinality(Requirements(graph)) > graph.dependency_capacity)
           /\ Unresolved(graph) # {}
  <2>1. /\ \E r \in Unresolved(graph) :
             fail_early(select_provider_status(graph, r[1], r[2]))
        /\ pc' = "idle"
    BY ZenonT(30), <1>3, <1>p DEF ContextResolve
  <2>2. PICK r \in Unresolved(graph) : fail_early(select_provider_status(graph, r[1], r[2]))
    BY ZenonT(30), <2>1
  <2> QED BY ZenonT(30), <1>1, <2>1, <2>2, SelectionNoCycle
<1>4. CASE /\ ~(Cardinality(Requirements(graph)) > graph.dependency_capacity)
           /\ Unresolved(graph) = {}
  <2>u. /\ dependencies' = ResolvedRows(graph) /\ pc' = "order" /\ failure' = "OK"
        /\ state' = state /\ graph' = graph /\ activation_order' = activation_order
        /\ activation_count' = activation_count
    BY ZenonT(30), <1>4 DEF ContextResolve
  <2>o. activation_order = <<>> /\ Len(activation_order) = 0
    BY <1>i, <1>p DEF PlanShape
  <2>1. TypeOK'
    <3>1. pc' \in PCs
      BY <2>u DEF PCs
    <3> QED BY ZenonT(30), <1>i, <1>u, <2>u, <3>1 DEF TypeOK
  <2>2. UpShape' /\ Books' /\ PlanFull' /\ CallShape'
    <3>1. /\ state' \in {"READY", "FAILED"} /\ pc' \in {"idle", "order"}
          /\ pc' = "order" => state' = "READY"
      BY <1>p, <2>u
    <3> QED BY ZenonT(30), <1>u, <1>r, <2>1, <2>u, <3>1, QuietContext
  <2>3. Attached'
    BY ZenonT(30), <1>i, <1>u, <2>u DEF Attached
  <2>4. \A d \in dependencies' : d.consumer \in 1..graph.n /\ d.provider \in 1..graph.n
    BY ZenonT(30), <1>4, <1>r, <2>u, ResolvedProviders
  <2>5. PlanShape'
    <3>1. \A k \in 1..Len(activation_order') : activation_order'[k] \in 1..graph.n
      BY <2>u, <2>o
    <3>2. Len(activation_order') <= graph.n
      BY <2>u, <2>o, <1>r
    <3>3. /\ state' = "READY" /\ pc' = "order" /\ graph' # NoInput /\ activation_count' = 0
          /\ state' \notin {"ZERO", "STOPPED"}
      BY <1>p, <1>r, <2>u
    <3> QED BY ZenonT(30), <1>r, <2>u, <2>4, <3>1, <3>2, <3>3 DEF PlanShape
  <2>6. OrderShape'
    BY <2>u, <2>o DEF OrderShape
  <2>7. CycleShape'
    BY <1>p, <2>u DEF CycleShape
  <2> QED BY ZenonT(30), <2>1, <2>2, <2>3, <2>5, <2>6, <2>7 DEF IInv
<1> QED BY ZenonT(30), <1>2, <1>3, <1>4

\* What the ordering loop has placed.
LEMMA PlacedShape ==
    ASSUME IInv, pc = "order"
    PROVE  /\ state = "READY" /\ dependencies = ResolvedRows(graph)
           /\ activation_order \in Seq(1..graph.n) /\ activation_order \in Seq(Slots)
           /\ Members(activation_order)
                = {activation_order[j] : j \in 1..Len(activation_order)}
           /\ \A d \in dependencies : d.consumer \in 1..graph.n /\ d.provider \in 1..graph.n
<1>i. TypeOK /\ PlanShape /\ CallShape
  BY ZenonT(30) DEF IInv
<1>1. state = "READY" /\ dependencies = ResolvedRows(graph)
  BY ZenonT(30), <1>i DEF CallShape, PlanShape
<1>2. graph # NoInput
  BY <1>i, <1>1 DEF PlanShape
<1>3. /\ \A d \in dependencies : d.consumer \in 1..graph.n /\ d.provider \in 1..graph.n
      /\ \A k \in 1..Len(activation_order) : activation_order[k] \in 1..graph.n
  BY ZenonT(30), <1>i, <1>2 DEF PlanShape
<1>4. activation_order \in Seq(Slots)
  BY ZenonT(30), <1>i DEF TypeOK
<1>5. activation_order \in Seq(1..graph.n)
  BY ZenonT(30), <1>3, <1>4, SequenceInto
<1> QED BY ZenonT(30), <1>1, <1>3, <1>4, <1>5, SequenceMembers

\* When nothing is ready, what is left waits for itself.
LEMMA StuckIsCyclic ==
    ASSUME IInv, pc = "order", Len(activation_order) < graph.n,
           Ready(graph, dependencies, Members(activation_order)) = {}
    PROVE  Cyclic(input)
<1> DEFINE placed == Members(activation_order)
           S == (1..graph.n) \ placed
<1>1. /\ state = "READY" /\ dependencies = ResolvedRows(graph)
      /\ activation_order \in Seq(1..graph.n)
      /\ placed = {activation_order[j] : j \in 1..Len(activation_order)}
      /\ \A d \in dependencies : d.consumer \in 1..graph.n /\ d.provider \in 1..graph.n
  BY ZenonT(30), PlacedShape
<1>2. graph.n \in Nat /\ graph = input
  BY ZenonT(30), <1>1, ReadyHolds
<1>3. \E c \in 1..graph.n : \A k \in 1..Len(activation_order) : activation_order[k] # c
  BY ZenonT(30), <1>1, <1>2, ShortMisses
<1>4. S # {}
  BY ZenonT(30), <1>1, <1>3
<1>5. ASSUME NEW c \in S PROVE ProvidersOf(ResolvedRows(graph), c) \cap S # {}
  <2>1. ~(ProvidersOf(dependencies, c) \subseteq placed)
    BY ZenonT(30) DEF Ready, dependencies_ready
  <2>2. PICK p \in ProvidersOf(dependencies, c) : p \notin placed
    BY ZenonT(30), <2>1
  <2>3. p \in 1..graph.n
    BY ZenonT(30), <1>1 DEF ProvidersOf
  <2> QED BY ZenonT(30), <1>1, <2>2, <2>3
<1>6. S \in (SUBSET (1..graph.n)) \ {{}}
  BY ZenonT(30), <1>4
<1> HIDE DEF S
<1>7. Cyclic(graph)
  BY ZenonT(30), <1>5, <1>6 DEF Cyclic
<1> QED BY ZenonT(30), <1>2, <1>7

LEMMA ResolveOrderStep == ASSUME IInv, ResolveOrder PROVE IInv'
<1> DEFINE placed == Members(activation_order)
           ready == Ready(graph, dependencies, placed)
           len == Len(activation_order)
<1>i. TypeOK /\ Attached /\ PlanShape /\ OrderShape
  BY ZenonT(30) DEF IInv
<1>p. pc = "order" /\ len < graph.n /\ UNCHANGED <<instances, at, ghostVars>>
  BY ZenonT(30) DEF ResolveOrder
<1>u. /\ instances' = instances /\ at' = at /\ input' = input /\ created' = created
      /\ released' = released /\ activated' = activated /\ deactivated' = deactivated
      /\ UNCHANGED <<instances, at, created, released, activated, deactivated>>
  BY ZenonT(30), <1>p DEF ghostVars
<1>s. /\ state = "READY" /\ dependencies = ResolvedRows(graph)
      /\ activation_order \in Seq(Slots)
      /\ placed = {activation_order[j] : j \in 1..len}
      /\ \A d \in dependencies : d.consumer \in 1..graph.n /\ d.provider \in 1..graph.n
  BY ZenonT(30), <1>p, PlacedShape
<1>r. /\ graph # NoInput /\ activation_count = 0 /\ graph.n \in Nat /\ graph.n <= Capacity
      /\ \A c \in Slots : ~instances[c].active /\ instances[c].object = "EMPTY"
      /\ \A c \in Slots : created[c] = released[c] /\ activated[c] = deactivated[c]
  BY ZenonT(30), <1>s, ReadyHolds
<1>1. CASE ready = {}
  <2>1. fail_early("DEPENDENCY_CYCLE") /\ pc' = "idle"
    BY ZenonT(30), <1>1 DEF ResolveOrder
  <2>2. Cyclic(input)
    BY ZenonT(30), <1>1, <1>p, StuckIsCyclic
  <2>3. Cyclic(input')
    BY ZenonT(30), <1>u, <2>2
  <2> QED BY ZenonT(30), <1>u, <1>r, <2>1, <2>3, FailEarlyKeeps
<1>2. CASE ready # {}
  <2>u. /\ state' = state /\ failure' = failure /\ graph' = graph
        /\ dependencies' = dependencies /\ activation_count' = activation_count /\ pc' = pc
        /\ \E c \in ready : /\ \A d \in ready : c <= d
                            /\ activation_order' = Append(activation_order, c)
    BY ZenonT(30), <1>2 DEF ResolveOrder
  <2>c. PICK c \in ready : /\ \A d \in ready : c <= d
                           /\ activation_order' = Append(activation_order, c)
    BY ZenonT(30), <2>u
  <2>r. /\ c \in 1..graph.n /\ c \notin placed /\ ProvidersOf(dependencies, c) \subseteq placed
    BY ZenonT(30) DEF Ready, dependencies_ready
  <2>w. c \in Slots
    BY <1>r, <2>r, CapacityAssumption DEF Slots
  <2>a. /\ Len(activation_order') = len + 1 /\ len \in Nat
        /\ activation_order' \in Seq(Slots) /\ activation_order'[len + 1] = c
        /\ \A k \in 1..len : activation_order'[k] = activation_order[k]
    BY <1>s, <2>c, <2>w
  <2> HIDE DEF ready, placed
  <2>1. TypeOK'
    BY ZenonT(30), <1>i, <1>u, <2>u, <2>a DEF TypeOK
  <2>2. UpShape' /\ Books' /\ PlanFull' /\ CallShape'
    <3>1. /\ state' \in {"READY", "FAILED"} /\ pc' \in {"idle", "order"}
          /\ pc' = "order" => state' = "READY"
      BY <1>s, <1>p, <2>u
    <3> QED BY ZenonT(30), <1>u, <1>r, <2>1, <2>u, <3>1, QuietContext
  <2>3. Attached'
    BY ZenonT(30), <1>i, <1>u, <2>u DEF Attached
  <2>4. PlanShape'
    <3>0. \A k \in 1..len : activation_order[k] \in 1..graph.n
      BY ZenonT(30), <1>i, <1>r DEF PlanShape
    <3>1. \A k \in 1..Len(activation_order') : activation_order'[k] \in 1..graph.n
      <4>1. ASSUME NEW k \in 1..(len + 1) PROVE k \in 1..len \/ k = len + 1
        BY <2>a
      <4> HIDE DEF len
      <4> QED BY ZenonT(30), <2>a, <2>r, <3>0, <4>1
    <3>2. Len(activation_order') <= graph.n
      BY <1>p, <1>r, <2>a
    <3>3. /\ state' = "READY" /\ pc' = "order" /\ graph' # NoInput /\ activation_count' = 0
          /\ state' \notin {"ZERO", "STOPPED"}
      BY <1>p, <1>r, <1>s, <2>u
    <3> QED BY ZenonT(30), <1>r, <1>s, <2>u, <3>1, <3>2, <3>3 DEF PlanShape
  <2>5. OrderShape'
    <3>1. ASSUME NEW k \in 1..len
          PROVE  /\ \A j \in 1..(k - 1) : activation_order'[j] # activation_order'[k]
                 /\ \A d \in dependencies : d.consumer = activation_order'[k] =>
                      \E j \in 1..(k - 1) : d.provider = activation_order'[j]
                 /\ \A b \in 1..(activation_order'[k] - 1) :
                      \/ \E j \in 1..(k - 1) : b = activation_order'[j]
                      \/ \E d \in dependencies : d.consumer = b
                           /\ \A j \in 1..(k - 1) : d.provider # activation_order'[j]
      <4>1. /\ activation_order'[k] = activation_order[k]
            /\ \A j \in 1..(k - 1) : activation_order'[j] = activation_order[j]
        BY <2>a
      <4>2. /\ \A j \in 1..(k - 1) : activation_order[j] # activation_order[k]
            /\ \A d \in dependencies : d.consumer = activation_order[k] =>
                 \E j \in 1..(k - 1) : d.provider = activation_order[j]
            /\ \A b \in 1..(activation_order[k] - 1) :
                 \/ \E j \in 1..(k - 1) : b = activation_order[j]
                 \/ \E d \in dependencies : d.consumer = b
                      /\ \A j \in 1..(k - 1) : d.provider # activation_order[j]
        BY ZenonT(30), <1>i DEF OrderShape
      <4>3. \A j \in 1..(k - 1) : activation_order'[j] # activation_order'[k]
        BY ZenonT(30), <4>1, <4>2
      <4>4. ASSUME NEW d \in dependencies, d.consumer = activation_order'[k]
            PROVE  \E j \in 1..(k - 1) : d.provider = activation_order'[j]
        <5>1. d.consumer = activation_order[k]
          BY ZenonT(30), <4>1, <4>4
        <5>2. PICK j \in 1..(k - 1) : d.provider = activation_order[j]
          BY ZenonT(30), <4>2, <5>1
        <5> QED BY ZenonT(30), <4>1, <5>2
      <4>5. ASSUME NEW b \in 1..(activation_order'[k] - 1)
            PROVE  \/ \E j \in 1..(k - 1) : b = activation_order'[j]
                   \/ \E d \in dependencies : d.consumer = b
                        /\ \A j \in 1..(k - 1) : d.provider # activation_order'[j]
        <5>1. b \in 1..(activation_order[k] - 1)
          BY ZenonT(30), <4>1
        <5>2. CASE \E j \in 1..(k - 1) : b = activation_order[j]
          BY ZenonT(30), <4>1, <5>2
        <5>3. CASE \E d \in dependencies : d.consumer = b
                     /\ \A j \in 1..(k - 1) : d.provider # activation_order[j]
          BY ZenonT(30), <4>1, <5>3
        <5> QED BY ZenonT(30), <4>2, <5>1, <5>2, <5>3
      <4> QED BY ZenonT(30), <4>3, <4>4, <4>5
    <3>2. /\ \A j \in 1..len : activation_order'[j] # c
          /\ \A d \in dependencies : d.consumer = c =>
               \E j \in 1..len : d.provider = activation_order'[j]
          /\ \A b \in 1..(c - 1) :
               \/ \E j \in 1..len : b = activation_order'[j]
               \/ \E d \in dependencies : d.consumer = b
                    /\ \A j \in 1..len : d.provider # activation_order'[j]
      <4>1. \A e : e \in placed <=> \E j \in 1..len : e = activation_order'[j]
        BY ZenonT(30), <1>s, <2>a DEF placed
      <4>2. \A j \in 1..len : activation_order'[j] # c
        BY ZenonT(30), <2>r, <4>1
      <4>3. \A d \in dependencies : d.consumer = c => d.provider \in placed
        BY ZenonT(30), <2>r DEF ProvidersOf
      <4>4. ASSUME NEW b \in 1..(c - 1), b \notin placed
            PROVE  \E d \in dependencies : d.consumer = b /\ d.provider \notin placed
        <5>1. b \in 1..graph.n /\ ~(c <= b)
          BY <1>r, <2>r
        <5>2. b \notin ready
          BY ZenonT(30), <2>c, <5>1
        <5>3. ~(ProvidersOf(dependencies, b) \subseteq placed)
          BY ZenonT(30), <4>4, <5>1, <5>2 DEF ready, Ready, dependencies_ready
        <5> QED BY ZenonT(30), <5>3 DEF ProvidersOf
      <4> QED BY ZenonT(30), <4>1, <4>2, <4>3, <4>4
    <3>3. ASSUME NEW k \in 1..(len + 1)
          PROVE  /\ \A j \in 1..(k - 1) : activation_order'[j] # activation_order'[k]
                 /\ \A d \in dependencies : d.consumer = activation_order'[k] =>
                      \E j \in 1..(k - 1) : d.provider = activation_order'[j]
                 /\ \A b \in 1..(activation_order'[k] - 1) :
                      \/ \E j \in 1..(k - 1) : b = activation_order'[j]
                      \/ \E d \in dependencies : d.consumer = b
                           /\ \A j \in 1..(k - 1) : d.provider # activation_order'[j]
      <4>1. CASE k \in 1..len
        BY ZenonT(30), <3>1, <4>1
      <4>2. CASE k = len + 1
        <5>1. k - 1 = len /\ activation_order'[k] = c
          BY <2>a, <4>2
        <5> HIDE DEF len
        <5> QED BY ZenonT(30), <3>2, <5>1
      <4>3. k \in 1..len \/ k = len + 1
        BY <2>a
      <4> QED BY ZenonT(30), <4>1, <4>2, <4>3
    <3> HIDE DEF len
    <3> QED BY <2>a, <2>u, <3>3 DEF OrderShape
  <2>6. CycleShape'
    BY <1>s, <1>p, <2>u DEF CycleShape
  <2> QED BY ZenonT(30), <2>1, <2>2, <2>3, <2>4, <2>5, <2>6 DEF IInv
<1> QED BY ZenonT(30), <1>1, <1>2

LEMMA ResolveDoneStep == ASSUME IInv, ResolveDone PROVE IInv'
<1>i. TypeOK /\ Attached /\ PlanShape /\ OrderShape /\ UpShape
  BY ZenonT(30) DEF IInv
<1>u. /\ pc = "order" /\ Len(activation_order) = graph.n /\ activation_count' = graph.n
      /\ state' = "RESOLVED" /\ pc' = "idle" /\ graph' = graph
      /\ dependencies' = dependencies /\ activation_order' = activation_order
      /\ instances' = instances /\ failure' = failure /\ at' = at /\ input' = input
      /\ created' = created /\ released' = released /\ activated' = activated
      /\ deactivated' = deactivated
  BY ZenonT(30) DEF ResolveDone, ghostVars
<1>s. /\ state = "READY" /\ dependencies = ResolvedRows(graph)
      /\ activation_order \in Seq(1..graph.n)
  BY ZenonT(30), <1>u, PlacedShape
<1>r. graph # NoInput /\ graph.n \in Nat /\ graph.n <= Capacity
  BY ZenonT(30), <1>s, ReadyHolds
<1>1. TypeOK'
  <2>1. pc' \in PCs /\ state' \in States
    BY <1>u DEF PCs, States
  <2> QED BY ZenonT(30), <1>i, <1>u, <1>r, <2>1 DEF TypeOK
<1>2. Attached'
  BY ZenonT(30), <1>i, <1>u DEF Attached
<1>3. PlanShape'
  <2>1. /\ \A d \in dependencies : d.consumer \in 1..graph.n /\ d.provider \in 1..graph.n
        /\ \A k \in 1..Len(activation_order) : activation_order[k] \in 1..graph.n
        /\ Len(activation_order) <= graph.n
    BY ZenonT(30), <1>i, <1>r DEF PlanShape
  <2>2. /\ state' \in {"RESOLVED", "ACTIVE"} /\ state' \notin {"ZERO", "STOPPED"}
        /\ state' # "READY"
    BY <1>u
  <2> QED BY ZenonT(30), <1>u, <1>s, <1>r, <2>1, <2>2 DEF PlanShape
<1>4. PlanFull'
  <2>1. \A k \in 1..graph.n : \A j \in 1..(k - 1) : activation_order[j] # activation_order[k]
    BY ZenonT(30), <1>i, <1>u DEF OrderShape
  <2>2. \A c \in 1..graph.n : \E k \in 1..graph.n : c = activation_order[k]
    BY ZenonT(30), <1>s, <1>r, <1>u, <2>1, FullCovers
  <2> QED BY ZenonT(30), <1>u, <2>2 DEF PlanFull
<1>5. OrderShape'
  BY <1>i, <1>u DEF OrderShape
<1>6. CallShape' /\ CycleShape'
  BY <1>u DEF CallShape, CycleShape, Starting, Undoing
<1>7. UpShape' /\ Books'
  <2>1. Level' = Level
    BY <1>u, <1>s DEF Level, Starting, Undoing
  <2>2. state' # "READY" /\ pc \notin {"activate", "provide"} /\ pc' \notin {"activate", "provide"}
    BY <1>u
  <2>3. UNCHANGED <<graph, activation_order, instances, created, released, activated, deactivated>>
    BY ZenonT(30), <1>u
  <2> QED BY ZenonT(30), <1>r, <2>1, <2>2, <2>3, QuietKeeps
<1> QED BY ZenonT(30), <1>1, <1>2, <1>3, <1>4, <1>5, <1>6, <1>7 DEF IInv

-----------------------------------------------------------------------------
(* The invariant.                                                             *)

LEMMA InitIInv == Init => IInv
<1> SUFFICES ASSUME Init PROVE IInv
  BY ZenonT(30)
<1>u. /\ state = "ZERO" /\ graph = NoInput /\ dependencies = {} /\ activation_order = <<>>
      /\ activation_count = 0 /\ failure = "OK" /\ pc = "idle" /\ at = 0
      /\ instances = [c \in Slots |-> EmptyInstance]
      /\ created = [c \in Slots |-> 0] /\ released = [c \in Slots |-> 0]
      /\ activated = [c \in Slots |-> 0] /\ deactivated = [c \in Slots |-> 0]
  BY ZenonT(30) DEF Init
<1>1. TypeOK
  <2>1. instances \in [Slots -> [active : BOOLEAN, object : Objects]]
    BY <1>u DEF EmptyInstance, Objects
  <2>2. /\ state \in States /\ pc \in PCs /\ at \in Nat /\ activation_count \in Nat
        /\ activation_order \in Seq(Slots)
    BY <1>u DEF States, PCs
  <2>3. /\ created \in [Slots -> Nat] /\ released \in [Slots -> Nat]
        /\ activated \in [Slots -> Nat] /\ deactivated \in [Slots -> Nat]
    BY <1>u
  <2> QED BY ZenonT(30), <2>1, <2>2, <2>3 DEF TypeOK
<1>2. Attached /\ PlanShape /\ PlanFull /\ OrderShape
  BY <1>u DEF Attached, PlanShape, PlanFull, OrderShape
<1>3. CallShape /\ CycleShape
  BY <1>u DEF CallShape, CycleShape, Starting, Undoing
<1>4. \A c \in Slots : instances[c] = [active |-> FALSE, object |-> "EMPTY"]
  BY ZenonT(30), <1>u DEF EmptyInstance
<1>5. \A c \in Slots : ~instances[c].active /\ instances[c].object = "EMPTY"
                       /\ instances[c].object # "LIVE"
  BY <1>4
<1>6. Level = 0 /\ pc \notin {"activate", "provide"}
  BY <1>u DEF Level, Starting, Undoing
<1>7. UpShape
  <2>1. \A c \in Slots : ~\E k \in 1..Level : c = activation_order[k]
    BY <1>6
  <2> QED BY ZenonT(30), <1>5, <1>6, <2>1 DEF UpShape, Pending
<1>8. Books
  <2>1. \A c \in Slots : ~Hooked(c)
    BY ZenonT(30), <1>u DEF Hooked
  <2>2. \A c \in Slots : /\ created[c] = released[c] + 0
                         /\ activated[c] = deactivated[c] + 0
    BY <1>u
  <2> QED BY ZenonT(30), <1>5, <2>1, <2>2 DEF Books
<1> QED BY ZenonT(30), <1>1, <1>2, <1>3, <1>7, <1>8 DEF IInv

LEMMA NextIInv == IInv /\ [Next]_vars => IInv'
<1> SUFFICES ASSUME IInv, [Next]_vars PROVE IInv'
  BY ZenonT(30)
<1>1. ASSUME NEW g \in Inputs, ContextInit(g) PROVE IInv'
  BY ZenonT(30), <1>1, ContextInitStep
<1>2. ASSUME NEW c \in Slots, Repair(c) PROVE IInv'
  BY ZenonT(30), <1>2, RepairStep
<1>3. CASE ContextResolve
  BY ZenonT(30), <1>3, ContextResolveStep
<1>4. CASE ContextStart
  BY ZenonT(30), <1>4, ContextStartStep
<1>5. CASE ContextStop
  BY ZenonT(30), <1>5, ContextStopStep
<1>6. CASE ResolveOrder
  BY ZenonT(30), <1>6, ResolveOrderStep
<1>7. CASE ResolveDone
  BY ZenonT(30), <1>7, ResolveDoneStep
<1>8. CASE StartProject
  BY ZenonT(30), <1>8, StartProjectStep
<1>9. CASE StartCreated
  BY ZenonT(30), <1>9, StartCreatedStep
<1>10. CASE StartCreateFailedOwning
  BY ZenonT(30), <1>10, StartCreateFailedOwningStep
<1>11. CASE StartCreateFailed
  BY ZenonT(30), <1>11, StartCreateFailedStep
<1>12. CASE StartActivated
  BY ZenonT(30), <1>12, StartActivatedStep
<1>13. CASE StartActivateFailed
  BY ZenonT(30), <1>13, StartActivateFailedStep
<1>14. CASE StartProvided
  BY ZenonT(30), <1>14, StartProvidedStep
<1>15. CASE StartProvideFailed
  BY ZenonT(30), <1>15, StartProvideFailedStep
<1>16. CASE StartDone
  BY ZenonT(30), <1>16, StartDoneStep
<1>17. CASE Undo
  BY ZenonT(30), <1>17, UndoStep
<1>18. CASE RollbackDone
  BY ZenonT(30), <1>18, RollbackDoneStep
<1>19. CASE StopDone
  BY ZenonT(30), <1>19, StopDoneStep
<1>20. CASE UNCHANGED vars
  <2>u. /\ state' = state /\ graph' = graph /\ dependencies' = dependencies
        /\ activation_order' = activation_order /\ activation_count' = activation_count
        /\ instances' = instances /\ failure' = failure /\ pc' = pc /\ at' = at
        /\ input' = input /\ created' = created /\ released' = released
        /\ activated' = activated /\ deactivated' = deactivated
    BY ZenonT(30), <1>20 DEF vars
  <2>1. Current' = Current /\ Level' = Level
    BY ZenonT(30), <2>u DEF Current, Level
  <2>2. (\A c \in Slots : Pending(c)' <=> Pending(c)) /\ \A c \in Slots : Hooked(c)' <=> Hooked(c)
    BY ZenonT(30), <2>u, <2>1 DEF Pending, Hooked
  <2>3. /\ TypeOK /\ Attached /\ PlanShape /\ PlanFull /\ OrderShape /\ CallShape
        /\ UpShape /\ Books /\ CycleShape
    BY ZenonT(30) DEF IInv
  <2>4. TypeOK' /\ Attached' /\ PlanFull' /\ CallShape' /\ CycleShape'
    BY ZenonT(30), <2>u, <2>1, <2>3 DEF TypeOK, Attached, PlanFull, CallShape, CycleShape
  <2>5. PlanShape'
    BY <2>u, <2>3 DEF PlanShape
  <2>6. OrderShape'
    BY <2>u, <2>3 DEF OrderShape
  <2>7. UpShape' /\ Books'
    BY ZenonT(30), <2>u, <2>1, <2>2, <2>3 DEF UpShape, Books
  <2> QED BY ZenonT(30), <2>4, <2>5, <2>6, <2>7 DEF IInv
<1> QED
  BY ZenonT(30), <1>1, <1>2, <1>3, <1>4, <1>5, <1>6, <1>7, <1>8, <1>9, <1>10, <1>11, <1>12, <1>13,
     <1>14, <1>15, <1>16, <1>17, <1>18, <1>19, <1>20 DEF Next, Call, Running, StartStep

\* The invariant of ConfiguratorInvariant holds in every reachable state, for
\* every capacity and every set of inputs: a context has exactly the state the
\* calls it has made and the callback it is in call for.
THEOREM Inductive == Spec => []IInv
BY InitIInv, NextIInv, PTL DEF Spec

-----------------------------------------------------------------------------
(* What follows.                                                              *)

LEMMA OrderIsTopological == IInv => OrderTopological
<1> SUFFICES ASSUME IInv, NEW k \in DOMAIN activation_order
             PROVE  LET before == Members(SubSeq(activation_order, 1, k - 1)) IN
                    /\ activation_order[k] \notin before
                    /\ ProvidersOf(dependencies, activation_order[k]) \subseteq before
                    /\ \A c \in 1..(activation_order[k] - 1) :
                         c \in before \/ ~(ProvidersOf(dependencies, c) \subseteq before)
  BY ZenonT(30) DEF OrderTopological
<1> DEFINE before == Members(SubSeq(activation_order, 1, k - 1))
<1>1. activation_order \in Seq(Slots) /\ k \in 1..Len(activation_order)
  BY DEF IInv, TypeOK
<1>2. before = {activation_order[j] : j \in 1..(k - 1)}
  BY ZenonT(30), <1>1, Prefix
<1>3. /\ \A j \in 1..(k - 1) : activation_order[j] # activation_order[k]
      /\ \A d \in dependencies : d.consumer = activation_order[k] =>
           \E j \in 1..(k - 1) : d.provider = activation_order[j]
      /\ \A c \in 1..(activation_order[k] - 1) :
           \/ \E j \in 1..(k - 1) : c = activation_order[j]
           \/ \E d \in dependencies :
                d.consumer = c /\ \A j \in 1..(k - 1) : d.provider # activation_order[j]
  BY ZenonT(30), <1>1 DEF IInv, OrderShape
<1> HIDE DEF before
<1>4. activation_order[k] \notin before
  BY ZenonT(30), <1>2, <1>3
<1>5. ASSUME NEW p \in ProvidersOf(dependencies, activation_order[k]) PROVE p \in before
  <2>1. PICK d \in dependencies : d.consumer = activation_order[k] /\ d.provider = p
    BY ZenonT(30) DEF ProvidersOf
  <2>2. PICK j \in 1..(k - 1) : d.provider = activation_order[j]
    BY ZenonT(30), <1>3, <2>1
  <2> QED BY ZenonT(30), <1>2, <2>1, <2>2
<1>6. ASSUME NEW c \in 1..(activation_order[k] - 1)
      PROVE  c \in before \/ ~(ProvidersOf(dependencies, c) \subseteq before)
  <2>1. CASE \E j \in 1..(k - 1) : c = activation_order[j]
    BY ZenonT(30), <1>2, <2>1
  <2>2. CASE \E d \in dependencies :
                d.consumer = c /\ \A j \in 1..(k - 1) : d.provider # activation_order[j]
    BY ZenonT(30), <1>2, <2>2 DEF ProvidersOf
  <2> QED BY ZenonT(30), <1>3, <2>1, <2>2
<1> QED BY ZenonT(30), <1>4, <1>5, <1>6 DEF before

\* A full order has no cycle: the member of a cycle that comes first would have
\* a provider of the cycle before it.
LEMMA OrderedIsAcyclic == IInv /\ state \in {"RESOLVED", "ACTIVE"} => ~Cyclic(input)
<1> SUFFICES ASSUME IInv, state \in {"RESOLVED", "ACTIVE"}, Cyclic(input) PROVE FALSE
  BY ZenonT(30)
<1>i. TypeOK /\ Attached /\ PlanShape /\ PlanFull /\ OrderShape
  BY ZenonT(30) DEF IInv
<1>1. graph # NoInput
  BY <1>i DEF PlanShape
<1>2. graph = input /\ dependencies = ResolvedRows(graph)
  BY ZenonT(30), <1>i, <1>1 DEF Attached, PlanShape
<1>3. PICK S \in (SUBSET (1..graph.n)) \ {{}} :
        \A c \in S : ProvidersOf(dependencies, c) \cap S # {}
  BY ZenonT(30), <1>2 DEF Cyclic
<1>4. Len(activation_order) \in Nat
  BY <1>i DEF TypeOK
<1> DEFINE K == {k \in 1..Len(activation_order) : activation_order[k] \in S}
<1>5. K \subseteq Nat
  BY <1>4
<1>6. K # {}
  <2>1. PICK c \in S : c \in 1..graph.n
    BY ZenonT(30)
  <2>2. PICK k \in 1..Len(activation_order) : c = activation_order[k]
    BY ZenonT(30), <1>i, <2>1 DEF PlanFull
  <2> QED BY ZenonT(30), <2>1, <2>2
<1>7. PICK k \in K : \A j \in K : k <= j
  <2> HIDE DEF K
  <2> QED BY ZenonT(30), <1>5, <1>6, LeastIndex
<1>8. k \in 1..Len(activation_order) /\ activation_order[k] \in S
  BY ZenonT(30)
<1>9. PICK d \in dependencies : d.consumer = activation_order[k] /\ d.provider \in S
  <2>1. ProvidersOf(dependencies, activation_order[k]) \cap S # {}
    BY ZenonT(30), <1>3, <1>8
  <2> QED BY ZenonT(30), <2>1 DEF ProvidersOf
<1>10. PICK j \in 1..(k - 1) : d.provider = activation_order[j]
  BY ZenonT(30), <1>i, <1>8, <1>9 DEF OrderShape
<1>11. j \in 1..Len(activation_order) /\ ~(k <= j)
  BY <1>4, <1>8, <1>10
<1>12. j \in K
  BY ZenonT(30), <1>9, <1>10, <1>11
<1> QED BY ZenonT(30), <1>7, <1>11, <1>12

\* context_resolve plans a topological order with the lowest ready index first,
\* fails with DEPENDENCY_CYCLE only for a graph that has a cycle, and never
\* resolves a graph that has one: for every graph of every size.
THEOREM PlansExact == Spec => []PlanExact
<1>1. IInv => PlanExact
  BY ZenonT(30), OrderIsTopological, OrderedIsAcyclic DEF IInv, CycleShape, PlanExact
<1> QED BY <1>1, Inductive, PTL

\* Between calls a context is active as a whole or holds nothing that runs, and
\* a failed one that may own a malformed object has kept its arrays.
THEOREM StartsWhole == Spec => []AllOrNothing
<1>1. ASSUME IInv, pc = "idle"
      PROVE  IF state = "ACTIVE"
             THEN \A c \in 1..graph.n : instances[c].active /\ instances[c].object = "LIVE"
             ELSE /\ \A c \in Slots : ~instances[c].active /\ instances[c].object # "LIVE"
                  /\ state = "FAILED" /\ ~instances_settled => graph # NoInput
  <2>i. TypeOK /\ PlanShape /\ PlanFull /\ UpShape
    BY ZenonT(30), <1>1 DEF IInv
  <2>p. pc \notin Starting /\ pc \notin Undoing
    BY <1>1 DEF Starting, Undoing
  <2>1. CASE state = "ACTIVE"
    <3>1. /\ state \in {"RESOLVED", "ACTIVE"} /\ graph # NoInput
          /\ Level = activation_count
      BY <2>i, <2>p, <2>1 DEF PlanShape, Level
    <3>2. graph.n \in Nat /\ graph.n <= Capacity /\ activation_count = Len(activation_order)
      BY ZenonT(30), <2>i, <3>1 DEF PlanShape, PlanFull
    <3>3. ASSUME NEW c \in 1..graph.n
          PROVE  instances[c].active /\ instances[c].object = "LIVE"
      <4>1. c \in Slots
        BY <3>2, CapacityAssumption DEF Slots
      <4>2. \E k \in 1..Level : c = activation_order[k]
        BY ZenonT(30), <2>i, <3>1, <3>2 DEF PlanFull
      <4> QED BY ZenonT(30), <2>i, <4>1, <4>2 DEF UpShape
    <3> QED BY ZenonT(30), <2>1, <3>3
  <2>2. CASE state # "ACTIVE"
    <3>1. \A c \in Slots : ~instances[c].active /\ instances[c].object # "LIVE"
      BY ZenonT(30), <1>1, <2>p, <2>2, NothingUp
    <3>2. graph = NoInput => instances_settled
      BY ZenonT(30), <2>i, <3>1 DEF UpShape, instances_settled, object_ref_empty
    <3> QED BY ZenonT(30), <2>2, <3>1, <3>2
  <2> QED BY ZenonT(30), <2>1, <2>2
<1>2. IInv => AllOrNothing
  BY ZenonT(30), <1>1 DEF AllOrNothing
<1> QED BY <1>2, Inductive, PTL

\* Every ObjectRef a create handed over is held or was released exactly once, and
\* every activation of a component that no longer runs was answered by one
\* deactivate, whichever callback of start failed.
THEOREM SettlesOnce == Spec => []SettledOnce
<1>1. ASSUME IInv, NEW c \in Slots
      PROVE  /\ created[c] - released[c] = IF instances[c].object = "LIVE" THEN 1 ELSE 0
             /\ pc = "idle" /\ state # "ACTIVE" => activated[c] = deactivated[c]
  <2>1. created[c] = released[c] + (IF instances[c].object = "LIVE" THEN 1 ELSE 0)
    BY ZenonT(30), <1>1 DEF IInv, Books
  <2>2. created[c] \in Nat /\ released[c] \in Nat
    BY <1>1 DEF IInv, TypeOK
  <2>3. created[c] - released[c] = IF instances[c].object = "LIVE" THEN 1 ELSE 0
    BY <2>1, <2>2
  <2>4. ASSUME pc = "idle", state # "ACTIVE" PROVE activated[c] = deactivated[c]
    <3>1. pc \notin Starting /\ pc \notin Undoing
      BY <2>4 DEF Starting, Undoing
    <3> QED BY ZenonT(30), <1>1, <2>4, <3>1, NothingUp
  <2> QED BY ZenonT(30), <2>3, <2>4
<1>2. IInv => SettledOnce
  BY ZenonT(30), <1>1 DEF SettledOnce
<1> QED BY <1>2, Inductive, PTL

LEMMA LevelBound ==
    ASSUME IInv
    PROVE  Level \in Nat /\ Level <= Len(activation_order)
<1>i. TypeOK /\ PlanFull /\ CallShape
  BY ZenonT(30) DEF IInv
<1>1. Len(activation_order) \in Nat /\ at \in Nat /\ activation_count \in Nat
  BY <1>i DEF TypeOK
<1>2. CASE state \in {"RESOLVED", "ACTIVE"}
  <2>1. activation_count = Len(activation_order)
    BY ZenonT(30), <1>i, <1>2 DEF PlanFull
  <2>2. /\ pc \in Starting => at \in 1..(activation_count + 1)
        /\ pc \in Undoing => at <= activation_count
    BY ZenonT(30), <1>i DEF CallShape
  <2> QED BY <1>1, <2>1, <2>2 DEF Level
<1>3. CASE state \notin {"RESOLVED", "ACTIVE"}
  <2>1. pc \notin Starting /\ pc \notin Undoing
    BY <1>i, <1>3 DEF CallShape, Starting, Undoing
  <2> QED BY <1>1, <1>3, <2>1 DEF Level
<1> QED BY ZenonT(30), <1>2, <1>3

\* What an active component needs is active.
LEMMA ProvidersActive ==
    ASSUME IInv, NEW c \in Slots, instances[c].active,
           NEW d \in dependencies, d.consumer = c
    PROVE  d.provider \in Slots /\ instances[d.provider].active
<1>i. PlanShape /\ OrderShape /\ UpShape
  BY ZenonT(30) DEF IInv
<1>1. PICK k \in 1..Level : c = activation_order[k]
  BY ZenonT(30), <1>i DEF UpShape
<1>2. k \in 1..Len(activation_order)
  BY LevelBound
<1>3. PICK j \in 1..(k - 1) : d.provider = activation_order[j]
  <2>1. d.consumer = activation_order[k]
    BY ZenonT(30), <1>1
  <2> QED BY ZenonT(30), <1>i, <1>2, <2>1 DEF OrderShape
<1>4. j \in 1..Level
  BY LevelBound, <1>3
<1>5. d.provider \in Slots
  <2>1. graph # NoInput
    BY <1>i DEF PlanShape
  <2>2. graph.n \in Nat /\ graph.n <= Capacity /\ d.provider \in 1..graph.n
    BY ZenonT(30), <1>i, <2>1 DEF PlanShape
  <2> QED BY <2>2, CapacityAssumption DEF Slots
<1> QED BY ZenonT(30), <1>i, <1>3, <1>4, <1>5 DEF UpShape

\* What find_service and find_service_from hand out provides the interface and is
\* active, and so is everything it depends on, even between two deactivations of
\* a stop.
THEOREM ServicesBacked == Spec => []ServiceBacked
<1>1. ASSUME IInv, NEW i \in Interfaces, NEW c \in 1..graph.n, state = "ACTIVE",
             i \in graph.provides[c], NEW a, a = Answer(c), a.status = "OK"
      PROVE  /\ i \in graph.provides[a.provider] /\ instances[a.provider].active
             /\ \A p \in ProvidersOf(dependencies, a.provider) : instances[p].active
  <2>1. instances[c].active /\ a = [status |-> "OK", provider |-> c]
    BY <1>1 DEF Answer, Refused
  <2>2. a.provider = c
    BY <2>1
  <2>3. c \in Slots
    <3>1. graph # NoInput /\ PlanShape
      BY <1>1 DEF IInv, PlanShape
    <3>2. graph.n \in Nat /\ graph.n <= Capacity
      BY ZenonT(30), <3>1 DEF PlanShape
    <3> QED BY <3>2, CapacityAssumption DEF Slots
  <2>4. ASSUME NEW p \in ProvidersOf(dependencies, c) PROVE instances[p].active
    <3>1. PICK d \in dependencies : d.consumer = c /\ d.provider = p
      BY ZenonT(30) DEF ProvidersOf
    <3> QED BY ZenonT(30), <1>1, <2>1, <2>3, <3>1, ProvidersActive
  <2> QED BY ZenonT(30), <1>1, <2>1, <2>2, <2>4
<1>2. ASSUME IInv, NEW i \in Interfaces, NEW a, a = find_service(i), a.status = "OK"
      PROVE  /\ i \in graph.provides[a.provider] /\ instances[a.provider].active
             /\ \A p \in ProvidersOf(dependencies, a.provider) : instances[p].active
  <2>1. \A status : Refused(status).status = status
    BY DEF Refused
  <2>2. /\ state = "ACTIVE" /\ Providers(graph, i) # {}
        /\ a = Answer(CHOOSE c \in Providers(graph, i) : TRUE)
    BY <1>2, <2>1 DEF find_service
  <2>3. PICK c \in Providers(graph, i) : a = Answer(c)
    BY ZenonT(30), <2>2
  <2>4. c \in 1..graph.n /\ i \in graph.provides[c]
    BY ZenonT(30) DEF Providers
  <2> QED BY ZenonT(30), <1>1, <1>2, <2>2, <2>3, <2>4
<1>3. ASSUME IInv, NEW i \in Interfaces, NEW id, NEW a, a = find_service_from(id, i),
             a.status = "OK"
      PROVE  /\ i \in graph.provides[a.provider] /\ instances[a.provider].active
             /\ \A p \in ProvidersOf(dependencies, a.provider) : instances[p].active
  <2>1. \A status : Refused(status).status = status
    BY DEF Refused
  <2>2. /\ state = "ACTIVE" /\ find_id(graph, id) \cap Providers(graph, i) # {}
        /\ a = Answer(CHOOSE c \in find_id(graph, id) : TRUE)
    BY <1>3, <2>1 DEF find_service_from
  <2>3. PICK b \in find_id(graph, id) : b \in Providers(graph, i)
    BY ZenonT(30), <2>2
  <2>4. PICK c \in find_id(graph, id) : a = Answer(c)
    BY ZenonT(30), <2>2, <2>3
  <2>5. graph # NoInput
    BY <1>3, <2>2 DEF IInv, PlanShape
  <2>6. \A x, y \in 1..graph.n : graph.id[x] = graph.id[y] => x = y
    BY ZenonT(30), <1>3, <2>5, AdmittedShape DEF IInv, Attached
  <2>7. c = b
    BY ZenonT(30), <2>6 DEF find_id
  <2>8. c \in 1..graph.n /\ i \in graph.provides[c]
    BY ZenonT(30), <2>3, <2>7 DEF Providers
  <2> QED BY ZenonT(30), <1>1, <1>3, <2>2, <2>4, <2>8
<1>4. IInv => ServiceBacked
  <2> SUFFICES ASSUME IInv, NEW i \in Interfaces,
                      NEW a \in {find_service(i)} \cup
                                 {find_service_from(id, i) : id \in DeployedIds},
                      a.status = "OK"
               PROVE  /\ i \in graph.provides[a.provider] /\ instances[a.provider].active
                      /\ \A p \in ProvidersOf(dependencies, a.provider) : instances[p].active
    BY ZenonT(30) DEF ServiceBacked
  <2>1. CASE a = find_service(i)
    BY ZenonT(30), <1>2, <2>1
  <2>2. CASE \E id \in DeployedIds : a = find_service_from(id, i)
    BY ZenonT(30), <1>3, <2>2
  <2> QED BY ZenonT(30), <2>1, <2>2
<1> QED BY <1>4, Inductive, PTL

-----------------------------------------------------------------------------
(* The context implements ComponentLayers.                                    *)

Up == {c \in Slots : instances[c].active}
Needs == {<<d.consumer, d.provider>> : d \in dependencies}

\* Steps that change neither the rows nor who is active.
LEMMA StillLayers ==
    ASSUME dependencies' = dependencies,
           \A c \in Slots : instances'[c].active <=> instances[c].active
    PROVE  UNCHANGED <<Needs, Up>>
BY ZenonT(30) DEF Needs, Up

\* Rows change only while nothing is up.
LEMMA RewiredLayers ==
    ASSUME IInv', \A c \in Slots : ~instances[c].active,
           \A c \in Slots : ~instances'[c].active
    PROVE  L!Rewire
<1>1. Up = {} /\ Up' = {}
  BY ZenonT(30) DEF Up
<1>2. ASSUME NEW d \in dependencies' PROVE d.consumer \in Slots /\ d.provider \in Slots
  <2>1. graph' # NoInput /\ PlanShape'
    BY DEF IInv, PlanShape
  <2>2. /\ graph'.n \in Nat /\ graph'.n <= Capacity
        /\ d.consumer \in 1..graph'.n /\ d.provider \in 1..graph'.n
    BY ZenonT(30), <2>1 DEF PlanShape
  <2> QED BY <2>2, CapacityAssumption DEF Slots
<1>3. Needs' \in SUBSET (Slots \X Slots)
  BY <1>2 DEF Needs
<1> QED BY ZenonT(30), <1>1, <1>3 DEF L!Rewire, Up, Needs

\* The instance a failing start lets go of was not active.
LEMMA LetGoStill ==
    ASSUME NEW c \in Slots, ~instances[c].active, LetGo(c)
    PROVE  \A d \in Slots : instances'[d].active <=> instances[d].active
BY ZenonT(30) DEF LetGo

LEMMA RaisesLayer == ASSUME IInv, StartProvided PROVE \E c \in Slots : L!Raise(c)
<1> DEFINE C == Current
<1>i. TypeOK /\ CallShape /\ OrderShape /\ UpShape
  BY ZenonT(30) DEF IInv
<1>u. /\ pc = "provide" /\ instances' = [instances EXCEPT ![C].active = TRUE]
      /\ dependencies' = dependencies
  BY ZenonT(30) DEF StartProvided, graphVars
<1>c. /\ at \in 1..activation_count /\ activation_count = Len(activation_order)
      /\ Level = at - 1 /\ C \in Slots /\ ~instances[C].active /\ C = activation_order[at]
  <2>1. pc \in Starting /\ at <= activation_count
    BY <1>i, <1>u DEF CallShape, Starting
  <2> QED BY ZenonT(30), <2>1, CurrentShape DEF Current
<1>1. C \notin Up
  BY ZenonT(30), <1>c DEF Up
<1>2. ASSUME NEW p \in Slots, <<C, p>> \in Needs PROVE p \in Up
  <2>1. PICK d \in dependencies : <<C, p>> = <<d.consumer, d.provider>>
    BY ZenonT(30), <1>2 DEF Needs
  <2>2. d.consumer = activation_order[at] /\ d.provider = p
    BY <1>c, <2>1
  <2>3. at \in 1..Len(activation_order)
    BY ZenonT(30), <1>c
  <2>4. PICK j \in 1..(at - 1) : d.provider = activation_order[j]
    BY ZenonT(30), <1>i, <2>2, <2>3 DEF OrderShape
  <2>5. instances[p].active
    BY ZenonT(30), <1>i, <1>c, <2>2, <2>4 DEF UpShape
  <2> QED BY ZenonT(30), <2>5 DEF Up
<1>3. Up' = Up \cup {C}
  <2> HIDE DEF C
  <2>1. instances'[C].active /\ \A c \in Slots \ {C} : instances'[c] = instances[c]
    BY <1>i, <1>u, <1>c DEF TypeOK
  <2> QED BY ZenonT(30), <1>c, <2>1 DEF Up
<1>4. Needs' = Needs
  BY ZenonT(30), <1>u DEF Needs
<1> HIDE DEF C
<1>5. PICK c \in Slots : c = C
  BY ZenonT(30), <1>c
<1>6. L!Raise(c)
  BY ZenonT(30), <1>1, <1>2, <1>3, <1>4, <1>5 DEF L!Raise, L!Needed, Up, Needs
<1> QED BY ZenonT(30), <1>6

LEMMA LowersLayer == ASSUME IInv, Undo PROVE \E c \in Slots : L!Lower(c)
<1> DEFINE C == Current
<1>i. TypeOK /\ OrderShape /\ UpShape
  BY ZenonT(30) DEF IInv
<1>p. pc \in Undoing /\ at > 0 /\ dependencies' = dependencies
  BY ZenonT(30) DEF Undo, Undoing, graphVars
<1>c. /\ at \in 1..activation_count /\ Level = at
      /\ activation_count = Len(activation_order)
      /\ C \in Slots /\ C = activation_order[at] /\ instances[C].active
      /\ \A k \in 1..(at - 1) : activation_order[k] # C
  BY ZenonT(30), <1>p, TopShape
<1>r. Release(C)
  BY ZenonT(30), <1>c DEF Undo
<1>g. LetGo(C)
  BY ZenonT(30), <1>i, <1>c, <1>r, ReleaseLetsGo
<1> HIDE DEF C
<1>1. C \in Up
  BY ZenonT(30), <1>c DEF Up
<1>2. ASSUME NEW e \in Up, <<e, C>> \in Needs PROVE FALSE
  <2>1. PICK d \in dependencies : <<e, C>> = <<d.consumer, d.provider>>
    BY ZenonT(30), <1>2 DEF Needs
  <2>2. PICK k \in 1..at : e = activation_order[k]
    BY ZenonT(30), <1>i, <1>c DEF Up, UpShape
  <2>3. k \in 1..Len(activation_order) /\ d.consumer = activation_order[k] /\ d.provider = C
    BY <1>c, <2>1, <2>2
  <2>4. PICK j \in 1..(k - 1) : d.provider = activation_order[j]
    BY ZenonT(30), <1>i, <2>3 DEF OrderShape
  <2>5. j \in 1..(at - 1)
    BY <1>c
  <2> QED BY ZenonT(30), <1>c, <2>3, <2>4, <2>5
<1>3. Up' = Up \ {C}
  <2>1. ~instances'[C].active /\ \A c \in Slots \ {C} : instances'[c] = instances[c]
    BY ZenonT(30), <1>g DEF LetGo
  <2> QED BY ZenonT(30), <1>c, <2>1 DEF Up
<1>4. Needs' = Needs
  BY ZenonT(30), <1>p DEF Needs
<1>5. PICK c \in Slots : c = C
  BY ZenonT(30), <1>c
<1>6. L!Lower(c)
  BY ZenonT(30), <1>1, <1>2, <1>3, <1>4, <1>5 DEF L!Lower, L!Needed, Up, Needs
<1> QED BY ZenonT(30), <1>6

\* The steps that fail a start, or repair a record, change nobody's activity.
LEMMA FailuresStill ==
    ASSUME IInv,
           \/ StartCreated \/ StartCreateFailedOwning \/ StartCreateFailed
           \/ StartActivateFailed \/ StartProvideFailed \/ \E c \in Slots : Repair(c)
    PROVE  UNCHANGED <<Needs, Up>>
<1>i. TypeOK
  BY ZenonT(30) DEF IInv
<1>1. dependencies' = dependencies
  BY ZenonT(30) DEF StartCreated, StartCreateFailedOwning, StartCreateFailed,
               StartActivateFailed, StartProvideFailed, Repair, graphVars
<1>2. ASSUME NEW C \in Slots, NEW o \in Objects,
             instances' = [instances EXCEPT ![C].object = o]
      PROVE  \A c \in Slots : instances'[c].active <=> instances[c].active
  BY <1>i, <1>2 DEF TypeOK
<1>3. CASE \E c \in Slots : Repair(c)
  <2>1. PICK c \in Slots : Repair(c)
    BY ZenonT(30), <1>3
  <2>2. "EMPTY" \in Objects /\ instances' = [instances EXCEPT ![c].object = "EMPTY"]
    BY ZenonT(30), <2>1 DEF Repair, Objects
  <2> QED BY ZenonT(30), <1>1, <1>2, <2>2, StillLayers
<1>4. CASE \/ StartCreated \/ StartCreateFailedOwning \/ StartCreateFailed
           \/ StartActivateFailed \/ StartProvideFailed
  <2>1. pc \in Starting \ {"project"}
    BY <1>4 DEF StartCreated, StartCreateFailedOwning, StartCreateFailed,
                StartActivateFailed, StartProvideFailed, Starting
  <2>2. Current \in Slots /\ ~instances[Current].active
    BY ZenonT(30), <2>1, CurrentBooks
  <2>3. PICK C \in Slots : C = Current
    BY ZenonT(30), <2>2
  <2>4. CASE StartCreated \/ StartCreateFailed
    <3>1. \E o \in Objects : instances' = [instances EXCEPT ![Current].object = o]
      BY ZenonT(30), <2>4 DEF StartCreated, StartCreateFailed, Objects
    <3> QED BY ZenonT(30), <1>1, <1>2, <2>3, <3>1, StillLayers
  <2>5. CASE StartCreateFailedOwning \/ StartActivateFailed \/ StartProvideFailed
    <3>1. Release(C)
      BY ZenonT(30), <2>3, <2>5 DEF StartCreateFailedOwning, StartActivateFailed, StartProvideFailed,
                               Release
    <3>2. LetGo(C)
      BY ZenonT(30), <1>i, <3>1, ReleaseLetsGo
    <3> QED BY ZenonT(30), <1>1, <2>2, <2>3, <3>2, LetGoStill, StillLayers
  <2> QED BY ZenonT(30), <1>4, <2>4, <2>5
<1> QED BY ZenonT(30), <1>3, <1>4

\* At the ends of a life nothing is up, and the rows may change.
LEMMA EndsRewire ==
    ASSUME IInv, IInv',
           \/ \E g \in Inputs : ContextInit(g)
           \/ ContextResolve \/ ResolveOrder \/ RollbackDone \/ StopDone
    PROVE  L!Rewire
<1>1. \A c \in Slots : ~instances[c].active
  <2>1. CASE (\E g \in Inputs : ContextInit(g)) \/ ContextResolve \/ ResolveOrder
    <3>1. pc \in {"idle", "order"} /\ state # "ACTIVE"
      BY <2>1 DEF ContextInit, ContextResolve, ResolveOrder, IInv, CallShape
    <3>2. pc \notin Starting /\ pc \notin Undoing
      BY <3>1 DEF Starting, Undoing
    <3> QED BY ZenonT(30), <3>1, <3>2, NothingUp
  <2>2. CASE RollbackDone \/ StopDone
    <3>1. pc \in Undoing /\ at = 0
      BY ZenonT(30), <2>2 DEF RollbackDone, StopDone, Undoing
    <3>2. Level = 0
      BY <3>1 DEF Level, Undoing, Starting
    <3>3. UpShape
      BY ZenonT(30) DEF IInv
    <3> QED BY <3>2, <3>3 DEF UpShape
  <2> QED BY ZenonT(30), <2>1, <2>2
<1>2. \A c \in Slots : ~instances'[c].active
  <2>1. instances' = instances \/ instances' = [c \in Slots |-> EmptyInstance]
    BY ZenonT(30) DEF ContextInit, ContextResolve, ResolveOrder, RollbackDone, StopDone
  <2>2. ~EmptyInstance.active
    BY DEF EmptyInstance
  <2> QED BY ZenonT(30), <1>1, <2>1, <2>2
<1> QED BY ZenonT(30), <1>1, <1>2, RewiredLayers

LEMMA StepLayered ==
    IInv /\ IInv' /\ [Next]_vars => [L!Next]_<<Needs, Up>>
<1> SUFFICES ASSUME IInv, IInv', [Next]_vars PROVE L!Next \/ UNCHANGED <<Needs, Up>>
  BY ZenonT(30)
<1>1. CASE \/ \E g \in Inputs : ContextInit(g)
           \/ ContextResolve \/ ResolveOrder \/ RollbackDone \/ StopDone
  BY ZenonT(30), <1>1, EndsRewire DEF L!Next
<1>2. CASE StartProvided
  BY ZenonT(30), <1>2, RaisesLayer DEF L!Next
<1>3. CASE Undo
  BY ZenonT(30), <1>3, LowersLayer DEF L!Next
<1>4. CASE \/ StartCreated \/ StartCreateFailedOwning \/ StartCreateFailed
           \/ StartActivateFailed \/ StartProvideFailed \/ \E c \in Slots : Repair(c)
  BY ZenonT(30), <1>4, FailuresStill
<1>5. CASE \/ ResolveDone \/ ContextStart \/ ContextStop \/ StartProject \/ StartActivated
           \/ StartDone \/ UNCHANGED vars
  <2>1. instances' = instances /\ dependencies' = dependencies
    BY ZenonT(30), <1>5 DEF ResolveDone, ContextStart, ContextStop, StartProject, StartActivated,
                       StartDone, graphVars, vars
  <2> QED BY ZenonT(30), <2>1, StillLayers
<1> QED
  BY ZenonT(30), <1>1, <1>2, <1>3, <1>4, <1>5 DEF Next, Call, Running, StartStep

\* The context implements ComponentLayers: whatever callback of start, rollback or
\* stop it is in, a component comes up only above what it needs, goes down only
\* when nothing that needs it is up, and the rows change only while all are down.
THEOREM ActivationLayered == Spec => Layered
<1>1. Init => L!Init
  <2> SUFFICES ASSUME Init PROVE L!Init
    BY ZenonT(30)
  <2>1. dependencies = {} /\ instances = [c \in Slots |-> EmptyInstance]
    BY ZenonT(30) DEF Init
  <2>2. ~EmptyInstance.active
    BY DEF EmptyInstance
  <2> QED BY ZenonT(30), <2>1, <2>2 DEF L!Init
<1>2. IInv /\ IInv' /\ [Next]_vars
        => [L!Next]_<<{<<d.consumer, d.provider>> : d \in dependencies},
                      {c \in Slots : instances[c].active}>>
  BY ZenonT(30), StepLayered DEF Needs, Up
<1> QED BY <1>1, <1>2, Inductive, PTL DEF Spec, Layered, L!Spec

=============================================================================
