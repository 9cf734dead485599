----------------------- MODULE ConfiguratorInvariant -----------------------
(* The inductive invariant of Configurator, and the steps of start, rollback  *)
(* and stop.                                                                  *)
EXTENDS Configurator, TLAPS

USE SMTT(30), ZenonT(30), SMTT(31)

-----------------------------------------------------------------------------
(* The inductive invariant.                                                   *)

States == {"ZERO", "READY", "RESOLVED", "ACTIVE", "STOPPED", "FAILED"}
Starting == {"project", "create", "activate", "provide"}
Undoing == {"rollback", "stop"}
PCs == {"idle", "order"} \cup Starting \cup Undoing
Objects == {"EMPTY", "LIVE", "MALFORMED"}

TypeOK ==
    /\ state \in States
    /\ pc \in PCs
    /\ at \in Nat
    /\ activation_count \in Nat
    /\ activation_order \in Seq(Slots)
    /\ instances \in [Slots -> [active : BOOLEAN, object : Objects]]
    /\ created \in [Slots -> Nat] /\ released \in [Slots -> Nat]
    /\ activated \in [Slots -> Nat] /\ deactivated \in [Slots -> Nat]

\* The context holds the arrays of an input that was admitted.
Attached ==
    graph # NoInput => graph = input /\ graph \in Inputs /\ admission_status(graph) = "OK"

\* What the state of the context says of its plan.
PlanShape ==
    /\ state \in {"ZERO", "STOPPED"} => graph = NoInput
    /\ state \in {"READY", "RESOLVED", "ACTIVE"} => graph # NoInput
    /\ graph = NoInput => dependencies = {} /\ activation_order = <<>>
    /\ state \notin {"RESOLVED", "ACTIVE"} => activation_count = 0
    /\ state = "READY" /\ pc # "order" => dependencies = {} /\ activation_order = <<>>
    /\ graph # NoInput =>
         /\ graph.n \in Nat /\ graph.n <= Capacity
         /\ \A d \in dependencies : d.consumer \in 1..graph.n /\ d.provider \in 1..graph.n
         /\ \A k \in 1..Len(activation_order) : activation_order[k] \in 1..graph.n
         /\ Len(activation_order) <= graph.n
    /\ pc = "order" \/ state \in {"RESOLVED", "ACTIVE"} => dependencies = ResolvedRows(graph)

\* A resolved plan has a place for every component.
PlanFull ==
    state \in {"RESOLVED", "ACTIVE"} =>
        /\ activation_count = graph.n /\ Len(activation_order) = graph.n
        /\ \A c \in 1..graph.n : \E k \in 1..Len(activation_order) : c = activation_order[k]

\* OrderTopological, place by place.
OrderShape ==
    \A k \in 1..Len(activation_order) :
        /\ \A j \in 1..(k - 1) : activation_order[j] # activation_order[k]
        /\ \A d \in dependencies : d.consumer = activation_order[k] =>
             \E j \in 1..(k - 1) : d.provider = activation_order[j]
        /\ \A c \in 1..(activation_order[k] - 1) :
             \/ \E j \in 1..(k - 1) : c = activation_order[j]
             \/ \E d \in dependencies :
                  d.consumer = c /\ \A j \in 1..(k - 1) : d.provider # activation_order[j]

\* Where a call is.
CallShape ==
    /\ pc = "order" => state = "READY"
    /\ pc \in Starting \cup {"rollback"} => state = "RESOLVED"
    /\ pc = "stop" => state = "ACTIVE"
    /\ pc \in Starting => at \in 1..(activation_count + 1)
    /\ pc \in Starting \ {"project"} => at <= activation_count
    /\ pc \in Undoing => at <= activation_count
    /\ pc = "activate" => graph.hooks[Current]

\* How many components of the order are up.
Level ==
    IF pc \in Starting THEN at - 1
    ELSE IF pc \in Undoing THEN at
    ELSE IF state = "ACTIVE" THEN activation_count ELSE 0

\* Being activated, and holding an object that is not up yet.
Pending(c) == pc \in {"activate", "provide"} /\ c = Current

\* The components that are up are a prefix of the order, and the valid
\* ObjectRefs are theirs and that of the component being started.
UpShape ==
    /\ \A c \in Slots : instances[c].active <=> \E k \in 1..Level : c = activation_order[k]
    /\ \A c \in Slots : instances[c].object = "LIVE" <=> instances[c].active \/ Pending(c)
    /\ graph = NoInput \/ state = "READY" => \A c \in Slots : instances[c].object = "EMPTY"

\* Activated, and not deactivated since.
Hooked(c) ==
    /\ graph # NoInput
    /\ c \in 1..graph.n /\ graph.hooks[c]
    /\ instances[c].active \/ (pc = "provide" /\ c = Current)

Books ==
    \A c \in Slots :
        /\ created[c] = released[c] + (IF instances[c].object = "LIVE" THEN 1 ELSE 0)
        /\ activated[c] = deactivated[c] + (IF Hooked(c) THEN 1 ELSE 0)

\* A cycle is what a failed resolution reports, and nothing else does.
CycleShape ==
    /\ state = "FAILED" /\ failure = "DEPENDENCY_CYCLE" => Cyclic(input)
    /\ pc = "rollback" => failure # "DEPENDENCY_CYCLE"

IInv ==
    /\ TypeOK /\ Attached /\ PlanShape /\ PlanFull /\ OrderShape /\ CallShape
    /\ UpShape /\ Books /\ CycleShape

-----------------------------------------------------------------------------
(* What a step of start, rollback or stop leaves alone.                       *)

\* The plan is not touched while the context goes from resolved to active.
LEMMA PlanStays ==
    ASSUME IInv, UNCHANGED <<graphVars, input>>,
           state \in {"RESOLVED", "ACTIVE"}, state' \in {"RESOLVED", "ACTIVE"}, pc' # "order",
           pc' = "rollback" => failure' # "DEPENDENCY_CYCLE"
    PROVE  Attached' /\ PlanShape' /\ PlanFull' /\ OrderShape' /\ CycleShape'
<1>i. Attached /\ PlanShape /\ PlanFull /\ OrderShape
  BY ZenonT(30) DEF IInv
<1>u. /\ graph' = graph /\ dependencies' = dependencies
      /\ activation_order' = activation_order /\ activation_count' = activation_count
      /\ input' = input
  BY ZenonT(30) DEF graphVars
<1>1. Attached'
  BY ZenonT(30), <1>i, <1>u DEF Attached
<1>2. PlanShape'
  BY <1>i, <1>u DEF PlanShape
<1>3. PlanFull'
  BY ZenonT(30), <1>i, <1>u DEF PlanFull
<1>4. OrderShape'
  BY <1>i, <1>u DEF OrderShape
<1>5. CycleShape'
  <2>1. state' # "FAILED"
    BY SMT
  <2> QED BY ZenonT(30), <2>1 DEF CycleShape
<1> QED BY ZenonT(30), <1>1, <1>2, <1>3, <1>4, <1>5

\* Nor by a step inside start, rollback or stop.
LEMMA PlanKept ==
    ASSUME IInv, UNCHANGED <<state, graphVars, input>>,
           state \in {"RESOLVED", "ACTIVE"}, pc' # "order",
           pc' = "rollback" => failure' # "DEPENDENCY_CYCLE"
    PROVE  Attached' /\ PlanShape' /\ PlanFull' /\ OrderShape' /\ CycleShape'
<1>1. UNCHANGED <<graphVars, input>> /\ state' \in {"RESOLVED", "ACTIVE"}
  BY ZenonT(30)
<1> QED BY ZenonT(30), <1>1, PlanStays

\* Where a start stands: the component it is at, and what it has brought up.
LEMMA CurrentShape ==
    ASSUME IInv, pc \in Starting, at <= activation_count
    PROVE  /\ state = "RESOLVED" /\ graph # NoInput
           /\ at \in 1..activation_count /\ activation_count = Len(activation_order)
           /\ Current \in Slots /\ Current \in 1..graph.n
           /\ ~instances[Current].active /\ Level = at - 1
           /\ \A k \in 1..Len(activation_order) :
                activation_order[k] = Current => k = at
<1>i. TypeOK /\ PlanShape /\ PlanFull /\ OrderShape /\ CallShape /\ UpShape
  BY ZenonT(30) DEF IInv
<1>1. state = "RESOLVED" /\ graph # NoInput
  BY <1>i DEF CallShape, PlanShape
<1>2. /\ at \in Nat /\ activation_count \in Nat /\ at \in 1..activation_count
  BY <1>i DEF CallShape, TypeOK
<1>3. activation_count = Len(activation_order) /\ graph.n \in Nat /\ graph.n <= Capacity
  BY ZenonT(30), <1>i, <1>1 DEF PlanFull, PlanShape
<1>4. Current \in 1..graph.n
  BY ZenonT(30), <1>i, <1>1, <1>2, <1>3 DEF PlanShape, Current
<1>5. Current \in Slots
  BY <1>3, <1>4, CapacityAssumption DEF Slots
<1>6. Level = at - 1
  BY ZenonT(30) DEF Level
<1>7. ASSUME NEW k \in 1..Len(activation_order), activation_order[k] = Current
      PROVE  k = at
  <2>1. k \in Int /\ at \in Int /\ at \in 1..Len(activation_order)
    BY <1>2, <1>3
  <2>2. CASE k < at
    BY <1>i, <1>7, <2>1, <2>2 DEF OrderShape, Current
  <2>3. CASE at < k
    BY <1>i, <1>7, <2>1, <2>3 DEF OrderShape, Current
  <2> QED BY <2>1, <2>2, <2>3
<1>8. ~instances[Current].active
  <2>1. ASSUME NEW k \in 1..(at - 1), Current = activation_order[k] PROVE FALSE
    <3>1. k \in 1..Len(activation_order) /\ k # at
      BY <1>2, <1>3
    <3> QED BY ZenonT(30), <1>7, <2>1, <3>1
  <2> QED BY ZenonT(30), <1>i, <1>5, <1>6, <2>1 DEF UpShape
<1> QED BY ZenonT(30), <1>1, <1>2, <1>3, <1>4, <1>5, <1>6, <1>7, <1>8

\* A step that touches no instance record.
LEMMA QuietKeeps ==
    ASSUME IInv, graph # NoInput, state' # "READY",
           UNCHANGED <<graph, activation_order, instances, created, released, activated,
                       deactivated>>,
           Level' = Level, pc \notin {"activate", "provide"}, pc' \notin {"activate", "provide"}
    PROVE  UpShape' /\ Books'
<1>i. UpShape /\ Books
  BY ZenonT(30) DEF IInv
<1>u. /\ graph' = graph /\ activation_order' = activation_order /\ instances' = instances
      /\ created' = created /\ released' = released /\ activated' = activated
      /\ deactivated' = deactivated
  BY ZenonT(30)
<1>1. \A c \in Slots : ~Pending(c) /\ ~Pending(c)'
  BY ZenonT(30) DEF Pending
<1>2. \A c \in Slots : Hooked(c)' <=> Hooked(c)
  <2>1. pc # "provide" /\ pc' # "provide"
    BY ZenonT(30)
  <2> QED BY ZenonT(30), <1>u, <2>1 DEF Hooked
<1>3. UpShape'
  <2>1. \A c \in Slots : instances[c].active <=> \E k \in 1..Level' : c = activation_order[k]
    BY ZenonT(30), <1>i DEF UpShape
  <2>2. \A c \in Slots : instances[c].object = "LIVE" <=> instances[c].active
    BY ZenonT(30), <1>i, <1>1 DEF UpShape
  <2> QED BY ZenonT(30), <1>u, <1>1, <2>1, <2>2 DEF UpShape
<1>4. Books'
  BY ZenonT(30), <1>i, <1>u, <1>2 DEF Books
<1> QED BY ZenonT(30), <1>3, <1>4

\* Component c is let go of, and no other is touched.
LetGo(c) ==
    /\ instances' \in [Slots -> [active : BOOLEAN, object : Objects]]
    /\ ~instances'[c].active /\ instances'[c].object # "LIVE"
    /\ \A d \in Slots \ {c} : instances'[d] = instances[d]

LEMMA ReleaseLetsGo ==
    ASSUME TypeOK, NEW c \in Slots, Release(c)
    PROVE  /\ LetGo(c) /\ released' \in [Slots -> Nat]
           /\ released'[c] = released[c] + 1
           /\ \A d \in Slots \ {c} : released'[d] = released[d]
<1>1. PICK left \in {"EMPTY", "MALFORMED"} :
        instances' = [instances EXCEPT ![c] = [active |-> FALSE, object |-> left]]
  BY ZenonT(30) DEF Release
<1>2. left \in Objects /\ left # "LIVE"
  BY DEF Objects
<1>3. LetGo(c)
  BY <1>1, <1>2 DEF LetGo, TypeOK
<1>4. released' = [released EXCEPT ![c] = @ + 1]
  BY ZenonT(30) DEF Release
<1>5. /\ released' \in [Slots -> Nat] /\ released'[c] = released[c] + 1
      /\ \A d \in Slots \ {c} : released'[d] = released[d]
  BY <1>4 DEF TypeOK
<1> QED BY ZenonT(30), <1>3, <1>5

\* A step that lets go of component C, on the way down.
LEMMA LoweredKeeps ==
    ASSUME IInv, state' # "READY", graph # NoInput,
           UNCHANGED <<graph, activation_order>>,
           NEW C \in Slots, LetGo(C),
           pc \in {"activate", "provide"} => C = Current,
           pc' \in Undoing, at' \in Nat,
           \A k \in 1..at' : activation_order[k] # C,
           \A c \in Slots \ {C} : (\E k \in 1..Level : c = activation_order[k])
                                   <=> (\E k \in 1..at' : c = activation_order[k]),
           created'[C] = released'[C], activated'[C] = deactivated'[C],
           created'[C] \in Nat, activated'[C] \in Nat,
           \A c \in Slots \ {C} : /\ created'[c] = created[c] /\ released'[c] = released[c]
                                  /\ activated'[c] = activated[c]
                                  /\ deactivated'[c] = deactivated[c]
    PROVE  UpShape' /\ Books'
<1>i. UpShape /\ Books /\ TypeOK
  BY ZenonT(30) DEF IInv
<1>u. graph' = graph /\ activation_order' = activation_order
  BY ZenonT(30)
<1>s. /\ ~instances'[C].active /\ instances'[C].object # "LIVE"
      /\ \A c \in Slots \ {C} : instances'[c] = instances[c]
  BY ZenonT(30) DEF LetGo
<1>p. /\ pc' \notin {"activate", "provide"} /\ pc' # "provide" /\ Level' = at'
  BY ZenonT(30) DEF Undoing, Starting, Level
<1>1. \A c \in Slots : ~Pending(c)'
  BY ZenonT(30), <1>p DEF Pending
<1>2. \A c \in Slots \ {C} : ~Pending(c)
  BY ZenonT(30) DEF Pending
<1>3. \A c \in Slots \ {C} : Hooked(c)' <=> Hooked(c)
  BY ZenonT(30), <1>u, <1>s, <1>p DEF Hooked
<1>4. ~Hooked(C)'
  BY ZenonT(30), <1>s, <1>p DEF Hooked
<1>5. UpShape'
  <2>1. ASSUME NEW c \in Slots
        PROVE  /\ instances'[c].active <=> \E k \in 1..at' : c = activation_order[k]
               /\ instances'[c].object = "LIVE" <=> instances'[c].active
    <3>1. CASE c = C
      BY ZenonT(30), <1>s, <3>1
    <3>2. CASE c # C
      <4>1. /\ instances[c].active <=> \E k \in 1..Level : c = activation_order[k]
            /\ instances[c].object = "LIVE" <=> instances[c].active
        BY ZenonT(30), <1>i, <1>2, <3>2 DEF UpShape
      <4>2. c \in Slots \ {C}
        BY ZenonT(30), <3>2
      <4>3. instances'[c] = instances[c]
        BY ZenonT(30), <1>s, <4>2
      <4>4. (\E k \in 1..Level : c = activation_order[k])
              <=> (\E k \in 1..at' : c = activation_order[k])
        BY ZenonT(30), <4>2
      <4> QED BY ZenonT(30), <4>1, <4>3, <4>4
    <3> QED BY ZenonT(30), <3>1, <3>2
  <2>2. \A c \in Slots :
          instances'[c].active <=> \E k \in 1..Level' : c = activation_order'[k]
    BY <1>u, <1>p, <2>1
  <2>3. \A c \in Slots : instances'[c].object = "LIVE" <=> instances'[c].active \/ Pending(c)'
    BY ZenonT(30), <1>1, <2>1
  <2>4. ~(graph' = NoInput \/ state' = "READY")
    BY ZenonT(30), <1>u
  <2> QED BY ZenonT(30), <2>2, <2>3, <2>4 DEF UpShape
<1>6. Books'
  <2>1. ASSUME NEW c \in Slots
        PROVE  /\ created'[c] = released'[c] + (IF instances'[c].object = "LIVE" THEN 1 ELSE 0)
               /\ activated'[c] = deactivated'[c] + (IF Hooked(c)' THEN 1 ELSE 0)
    <3>1. CASE c = C
      BY <1>s, <1>4, <3>1
    <3>2. CASE c # C
      <4>1. c \in Slots \ {C}
        BY ZenonT(30), <3>2
      <4>2. /\ created[c] = released[c] + (IF instances[c].object = "LIVE" THEN 1 ELSE 0)
            /\ activated[c] = deactivated[c] + (IF Hooked(c) THEN 1 ELSE 0)
        BY ZenonT(30), <1>i DEF Books
      <4> QED BY ZenonT(30), <1>s, <1>3, <4>1, <4>2
    <3> QED BY ZenonT(30), <3>1, <3>2
  <2> QED BY ZenonT(30), <2>1 DEF Books
<1> QED BY ZenonT(30), <1>5, <1>6

-----------------------------------------------------------------------------
(* context_start.                                                             *)

LEMMA ContextStartStep == ASSUME IInv, ContextStart PROVE IInv'
<1>i. TypeOK /\ PlanShape /\ CallShape
  BY ZenonT(30) DEF IInv
<1>u. /\ state' = state /\ state = "RESOLVED" /\ pc = "idle" /\ pc' = "project" /\ at' = 1
      /\ UNCHANGED <<state, graphVars, input>> /\ activation_count' = activation_count
      /\ UNCHANGED <<graph, activation_order, instances, created, released, activated, deactivated>>
  BY ZenonT(30) DEF ContextStart, graphVars, ghostVars
<1>1. TypeOK'
  BY <1>i, <1>u DEF TypeOK, PCs, Starting
<1>2. Attached' /\ PlanShape' /\ PlanFull' /\ OrderShape' /\ CycleShape'
  <2>1. state \in {"RESOLVED", "ACTIVE"} /\ pc' # "order" /\ pc' # "rollback"
    BY <1>u
  <2> QED BY ZenonT(30), <1>u, <2>1, PlanKept
<1>3. CallShape'
  BY <1>i, <1>u DEF CallShape, TypeOK, Starting, Undoing
<1>4. UpShape' /\ Books'
  <2>1. graph # NoInput
    BY <1>i, <1>u DEF PlanShape
  <2>2. Level' = Level
    BY <1>u DEF Level, Starting, Undoing
  <2>3. state' # "READY" /\ pc \notin {"activate", "provide"} /\ pc' \notin {"activate", "provide"}
    BY <1>u
  <2> QED BY ZenonT(30), <1>u, <2>1, <2>2, <2>3, QuietKeeps
<1> QED BY ZenonT(30), <1>1, <1>2, <1>3, <1>4 DEF IInv

LEMMA StartProjectStep == ASSUME IInv, StartProject PROVE IInv'
<1>i. TypeOK /\ CallShape
  BY ZenonT(30) DEF IInv
<1>u. /\ state' = state /\ pc = "project" /\ at <= activation_count
      /\ UNCHANGED <<state, graphVars, input>> /\ activation_count' = activation_count
      /\ UNCHANGED <<graph, activation_order, instances, created, released, activated, deactivated>>
  BY ZenonT(30) DEF StartProject, graphVars, ghostVars
<1>c. /\ state = "RESOLVED" /\ graph # NoInput
      /\ at \in 1..activation_count /\ Level = at - 1
  BY <1>u, CurrentShape DEF Starting
<1>a. \/ pc' = "create" /\ at' = at
      \/ pc' = "rollback" /\ at' = at - 1 /\ failure' = "INTERFACE_UNAVAILABLE"
  BY ZenonT(30) DEF StartProject, Abort
<1>1. TypeOK'
  BY <1>i, <1>u, <1>c, <1>a DEF TypeOK, PCs, Starting, Undoing
<1>2. Attached' /\ PlanShape' /\ PlanFull' /\ OrderShape' /\ CycleShape'
  <2>1. /\ state \in {"RESOLVED", "ACTIVE"} /\ pc' # "order"
        /\ pc' = "rollback" => failure' # "DEPENDENCY_CYCLE"
    BY <1>c, <1>a
  <2> QED BY ZenonT(30), <1>u, <2>1, PlanKept
<1>3. CallShape'
  BY <1>i, <1>u, <1>c, <1>a DEF CallShape, TypeOK, Starting, Undoing
<1>4. UpShape' /\ Books'
  <2>2. Level' = Level
    BY <1>u, <1>c, <1>a DEF Level, Starting, Undoing
  <2>3. state' # "READY" /\ pc \notin {"activate", "provide"} /\ pc' \notin {"activate", "provide"}
    BY <1>u, <1>c, <1>a
  <2> QED BY ZenonT(30), <1>u, <1>c, <2>2, <2>3, QuietKeeps
<1> QED BY ZenonT(30), <1>1, <1>2, <1>3, <1>4 DEF IInv

LEMMA StartCreatedStep == ASSUME IInv, StartCreated PROVE IInv'
<1> DEFINE C == Current
<1>i. TypeOK /\ CallShape /\ UpShape /\ Books
  BY ZenonT(30) DEF IInv
<1>u. /\ state' = state /\ pc = "create" /\ at' = at
      /\ UNCHANGED <<state, graphVars, input>> /\ activation_count' = activation_count
      /\ graph' = graph /\ activation_order' = activation_order
      /\ released' = released /\ activated' = activated /\ deactivated' = deactivated
      /\ instances' = [instances EXCEPT ![C].object = "LIVE"]
      /\ created' = [created EXCEPT ![C] = @ + 1]
      /\ pc' = IF graph.hooks[C] THEN "activate" ELSE "provide"
  BY ZenonT(30) DEF StartCreated, graphVars
<1>c. /\ state = "RESOLVED" /\ graph # NoInput /\ at <= activation_count
      /\ at \in 1..activation_count /\ Level = at - 1 /\ C \in Slots /\ ~instances[C].active
  <2>1. pc \in Starting /\ at <= activation_count
    BY <1>i, <1>u DEF CallShape, Starting
  <2> QED BY ZenonT(30), <2>1, CurrentShape
<1>d. Current' = C
  BY ZenonT(30), <1>u DEF Current
<1>a. /\ instances'[C].object = "LIVE" /\ instances'[C].active = instances[C].active
      /\ \A c \in Slots \ {C} : instances'[c] = instances[c] /\ created'[c] = created[c]
      /\ created'[C] = created[C] + 1
  BY <1>i, <1>u, <1>c DEF TypeOK
<1>p. /\ pc' \in {"activate", "provide"} /\ pc' \in Starting
      /\ pc' = "activate" => graph.hooks[C]
      /\ pc' = "provide" => ~graph.hooks[C]
  BY <1>u DEF Starting
<1> HIDE DEF C
<1>1. TypeOK'
  <2>1. instances' \in [Slots -> [active : BOOLEAN, object : Objects]]
    BY ZenonT(30), <1>i, <1>u, <1>c DEF TypeOK, Objects
  <2>2. created' \in [Slots -> Nat]
    BY <1>i, <1>u, <1>c DEF TypeOK
  <2> QED BY <1>i, <1>u, <1>c, <1>p, <2>1, <2>2 DEF TypeOK, PCs
<1>2. Attached' /\ PlanShape' /\ PlanFull' /\ OrderShape' /\ CycleShape'
  <2>1. state \in {"RESOLVED", "ACTIVE"} /\ pc' # "order" /\ pc' # "rollback"
    BY <1>c, <1>p
  <2> QED BY ZenonT(30), <1>u, <2>1, PlanKept
<1>3. CallShape'
  BY <1>i, <1>u, <1>c, <1>d, <1>p DEF CallShape, TypeOK, Starting, Undoing
<1>l. Level' = Level
  BY <1>u, <1>c, <1>p DEF Level
<1>4. UpShape'
  <2>1. \A c \in Slots : ~Pending(c)
    BY <1>u DEF Pending
  <2>2. \A c \in Slots : Pending(c)' <=> c = C
    BY ZenonT(30), <1>d, <1>p DEF Pending
  <2>3. ASSUME NEW c \in Slots
        PROVE  /\ instances'[c].active <=> instances[c].active
               /\ instances'[c].object = "LIVE" <=> instances'[c].active \/ c = C
    <3>1. CASE c = C
      BY ZenonT(30), <1>a, <3>1
    <3>2. CASE c # C
      BY ZenonT(30), <1>i, <1>a, <2>1, <3>2 DEF UpShape
    <3> QED BY ZenonT(30), <3>1, <3>2
  <2>4. \A c \in Slots : instances[c].active <=> \E k \in 1..Level : c = activation_order[k]
    BY ZenonT(30), <1>i DEF UpShape
  <2>5. ~(graph' = NoInput \/ state' = "READY")
    BY <1>u, <1>c
  <2> QED BY ZenonT(30), <1>u, <1>l, <2>2, <2>3, <2>4, <2>5 DEF UpShape
<1>5. Books'
  <2>1. ASSUME NEW c \in Slots PROVE Hooked(c)' <=> Hooked(c)
    <3>1. instances'[c].active <=> instances[c].active
      BY ZenonT(30), <1>a
    <3>2. ~(pc = "provide") /\ (pc' = "provide" /\ c = Current' => ~graph.hooks[c])
      BY <1>u, <1>d, <1>p
    <3> QED BY ZenonT(30), <1>u, <3>1, <3>2 DEF Hooked
  <2>2. ASSUME NEW c \in Slots
        PROVE  created'[c] = released'[c] + (IF instances'[c].object = "LIVE" THEN 1 ELSE 0)
    <3>1. CASE c = C
      <4>1. instances[C].object # "LIVE"
        BY <1>i, <1>u, <1>c DEF UpShape, Pending
      <4> QED BY <1>i, <1>u, <1>c, <1>a, <3>1, <4>1 DEF Books, TypeOK
    <3>2. CASE c # C
      BY ZenonT(30), <1>i, <1>u, <1>a, <3>2 DEF Books
    <3> QED BY ZenonT(30), <3>1, <3>2
  <2> QED BY ZenonT(30), <1>i, <1>u, <2>1, <2>2 DEF Books
<1> QED BY ZenonT(30), <1>1, <1>2, <1>3, <1>4, <1>5 DEF IInv

\* A start that fails at a component lets go of it and turns round.
LEMMA AbortKeeps ==
    ASSUME IInv, pc \in Starting \ {"project"}, UNCHANGED <<state, graphVars, input>>,
           NEW status, status # "DEPENDENCY_CYCLE", Abort(status),
           LetGo(Current),
           created' \in [Slots -> Nat], released' \in [Slots -> Nat],
           activated' \in [Slots -> Nat], deactivated' \in [Slots -> Nat],
           created'[Current] = released'[Current], activated'[Current] = deactivated'[Current],
           \A c \in Slots \ {Current} :
               /\ created'[c] = created[c] /\ released'[c] = released[c]
               /\ activated'[c] = activated[c] /\ deactivated'[c] = deactivated[c]
    PROVE  IInv'
<1> DEFINE C == Current
<1>i. TypeOK /\ CallShape
  BY ZenonT(30) DEF IInv
<1>u. /\ state' = state /\ activation_count' = activation_count /\ graph' = graph
      /\ activation_order' = activation_order
      /\ pc' = "rollback" /\ at' = at - 1 /\ failure' = status
  BY ZenonT(30) DEF Abort, graphVars
<1>c. /\ state = "RESOLVED" /\ graph # NoInput
      /\ at \in 1..activation_count /\ activation_count = Len(activation_order)
      /\ Level = at - 1 /\ C \in Slots
      /\ \A k \in 1..Len(activation_order) : activation_order[k] = C => k = at
  <2>1. pc \in Starting /\ at <= activation_count
    BY <1>i DEF CallShape, Starting
  <2> QED BY ZenonT(30), <2>1, CurrentShape
<1> HIDE DEF C
<1>1. TypeOK'
  <2>1. instances' \in [Slots -> [active : BOOLEAN, object : Objects]]
    BY ZenonT(30) DEF LetGo
  <2>2. pc' \in PCs /\ at' \in Nat
    BY <1>u, <1>c DEF PCs, Undoing
  <2> QED BY ZenonT(30), <1>i, <1>u, <2>1, <2>2 DEF TypeOK
<1>2. Attached' /\ PlanShape' /\ PlanFull' /\ OrderShape' /\ CycleShape'
  <2>1. state \in {"RESOLVED", "ACTIVE"} /\ pc' # "order" /\ failure' # "DEPENDENCY_CYCLE"
    BY ZenonT(30), <1>c, <1>u
  <2> QED BY ZenonT(30), <2>1, PlanKept
<1>3. CallShape'
  BY <1>i, <1>u, <1>c DEF CallShape, TypeOK, Starting, Undoing
<1>4. UpShape' /\ Books'
  <2>1. state' # "READY" /\ pc' \in Undoing /\ at' \in Nat /\ at' = Level
    BY <1>u, <1>c DEF Undoing
  <2>2. \A k \in 1..at' : activation_order[k] # C
    BY <1>u, <1>c
  <2>3. \A c \in Slots \ {C} : (\E k \in 1..Level : c = activation_order[k])
                               <=> (\E k \in 1..at' : c = activation_order[k])
    BY ZenonT(30), <2>1
  <2>4. /\ created'[C] = released'[C] /\ activated'[C] = deactivated'[C]
        /\ created'[C] \in Nat /\ activated'[C] \in Nat
        /\ LetGo(C)
        /\ \A c \in Slots \ {C} :
              /\ created'[c] = created[c] /\ released'[c] = released[c]
              /\ activated'[c] = activated[c] /\ deactivated'[c] = deactivated[c]
        /\ pc \in {"activate", "provide"} => C = Current
        /\ UNCHANGED <<graph, activation_order>>
    BY <1>c, <1>u DEF C
  <2> QED BY ZenonT(30), <1>c, <2>1, <2>2, <2>3, <2>4, LoweredKeeps
<1> QED BY ZenonT(30), <1>1, <1>2, <1>3, <1>4 DEF IInv

\* What the ledgers say of the component a start is at.
LEMMA CurrentBooks ==
    ASSUME IInv, pc \in Starting \ {"project"}
    PROVE  /\ Current \in Slots /\ ~instances[Current].active
           /\ graph # NoInput /\ Current \in 1..graph.n
           /\ created[Current] \in Nat /\ released[Current] \in Nat
           /\ activated[Current] \in Nat /\ deactivated[Current] \in Nat
           /\ created[Current] = released[Current] + (IF pc = "create" THEN 0 ELSE 1)
           /\ activated[Current] = deactivated[Current]
                 + (IF pc = "provide" /\ graph.hooks[Current] THEN 1 ELSE 0)
<1> DEFINE C == Current
<1>i. TypeOK /\ CallShape /\ UpShape /\ Books
  BY ZenonT(30) DEF IInv
<1>1. pc \in Starting /\ at <= activation_count
  BY <1>i DEF CallShape, Starting
<1>2. C \in Slots /\ ~instances[C].active /\ graph # NoInput /\ C \in 1..graph.n
  BY ZenonT(30), <1>1, CurrentShape
<1>3. /\ created[C] \in Nat /\ released[C] \in Nat
      /\ activated[C] \in Nat /\ deactivated[C] \in Nat
  BY <1>i, <1>2 DEF TypeOK
<1>4. Pending(C) <=> pc # "create"
  BY DEF Pending, Starting
<1>5. instances[C].object = "LIVE" <=> pc # "create"
  BY ZenonT(30), <1>i, <1>2, <1>4 DEF UpShape
<1>6. Hooked(C) <=> pc = "provide" /\ graph.hooks[C]
  BY ZenonT(30), <1>2 DEF Hooked
<1>7. /\ created[C] = released[C] + (IF instances[C].object = "LIVE" THEN 1 ELSE 0)
      /\ activated[C] = deactivated[C] + (IF Hooked(C) THEN 1 ELSE 0)
  BY ZenonT(30), <1>i, <1>2 DEF Books
<1> HIDE DEF C
<1>8. created[C] = released[C] + (IF pc = "create" THEN 0 ELSE 1)
  BY <1>5, <1>7
<1>9. activated[C] = deactivated[C] + (IF pc = "provide" /\ graph.hooks[C] THEN 1 ELSE 0)
  BY <1>6, <1>7
<1> QED BY ZenonT(30), <1>2, <1>3, <1>8, <1>9 DEF C

LEMMA StartCreateFailedOwningStep == ASSUME IInv, StartCreateFailedOwning PROVE IInv'
<1>i. TypeOK
  BY ZenonT(30) DEF IInv
<1>u. /\ pc = "create" /\ UNCHANGED <<state, graphVars, input>> /\ Abort("CREATE_FAILED")
      /\ created' = [created EXCEPT ![Current] = @ + 1] /\ Release(Current)
      /\ activated' = activated /\ deactivated' = deactivated
  BY ZenonT(30) DEF StartCreateFailedOwning
<1>p. pc \in Starting \ {"project"} /\ "CREATE_FAILED" # "DEPENDENCY_CYCLE"
  BY <1>u DEF Starting
<1>c. /\ Current \in Slots /\ created[Current] \in Nat /\ released[Current] \in Nat
      /\ created[Current] = released[Current] + (IF pc = "create" THEN 0 ELSE 1)
      /\ activated[Current] = deactivated[Current]
           + (IF pc = "provide" /\ graph.hooks[Current] THEN 1 ELSE 0)
      /\ activated[Current] \in Nat /\ deactivated[Current] \in Nat
  BY ZenonT(30), <1>p, CurrentBooks
<1>r. /\ LetGo(Current) /\ released' \in [Slots -> Nat]
      /\ released'[Current] = released[Current] + 1
      /\ \A d \in Slots \ {Current} : released'[d] = released[d]
  BY ZenonT(30), <1>i, <1>u, <1>c, ReleaseLetsGo
<1>1. /\ created' \in [Slots -> Nat] /\ created'[Current] = created[Current] + 1
      /\ \A d \in Slots \ {Current} : created'[d] = created[d]
  BY <1>i, <1>u, <1>c DEF TypeOK
<1>2. created'[Current] = released'[Current] /\ activated'[Current] = deactivated'[Current]
  BY <1>r, <1>1, <1>u, <1>c
<1>3. activated' \in [Slots -> Nat] /\ deactivated' \in [Slots -> Nat]
  BY ZenonT(30), <1>i, <1>u DEF TypeOK
<1>4. \A c \in Slots \ {Current} :
        /\ created'[c] = created[c] /\ released'[c] = released[c]
        /\ activated'[c] = activated[c] /\ deactivated'[c] = deactivated[c]
  BY ZenonT(30), <1>r, <1>1, <1>u
<1> QED BY ZenonT(30), <1>u, <1>p, <1>r, <1>1, <1>2, <1>3, <1>4, AbortKeeps

LEMMA StartCreateFailedStep == ASSUME IInv, StartCreateFailed PROVE IInv'
<1>i. TypeOK
  BY ZenonT(30) DEF IInv
<1>u. /\ pc = "create" /\ UNCHANGED <<state, graphVars, input>> /\ Abort("CREATE_FAILED")
      /\ created' = created /\ released' = released
      /\ activated' = activated /\ deactivated' = deactivated
  BY ZenonT(30) DEF StartCreateFailed, ghostVars
<1>p. pc \in Starting \ {"project"} /\ "CREATE_FAILED" # "DEPENDENCY_CYCLE"
  BY <1>u DEF Starting
<1>c. /\ Current \in Slots /\ ~instances[Current].active
      /\ created[Current] \in Nat /\ released[Current] \in Nat
      /\ created[Current] = released[Current] + (IF pc = "create" THEN 0 ELSE 1)
      /\ activated[Current] = deactivated[Current]
           + (IF pc = "provide" /\ graph.hooks[Current] THEN 1 ELSE 0)
      /\ activated[Current] \in Nat /\ deactivated[Current] \in Nat
  BY ZenonT(30), <1>p, CurrentBooks
<1>2. created'[Current] = released'[Current] /\ activated'[Current] = deactivated'[Current]
  BY <1>u, <1>c
<1>3. /\ created' \in [Slots -> Nat] /\ released' \in [Slots -> Nat]
      /\ activated' \in [Slots -> Nat] /\ deactivated' \in [Slots -> Nat]
      /\ \A c \in Slots \ {Current} :
            /\ created'[c] = created[c] /\ released'[c] = released[c]
            /\ activated'[c] = activated[c] /\ deactivated'[c] = deactivated[c]
  BY ZenonT(30), <1>i, <1>u DEF TypeOK
<1>4. PICK left \in {"EMPTY", "MALFORMED"} :
        instances' = [instances EXCEPT ![Current].object = left]
  BY ZenonT(30) DEF StartCreateFailed
<1>5. left \in Objects /\ left # "LIVE"
  BY DEF Objects
<1>6. LetGo(Current)
  BY ZenonT(30), <1>i, <1>c, <1>4, <1>5 DEF TypeOK, LetGo
<1> QED BY ZenonT(30), <1>u, <1>p, <1>2, <1>3, <1>6, AbortKeeps

LEMMA StartActivateFailedStep == ASSUME IInv, StartActivateFailed PROVE IInv'
<1>i. TypeOK
  BY ZenonT(30) DEF IInv
<1>u. /\ pc = "activate" /\ UNCHANGED <<state, graphVars, input>> /\ Abort("ACTIVATE_FAILED")
      /\ Release(Current) /\ created' = created
      /\ activated' = activated /\ deactivated' = deactivated
  BY ZenonT(30) DEF StartActivateFailed
<1>p. pc \in Starting \ {"project"} /\ "ACTIVATE_FAILED" # "DEPENDENCY_CYCLE"
  BY <1>u DEF Starting
<1>c. /\ Current \in Slots /\ created[Current] \in Nat /\ released[Current] \in Nat
      /\ created[Current] = released[Current] + (IF pc = "create" THEN 0 ELSE 1)
      /\ activated[Current] = deactivated[Current]
           + (IF pc = "provide" /\ graph.hooks[Current] THEN 1 ELSE 0)
      /\ activated[Current] \in Nat /\ deactivated[Current] \in Nat
  BY ZenonT(30), <1>p, CurrentBooks
<1>r. /\ LetGo(Current) /\ released' \in [Slots -> Nat]
      /\ released'[Current] = released[Current] + 1
      /\ \A d \in Slots \ {Current} : released'[d] = released[d]
  BY ZenonT(30), <1>i, <1>u, <1>c, ReleaseLetsGo
<1>2. created'[Current] = released'[Current] /\ activated'[Current] = deactivated'[Current]
  BY <1>r, <1>u, <1>c
<1>3. /\ created' \in [Slots -> Nat]
      /\ activated' \in [Slots -> Nat] /\ deactivated' \in [Slots -> Nat]
  BY ZenonT(30), <1>i, <1>u DEF TypeOK
<1>4. \A c \in Slots \ {Current} :
        /\ created'[c] = created[c] /\ released'[c] = released[c]
        /\ activated'[c] = activated[c] /\ deactivated'[c] = deactivated[c]
  BY ZenonT(30), <1>r, <1>u
<1> QED BY ZenonT(30), <1>u, <1>p, <1>r, <1>2, <1>3, <1>4, AbortKeeps

\* The deactivate hook runs for a component that has the pair.
LEMMA DeactivateBooks ==
    ASSUME TypeOK, NEW c \in Slots, Deactivate(c)
    PROVE  /\ deactivated' \in [Slots -> Nat]
           /\ deactivated'[c] = deactivated[c] + (IF graph.hooks[c] THEN 1 ELSE 0)
           /\ \A d \in Slots \ {c} : deactivated'[d] = deactivated[d]
<1>1. CASE graph.hooks[c]
  <2>1. deactivated' = [deactivated EXCEPT ![c] = @ + 1]
    BY ZenonT(30), <1>1 DEF Deactivate
  <2> QED BY <1>1, <2>1 DEF TypeOK
<1>2. CASE ~graph.hooks[c]
  <2>1. deactivated' = deactivated
    BY ZenonT(30), <1>2 DEF Deactivate
  <2> QED BY <1>2, <2>1 DEF TypeOK
<1> QED BY ZenonT(30), <1>1, <1>2

LEMMA StartProvideFailedStep == ASSUME IInv, StartProvideFailed PROVE IInv'
<1>i. TypeOK
  BY ZenonT(30) DEF IInv
<1>u. /\ pc = "provide" /\ UNCHANGED <<state, graphVars, input>>
      /\ Abort("INTERFACE_UNAVAILABLE") /\ Release(Current) /\ Deactivate(Current)
      /\ created' = created /\ activated' = activated
  BY ZenonT(30) DEF StartProvideFailed
<1>p. pc \in Starting \ {"project"} /\ "INTERFACE_UNAVAILABLE" # "DEPENDENCY_CYCLE"
  BY <1>u DEF Starting
<1>c. /\ Current \in Slots /\ created[Current] \in Nat /\ released[Current] \in Nat
      /\ created[Current] = released[Current] + (IF pc = "create" THEN 0 ELSE 1)
      /\ activated[Current] = deactivated[Current]
           + (IF pc = "provide" /\ graph.hooks[Current] THEN 1 ELSE 0)
      /\ activated[Current] \in Nat /\ deactivated[Current] \in Nat
  BY ZenonT(30), <1>p, CurrentBooks
<1>r. /\ LetGo(Current) /\ released' \in [Slots -> Nat]
      /\ released'[Current] = released[Current] + 1
      /\ \A d \in Slots \ {Current} : released'[d] = released[d]
  BY ZenonT(30), <1>i, <1>u, <1>c, ReleaseLetsGo
<1>d. /\ deactivated' \in [Slots -> Nat]
      /\ deactivated'[Current] = deactivated[Current] + (IF graph.hooks[Current] THEN 1 ELSE 0)
      /\ \A d \in Slots \ {Current} : deactivated'[d] = deactivated[d]
  BY ZenonT(30), <1>i, <1>u, <1>c, DeactivateBooks
<1>2. created'[Current] = released'[Current] /\ activated'[Current] = deactivated'[Current]
  BY <1>r, <1>d, <1>u, <1>c
<1>3. created' \in [Slots -> Nat] /\ activated' \in [Slots -> Nat]
  BY ZenonT(30), <1>i, <1>u DEF TypeOK
<1>4. \A c \in Slots \ {Current} :
        /\ created'[c] = created[c] /\ released'[c] = released[c]
        /\ activated'[c] = activated[c] /\ deactivated'[c] = deactivated[c]
  BY ZenonT(30), <1>r, <1>d, <1>u
<1> QED BY ZenonT(30), <1>u, <1>p, <1>r, <1>d, <1>2, <1>3, <1>4, AbortKeeps

LEMMA StartActivatedStep == ASSUME IInv, StartActivated PROVE IInv'
<1> DEFINE C == Current
<1>i. TypeOK /\ CallShape /\ UpShape /\ Books
  BY ZenonT(30) DEF IInv
<1>u. /\ state' = state /\ pc = "activate" /\ pc' = "provide" /\ at' = at
      /\ UNCHANGED <<state, graphVars, input>> /\ activation_count' = activation_count
      /\ graph' = graph /\ activation_order' = activation_order /\ instances' = instances
      /\ released' = released /\ created' = created /\ deactivated' = deactivated
      /\ activated' = [activated EXCEPT ![C] = @ + 1]
  BY ZenonT(30) DEF StartActivated, graphVars
<1>p. pc \in Starting \ {"project"} /\ pc \in Starting /\ pc' \in Starting
  BY <1>u DEF Starting
<1>c. /\ C \in Slots /\ ~instances[C].active /\ graph # NoInput /\ C \in 1..graph.n
      /\ activated[C] = deactivated[C]
           + (IF pc = "provide" /\ graph.hooks[C] THEN 1 ELSE 0)
      /\ activated[C] \in Nat /\ deactivated[C] \in Nat
  BY ZenonT(30), <1>p, CurrentBooks
<1>d. Current' = C /\ graph.hooks[C] /\ at <= activation_count /\ state = "RESOLVED"
  BY <1>u, <1>i DEF Current, CallShape, Starting
<1> HIDE DEF C
<1>a. /\ activated' \in [Slots -> Nat] /\ activated'[C] = activated[C] + 1
      /\ \A c \in Slots \ {C} : activated'[c] = activated[c]
  BY <1>i, <1>u, <1>c DEF TypeOK
<1>1. TypeOK'
  <2>1. pc' \in PCs
    BY <1>u DEF PCs, Starting
  <2> QED BY ZenonT(30), <1>i, <1>u, <1>a, <2>1 DEF TypeOK
<1>2. Attached' /\ PlanShape' /\ PlanFull' /\ OrderShape' /\ CycleShape'
  <2>1. state \in {"RESOLVED", "ACTIVE"} /\ pc' # "order" /\ pc' # "rollback"
    BY <1>u, <1>d
  <2> QED BY ZenonT(30), <1>u, <2>1, PlanKept
<1>3. CallShape'
  BY <1>i, <1>u, <1>d DEF CallShape, TypeOK, Starting, Undoing
<1>l. Level' = Level
  BY ZenonT(30), <1>u, <1>p DEF Level
<1>4. UpShape'
  <2>1. \A c \in Slots : Pending(c)' <=> Pending(c)
    <3>1. pc \in {"activate", "provide"} /\ pc' \in {"activate", "provide"}
      BY <1>u
    <3> QED BY ZenonT(30), <1>d, <3>1 DEF Pending, C
  <2> QED BY ZenonT(30), <1>i, <1>u, <1>l, <2>1 DEF UpShape
<1>5. Books'
  <2>1. \A c \in Slots : Hooked(c)' <=> Hooked(c) \/ c = C
    <3>1. pc # "provide"
      BY <1>u
    <3> QED BY ZenonT(30), <1>u, <1>c, <1>d, <3>1 DEF Hooked
  <2>2. ASSUME NEW c \in Slots
        PROVE  activated'[c] = deactivated'[c] + (IF Hooked(c)' THEN 1 ELSE 0)
    <3>1. CASE c = C
      BY <1>u, <1>c, <1>a, <2>1, <3>1
    <3>2. CASE c # C
      <4>1. c \in Slots \ {C}
        BY ZenonT(30), <3>2
      <4>2. activated[c] = deactivated[c] + (IF Hooked(c) THEN 1 ELSE 0)
        BY ZenonT(30), <1>i DEF Books
      <4> QED BY ZenonT(30), <1>u, <1>a, <2>1, <3>2, <4>1, <4>2
    <3> QED BY ZenonT(30), <3>1, <3>2
  <2> QED BY ZenonT(30), <1>i, <1>u, <2>2 DEF Books
<1> QED BY ZenonT(30), <1>1, <1>2, <1>3, <1>4, <1>5 DEF IInv

LEMMA StartProvidedStep == ASSUME IInv, StartProvided PROVE IInv'
<1> DEFINE C == Current
<1>i. TypeOK /\ CallShape /\ UpShape /\ Books
  BY ZenonT(30) DEF IInv
<1>u. /\ state' = state /\ pc = "provide" /\ pc' = "project" /\ at' = at + 1
      /\ UNCHANGED <<state, graphVars, input>> /\ activation_count' = activation_count
      /\ graph' = graph /\ activation_order' = activation_order
      /\ instances' = [instances EXCEPT ![C].active = TRUE]
      /\ released' = released /\ created' = created /\ deactivated' = deactivated
      /\ activated' = activated
  BY ZenonT(30) DEF StartProvided, graphVars, ghostVars
<1>c. /\ state = "RESOLVED" /\ graph # NoInput /\ at <= activation_count
      /\ at \in 1..activation_count /\ Level = at - 1 /\ C \in Slots
      /\ ~instances[C].active /\ C \in 1..graph.n /\ C = activation_order[at]
  <2>1. pc \in Starting /\ at <= activation_count
    BY <1>i, <1>u DEF CallShape, Starting
  <2> QED BY ZenonT(30), <2>1, CurrentShape DEF Current
<1>d. \A c \in Slots : Pending(c) <=> c = C
  <2>1. pc \in {"activate", "provide"}
    BY <1>u
  <2> QED BY ZenonT(30), <2>1 DEF Pending
<1>h. \A c \in Slots :
        Hooked(c) <=> c \in 1..graph.n /\ graph.hooks[c] /\ (instances[c].active \/ c = C)
  BY ZenonT(30), <1>u, <1>c DEF Hooked
<1> HIDE DEF C
<1>a. /\ instances' \in [Slots -> [active : BOOLEAN, object : Objects]]
      /\ instances'[C].active /\ instances'[C].object = instances[C].object
      /\ \A c \in Slots \ {C} : instances'[c] = instances[c]
  BY ZenonT(30), <1>i, <1>u, <1>c DEF TypeOK
<1>b. /\ \A c \in Slots : instances'[c].active <=> instances[c].active \/ c = C
      /\ \A c \in Slots : instances'[c].object = instances[c].object
  BY ZenonT(30), <1>a
<1>p. pc' \notin {"activate", "provide"} /\ pc' # "provide" /\ pc' \in Starting
  BY <1>u DEF Starting
<1>1. TypeOK'
  <2>1. pc' \in PCs /\ at' \in Nat
    BY <1>u, <1>i DEF TypeOK, PCs, Starting
  <2> QED BY ZenonT(30), <1>i, <1>u, <1>a, <2>1 DEF TypeOK
<1>2. Attached' /\ PlanShape' /\ PlanFull' /\ OrderShape' /\ CycleShape'
  <2>1. state \in {"RESOLVED", "ACTIVE"} /\ pc' # "order" /\ pc' # "rollback"
    BY <1>u, <1>c
  <2> QED BY ZenonT(30), <1>u, <2>1, PlanKept
<1>3. CallShape'
  BY <1>u, <1>c, <1>i DEF CallShape, TypeOK, Starting, Undoing
<1>4. UpShape'
  <2>1. Level' = at
    BY <1>u, <1>c, <1>p, <1>i DEF Level, TypeOK
  <2>2. ASSUME NEW c \in Slots
        PROVE  (\E k \in 1..at : c = activation_order[k])
                 <=> (\E k \in 1..(at - 1) : c = activation_order[k]) \/ c = C
    BY <1>c
  <2>3. \A c \in Slots : instances'[c].active <=> \E k \in 1..at : c = activation_order[k]
    BY ZenonT(30), <1>i, <1>b, <1>c, <2>2 DEF UpShape
  <2>4. \A c \in Slots : instances'[c].object = "LIVE" <=> instances'[c].active
    BY ZenonT(30), <1>i, <1>b, <1>d DEF UpShape
  <2>5. \A c \in Slots : ~Pending(c)'
    BY ZenonT(30), <1>p DEF Pending
  <2>6. ~(graph' = NoInput \/ state' = "READY")
    BY <1>u, <1>c
  <2> QED BY ZenonT(30), <1>u, <2>1, <2>3, <2>4, <2>5, <2>6 DEF UpShape
<1>5. Books'
  <2>1. \A c \in Slots : Hooked(c)' <=> Hooked(c)
    BY ZenonT(30), <1>u, <1>b, <1>c, <1>h, <1>p DEF Hooked
  <2> QED BY ZenonT(30), <1>i, <1>u, <1>b, <2>1 DEF Books
<1> QED BY ZenonT(30), <1>1, <1>2, <1>3, <1>4, <1>5 DEF IInv

LEMMA StartDoneStep == ASSUME IInv, StartDone PROVE IInv'
<1>i. TypeOK /\ PlanShape /\ CallShape
  BY ZenonT(30) DEF IInv
<1>u. /\ state' = "ACTIVE" /\ pc = "project" /\ pc' = "idle" /\ at' = 0 /\ at > activation_count
      /\ UNCHANGED <<graphVars, input>> /\ activation_count' = activation_count
      /\ UNCHANGED <<graph, activation_order, instances, created, released, activated, deactivated>>
  BY ZenonT(30) DEF StartDone, graphVars, ghostVars
<1>c. state = "RESOLVED" /\ at = activation_count + 1 /\ activation_count \in Nat
  BY <1>i, <1>u DEF CallShape, TypeOK, Starting
<1>1. TypeOK'
  BY <1>i, <1>u DEF TypeOK, PCs, States
<1>2. Attached' /\ PlanShape' /\ PlanFull' /\ OrderShape' /\ CycleShape'
  <2>1. /\ state \in {"RESOLVED", "ACTIVE"} /\ state' \in {"RESOLVED", "ACTIVE"}
        /\ pc' # "order" /\ pc' # "rollback"
    BY <1>u, <1>c
  <2> QED BY ZenonT(30), <1>u, <2>1, PlanStays
<1>3. CallShape'
  BY <1>i, <1>u DEF CallShape, Starting, Undoing
<1>4. UpShape' /\ Books'
  <2>1. graph # NoInput
    BY <1>i, <1>c DEF PlanShape
  <2>2. Level' = Level
    BY <1>u, <1>c DEF Level, Starting, Undoing
  <2>3. state' # "READY" /\ pc \notin {"activate", "provide"} /\ pc' \notin {"activate", "provide"}
    BY <1>u
  <2> QED BY ZenonT(30), <1>u, <2>1, <2>2, <2>3, QuietKeeps
<1> QED BY ZenonT(30), <1>1, <1>2, <1>3, <1>4 DEF IInv

-----------------------------------------------------------------------------
(* Rollback and context_stop.                                                 *)

LEMMA ContextStopStep == ASSUME IInv, ContextStop PROVE IInv'
<1>i. TypeOK /\ PlanShape /\ CallShape
  BY ZenonT(30) DEF IInv
<1>u. /\ state' = state /\ state = "ACTIVE" /\ pc = "idle" /\ pc' = "stop"
      /\ at' = activation_count
      /\ UNCHANGED <<state, graphVars, input>> /\ activation_count' = activation_count
      /\ UNCHANGED <<graph, activation_order, instances, created, released, activated, deactivated>>
  BY ZenonT(30) DEF ContextStop, graphVars, ghostVars
<1>1. TypeOK'
  BY <1>i, <1>u DEF TypeOK, PCs, Undoing
<1>2. Attached' /\ PlanShape' /\ PlanFull' /\ OrderShape' /\ CycleShape'
  <2>1. state \in {"RESOLVED", "ACTIVE"} /\ pc' # "order" /\ pc' # "rollback"
    BY <1>u
  <2> QED BY ZenonT(30), <1>u, <2>1, PlanKept
<1>3. CallShape'
  BY <1>i, <1>u DEF CallShape, TypeOK, Starting, Undoing
<1>4. UpShape' /\ Books'
  <2>1. graph # NoInput
    BY <1>i, <1>u DEF PlanShape
  <2>2. Level' = Level
    BY <1>u DEF Level, Starting, Undoing
  <2>3. state' # "READY" /\ pc \notin {"activate", "provide"} /\ pc' \notin {"activate", "provide"}
    BY <1>u
  <2> QED BY ZenonT(30), <1>u, <2>1, <2>2, <2>3, QuietKeeps
<1> QED BY ZenonT(30), <1>1, <1>2, <1>3, <1>4 DEF IInv

\* The component an undo is at is up, and holds what it was given.
LEMMA TopShape ==
    ASSUME IInv, pc \in Undoing, at > 0
    PROVE  /\ state \in {"RESOLVED", "ACTIVE"} /\ graph # NoInput
           /\ at \in 1..activation_count /\ Level = at
           /\ activation_count = Len(activation_order)
           /\ Current \in Slots /\ Current = activation_order[at] /\ Current \in 1..graph.n
           /\ instances[Current].active
           /\ created[Current] = released[Current] + 1 /\ released[Current] \in Nat
           /\ activated[Current]
                = deactivated[Current] + (IF graph.hooks[Current] THEN 1 ELSE 0)
           /\ activated[Current] \in Nat /\ deactivated[Current] \in Nat
           /\ \A k \in 1..(at - 1) : activation_order[k] # Current
<1> DEFINE C == Current
<1>i. TypeOK /\ PlanShape /\ PlanFull /\ OrderShape /\ CallShape /\ UpShape /\ Books
  BY ZenonT(30) DEF IInv
<1>1. /\ state \in {"RESOLVED", "ACTIVE"} /\ graph # NoInput
      /\ pc \notin {"activate", "provide"} /\ pc # "provide"
  BY <1>i DEF CallShape, PlanShape, Undoing, Starting
<1>2. at \in 1..activation_count /\ activation_count \in Nat /\ at \in Nat /\ Level = at
  BY <1>i DEF CallShape, TypeOK, Level, Undoing, Starting
<1>3. activation_count = Len(activation_order) /\ graph.n \in Nat /\ graph.n <= Capacity
  BY ZenonT(30), <1>i, <1>1 DEF PlanFull, PlanShape
<1>4. C \in 1..graph.n /\ C = activation_order[at]
  BY ZenonT(30), <1>i, <1>1, <1>2, <1>3 DEF PlanShape, Current
<1>5. C \in Slots
  BY <1>3, <1>4, CapacityAssumption DEF Slots
<1>6. \A k \in 1..(at - 1) : activation_order[k] # C
  BY <1>i, <1>2, <1>3, <1>4 DEF OrderShape
<1> HIDE DEF C
<1>7. instances[C].active
  <2>1. \E k \in 1..Level : C = activation_order[k]
    BY <1>2, <1>4
  <2> QED BY ZenonT(30), <1>i, <1>5, <2>1 DEF UpShape
<1>8. instances[C].object = "LIVE"
  BY ZenonT(30), <1>i, <1>5, <1>7 DEF UpShape
<1>9. Hooked(C) <=> graph.hooks[C]
  BY ZenonT(30), <1>1, <1>4, <1>7 DEF Hooked
<1>10. /\ created[C] \in Nat /\ released[C] \in Nat
       /\ activated[C] \in Nat /\ deactivated[C] \in Nat
  BY <1>i, <1>5 DEF TypeOK
<1>11. /\ created[C] = released[C] + (IF instances[C].object = "LIVE" THEN 1 ELSE 0)
       /\ activated[C] = deactivated[C] + (IF Hooked(C) THEN 1 ELSE 0)
  BY ZenonT(30), <1>i, <1>5 DEF Books
<1>12. created[C] = released[C] + 1
  BY <1>8, <1>11
<1>13. activated[C] = deactivated[C] + (IF graph.hooks[C] THEN 1 ELSE 0)
  BY <1>9, <1>11
<1> QED BY ZenonT(30), <1>1, <1>2, <1>3, <1>4, <1>5, <1>6, <1>7, <1>10, <1>12, <1>13 DEF C

LEMMA UndoStep == ASSUME IInv, Undo PROVE IInv'
<1> DEFINE C == Current
<1>i. TypeOK /\ CallShape /\ CycleShape
  BY ZenonT(30) DEF IInv
<1>p. pc \in Undoing /\ at > 0 /\ pc' = pc /\ at' = at - 1
  BY ZenonT(30) DEF Undo, Undoing
<1>c. /\ state \in {"RESOLVED", "ACTIVE"} /\ graph # NoInput
      /\ at \in 1..activation_count /\ Level = at
      /\ C \in Slots /\ C = activation_order[at] /\ instances[C].active
      /\ created[C] = released[C] + 1 /\ released[C] \in Nat
      /\ activated[C] = deactivated[C] + (IF graph.hooks[C] THEN 1 ELSE 0)
      /\ activated[C] \in Nat /\ deactivated[C] \in Nat
      /\ \A k \in 1..(at - 1) : activation_order[k] # C
  BY ZenonT(30), <1>p, TopShape
<1>u. /\ UNCHANGED <<state, graphVars, input>> /\ state' = state /\ failure' = failure
      /\ activation_count' = activation_count /\ graph' = graph
      /\ activation_order' = activation_order
      /\ created' = created /\ activated' = activated
      /\ Release(C) /\ Deactivate(C)
  BY ZenonT(30), <1>c DEF Undo, graphVars
<1>r. /\ LetGo(C) /\ released' \in [Slots -> Nat] /\ released'[C] = released[C] + 1
      /\ \A d \in Slots \ {C} : released'[d] = released[d]
  BY ZenonT(30), <1>i, <1>u, <1>c, ReleaseLetsGo
<1>d. /\ deactivated' \in [Slots -> Nat]
      /\ deactivated'[C] = deactivated[C] + (IF graph.hooks[C] THEN 1 ELSE 0)
      /\ \A d \in Slots \ {C} : deactivated'[d] = deactivated[d]
  BY ZenonT(30), <1>i, <1>u, <1>c, DeactivateBooks
<1> HIDE DEF C
<1>n. at' \in Nat /\ at \in Nat
  BY <1>p, <1>c, <1>i DEF TypeOK
<1>1. TypeOK'
  <2>1. instances' \in [Slots -> [active : BOOLEAN, object : Objects]]
    BY ZenonT(30), <1>r DEF LetGo
  <2> QED BY ZenonT(30), <1>i, <1>u, <1>p, <1>n, <1>r, <1>d, <2>1 DEF TypeOK
<1>2. Attached' /\ PlanShape' /\ PlanFull' /\ OrderShape' /\ CycleShape'
  <2>1. pc' # "order" /\ (pc' = "rollback" => failure' # "DEPENDENCY_CYCLE")
    BY <1>i, <1>p, <1>u DEF CycleShape, Undoing
  <2> QED BY ZenonT(30), <1>u, <1>c, <2>1, PlanKept
<1>3. CallShape'
  BY <1>i, <1>p, <1>u, <1>c DEF CallShape, TypeOK, Starting, Undoing
<1>4. UpShape' /\ Books'
  <2>1. state' # "READY" /\ pc' \in Undoing /\ UNCHANGED <<graph, activation_order>>
    BY ZenonT(30), <1>u, <1>c, <1>p
  <2>2. \A k \in 1..at' : activation_order[k] # C
    BY <1>p, <1>c
  <2>3. \A c \in Slots \ {C} : (\E k \in 1..Level : c = activation_order[k])
                               <=> (\E k \in 1..at' : c = activation_order[k])
    BY <1>p, <1>c
  <2>4. /\ created'[C] = released'[C] /\ activated'[C] = deactivated'[C]
        /\ created'[C] \in Nat /\ activated'[C] \in Nat
    BY <1>c, <1>u, <1>r, <1>d
  <2>5. \A c \in Slots \ {C} :
          /\ created'[c] = created[c] /\ released'[c] = released[c]
          /\ activated'[c] = activated[c] /\ deactivated'[c] = deactivated[c]
    BY ZenonT(30), <1>u, <1>r, <1>d
  <2>6. pc \notin {"activate", "provide"}
    BY <1>p DEF Undoing
  <2> QED BY ZenonT(30), <1>c, <1>n, <1>r, <2>1, <2>2, <2>3, <2>4, <2>5, <2>6, LoweredKeeps
<1> QED BY ZenonT(30), <1>1, <1>2, <1>3, <1>4 DEF IInv

\* The end of an undo: the arrays are dropped when every record is settled, and
\* kept when a record may still own an object.
LEMMA EndKeeps ==
    ASSUME IInv, pc \in Undoing, at = 0, pc' = "idle",
           UNCHANGED <<instances, at, ghostVars>>,
           state' \in {"STOPPED", "FAILED"}, failure' # "DEPENDENCY_CYCLE" \/ state' = "STOPPED",
           \/ instances_settled /\ detach_storage
           \/ /\ state' = "FAILED" /\ activation_count' = 0
              /\ UNCHANGED <<graph, dependencies, activation_order>>
    PROVE  IInv'
<1>i. TypeOK /\ Attached /\ PlanShape /\ OrderShape /\ UpShape /\ Books
  BY ZenonT(30) DEF IInv
<1>u. /\ instances' = instances /\ at' = at /\ input' = input /\ created' = created
      /\ released' = released /\ activated' = activated /\ deactivated' = deactivated
  BY ZenonT(30) DEF ghostVars
<1>e. \/ /\ instances_settled /\ graph' = NoInput /\ dependencies' = {}
         /\ activation_order' = <<>> /\ activation_count' = 0
      \/ /\ state' = "FAILED" /\ activation_count' = 0 /\ graph' = graph
         /\ dependencies' = dependencies /\ activation_order' = activation_order
  BY ZenonT(30) DEF detach_storage
<1>c. activation_count' = 0 /\ (graph' = NoInput \/ graph' = graph)
  BY ZenonT(30), <1>e
<1>p. /\ pc # "order" /\ pc # "provide" /\ pc \notin {"activate", "provide"}
      /\ state' \notin {"RESOLVED", "ACTIVE"} /\ state' # "READY"
      /\ pc' \notin Starting /\ pc' \notin Undoing /\ pc' # "order" /\ pc' # "rollback"
      /\ state' # "ACTIVE" /\ pc' \notin {"activate", "provide"} /\ pc' # "provide"
      /\ state' # "ZERO"
  BY DEF Undoing, Starting
<1>l. Level = 0 /\ Level' = 0
  BY <1>p DEF Level, Undoing, Starting
<1>a. \A c \in Slots : ~instances[c].active /\ instances[c].object # "LIVE"
  <2>1. \A c \in Slots : ~instances[c].active
    BY <1>i, <1>l DEF UpShape
  <2> QED BY ZenonT(30), <1>i, <1>p, <2>1 DEF UpShape, Pending
<1>1. TypeOK'
  <2>1. pc' \in PCs /\ state' \in States
    BY DEF PCs, States
  <2>2. activation_order' \in Seq(Slots) /\ activation_count' \in Nat
    <3>1. <<>> \in Seq(Slots)
      BY SMT
    <3>2. activation_count' = 0 /\ 0 \in Nat
      BY <1>c
    <3> QED BY ZenonT(30), <1>i, <1>e, <3>1, <3>2 DEF TypeOK
  <2> QED BY ZenonT(30), <1>i, <1>u, <2>1, <2>2 DEF TypeOK
<1>2. Attached'
  BY ZenonT(30), <1>i, <1>u, <1>c DEF Attached
<1>3. PlanShape'
  <2>1. CASE graph' = NoInput /\ dependencies' = {} /\ activation_order' = <<>>
    BY <1>c, <1>p, <2>1 DEF PlanShape
  <2>2. CASE /\ state' = "FAILED" /\ graph' = graph
             /\ dependencies' = dependencies /\ activation_order' = activation_order
    BY <1>i, <1>c, <1>p, <2>2 DEF PlanShape
  <2> QED BY ZenonT(30), <1>e, <2>1, <2>2
<1>4. PlanFull' /\ CallShape'
  BY ZenonT(30), <1>p DEF PlanFull, CallShape
<1>5. OrderShape'
  <2>1. CASE activation_order' = <<>>
    BY <2>1 DEF OrderShape
  <2>2. CASE dependencies' = dependencies /\ activation_order' = activation_order
    BY <1>i, <2>2 DEF OrderShape
  <2> QED BY ZenonT(30), <1>e, <2>1, <2>2
<1>6. UpShape'
  <2>1. \A c \in Slots : ~\E k \in 1..Level' : c = activation_order'[k]
    BY <1>l
  <2>2. graph' = NoInput => \A c \in Slots : instances[c].object = "EMPTY"
    <3>1. CASE instances_settled
      BY ZenonT(30), <3>1 DEF instances_settled, object_ref_empty
    <3>2. CASE graph' = graph
      BY ZenonT(30), <1>i, <3>2 DEF UpShape
    <3> QED BY ZenonT(30), <1>e, <3>1, <3>2
  <2>3. \A c \in Slots : ~Pending(c)'
    BY ZenonT(30), <1>p DEF Pending
  <2> QED BY ZenonT(30), <1>u, <1>a, <1>p, <2>1, <2>2, <2>3 DEF UpShape
<1>7. Books'
  <2>1. \A c \in Slots : ~Hooked(c) /\ ~Hooked(c)'
    BY ZenonT(30), <1>a, <1>p, <1>u DEF Hooked
  <2> QED BY ZenonT(30), <1>i, <1>u, <2>1 DEF Books
<1>8. CycleShape'
  <2>1. state' = "STOPPED" => state' # "FAILED"
    BY ZenonT(30)
  <2> QED BY ZenonT(30), <1>p, <2>1 DEF CycleShape
<1> QED BY ZenonT(30), <1>1, <1>2, <1>3, <1>4, <1>5, <1>6, <1>7, <1>8 DEF IInv

LEMMA RollbackDoneStep == ASSUME IInv, RollbackDone PROVE IInv'
<1>1. /\ pc \in Undoing /\ at = 0 /\ pc' = "idle" /\ UNCHANGED <<instances, at, ghostVars>>
      /\ state' = "FAILED" /\ state' \in {"STOPPED", "FAILED"}
      /\ failure' # "DEPENDENCY_CYCLE"
  BY ZenonT(30) DEF RollbackDone, Undoing, IInv, CycleShape
<1>2. \/ instances_settled /\ detach_storage
      \/ activation_count' = 0 /\ UNCHANGED <<graph, dependencies, activation_order>>
  BY ZenonT(30) DEF RollbackDone
<1> QED BY ZenonT(30), <1>1, <1>2, EndKeeps

LEMMA StopDoneStep == ASSUME IInv, StopDone PROVE IInv'
<1>1. /\ pc \in Undoing /\ at = 0 /\ pc' = "idle" /\ UNCHANGED <<instances, at, ghostVars>>
  BY ZenonT(30) DEF StopDone, Undoing
<1>2. CASE instances_settled
  <2>1. detach_storage /\ state' = "STOPPED" /\ state' \in {"STOPPED", "FAILED"}
    BY ZenonT(30), <1>2 DEF StopDone
  <2> QED BY ZenonT(30), <1>1, <1>2, <2>1, EndKeeps
<1>3. CASE ~instances_settled
  <2>1. /\ state' = "FAILED" /\ failure' = "INVALID_STATE" /\ activation_count' = 0
        /\ UNCHANGED <<graph, dependencies, activation_order>>
    BY ZenonT(30), <1>3 DEF StopDone
  <2>2. state' \in {"STOPPED", "FAILED"} /\ failure' # "DEPENDENCY_CYCLE"
    BY <2>1
  <2> QED BY ZenonT(30), <1>1, <2>1, <2>2, EndKeeps
<1> QED BY ZenonT(30), <1>2, <1>3

LEMMA RepairStep == ASSUME IInv, NEW c \in Slots, Repair(c) PROVE IInv'
<1>i. /\ TypeOK /\ Attached /\ PlanShape /\ PlanFull /\ OrderShape /\ CallShape
      /\ UpShape /\ Books /\ CycleShape
  BY ZenonT(30) DEF IInv
<1>u. /\ pc = "idle" /\ state = "FAILED" /\ state' = state /\ pc' = pc /\ at' = at
      /\ graph' = graph /\ dependencies' = dependencies /\ failure' = failure
      /\ activation_order' = activation_order /\ activation_count' = activation_count
      /\ input' = input /\ created' = created /\ released' = released
      /\ activated' = activated /\ deactivated' = deactivated
      /\ instances[c].object = "MALFORMED"
      /\ instances' = [instances EXCEPT ![c].object = "EMPTY"]
  BY ZenonT(30) DEF Repair, graphVars, ghostVars
<1>a. /\ instances' \in [Slots -> [active : BOOLEAN, object : Objects]]
      /\ instances'[c].active = instances[c].active /\ instances'[c].object = "EMPTY"
      /\ \A d \in Slots \ {c} : instances'[d] = instances[d]
  BY ZenonT(30), <1>i, <1>u DEF TypeOK, Objects
<1>b. \A d \in Slots : /\ instances'[d].active <=> instances[d].active
                       /\ instances'[d].object = "LIVE" <=> instances[d].object = "LIVE"
                       /\ instances[d].object = "EMPTY" => instances'[d].object = "EMPTY"
  <2>1. "MALFORMED" # "LIVE" /\ "EMPTY" # "LIVE"
    BY ZenonT(30)
  <2> QED BY ZenonT(30), <1>a, <1>u, <2>1
<1>1. TypeOK'
  BY ZenonT(30), <1>i, <1>u, <1>a DEF TypeOK
<1>2. Attached' /\ PlanFull' /\ CallShape' /\ CycleShape'
  BY ZenonT(30), <1>i, <1>u DEF Attached, PlanFull, CallShape, CycleShape, Current
<1>3. PlanShape'
  BY <1>i, <1>u DEF PlanShape
<1>4. OrderShape'
  BY <1>i, <1>u DEF OrderShape
<1>5. UpShape'
  <2>1. \A d \in Slots : Pending(d)' <=> Pending(d)
    BY ZenonT(30), <1>u DEF Pending, Current
  <2>2. Level' = Level
    BY ZenonT(30), <1>u DEF Level
  <2>3. \A d \in Slots : instances[d].active <=> \E k \in 1..Level' : d = activation_order'[k]
    BY ZenonT(30), <1>i, <1>u, <2>2 DEF UpShape
  <2> QED BY ZenonT(30), <1>i, <1>u, <1>b, <2>1, <2>3 DEF UpShape
<1>6. Books'
  <2>1. \A d \in Slots : Hooked(d)' <=> Hooked(d)
    BY ZenonT(30), <1>u, <1>b DEF Hooked, Current
  <2> QED BY ZenonT(30), <1>i, <1>u, <1>b, <2>1 DEF Books
<1> QED BY ZenonT(30), <1>1, <1>2, <1>3, <1>4, <1>5, <1>6 DEF IInv

=============================================================================
