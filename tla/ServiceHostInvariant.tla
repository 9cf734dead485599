------------------------ MODULE ServiceHostInvariant ------------------------
(* The inductive invariant of ServiceHost, and build.                            *)
EXTENDS ServiceHost, FiniteSetTheorems, TLAPS

USE ZenonT(4), SMTT(30), ZenonT(30), SMTT(31)

-----------------------------------------------------------------------------
(* The inductive invariant.                                                   *)

\* A call that is under way has its generation to itself, and the generation
\* is attached exactly when the call is a drain.
CallShape ==
    /\ \A t \in Threads : pc[t] # "idle" => arg[t] \in Generations
    /\ \A t \in Threads : pc[t] \in Exclusive => ~owned[arg[t]]
    /\ \A t \in Threads : pc[t] \in Draining => owned[arg[t]] /\ gstate[arg[t]] = "STOPPING"
    /\ \A t, u \in Threads : pc[t] # "idle" /\ pc[u] # "idle" /\ arg[t] = arg[u] => t = u

\* What the state of a generation says about its record.
GenerationShape ==
    /\ \A g \in Generations :
         /\ gstate[g] \in {"PUBLISHED", "DRAINING", "STOPPING"} => owned[g]
         /\ owned[g] => gstate[g] \in {"PUBLISHED", "DRAINING", "STOPPING", "FAILED"}
         /\ owned[g] => initialized /\ id[g] <= lastId
         /\ gstate[g] = "PUBLISHED" <=> g = current
         /\ gstate[g] \in {"PUBLISHED", "DRAINING"} => components[g] = "ACTIVE"
    /\ current # NoGeneration =>
         /\ id[current] = lastId
         /\ \A g \in Generations : owned[g] /\ g # current => id[g] < lastId

\* Scopes and attached generations are counted, and a scope names a
\* generation that is up.
ScopeShape ==
    /\ \A s \in Scopes : bound[s] # NoGeneration =>
         gstate[bound[s]] \in {"PUBLISHED", "DRAINING"} /\ id[bound[s]] = boundId[s]
    /\ \A g \in Generations : scopes[g] = Cardinality({s \in Scopes : bound[s] = g})
    /\ activeScopes = Cardinality({s \in Scopes : bound[s] # NoGeneration})

AttachShape ==
    /\ attached = Cardinality({g \in Generations : owned[g]})
    /\ attached <= MaxAttached

\* No plugin is recorded twice by a generation, and the registry counts the
\* generations that record one.
LeaseShape ==
    /\ \A g \in Generations : \A i, j \in DOMAIN modules[g] :
         modules[g][i] = modules[g][j] => i = j
    /\ \A p \in Plugins :
         /\ outstanding[p] = Cardinality({g \in Generations : p \in Elements(modules[g])})
         /\ outstanding[p] > 0 => phase[p] \in {"UP", "STOPPING"}

\* Leases go back when the components have settled, and the pass over the
\* records that no release has failed in has seen them all.
ReleaseShape ==
    /\ \A t \in Threads : pc[t] = "admit" =>
         settled[arg[t]] /\ uses[arg[t]] \subseteq Elements(modules[arg[t]])
    /\ \A g \in Generations : ~settled[g] => uses[g] \subseteq Elements(modules[g])
    /\ \A t \in Threads : pc[t] \in Releasing =>
         /\ settled[arg[t]]
         /\ scan[t] <= Len(modules[arg[t]])
         /\ ~failed[t] => scan[t] = Len(modules[arg[t]])

IInv ==
    /\ TypeOK /\ CallShape /\ GenerationShape /\ ScopeShape /\ AttachShape
    /\ LeaseShape /\ ReleaseShape

-----------------------------------------------------------------------------
(* Lemmas about the operators of the model.                                   *)

\* acquire_module appends one record for a plugin that has none.
LEMMA ElementsAppend ==
    ASSUME NEW q \in Seq(Plugins), NEW p \in Plugins, p \notin Elements(q),
           \A i, j \in DOMAIN q : q[i] = q[j] => i = j
    PROVE  /\ Append(q, p) \in Seq(Plugins)
           /\ Elements(Append(q, p)) = Elements(q) \cup {p}
           /\ \A i, j \in DOMAIN Append(q, p) : Append(q, p)[i] = Append(q, p)[j] => i = j
<1> DEFINE r == Append(q, p)
<1>1. /\ r \in Seq(Plugins) /\ Len(r) = Len(q) + 1
      /\ \A i \in 1..Len(q) : r[i] = q[i]
      /\ r[Len(q) + 1] = p
  OBVIOUS
<1>2. DOMAIN r = 1..(Len(q) + 1) /\ DOMAIN q = 1..Len(q) /\ Len(q) \in Nat
  BY <1>1
<1>3. ASSUME NEW i \in DOMAIN r, NEW j \in DOMAIN r, r[i] = r[j] PROVE i = j
  BY <1>1, <1>2, <1>3 DEF Elements
<1>4. Elements(r) = Elements(q) \cup {p}
  <2>1. ASSUME NEW x \in Elements(r) PROVE x \in Elements(q) \cup {p}
    BY <1>1, <1>2 DEF Elements
  <2>2. ASSUME NEW x \in Elements(q) \cup {p} PROVE x \in Elements(r)
    BY <1>1, <1>2 DEF Elements
  <2> QED BY <2>1, <2>2
<1> QED BY <1>1, <1>3, <1>4

\* release_modules takes the record it released out of the array, and no other.
LEMMA ElementsCompact ==
    ASSUME NEW q \in Seq(Plugins), NEW k \in 1..Len(q),
           \A i, j \in DOMAIN q : q[i] = q[j] => i = j
    PROVE  /\ Compact(q, k) \in Seq(Plugins)
           /\ Len(Compact(q, k)) = Len(q) - 1
           /\ Elements(Compact(q, k)) = Elements(q) \ {q[k]}
           /\ \A i, j \in DOMAIN Compact(q, k) : Compact(q, k)[i] = Compact(q, k)[j] => i = j
<1> DEFINE n == Len(q)
           e == [q EXCEPT ![k] = q[n]]
           r == SubSeq(e, 1, n - 1)
<1>1. n \in Nat \ {0} /\ DOMAIN q = 1..n
  OBVIOUS
<1>2. e \in Seq(Plugins) /\ Len(e) = n /\ \A i \in 1..n : e[i] = IF i = k THEN q[n] ELSE q[i]
  BY <1>1
<1>3. /\ r \in Seq(Plugins) /\ Len(r) = n - 1 /\ DOMAIN r = 1..(n - 1)
      /\ \A i \in 1..(n - 1) : r[i] = IF i = k THEN q[n] ELSE q[i]
  BY <1>1, <1>2
<1>4. ASSUME NEW i \in DOMAIN r, NEW j \in DOMAIN r, r[i] = r[j] PROVE i = j
  BY <1>1, <1>3, <1>4
<1>5. Elements(r) = Elements(q) \ {q[k]}
  <2>1. ASSUME NEW x \in Elements(r) PROVE x \in Elements(q) \ {q[k]}
    <3>1. PICK i \in 1..(n - 1) : x = r[i]
      BY <1>3 DEF Elements
    <3> QED BY <3>1, <1>1, <1>3 DEF Elements
  <2>2. ASSUME NEW x \in Elements(q) \ {q[k]} PROVE x \in Elements(r)
    <3>1. PICK i \in 1..n : x = q[i] /\ i # k
      BY <1>1 DEF Elements
    <3>2. CASE i = n
      <4>1. k \in 1..(n - 1) /\ r[k] = x
        BY <3>1, <3>2, <1>1, <1>3
      <4> QED BY ZenonT(30), <4>1, <1>3 DEF Elements
    <3>3. CASE i # n
      <4>0. i \in 1..(n - 1)
        <5> HIDE DEF n
        <5> QED BY <3>1, <3>3, <1>1
      <4>1. r[i] = x
        BY <3>1, <4>0, <1>3
      <4> QED BY ZenonT(30), <4>0, <4>1, <1>3 DEF Elements
    <3> QED BY <3>2, <3>3
  <2> QED BY ZenonT(30), <2>1, <2>2
<1>6. Compact(q, k) = r
  BY DEF Compact
<1> HIDE DEF r
<1> QED BY <1>3, <1>4, <1>5, <1>6

\* A record array without repetitions has as many plugins as records.
LEMMA RecordsCounted ==
    ASSUME NEW q \in Seq(Plugins), \A i, j \in DOMAIN q : q[i] = q[j] => i = j
    PROVE  Cardinality(Elements(q)) = Len(q)
<1>1. DOMAIN q = 1..Len(q) /\ Len(q) \in Nat
  OBVIOUS
<1>2. IsFiniteSet(1..Len(q)) /\ Cardinality(1..Len(q)) = Len(q)
  BY <1>1, FS_Interval
<1>3. q \in Bijection(1..Len(q), Elements(q))
  <2>1. q \in [1..Len(q) -> Elements(q)]
    BY <1>1 DEF Elements
  <2>2. \A x \in Elements(q) : \E i \in 1..Len(q) : q[i] = x
    BY <1>1 DEF Elements
  <2> QED BY <1>1, <2>1, <2>2 DEF Bijection, Injection, Surjection, IsInjective
<1> QED BY <1>2, <1>3, FS_Bijection DEF ExistsBijection

\* The members of a finite set that satisfy a predicate, when one more does.
LEMMA CountUp ==
    ASSUME NEW S, IsFiniteSet(S), NEW T \in SUBSET S, NEW x \in S, x \notin T
    PROVE  Cardinality(T \cup {x}) = Cardinality(T) + 1 /\ Cardinality(T) \in Nat
<1>1. IsFiniteSet(T)
  BY FS_Subset
<1> QED BY <1>1, FS_AddElement, FS_CardinalityType

\* ... and when one fewer does.
LEMMA CountDown ==
    ASSUME NEW S, IsFiniteSet(S), NEW T \in SUBSET S, NEW x \in T
    PROVE  Cardinality(T \ {x}) = Cardinality(T) - 1 /\ Cardinality(T) \in Nat \ {0}
<1>1. IsFiniteSet(T)
  BY FS_Subset
<1>2. Cardinality(T) \in Nat /\ (Cardinality(T) = 0 <=> T = {})
  BY <1>1, FS_EmptySet, FS_CardinalityType
<1> QED BY ZenonT(30), <1>1, <1>2, FS_RemoveElement

\* A count of nothing is empty.
LEMMA CountZero ==
    ASSUME NEW S, IsFiniteSet(S), NEW T \in SUBSET S
    PROVE  Cardinality(T) \in Nat /\ (Cardinality(T) = 0 <=> T = {})
<1>1. IsFiniteSet(T)
  BY FS_Subset
<1> QED BY <1>1, FS_EmptySet, FS_CardinalityType

-----------------------------------------------------------------------------
(* What a step that leaves a part of the state alone keeps.                   *)

\* Scopes stay bound to generations that stay up and keep their ids.
LEMMA ScopeFrame ==
    ASSUME ScopeShape, UNCHANGED <<bound, boundId, scopes, activeScopes>>,
           \A s \in Scopes : bound[s] # NoGeneration =>
             gstate'[bound[s]] \in {"PUBLISHED", "DRAINING"} /\ id'[bound[s]] = id[bound[s]]
    PROVE  ScopeShape'
BY DEF ScopeShape

\* No generation is attached or detached.
LEMMA AttachFrame ==
    ASSUME AttachShape, UNCHANGED <<owned, attached>>
    PROVE  AttachShape'
BY DEF AttachShape

\* No lease is taken or given back.
LEMMA LeaseFrame ==
    ASSUME LeaseShape, UNCHANGED <<modules, phase, outstanding>>
    PROVE  LeaseShape'
BY DEF LeaseShape

\* A generation that is not up has no scopes.
LEMMA Unbound ==
    ASSUME ScopeShape, NEW g \in Generations, gstate[g] \notin {"PUBLISHED", "DRAINING"}
    PROVE  \A s \in Scopes : bound[s] # g
BY GenerationsAssumption DEF ScopeShape

\* Without attached generations there is no current one and no scope.
LEMMA Unattached ==
    ASSUME TypeOK, GenerationShape, ScopeShape, \A g \in Generations : ~owned[g]
    PROVE  /\ current = NoGeneration
           /\ \A s \in Scopes : bound[s] = NoGeneration
BY DEF TypeOK, GenerationShape, ScopeShape

\* A generation is attached while the counter is above zero.
LEMMA NoneAttached ==
    ASSUME AttachShape
    PROVE  attached \in Nat /\ (attached = 0 <=> \A g \in Generations : ~owned[g])
<1> DEFINE T == {g \in Generations : owned[g]}
<1>1. T \in SUBSET Generations
  OBVIOUS
<1>2. Cardinality(T) \in Nat /\ (Cardinality(T) = 0 <=> T = {})
  BY <1>1, FiniteAssumption, CountZero
<1> QED BY <1>2 DEF AttachShape

\* acquire_module takes a lease of a plugin that has none in this generation.
LEMMA LeaseAcquired ==
    ASSUME TypeOK, LeaseShape, NEW g \in Generations, NEW p \in Plugins,
           p \notin Elements(modules[g]), L!Acquire(p),
           modules' = [modules EXCEPT ![g] = Append(@, p)]
    PROVE  /\ LeaseShape'
           /\ modules' \in [Generations -> Seq(Plugins)]
           /\ outstanding' \in [Plugins -> Nat] /\ phase' = phase
           /\ Elements(modules'[g]) = Elements(modules[g]) \cup {p}
           /\ \A h \in Generations \ {g} : modules'[h] = modules[h]
<1> DEFINE Users(q) == {h \in Generations : q \in Elements(modules[h])}
           After(q) == {h \in Generations : q \in Elements(modules'[h])}
<1>1. /\ modules[g] \in Seq(Plugins) /\ modules \in [Generations -> Seq(Plugins)]
      /\ outstanding \in [Plugins -> Nat]
      /\ \A i, j \in DOMAIN modules[g] : modules[g][i] = modules[g][j] => i = j
  BY DEF TypeOK, LeaseShape
<1>2. /\ Append(modules[g], p) \in Seq(Plugins)
      /\ Elements(Append(modules[g], p)) = Elements(modules[g]) \cup {p}
      /\ \A i, j \in DOMAIN Append(modules[g], p) :
           Append(modules[g], p)[i] = Append(modules[g], p)[j] => i = j
  BY <1>1, ElementsAppend
<1>3. /\ modules' \in [Generations -> Seq(Plugins)]
      /\ modules'[g] = Append(modules[g], p)
      /\ \A h \in Generations \ {g} : modules'[h] = modules[h]
  BY <1>1, <1>2
<1>4. /\ outstanding' \in [Plugins -> Nat] /\ phase' = phase /\ phase[p] = "UP"
      /\ outstanding'[p] = outstanding[p] + 1
      /\ \A q \in Plugins \ {p} : outstanding'[q] = outstanding[q]
  BY <1>1 DEF L!Acquire
<1>5. After(p) = Users(p) \cup {g} /\ g \notin Users(p) /\ Users(p) \in SUBSET Generations
  BY <1>2, <1>3
<1>6. Cardinality(After(p)) = Cardinality(Users(p)) + 1
  <2> HIDE DEF Users, After
  <2> QED BY <1>5, FiniteAssumption, CountUp
<1>7. ASSUME NEW q \in Plugins \ {p} PROVE After(q) = Users(q)
  BY <1>2, <1>3
<1>8. \A q \in Plugins : outstanding'[q] = Cardinality(After(q))
  BY ZenonT(30), <1>4, <1>6, <1>7 DEF LeaseShape
<1>9. \A q \in Plugins : outstanding'[q] > 0 => phase'[q] \in {"UP", "STOPPING"}
  BY ZenonT(30), <1>4 DEF LeaseShape
<1>10. \A h \in Generations : \A i, j \in DOMAIN modules'[h] :
         modules'[h][i] = modules'[h][j] => i = j
  BY <1>2, <1>3 DEF LeaseShape
<1> QED BY <1>2, <1>3, <1>4, <1>8, <1>9, <1>10 DEF LeaseShape

\* release_modules gives one lease back and takes its record out.
LEMMA LeaseReleased ==
    ASSUME TypeOK, LeaseShape, NEW g \in Generations, NEW k \in 1..Len(modules[g]),
           L!Release(modules[g][k]), modules' = [modules EXCEPT ![g] = Compact(@, k)]
    PROVE  /\ LeaseShape'
           /\ modules' \in [Generations -> Seq(Plugins)]
           /\ outstanding' \in [Plugins -> Nat] /\ phase' = phase
           /\ Len(modules'[g]) = Len(modules[g]) - 1
           /\ \A h \in Generations \ {g} : modules'[h] = modules[h]
<1> DEFINE p == modules[g][k]
           Users(q) == {h \in Generations : q \in Elements(modules[h])}
           After(q) == {h \in Generations : q \in Elements(modules'[h])}
<1>1. /\ modules[g] \in Seq(Plugins) /\ modules \in [Generations -> Seq(Plugins)]
      /\ outstanding \in [Plugins -> Nat] /\ p \in Plugins /\ p \in Elements(modules[g])
      /\ \A i, j \in DOMAIN modules[g] : modules[g][i] = modules[g][j] => i = j
  BY DEF TypeOK, LeaseShape, Elements
<1> HIDE DEF p
<1>2. /\ Compact(modules[g], k) \in Seq(Plugins)
      /\ Len(Compact(modules[g], k)) = Len(modules[g]) - 1
      /\ Elements(Compact(modules[g], k)) = Elements(modules[g]) \ {p}
      /\ \A i, j \in DOMAIN Compact(modules[g], k) :
           Compact(modules[g], k)[i] = Compact(modules[g], k)[j] => i = j
  BY ZenonT(30), <1>1, ElementsCompact DEF p
<1>3. /\ modules' \in [Generations -> Seq(Plugins)]
      /\ modules'[g] = Compact(modules[g], k)
      /\ \A h \in Generations \ {g} : modules'[h] = modules[h]
  BY <1>1, <1>2
<1>4. /\ outstanding' \in [Plugins -> Nat] /\ phase' = phase
      /\ outstanding'[p] = outstanding[p] - 1
      /\ \A q \in Plugins \ {p} : outstanding'[q] = outstanding[q]
  BY <1>1 DEF L!Release, p
<1>5. After(p) = Users(p) \ {g} /\ g \in Users(p) /\ Users(p) \in SUBSET Generations
  BY <1>1, <1>2, <1>3
<1>6. Cardinality(After(p)) = Cardinality(Users(p)) - 1
  BY <1>5, FiniteAssumption, CountDown
<1>7. ASSUME NEW q \in Plugins \ {p} PROVE After(q) = Users(q)
  BY <1>2, <1>3
<1>8. \A q \in Plugins : outstanding'[q] = Cardinality(After(q))
  BY ZenonT(30), <1>4, <1>6, <1>7 DEF LeaseShape
<1>9. \A q \in Plugins : outstanding'[q] > 0 => phase'[q] \in {"UP", "STOPPING"}
  <2>1. ASSUME NEW q \in Plugins, outstanding'[q] > 0 PROVE outstanding[q] > 0
    <3>1. outstanding[q] \in Nat /\ outstanding[p] \in Nat
      BY <1>1
    <3>2. CASE q = p
      BY <1>4, <2>1, <3>1, <3>2
    <3>3. CASE q # p
      BY <1>4, <2>1, <3>3
    <3> QED BY <3>2, <3>3
  <2> QED BY ZenonT(30), <1>4, <2>1 DEF LeaseShape
<1>10. \A h \in Generations : \A i, j \in DOMAIN modules'[h] :
         modules'[h][i] = modules'[h][j] => i = j
  BY <1>2, <1>3 DEF LeaseShape
<1> QED BY <1>2, <1>3, <1>4, <1>8, <1>9, <1>10 DEF LeaseShape

\* A pass over the records in which no release failed has emptied them.
LEMMA NothingLeft ==
    ASSUME TypeOK, CallShape, ReleaseShape, NEW t \in Threads, pc[t] \in Releasing,
           scan[t] = 0, ~failed[t]
    PROVE  /\ arg[t] \in Generations /\ modules[arg[t]] = <<>>
           /\ [modules EXCEPT ![arg[t]] = <<>>] = modules
<1>1. arg[t] \in Generations /\ Len(modules[arg[t]]) = 0
  BY DEF CallShape, ReleaseShape, Releasing
<1>2. modules[arg[t]] \in Seq(Plugins) /\ modules \in [Generations -> Seq(Plugins)]
  BY <1>1 DEF TypeOK
<1>3. modules[arg[t]] = <<>>
  BY <1>1, <1>2
<1> QED BY <1>1, <1>2, <1>3

\* A generation that no exclusive call holds and that is not being drained has
\* no call at all.
LEMMA Free ==
    ASSUME TypeOK, CallShape, NEW g \in Generations, gstate[g] # "STOPPING", Unshared(g) \/ owned[g]
    PROVE  \A u \in Threads : pc[u] # "idle" => arg[u] # g
BY DEF TypeOK, CallShape, Unshared

-----------------------------------------------------------------------------
(* The runtime and build keep the invariant.                                  *)

\* Runtime_init: the runtime starts without generations.
LEMMA RuntimeInitStep ==
    ASSUME IInv, RuntimeInit
    PROVE  IInv'
<1>0. /\ \A g \in Generations : ~owned[g]
      /\ \A s \in Scopes : bound[s] = NoGeneration
  <2>1. \A g \in Generations : ~owned[g]
    BY DEF IInv, GenerationShape, RuntimeInit
  <2> QED BY <2>1, Unattached DEF IInv
<1>1. TypeOK'
  BY <1>0, GenerationsAssumption, SourcesAssumption, BoundsAssumption DEF IInv, TypeOK, RuntimeInit, runtimeVars, generationVars, scopeVars, threadVars, leaseVars, Exclusive, Draining, GStates, CStates, L!Phases
<1>2. CallShape'
  BY <1>0, GenerationsAssumption, SourcesAssumption, BoundsAssumption DEF IInv, TypeOK, CallShape, RuntimeInit, runtimeVars, generationVars, scopeVars, threadVars, leaseVars, Exclusive, Draining, Releasing, GenerationShape
<1>3. GenerationShape'
  BY <1>0, GenerationsAssumption, SourcesAssumption, BoundsAssumption DEF IInv, TypeOK, GenerationShape, RuntimeInit, runtimeVars, generationVars, scopeVars, threadVars, leaseVars, CallShape, Exclusive, Draining, Releasing
<1>4. ScopeShape'
  <2>1. {s \in Scopes : bound[s] # NoGeneration} = {}
    BY <1>0
  <2>2. UNCHANGED <<gstate, id, scopes, bound, boundId>> /\ activeScopes' = 0
    BY DEF RuntimeInit, generationVars, scopeVars
  <2> QED BY <1>0, <2>1, <2>2, FS_EmptySet DEF IInv, ScopeShape
<1>5. AttachShape'
  <2>1. {g \in Generations : owned[g]} = {}
    BY <1>0
  <2> QED BY <2>1, FS_EmptySet DEF AttachShape, MaxAttached, RuntimeInit, generationVars
<1>6. LeaseShape'
  BY LeaseFrame DEF IInv, RuntimeInit, generationVars, leaseVars
<1>7. ReleaseShape'
  BY <1>0, GenerationsAssumption, SourcesAssumption, BoundsAssumption DEF IInv, TypeOK, ReleaseShape, RuntimeInit, runtimeVars, generationVars, scopeVars, threadVars, leaseVars, CallShape, Exclusive, Draining, Releasing
<1> QED BY <1>1, <1>2, <1>3, <1>4, <1>5, <1>6, <1>7 DEF IInv

\* Runtime_destroy: nothing is attached.
LEMMA RuntimeDestroyStep ==
    ASSUME IInv, RuntimeDestroy
    PROVE  IInv'
<1>0. \A g \in Generations : ~owned[g]
  BY NoneAttached DEF IInv, RuntimeDestroy, Destroyable
<1>1. TypeOK'
  <2>1. 0 \in 0..MaxId
    BY BoundsAssumption
  <2> QED BY ZenonT(30), <2>1 DEF IInv, TypeOK, RuntimeDestroy, generationVars, scopeVars, threadVars, leaseVars
<1>2. CallShape'
  BY <1>0, GenerationsAssumption, SourcesAssumption, BoundsAssumption DEF IInv, TypeOK, CallShape, RuntimeDestroy, Destroyable, runtimeVars, generationVars, scopeVars, threadVars, leaseVars, Exclusive, Draining, Releasing, GenerationShape
<1>3. GenerationShape'
  BY <1>0, GenerationsAssumption, SourcesAssumption, BoundsAssumption DEF IInv, TypeOK, GenerationShape, RuntimeDestroy, Destroyable, runtimeVars, generationVars, scopeVars, threadVars, leaseVars, CallShape, Exclusive, Draining, Releasing
<1>4. ScopeShape'
  BY <1>0, GenerationsAssumption, SourcesAssumption, BoundsAssumption DEF IInv, TypeOK, ScopeShape, RuntimeDestroy, Destroyable, runtimeVars, generationVars, scopeVars, threadVars, leaseVars
<1>5. AttachShape'
  BY DEF IInv, AttachShape, RuntimeDestroy, Destroyable, runtimeVars, generationVars, scopeVars, threadVars, leaseVars
<1>6. LeaseShape'
  BY LeaseFrame DEF IInv, RuntimeDestroy, generationVars, leaseVars
<1>7. ReleaseShape'
  BY <1>0, GenerationsAssumption, SourcesAssumption, BoundsAssumption DEF IInv, TypeOK, ReleaseShape, RuntimeDestroy, Destroyable, runtimeVars, generationVars, scopeVars, threadVars, leaseVars, CallShape, Exclusive, Draining, Releasing
<1> QED BY <1>1, <1>2, <1>3, <1>4, <1>5, <1>6, <1>7 DEF IInv

\* Build refuses its sources.
LEMMA BuildInvalidSourceStep ==
    ASSUME IInv, NEW t \in Threads, NEW g \in Generations, BuildInvalidSource(t, g)
    PROVE  IInv'
<1>0. /\ modules[g] = <<>> /\ ~owned[g]
      /\ gstate[g] \notin {"PUBLISHED", "DRAINING", "STOPPING"}
  BY DEF BuildInvalidSource, Buildable, generation_is_clear
<1>1. TypeOK'
  BY <1>0, GenerationsAssumption, SourcesAssumption, BoundsAssumption DEF IInv, TypeOK, BuildInvalidSource, Buildable, generation_is_clear, Unshared, runtimeVars, generationVars, scopeVars, threadVars, leaseVars, Exclusive, Draining, GStates, CStates, L!Phases
<1>2. CallShape'
  BY <1>0, GenerationsAssumption, SourcesAssumption, BoundsAssumption DEF IInv, TypeOK, CallShape, BuildInvalidSource, Buildable, generation_is_clear, Unshared, runtimeVars, generationVars, scopeVars, threadVars, leaseVars, Exclusive, Draining, Releasing, GenerationShape
<1>3. GenerationShape'
  BY <1>0, GenerationsAssumption, SourcesAssumption, BoundsAssumption DEF IInv, TypeOK, GenerationShape, BuildInvalidSource, Buildable, generation_is_clear, Unshared, runtimeVars, generationVars, scopeVars, threadVars, leaseVars, CallShape, Exclusive, Draining, Releasing
<1>4. ScopeShape'
  <2>2. \A s \in Scopes : bound[s] # g
    BY <1>0, Unbound DEF IInv
  <2> QED BY <2>2, ScopeFrame DEF IInv, TypeOK, ScopeShape, BuildInvalidSource, runtimeVars, scopeVars
<1>5. AttachShape'
  BY AttachFrame DEF IInv, BuildInvalidSource, runtimeVars, generationVars
<1>6. LeaseShape'
  BY LeaseFrame DEF IInv, BuildInvalidSource, generationVars, leaseVars
<1>7. ReleaseShape'
  BY <1>0, GenerationsAssumption, SourcesAssumption, BoundsAssumption DEF IInv, TypeOK, ReleaseShape, BuildInvalidSource, Buildable, generation_is_clear, Unshared, runtimeVars, generationVars, scopeVars, threadVars, leaseVars, CallShape, Exclusive, Draining, Releasing
<1> QED BY <1>1, <1>2, <1>3, <1>4, <1>5, <1>6, <1>7 DEF IInv

\* Build takes over a bundle that holds nothing.
LEMMA BuildBeginStep ==
    ASSUME IInv, NEW t \in Threads, NEW g \in Generations, NEW q \in Sources, NEW n \in 1..MaxId, BuildBegin(t, g, q, n)
    PROVE  IInv'
<1>t. TypeOK
  BY DEF IInv
<1>0. modules[g] = <<>> /\ ~owned[g] /\ gstate[g] \notin {"PUBLISHED", "DRAINING", "STOPPING"}
  BY DEF IInv, GenerationShape, BuildBegin, Buildable, generation_is_clear
<1>y. /\ pc \in [Threads -> {"idle"} \cup Exclusive \cup Draining]
      /\ arg \in [Threads -> Generations \cup {NoGeneration}]
  BY <1>t DEF TypeOK
<1>a. \A u \in Threads : pc[u] # "idle" => arg[u] # g
  BY <1>0, Free DEF IInv, BuildBegin
<1>b. /\ pc' = [pc EXCEPT ![t] = "admit"] /\ arg' = [arg EXCEPT ![t] = g] /\ owned' = owned
      /\ pc[t] = "idle"
  <2>1. owned \in [Generations -> BOOLEAN]
    BY <1>t DEF TypeOK
  <2> QED BY <1>0, <2>1 DEF BuildBegin, Enter
<1>1. TypeOK'
  BY <1>0, GenerationsAssumption, SourcesAssumption, BoundsAssumption DEF IInv, TypeOK, BuildBegin, Buildable, generation_is_clear, Unshared, Enter, runtimeVars, generationVars, scopeVars, threadVars, leaseVars, Exclusive, Draining, GStates, CStates, L!Phases
<1>2. CallShape'
  <2>0. ASSUME NEW u \in Threads \ {t} PROVE pc'[u] = pc[u] /\ arg'[u] = arg[u]
    BY <1>b, <1>y
  <2>1. pc'[t] = "admit" /\ arg'[t] = g
    BY <1>b, <1>y
  <2>2. \A u \in Threads : pc'[u] # "idle" => arg'[u] \in Generations
    BY <2>0, <2>1 DEF IInv, CallShape
  <2>3. \A u \in Threads : pc'[u] \in Exclusive => ~owned'[arg'[u]]
    BY <1>0, <1>b, <2>0, <2>1 DEF IInv, CallShape, Exclusive
  <2>4. \A u \in Threads : pc'[u] \in Draining => owned'[arg'[u]] /\ gstate'[arg'[u]] = "STOPPING"
    <3>1. gstate' = [gstate EXCEPT ![g] = "ZERO"] /\ gstate \in [Generations -> GStates]
      BY <1>t DEF TypeOK, BuildBegin
    <3>2. \A u \in Threads \ {t} : pc[u] \in Draining => arg[u] \in Generations /\ gstate'[arg[u]] = gstate[arg[u]]
      BY <1>a, <3>1 DEF IInv, CallShape, Draining
    <3> QED BY <1>b, <2>0, <2>1, <3>2 DEF IInv, CallShape, Draining
  <2>5. \A u, v \in Threads : pc'[u] # "idle" /\ pc'[v] # "idle" /\ arg'[u] = arg'[v] => u = v
    BY <1>a, <2>0, <2>1 DEF IInv, CallShape
  <2> QED BY <2>2, <2>3, <2>4, <2>5 DEF CallShape
<1>3. GenerationShape'
  BY <1>0, GenerationsAssumption, SourcesAssumption, BoundsAssumption DEF IInv, TypeOK, GenerationShape, BuildBegin, Buildable, generation_is_clear, Unshared, Enter, runtimeVars, generationVars, scopeVars, threadVars, leaseVars, CallShape, Exclusive, Draining, Releasing
<1>4. ScopeShape'
  <2>1. scopes' = scopes
    BY DEF IInv, TypeOK, BuildBegin, Buildable, generation_is_clear
  <2>2. \A s \in Scopes : bound[s] # g
    BY <1>0, Unbound DEF IInv
  <2> QED BY <2>1, <2>2, ScopeFrame DEF IInv, TypeOK, ScopeShape, BuildBegin, runtimeVars, scopeVars
<1>5. AttachShape'
  BY <1>b, AttachFrame DEF IInv, BuildBegin, runtimeVars
<1>6. LeaseShape'
  <2>1. modules' = modules
    BY <1>0 DEF IInv, TypeOK, BuildBegin
  <2> QED BY <2>1, LeaseFrame DEF IInv, BuildBegin, leaseVars
<1>7. ReleaseShape'
  BY <1>0, GenerationsAssumption, SourcesAssumption, BoundsAssumption DEF IInv, TypeOK, ReleaseShape, BuildBegin, Buildable, generation_is_clear, Unshared, Enter, runtimeVars, generationVars, scopeVars, threadVars, leaseVars, CallShape, Exclusive, Draining, Releasing
<1> QED BY <1>1, <1>2, <1>3, <1>4, <1>5, <1>6, <1>7 DEF IInv

\* Build admits a source.
LEMMA BuildAdmitStep ==
    ASSUME IInv, NEW t \in Threads, BuildAdmit(t)
    PROVE  IInv'
<1>0. /\ arg[t] \in Generations /\ ~owned[arg[t]]
      /\ gstate[arg[t]] \notin {"PUBLISHED", "DRAINING", "STOPPING"}
  BY DEF IInv, CallShape, GenerationShape, Exclusive, BuildAdmit
<1>a. Head(todo[t]) \in Plugins /\ Tail(todo[t]) \in Seq(Plugins)
  BY DEF IInv, TypeOK, BuildAdmit
<1>b. /\ LeaseShape'
      /\ modules' \in [Generations -> Seq(Plugins)] /\ outstanding' \in [Plugins -> Nat] /\ phase' = phase
      /\ Elements(modules'[arg[t]]) = Elements(modules[arg[t]]) \cup {Head(todo[t])}
      /\ \A h \in Generations \ {arg[t]} : modules'[h] = modules[h]
  <2>1. CASE Head(todo[t]) \in Elements(modules[arg[t]])
    BY <2>1, LeaseFrame DEF IInv, TypeOK, BuildAdmit, leaseVars
  <2>2. CASE Head(todo[t]) \notin Elements(modules[arg[t]])
    BY ZenonT(30), <1>0, <1>a, <2>2, LeaseAcquired DEF IInv, BuildAdmit
  <2> QED BY <2>1, <2>2
<1>1. TypeOK'
  <2>1. todo' \in [Threads -> Seq(Plugins)] /\ uses' \in [Generations -> SUBSET Plugins]
    BY <1>0, <1>a DEF IInv, TypeOK, BuildAdmit
  <2> QED BY ZenonT(30), <1>b, <2>1 DEF IInv, TypeOK, BuildAdmit, runtimeVars, scopeVars
<1>2. CallShape'
  BY <1>0, GenerationsAssumption, SourcesAssumption, BoundsAssumption DEF IInv, TypeOK, CallShape, BuildAdmit, L!Acquire, runtimeVars, generationVars, scopeVars, threadVars, leaseVars, Exclusive, Draining, Releasing, GenerationShape
<1>3. GenerationShape'
  BY <1>0, GenerationsAssumption, SourcesAssumption, BoundsAssumption DEF IInv, TypeOK, GenerationShape, BuildAdmit, L!Acquire, runtimeVars, generationVars, scopeVars, threadVars, leaseVars, CallShape, Exclusive, Draining, Releasing
<1>4. ScopeShape'
  BY <1>0, GenerationsAssumption, SourcesAssumption, BoundsAssumption DEF IInv, TypeOK, ScopeShape, BuildAdmit, L!Acquire, runtimeVars, generationVars, scopeVars, threadVars, leaseVars
<1>5. AttachShape'
  BY ZenonT(30), AttachFrame DEF IInv, BuildAdmit, runtimeVars, generationVars
<1>6. LeaseShape'
  BY <1>b
<1>7. ReleaseShape'
  <2>1. ASSUME NEW u \in Threads, pc'[u] = "admit"
        PROVE  settled'[arg'[u]] /\ uses'[arg'[u]] \subseteq Elements(modules'[arg'[u]])
    BY ZenonT(30), <1>0, <1>b, <2>1 DEF IInv, TypeOK, CallShape, ReleaseShape, BuildAdmit
  <2>2. ASSUME NEW h \in Generations, ~settled'[h] PROVE uses'[h] \subseteq Elements(modules'[h])
    BY <1>0, <1>b, <2>2 DEF IInv, TypeOK, ReleaseShape, BuildAdmit
  <2>3. ASSUME NEW u \in Threads, pc'[u] \in Releasing PROVE arg[u] # arg[t] /\ arg[u] \in Generations
    BY ZenonT(30), <2>3 DEF IInv, CallShape, BuildAdmit, Releasing
  <2> QED BY ZenonT(30), <1>b, <2>1, <2>2, <2>3 DEF IInv, ReleaseShape, BuildAdmit
<1> QED BY <1>1, <1>2, <1>3, <1>4, <1>5, <1>6, <1>7 DEF IInv

\* Build cannot admit a source, with or without its lease.
LEMMA BuildAdmitFailedStep ==
    ASSUME IInv, NEW t \in Threads, BuildAdmitFailed(t)
    PROVE  IInv'
<1>0. /\ arg[t] \in Generations /\ ~owned[arg[t]]
      /\ gstate[arg[t]] \notin {"PUBLISHED", "DRAINING", "STOPPING"}
  BY ZenonT(30) DEF IInv, CallShape, GenerationShape, Exclusive, BuildAdmitFailed
<1>a. Head(todo[t]) \in Plugins /\ Tail(todo[t]) \in Seq(Plugins)
  BY DEF IInv, TypeOK, BuildAdmitFailed
<1>b. /\ LeaseShape'
      /\ modules' \in [Generations -> Seq(Plugins)] /\ outstanding' \in [Plugins -> Nat] /\ phase' = phase
      /\ Elements(modules[arg[t]]) \subseteq Elements(modules'[arg[t]])
      /\ \A h \in Generations \ {arg[t]} : modules'[h] = modules[h]
  <2>1. CASE UNCHANGED <<modules, leaseVars>>
    BY <2>1, LeaseFrame DEF IInv, TypeOK, leaseVars
  <2>2. CASE /\ Head(todo[t]) \notin Elements(modules[arg[t]])
             /\ L!Acquire(Head(todo[t]))
             /\ modules' = [modules EXCEPT ![arg[t]] = Append(@, Head(todo[t]))]
    BY ZenonT(30), <1>0, <1>a, <2>2, LeaseAcquired DEF IInv
  <2> QED BY <2>1, <2>2 DEF BuildAdmitFailed
<1>1. TypeOK'
  <2>1. /\ todo' \in [Threads -> Seq(Plugins)] /\ uses' \in [Generations -> SUBSET Plugins]
        /\ pc' \in [Threads -> {"idle"} \cup Exclusive \cup Draining]
        /\ gstate' \in [Generations -> GStates] /\ failed' \in [Threads -> BOOLEAN]
    BY <1>0, <1>a DEF IInv, TypeOK, BuildAdmitFailed, Exclusive, GStates
  <2>2. scan' \in [Threads -> Nat]
    <3>1. modules'[arg[t]] \in Seq(Plugins)
      BY ZenonT(30), <1>0, <1>b
    <3> QED BY <3>1 DEF IInv, TypeOK, BuildAdmitFailed
  <2> QED BY ZenonT(30), <1>b, <2>1, <2>2 DEF IInv, TypeOK, BuildAdmitFailed, runtimeVars, scopeVars
<1>2. CallShape'
  BY <1>0, GenerationsAssumption, SourcesAssumption, BoundsAssumption DEF IInv, TypeOK, CallShape, BuildAdmitFailed, L!Acquire, runtimeVars, generationVars, scopeVars, threadVars, leaseVars, Exclusive, Draining, Releasing, GenerationShape
<1>3. GenerationShape'
  BY <1>0, GenerationsAssumption, SourcesAssumption, BoundsAssumption DEF IInv, TypeOK, GenerationShape, BuildAdmitFailed, L!Acquire, runtimeVars, generationVars, scopeVars, threadVars, leaseVars, CallShape, Exclusive, Draining, Releasing
<1>4. ScopeShape'
  <2>1. \A s \in Scopes : bound[s] # arg[t]
    BY <1>0, Unbound DEF IInv
  <2> QED BY <1>0, <2>1, ScopeFrame DEF IInv, TypeOK, ScopeShape, BuildAdmitFailed, runtimeVars, scopeVars
<1>5. AttachShape'
  BY ZenonT(30), AttachFrame DEF IInv, BuildAdmitFailed, runtimeVars, generationVars
<1>6. LeaseShape'
  BY <1>b
<1>7. ReleaseShape'
  <2>0. ASSUME NEW u \in Threads \ {t}, pc[u] # "idle" PROVE arg[u] # arg[t] /\ arg[u] \in Generations
    BY <2>0 DEF IInv, CallShape, BuildAdmitFailed
  <2>1. ASSUME NEW u \in Threads, pc'[u] = "admit"
        PROVE  settled'[arg'[u]] /\ uses'[arg'[u]] \subseteq Elements(modules'[arg'[u]])
    BY ZenonT(30), <1>0, <1>b, <2>0, <2>1 DEF IInv, TypeOK, ReleaseShape, BuildAdmitFailed
  <2>2. ASSUME NEW h \in Generations, ~settled'[h] PROVE uses'[h] \subseteq Elements(modules'[h])
    BY <1>0, <1>b, <2>2 DEF IInv, TypeOK, ReleaseShape, BuildAdmitFailed
  <2>3. ASSUME NEW u \in Threads, pc'[u] \in Releasing
        PROVE  /\ settled'[arg'[u]]
               /\ scan'[u] <= Len(modules'[arg'[u]])
               /\ ~failed'[u] => scan'[u] = Len(modules'[arg'[u]])
    <3>1. CASE u = t
      <4>1. modules'[arg[t]] \in Seq(Plugins)
        BY ZenonT(30), <1>0, <1>b
      <4> QED BY <1>0, <3>1, <4>1 DEF IInv, TypeOK, ReleaseShape, BuildAdmitFailed
    <3>2. CASE u # t
      BY <1>0, <1>b, <2>0, <2>3, <3>2 DEF IInv, TypeOK, ReleaseShape, BuildAdmitFailed, Releasing
    <3> QED BY <3>1, <3>2
  <2> QED BY ZenonT(30), <2>1, <2>2, <2>3 DEF ReleaseShape
<1> QED BY <1>1, <1>2, <1>3, <1>4, <1>5, <1>6, <1>7 DEF IInv

\* Build has admitted its sources and starts the graph.
LEMMA BuildConfigureStep ==
    ASSUME IInv, NEW t \in Threads, BuildConfigure(t)
    PROVE  IInv'
<1>0. /\ arg[t] \in Generations /\ ~owned[arg[t]]
      /\ gstate[arg[t]] \notin {"PUBLISHED", "DRAINING", "STOPPING"}
  BY DEF IInv, CallShape, GenerationShape, Exclusive, BuildConfigure
<1>1. TypeOK'
  BY ZenonT(30), <1>0, GenerationsAssumption, SourcesAssumption, BoundsAssumption DEF IInv, TypeOK, BuildConfigure, runtimeVars, generationVars, scopeVars, threadVars, leaseVars, Exclusive, Draining, GStates, CStates, L!Phases
<1>2. CallShape'
  BY <1>0, GenerationsAssumption, SourcesAssumption, BoundsAssumption DEF IInv, TypeOK, CallShape, BuildConfigure, runtimeVars, generationVars, scopeVars, threadVars, leaseVars, Exclusive, Draining, Releasing, GenerationShape
<1>3. GenerationShape'
  BY <1>0, GenerationsAssumption, SourcesAssumption, BoundsAssumption DEF IInv, TypeOK, GenerationShape, BuildConfigure, runtimeVars, generationVars, scopeVars, threadVars, leaseVars, CallShape, Exclusive, Draining, Releasing
<1>4. ScopeShape'
  BY <1>0, GenerationsAssumption, SourcesAssumption, BoundsAssumption DEF IInv, TypeOK, ScopeShape, BuildConfigure, runtimeVars, generationVars, scopeVars, threadVars, leaseVars
<1>5. AttachShape'
  BY ZenonT(30), AttachFrame DEF IInv, BuildConfigure, runtimeVars, generationVars
<1>6. LeaseShape'
  BY ZenonT(30), LeaseFrame DEF IInv, BuildConfigure, generationVars, leaseVars
<1>7. ReleaseShape'
  <2>0. ASSUME NEW u \in Threads \ {t}, pc[u] # "idle" PROVE arg[u] # arg[t] /\ arg[u] \in Generations
    BY <2>0 DEF IInv, CallShape, BuildConfigure
  <2>1. ASSUME NEW u \in Threads, pc'[u] = "admit"
        PROVE  settled'[arg'[u]] /\ uses'[arg'[u]] \subseteq Elements(modules'[arg'[u]])
    BY <1>0, <2>0, <2>1 DEF IInv, TypeOK, ReleaseShape, BuildConfigure
  <2>2. ASSUME NEW h \in Generations, ~settled'[h] PROVE uses'[h] \subseteq Elements(modules'[h])
    BY <1>0, <2>2 DEF IInv, TypeOK, ReleaseShape, BuildConfigure
  <2>3. ASSUME NEW u \in Threads, pc'[u] \in Releasing
        PROVE  /\ settled'[arg'[u]]
               /\ scan'[u] <= Len(modules'[arg'[u]])
               /\ ~failed'[u] => scan'[u] = Len(modules'[arg'[u]])
    BY <1>0, <2>0, <2>3 DEF IInv, TypeOK, ReleaseShape, BuildConfigure, Releasing
  <2> QED BY ZenonT(30), <2>1, <2>2, <2>3 DEF ReleaseShape
<1> QED BY <1>1, <1>2, <1>3, <1>4, <1>5, <1>6, <1>7 DEF IInv

\* Build returns a generation.
LEMMA BuiltStep ==
    ASSUME IInv, NEW t \in Threads, Built(t)
    PROVE  IInv'
<1>t. TypeOK
  BY DEF IInv
<1>0. /\ arg[t] \in Generations /\ ~owned[arg[t]]
      /\ gstate[arg[t]] \notin {"PUBLISHED", "DRAINING", "STOPPING"}
  BY DEF IInv, CallShape, GenerationShape, Exclusive, Built
<1>1. TypeOK'
  BY <1>0, GenerationsAssumption, SourcesAssumption, BoundsAssumption DEF IInv, TypeOK, Built, Return, runtimeVars, generationVars, scopeVars, threadVars, leaseVars, Exclusive, Draining, GStates, CStates, L!Phases
<1>2. CallShape'
  BY <1>0, GenerationsAssumption, SourcesAssumption, BoundsAssumption DEF IInv, TypeOK, CallShape, Built, Return, runtimeVars, generationVars, scopeVars, threadVars, leaseVars, Exclusive, Draining, Releasing, GenerationShape
<1>3. GenerationShape'
  BY <1>0, GenerationsAssumption, SourcesAssumption, BoundsAssumption DEF IInv, TypeOK, GenerationShape, Built, Return, runtimeVars, generationVars, scopeVars, threadVars, leaseVars, CallShape, Exclusive, Draining, Releasing
<1>4. ScopeShape'
  <2>1. \A s \in Scopes : bound[s] # arg[t]
    BY <1>0, Unbound DEF IInv
  <2> QED BY <1>0, <2>1, ScopeFrame DEF IInv, TypeOK, ScopeShape, Built, runtimeVars, scopeVars
<1>5. AttachShape'
  BY ZenonT(30), AttachFrame DEF IInv, Built, runtimeVars, generationVars
<1>6. LeaseShape'
  BY LeaseFrame DEF IInv, Built, generationVars, leaseVars
<1>7. ReleaseShape'
  <2>0. /\ settled' = settled /\ modules' = modules /\ uses' = uses
        /\ \A u \in Threads : u # t => pc'[u] = pc[u] /\ arg'[u] = arg[u] /\ scan'[u] = scan[u] /\ failed'[u] = failed[u]
        /\ pc'[t] = "idle"
    BY <1>t DEF TypeOK, Built, Return
  <2>1. \A u \in Threads : pc'[u] # "idle" => u # t
    BY <2>0
  <2> QED BY <2>0, <2>1 DEF IInv, ReleaseShape, Releasing
<1> QED BY <1>1, <1>2, <1>3, <1>4, <1>5, <1>6, <1>7 DEF IInv

\* Build could not start the graph.
LEMMA BuildFailedStep ==
    ASSUME IInv, NEW t \in Threads, BuildFailed(t)
    PROVE  IInv'
<1>t. TypeOK
  BY DEF IInv
<1>0. /\ pc[t] = "configure" /\ arg[t] \in Generations /\ ~owned[arg[t]]
      /\ gstate[arg[t]] \notin {"PUBLISHED", "DRAINING", "STOPPING"}
  BY DEF IInv, CallShape, GenerationShape, Exclusive, BuildFailed
<1>a. \/ /\ settled' = [settled EXCEPT ![arg[t]] = TRUE] /\ faults' = faults
         /\ BeginRelease(t, "release_configured") /\ arg' = arg
      \/ Return(t) /\ settled' = settled /\ faults < MaxFaults /\ faults' = faults + 1
  BY ZenonT(30) DEF BuildFailed
<1>y. /\ gstate \in [Generations -> GStates] /\ settled \in [Generations -> BOOLEAN]
      /\ pc \in [Threads -> {"idle"} \cup Exclusive \cup Draining]
      /\ arg \in [Threads -> Generations \cup {NoGeneration}]
      /\ scan \in [Threads -> Nat] /\ failed \in [Threads -> BOOLEAN]
  BY <1>t DEF TypeOK
<1>b. UNCHANGED <<owned, modules, uses>> /\ gstate' = [gstate EXCEPT ![arg[t]] = "FAILED"]
  BY ZenonT(30) DEF BuildFailed
<1>1. TypeOK'
  <2>1. components' \in [Generations -> CStates]
    <3>1. components \in [Generations -> CStates]
      BY <1>t DEF TypeOK
    <3> QED BY ZenonT(30), <1>0, <3>1 DEF BuildFailed, CStates
  <2>2. gstate' \in [Generations -> GStates]
    <3>1. gstate \in [Generations -> GStates]
      BY <1>t DEF TypeOK
    <3> QED BY ZenonT(30), <1>0, <1>a, <3>1 DEF BuildFailed, GStates
  <2>3. settled' \in [Generations -> BOOLEAN]
    <3>1. settled \in [Generations -> BOOLEAN]
      BY <1>t DEF TypeOK
    <3> QED BY ZenonT(30), <1>0, <1>a, <3>1
  <2>6. faults' \in 0..MaxFaults
    <3>1. faults \in 0..MaxFaults
      BY <1>t DEF TypeOK
    <3> QED BY <1>a, <3>1, BoundsAssumption
  <2>4. /\ pc' \in [Threads -> {"idle"} \cup Exclusive \cup Draining]
        /\ arg' \in [Threads -> Generations \cup {NoGeneration}]
    <3>1. /\ pc \in [Threads -> {"idle"} \cup Exclusive \cup Draining]
          /\ arg \in [Threads -> Generations \cup {NoGeneration}]
      BY <1>t DEF TypeOK
    <3>2. {"release_configured", "release_built", "release_drain"} \subseteq Exclusive \cup Draining
      BY DEF Exclusive, Draining
    <3> QED BY <1>a, <3>1, <3>2 DEF BeginRelease, Return
  <2>5. scan' \in [Threads -> Nat]
    <3>1. scan \in [Threads -> Nat] /\ Len(modules[arg[t]]) \in Nat
      BY <1>0, <1>t DEF TypeOK
    <3> QED BY <1>a, <3>1 DEF BeginRelease, Return
  <2>7. failed' \in [Threads -> BOOLEAN]
    <3>1. failed \in [Threads -> BOOLEAN]
      BY <1>t DEF TypeOK
    <3> QED BY ZenonT(30), <1>a, <3>1 DEF BeginRelease, Return
  <2>8. UNCHANGED <<runtimeVars, id, owned, scopes, modules, scopeVars, todo, leaseVars, uses>>
    BY DEF BuildFailed
  <2> QED BY <1>t, <2>1, <2>2, <2>3, <2>4, <2>5, <2>6, <2>7, <2>8 DEF TypeOK, runtimeVars, scopeVars, leaseVars
<1>2. CallShape'
  <2>0. ASSUME NEW u \in Threads, pc'[u] # "idle"
        PROVE  /\ arg'[u] = arg[u] /\ pc[u] # "idle" /\ arg[u] \in Generations
               /\ u # t => pc'[u] = pc[u] /\ arg[u] # arg[t]
    BY <1>0, <1>a, <1>y, <2>0 DEF IInv, CallShape, BeginRelease, Return
  <2>1. ASSUME NEW u \in Threads, pc'[u] \in Exclusive PROVE ~owned'[arg'[u]]
    <3>1. CASE u = t
      BY <1>0, <1>a, <1>b, <1>y, <2>1, <3>1 DEF BeginRelease, Return, Exclusive
    <3>2. CASE u # t
      BY <1>b, <2>0, <2>1, <3>2 DEF IInv, CallShape, Exclusive
    <3> QED BY <3>1, <3>2
  <2>2. ASSUME NEW u \in Threads, pc'[u] \in Draining PROVE owned'[arg'[u]] /\ gstate'[arg'[u]] = "STOPPING"
    <3>1. CASE u = t
      BY <1>0, <1>a, <1>b, <1>y, <2>2, <3>1 DEF BeginRelease, Return, Draining
    <3>2. CASE u # t
      <4>1. owned[arg[u]] /\ gstate[arg[u]] = "STOPPING"
        BY ZenonT(30), <2>0, <2>2, <3>2 DEF IInv, CallShape, Draining
      <4>2. gstate'[arg[u]] = gstate[arg[u]]
        BY <1>0, <1>a, <1>b, <1>y, <2>0, <2>2, <3>2 DEF Draining
      <4> QED BY <1>b, <2>0, <2>2, <4>1, <4>2 DEF Draining
    <3> QED BY <3>1, <3>2
  <2>3. \A u, v \in Threads : pc'[u] # "idle" /\ pc'[v] # "idle" /\ arg'[u] = arg'[v] => u = v
    <3>1. \A u, v \in Threads : pc[u] # "idle" /\ pc[v] # "idle" /\ arg[u] = arg[v] => u = v
      BY DEF IInv, CallShape
    <3> QED BY <2>0, <3>1
  <2> QED BY <2>0, <2>1, <2>2, <2>3 DEF CallShape
<1>3. GenerationShape'
  BY <1>0, GenerationsAssumption, SourcesAssumption, BoundsAssumption DEF IInv, TypeOK, GenerationShape, BuildFailed, Return, BeginRelease, runtimeVars, generationVars, scopeVars, threadVars, leaseVars, CallShape, Exclusive, Draining, Releasing
<1>4. ScopeShape'
  <2>1. \A s \in Scopes : bound[s] # arg[t]
    BY ZenonT(30), <1>0, Unbound DEF IInv
  <2> QED BY ZenonT(30), <1>0, <2>1, ScopeFrame DEF IInv, TypeOK, ScopeShape, BuildFailed, runtimeVars, scopeVars
<1>5. AttachShape'
  BY ZenonT(30), AttachFrame DEF IInv, BuildFailed, runtimeVars, generationVars
<1>6. LeaseShape'
  BY ZenonT(30), LeaseFrame DEF IInv, BuildFailed, generationVars, leaseVars
<1>7. ReleaseShape'
  <2>0. ASSUME NEW u \in Threads \ {t}, pc'[u] # "idle"
        PROVE  /\ arg'[u] = arg[u] /\ pc'[u] = pc[u] /\ scan'[u] = scan[u] /\ failed'[u] = failed[u]
               /\ arg[u] \in Generations /\ settled'[arg[u]] = settled[arg[u]]
    <3>1. /\ arg'[u] = arg[u] /\ pc'[u] = pc[u] /\ scan'[u] = scan[u] /\ failed'[u] = failed[u]
      BY <1>a, <1>y DEF BeginRelease, Return
    <3>2. arg[u] \in Generations /\ arg[u] # arg[t]
      BY <1>0, <2>0, <3>1 DEF IInv, CallShape
    <3> QED BY <1>0, <1>a, <1>y, <3>1, <3>2
  <2>1. ASSUME NEW u \in Threads, pc'[u] = "admit"
        PROVE  settled'[arg'[u]] /\ uses'[arg'[u]] \subseteq Elements(modules'[arg'[u]])
    <3>1. u # t
      BY <1>0, <1>a, <1>y, <2>1 DEF BeginRelease, Return
    <3> QED BY <1>b, <2>0, <2>1, <3>1 DEF IInv, ReleaseShape
  <2>2. ASSUME NEW h \in Generations, ~settled'[h] PROVE uses'[h] \subseteq Elements(modules'[h])
    <3>1. ~settled[h]
      BY <1>0, <1>a, <1>y, <2>2
    <3> QED BY <1>b, <3>1 DEF IInv, ReleaseShape
  <2>3. ASSUME NEW u \in Threads, pc'[u] \in Releasing
        PROVE  /\ settled'[arg'[u]]
               /\ scan'[u] <= Len(modules'[arg'[u]])
               /\ ~failed'[u] => scan'[u] = Len(modules'[arg'[u]])
    <3>1. CASE u = t
      <4>1. Len(modules[arg[t]]) \in Nat
        BY <1>0, <1>t DEF TypeOK
      <4>2. arg' = arg /\ settled' = [settled EXCEPT ![arg[t]] = TRUE] /\ scan'[t] = Len(modules[arg[t]])
        BY <1>a, <1>y, <2>3, <3>1 DEF BeginRelease, Return, Releasing
      <4> QED BY <1>0, <1>b, <1>y, <3>1, <4>1, <4>2
    <3>2. CASE u # t
      BY <1>b, <2>0, <2>3, <3>2 DEF IInv, ReleaseShape, Releasing
    <3> QED BY <3>1, <3>2
  <2> QED BY <2>1, <2>2, <2>3 DEF ReleaseShape
<1> QED BY <1>1, <1>2, <1>3, <1>4, <1>5, <1>6, <1>7 DEF IInv

=============================================================================
