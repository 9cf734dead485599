------------------------- MODULE ServiceHostProofs -------------------------
(* The theorems about ServiceHost, and the steps of publish, close, scopes,   *)
(* drain and the plugin manager.                                              *)
EXTENDS ServiceHostReleases

USE ZenonT(4), SMTT(30), ZenonT(30), SMTT(31)

\* The owner repairs the records.
LEMMA RepairStep ==
    ASSUME IInv, NEW g \in Generations, Repair(g)
    PROVE  IInv'
<1>1. TypeOK'
  BY GenerationsAssumption, SourcesAssumption, BoundsAssumption DEF IInv, TypeOK, Repair, runtimeVars, generationVars, scopeVars, threadVars, leaseVars, Exclusive, Draining, GStates, CStates, L!Phases
<1>2. CallShape'
  BY GenerationsAssumption, SourcesAssumption, BoundsAssumption DEF IInv, TypeOK, CallShape, Repair, runtimeVars, generationVars, scopeVars, threadVars, leaseVars, Exclusive, Draining, Releasing, GenerationShape
<1>3. GenerationShape'
  BY GenerationsAssumption, SourcesAssumption, BoundsAssumption DEF IInv, TypeOK, GenerationShape, Repair, runtimeVars, generationVars, scopeVars, threadVars, leaseVars, CallShape, Exclusive, Draining, Releasing
<1>4. ScopeShape'
  BY GenerationsAssumption, SourcesAssumption, BoundsAssumption DEF IInv, TypeOK, ScopeShape, Repair, runtimeVars, generationVars, scopeVars, threadVars, leaseVars
<1>5. AttachShape'
  BY AttachFrame DEF IInv, Repair, runtimeVars, generationVars
<1>6. LeaseShape'
  BY LeaseFrame DEF IInv, Repair, generationVars, leaseVars
<1>7. ReleaseShape'
  BY GenerationsAssumption, SourcesAssumption, BoundsAssumption DEF IInv, TypeOK, ReleaseShape, Repair, runtimeVars, generationVars, scopeVars, threadVars, leaseVars, CallShape, Exclusive, Draining, Releasing
<1> QED BY <1>1, <1>2, <1>3, <1>4, <1>5, <1>6, <1>7 DEF IInv

\* Publish makes a generation the current one.
LEMMA PublishStep ==
    ASSUME IInv, NEW g \in Generations, Publish(g)
    PROVE  IInv'
<1>t. TypeOK
  BY DEF IInv
<1>0. /\ gstate[g] = "BUILT" /\ components[g] = "ACTIVE" /\ ~owned[g] /\ g # current
      /\ id[g] > lastId /\ attached < MaxAttached
      /\ current # NoGeneration => current \in Generations /\ gstate[current] = "PUBLISHED"
  BY <1>t DEF IInv, TypeOK, GenerationShape, Publish, PublishAllowed, service_host_generation_publishable
<1>a. /\ owned' = [owned EXCEPT ![g] = TRUE] /\ attached' = attached + 1 /\ current' = g /\ lastId' = id[g]
      /\ gstate' = [h \in Generations |-> IF h = g THEN "PUBLISHED" ELSE IF h = current THEN "DRAINING" ELSE gstate[h]]
      /\ UNCHANGED <<initialized, id, components>> /\ initialized
  BY DEF Publish, SupersededBy
<1>b. /\ owned \in [Generations -> BOOLEAN] /\ id \in [Generations -> Nat] /\ lastId \in Nat /\ attached \in Nat
  BY <1>t, BoundsAssumption DEF TypeOK
<1>1. TypeOK'
  BY <1>0, GenerationsAssumption, SourcesAssumption, BoundsAssumption DEF IInv, TypeOK, Publish, Unshared, PublishAllowed, SupersededBy, service_host_generation_publishable, runtimeVars, generationVars, scopeVars, threadVars, leaseVars, Exclusive, Draining, GStates, CStates, L!Phases
<1>2. CallShape'
  BY <1>0, GenerationsAssumption, SourcesAssumption, BoundsAssumption DEF IInv, TypeOK, CallShape, Publish, Unshared, PublishAllowed, SupersededBy, service_host_generation_publishable, runtimeVars, generationVars, scopeVars, threadVars, leaseVars, Exclusive, Draining, Releasing, GenerationShape
<1>3. GenerationShape'
  <2>1. ASSUME NEW h \in Generations
        PROVE  /\ gstate'[h] \in {"PUBLISHED", "DRAINING", "STOPPING"} => owned'[h]
               /\ owned'[h] => gstate'[h] \in {"PUBLISHED", "DRAINING", "STOPPING", "FAILED"}
               /\ owned'[h] => initialized' /\ id'[h] <= lastId'
               /\ gstate'[h] = "PUBLISHED" <=> h = current'
               /\ gstate'[h] \in {"PUBLISHED", "DRAINING"} => components'[h] = "ACTIVE"
    <3>1. CASE h = g
      BY <1>0, <1>a, <1>b, <3>1
    <3>2. CASE h # g /\ h = current
      BY <1>0, <1>a, <1>b, <3>2 DEF IInv, GenerationShape
    <3>3. CASE h # g /\ h # current
      BY <1>0, <1>a, <1>b, <3>3 DEF IInv, GenerationShape
    <3> QED BY <3>1, <3>2, <3>3
  <2>2. \A h \in Generations : owned'[h] /\ h # current' => id'[h] < lastId'
    BY <1>0, <1>a, <1>b DEF IInv, GenerationShape
  <2> QED BY <1>a, <2>1, <2>2 DEF GenerationShape
<1>4. ScopeShape'
  <2>1. UNCHANGED <<id, bound, boundId, scopes, activeScopes>>
    BY DEF Publish, scopeVars
  <2>2. ASSUME NEW s \in Scopes, bound[s] # NoGeneration
        PROVE  bound[s] \in Generations /\ gstate'[bound[s]] \in {"PUBLISHED", "DRAINING"}
    <3>1. bound[s] \in Generations /\ gstate[bound[s]] \in {"PUBLISHED", "DRAINING"}
      BY <1>t, <2>2 DEF IInv, TypeOK, ScopeShape
    <3> QED BY <1>a, <3>1
  <2> QED BY <2>1, <2>2, ScopeFrame DEF IInv
<1>5. AttachShape'
  <2> DEFINE T == {h \in Generations : owned[h]}
  <2>1. T \in SUBSET Generations /\ g \notin T
    BY <1>0
  <2>2. {h \in Generations : owned'[h]} = T \cup {g}
    BY <1>a, <1>b
  <2>3. attached = Cardinality(T)
    BY DEF IInv, AttachShape
  <2> HIDE DEF T
  <2>4. Cardinality(T \cup {g}) = Cardinality(T) + 1
    BY <2>1, FiniteAssumption, CountUp
  <2> QED BY <1>0, <1>a, <1>b, <2>2, <2>3, <2>4 DEF AttachShape, MaxAttached
<1>6. LeaseShape'
  BY LeaseFrame DEF IInv, Publish, generationVars, leaseVars
<1>7. ReleaseShape'
  BY <1>0, GenerationsAssumption, SourcesAssumption, BoundsAssumption DEF IInv, TypeOK, ReleaseShape, Publish, Unshared, PublishAllowed, SupersededBy, service_host_generation_publishable, runtimeVars, generationVars, scopeVars, threadVars, leaseVars, CallShape, Exclusive, Draining, Releasing
<1> QED BY <1>1, <1>2, <1>3, <1>4, <1>5, <1>6, <1>7 DEF IInv

\* Close leaves no current generation.
LEMMA CloseStep ==
    ASSUME IInv, Close
    PROVE  IInv'
<1>1. TypeOK'
  BY GenerationsAssumption, SourcesAssumption, BoundsAssumption DEF IInv, TypeOK, Close, runtimeVars, generationVars, scopeVars, threadVars, leaseVars, Exclusive, Draining, GStates, CStates, L!Phases
<1>2. CallShape'
  BY GenerationsAssumption, SourcesAssumption, BoundsAssumption DEF IInv, TypeOK, CallShape, Close, runtimeVars, generationVars, scopeVars, threadVars, leaseVars, Exclusive, Draining, Releasing, GenerationShape
<1>3. GenerationShape'
  BY GenerationsAssumption, SourcesAssumption, BoundsAssumption DEF IInv, TypeOK, GenerationShape, Close, runtimeVars, generationVars, scopeVars, threadVars, leaseVars, CallShape, Exclusive, Draining, Releasing
<1>4. ScopeShape'
  BY GenerationsAssumption, SourcesAssumption, BoundsAssumption DEF IInv, TypeOK, ScopeShape, Close, runtimeVars, generationVars, scopeVars, threadVars, leaseVars
<1>5. AttachShape'
  BY AttachFrame DEF IInv, Close, runtimeVars, generationVars
<1>6. LeaseShape'
  BY LeaseFrame DEF IInv, Close, generationVars, leaseVars
<1>7. ReleaseShape'
  BY GenerationsAssumption, SourcesAssumption, BoundsAssumption DEF IInv, TypeOK, ReleaseShape, Close, runtimeVars, generationVars, scopeVars, threadVars, leaseVars, CallShape, Exclusive, Draining, Releasing
<1> QED BY <1>1, <1>2, <1>3, <1>4, <1>5, <1>6, <1>7 DEF IInv

\* Scope_acquire pins the current generation.
LEMMA ScopeAcquireStep ==
    ASSUME IInv, NEW s \in Scopes, ScopeAcquire(s)
    PROVE  IInv'
<1>t. TypeOK
  BY DEF IInv
<1>0. /\ current \in Generations /\ gstate[current] = "PUBLISHED" /\ bound[s] = NoGeneration
      /\ scopes' = [scopes EXCEPT ![current] = @ + 1] /\ activeScopes' = activeScopes + 1
      /\ bound' = [bound EXCEPT ![s] = current] /\ boundId' = [boundId EXCEPT ![s] = id[current]]
      /\ UNCHANGED <<gstate, id>>
  BY <1>t DEF TypeOK, ScopeAcquire
<1>a. /\ bound \in [Scopes -> Generations \cup {NoGeneration}] /\ boundId \in [Scopes -> 0..MaxId]
      /\ scopes \in [Generations -> Nat] /\ activeScopes \in Nat
  BY <1>t DEF TypeOK
<1>1. TypeOK'
  BY <1>0, GenerationsAssumption, SourcesAssumption, BoundsAssumption DEF IInv, TypeOK, ScopeAcquire, runtimeVars, generationVars, scopeVars, threadVars, leaseVars, Exclusive, Draining, GStates, CStates, L!Phases
<1>2. CallShape'
  BY <1>0, GenerationsAssumption, SourcesAssumption, BoundsAssumption DEF IInv, TypeOK, CallShape, ScopeAcquire, runtimeVars, generationVars, scopeVars, threadVars, leaseVars, Exclusive, Draining, Releasing, GenerationShape
<1>3. GenerationShape'
  BY <1>0, GenerationsAssumption, SourcesAssumption, BoundsAssumption DEF IInv, TypeOK, GenerationShape, ScopeAcquire, runtimeVars, generationVars, scopeVars, threadVars, leaseVars, CallShape, Exclusive, Draining, Releasing
<1>4. ScopeShape'
  <2> DEFINE At(h) == {r \in Scopes : bound[r] = h}
             Live == {r \in Scopes : bound[r] # NoGeneration}
  <2>1. ASSUME NEW r \in Scopes, bound'[r] # NoGeneration
        PROVE  gstate'[bound'[r]] \in {"PUBLISHED", "DRAINING"} /\ id'[bound'[r]] = boundId'[r]
    <3>1. CASE r = s
      BY <1>0, <1>a, <3>1
    <3>2. CASE r # s
      BY <1>0, <1>a, <2>1, <3>2 DEF IInv, ScopeShape
    <3> QED BY <3>1, <3>2
  <2>2. /\ \A h \in Generations : {r \in Scopes : bound'[r] = h} = IF h = current THEN At(h) \cup {s} ELSE At(h)
        /\ {r \in Scopes : bound'[r] # NoGeneration} = Live \cup {s}
    BY <1>0, <1>a, GenerationsAssumption
  <2>3. /\ At(current) \in SUBSET Scopes /\ s \notin At(current)
        /\ Live \in SUBSET Scopes /\ s \notin Live
    BY <1>0, GenerationsAssumption
  <2>4. activeScopes = Cardinality(Live) /\ \A h \in Generations : scopes[h] = Cardinality(At(h))
    BY DEF IInv, ScopeShape
  <2> HIDE DEF At, Live
  <2>5. /\ Cardinality(At(current) \cup {s}) = Cardinality(At(current)) + 1
        /\ Cardinality(Live \cup {s}) = Cardinality(Live) + 1
    BY <2>3, FiniteAssumption, CountUp
  <2>6. \A h \in Generations : scopes'[h] = Cardinality({r \in Scopes : bound'[r] = h})
    BY ZenonT(30), <1>0, <1>a, <2>2, <2>4, <2>5
  <2>7. activeScopes' = Cardinality({r \in Scopes : bound'[r] # NoGeneration})
    BY <1>0, <2>2, <2>4, <2>5
  <2> QED BY <2>1, <2>6, <2>7 DEF ScopeShape
<1>5. AttachShape'
  BY AttachFrame DEF IInv, ScopeAcquire, runtimeVars, generationVars
<1>6. LeaseShape'
  BY LeaseFrame DEF IInv, ScopeAcquire, generationVars, leaseVars
<1>7. ReleaseShape'
  BY <1>0, GenerationsAssumption, SourcesAssumption, BoundsAssumption DEF IInv, TypeOK, ReleaseShape, ScopeAcquire, runtimeVars, generationVars, scopeVars, threadVars, leaseVars, CallShape, Exclusive, Draining, Releasing
<1> QED BY <1>1, <1>2, <1>3, <1>4, <1>5, <1>6, <1>7 DEF IInv

\* Scope_release unpins the generation.
LEMMA ScopeReleaseStep ==
    ASSUME IInv, NEW s \in Scopes, ScopeRelease(s)
    PROVE  IInv'
<1>t. TypeOK
  BY DEF IInv
<1>0. /\ bound[s] # NoGeneration /\ scopes[bound[s]] > 0 /\ activeScopes > 0
      /\ scopes' = [scopes EXCEPT ![bound[s]] = @ - 1] /\ activeScopes' = activeScopes - 1
      /\ bound' = [bound EXCEPT ![s] = NoGeneration] /\ boundId' = [boundId EXCEPT ![s] = 0]
      /\ UNCHANGED <<gstate, id>>
  BY DEF ScopeRelease, Uncount
<1>a. /\ bound \in [Scopes -> Generations \cup {NoGeneration}] /\ boundId \in [Scopes -> 0..MaxId]
      /\ scopes \in [Generations -> Nat] /\ activeScopes \in Nat
  BY <1>t DEF TypeOK
<1>b. bound[s] \in Generations
  BY <1>0, <1>a
<1>1. TypeOK'
  BY <1>0, GenerationsAssumption, SourcesAssumption, BoundsAssumption DEF IInv, TypeOK, ScopeRelease, Uncount, runtimeVars, generationVars, scopeVars, threadVars, leaseVars, Exclusive, Draining, GStates, CStates, L!Phases
<1>2. CallShape'
  BY <1>0, GenerationsAssumption, SourcesAssumption, BoundsAssumption DEF IInv, TypeOK, CallShape, ScopeRelease, Uncount, runtimeVars, generationVars, scopeVars, threadVars, leaseVars, Exclusive, Draining, Releasing, GenerationShape
<1>3. GenerationShape'
  BY <1>0, GenerationsAssumption, SourcesAssumption, BoundsAssumption DEF IInv, TypeOK, GenerationShape, ScopeRelease, Uncount, runtimeVars, generationVars, scopeVars, threadVars, leaseVars, CallShape, Exclusive, Draining, Releasing
<1>4. ScopeShape'
  <2> DEFINE At(h) == {r \in Scopes : bound[r] = h}
             Live == {r \in Scopes : bound[r] # NoGeneration}
  <2>1. ASSUME NEW r \in Scopes, bound'[r] # NoGeneration
        PROVE  gstate'[bound'[r]] \in {"PUBLISHED", "DRAINING"} /\ id'[bound'[r]] = boundId'[r]
    BY <1>0, <1>a, <2>1 DEF IInv, ScopeShape
  <2>2. /\ \A h \in Generations : {r \in Scopes : bound'[r] = h} = IF h = bound[s] THEN At(h) \ {s} ELSE At(h)
        /\ {r \in Scopes : bound'[r] # NoGeneration} = Live \ {s}
    BY <1>0, <1>a, GenerationsAssumption
  <2>3. /\ At(bound[s]) \in SUBSET Scopes /\ s \in At(bound[s])
        /\ Live \in SUBSET Scopes /\ s \in Live
    BY <1>0
  <2>4. activeScopes = Cardinality(Live) /\ \A h \in Generations : scopes[h] = Cardinality(At(h))
    BY DEF IInv, ScopeShape
  <2> HIDE DEF At, Live
  <2>5. /\ Cardinality(At(bound[s]) \ {s}) = Cardinality(At(bound[s])) - 1
        /\ Cardinality(Live \ {s}) = Cardinality(Live) - 1
    BY <2>3, FiniteAssumption, CountDown
  <2>6. \A h \in Generations : scopes'[h] = Cardinality({r \in Scopes : bound'[r] = h})
    BY ZenonT(30), <1>0, <1>a, <1>b, <2>2, <2>4, <2>5
  <2>7. activeScopes' = Cardinality({r \in Scopes : bound'[r] # NoGeneration})
    BY ZenonT(30), <1>0, <2>2, <2>4, <2>5
  <2> QED BY <2>1, <2>6, <2>7 DEF ScopeShape
<1>5. AttachShape'
  BY AttachFrame DEF IInv, ScopeRelease, runtimeVars, generationVars
<1>6. LeaseShape'
  BY LeaseFrame DEF IInv, ScopeRelease, generationVars, leaseVars
<1>7. ReleaseShape'
  BY <1>0, GenerationsAssumption, SourcesAssumption, BoundsAssumption DEF IInv, TypeOK, ReleaseShape, ScopeRelease, Uncount, runtimeVars, generationVars, scopeVars, threadVars, leaseVars, CallShape, Exclusive, Draining, Releasing
<1> QED BY <1>1, <1>2, <1>3, <1>4, <1>5, <1>6, <1>7 DEF IInv

\* Drain claims a generation without scopes.
LEMMA DrainStep ==
    ASSUME IInv, NEW t \in Threads, NEW g \in Generations, Drain(t, g)
    PROVE  IInv'
<1>t. TypeOK
  BY DEF IInv
<1>0. gstate[g] \in {"DRAINING", "FAILED"} /\ owned[g] /\ scopes[g] = 0
  BY DEF IInv, GenerationShape, Drain, DrainAllowed
<1>y. /\ pc \in [Threads -> {"idle"} \cup Exclusive \cup Draining]
      /\ arg \in [Threads -> Generations \cup {NoGeneration}]
  BY <1>t DEF TypeOK
<1>a. \A u \in Threads : pc[u] # "idle" => arg[u] # g
  BY <1>0, Free DEF IInv, Drain
<1>b. /\ pc' = [pc EXCEPT ![t] = "stop_drain"] /\ arg' = [arg EXCEPT ![t] = g] /\ owned' = owned
      /\ pc[t] = "idle"
  BY DEF Drain, Enter, generationVars
<1>1. TypeOK'
  BY <1>0, GenerationsAssumption, SourcesAssumption, BoundsAssumption DEF IInv, TypeOK, Drain, DrainAllowed, Enter, service_host_generation_publishable, runtimeVars, generationVars, scopeVars, threadVars, leaseVars, Exclusive, Draining, GStates, CStates, L!Phases
<1>2. CallShape'
  <2>0. ASSUME NEW u \in Threads \ {t} PROVE pc'[u] = pc[u] /\ arg'[u] = arg[u]
    BY <1>b, <1>y
  <2>1. pc'[t] = "stop_drain" /\ arg'[t] = g
    BY <1>b, <1>y
  <2>2. \A u \in Threads : pc'[u] # "idle" => arg'[u] \in Generations
    BY <2>0, <2>1 DEF IInv, CallShape
  <2>3. \A u \in Threads : pc'[u] \in Exclusive => ~owned'[arg'[u]]
    BY <1>0, <1>b, <2>0, <2>1 DEF IInv, CallShape, Exclusive
  <2>4. \A u \in Threads : pc'[u] \in Draining => owned'[arg'[u]] /\ gstate'[arg'[u]] = "STOPPING"
    <3>1. gstate' = [gstate EXCEPT ![g] = "STOPPING"] /\ gstate \in [Generations -> GStates]
      BY <1>t DEF TypeOK, Drain
    <3>2. gstate'[g] = "STOPPING"
      BY <3>1
    <3>3. \A u \in Threads \ {t} : pc[u] \in Draining => arg[u] \in Generations /\ gstate'[arg[u]] = gstate[arg[u]]
      BY <1>a, <3>1 DEF IInv, CallShape, Draining
    <3> QED BY <1>0, <1>b, <2>0, <2>1, <3>2, <3>3 DEF IInv, CallShape, Draining
  <2>5. \A u, v \in Threads : pc'[u] # "idle" /\ pc'[v] # "idle" /\ arg'[u] = arg'[v] => u = v
    BY <1>a, <2>0, <2>1 DEF IInv, CallShape
  <2> QED BY <2>2, <2>3, <2>4, <2>5 DEF CallShape
<1>3. GenerationShape'
  BY <1>0, GenerationsAssumption, SourcesAssumption, BoundsAssumption DEF IInv, TypeOK, GenerationShape, Drain, DrainAllowed, Enter, service_host_generation_publishable, runtimeVars, generationVars, scopeVars, threadVars, leaseVars, CallShape, Exclusive, Draining, Releasing
<1>4. ScopeShape'
  <2>1. \A s \in Scopes : bound[s] # g
    <3> DEFINE S == {s \in Scopes : bound[s] = g}
    <3>1. S \in SUBSET Scopes /\ Cardinality(S) = 0
      BY <1>0 DEF IInv, ScopeShape
    <3>2. S = {}
      BY <3>1, FiniteAssumption, CountZero
    <3> QED BY <3>2
  <2>2. gstate' = [gstate EXCEPT ![g] = "STOPPING"] /\ gstate \in [Generations -> GStates]
    BY <1>t DEF TypeOK, Drain
  <2>3. bound \in [Scopes -> Generations \cup {NoGeneration}]
    BY <1>t DEF TypeOK
  <2>4. UNCHANGED <<id, bound, boundId, scopes, activeScopes>>
    BY DEF Drain, runtimeVars, scopeVars
  <2>5. \A s \in Scopes : bound[s] # NoGeneration => gstate'[bound[s]] = gstate[bound[s]]
    BY <2>1, <2>2, <2>3
  <2> QED BY <2>4, <2>5, ScopeFrame DEF IInv, ScopeShape
<1>5. AttachShape'
  BY AttachFrame DEF IInv, Drain, runtimeVars, generationVars
<1>6. LeaseShape'
  BY LeaseFrame DEF IInv, Drain, generationVars, leaseVars
<1>7. ReleaseShape'
  BY <1>0, GenerationsAssumption, SourcesAssumption, BoundsAssumption DEF IInv, TypeOK, ReleaseShape, Drain, DrainAllowed, Enter, service_host_generation_publishable, runtimeVars, generationVars, scopeVars, threadVars, leaseVars, CallShape, Exclusive, Draining, Releasing
<1> QED BY <1>1, <1>2, <1>3, <1>4, <1>5, <1>6, <1>7 DEF IInv

\* The plugin manager moves a plugin.
LEMMA PluginStepStep ==
    ASSUME IInv, NEW p \in Plugins, PluginStep(p)
    PROVE  IInv'
<1>t. TypeOK
  BY DEF IInv
<1>0. /\ phase \in [Plugins -> L!Phases] /\ outstanding \in [Plugins -> Nat]
      /\ outstanding[p] > 0 => phase[p] \in {"UP", "STOPPING"}
  BY ZenonT(30), <1>t DEF IInv, TypeOK, LeaseShape
<1>a. outstanding' = outstanding /\ UNCHANGED <<runtimeVars, generationVars, scopeVars, threadVars, uses, faults>>
  BY DEF PluginStep, L!Load, L!Start, L!Retire, L!RequestStop, L!Quiesce, L!Unload, L!Move
<1>b. PICK x \in L!Phases : /\ phase' = [phase EXCEPT ![p] = x]
                            /\ outstanding[p] > 0 => x \in {"UP", "STOPPING"}
  <2>1. /\ \A x \in {"OUT", "LOADED", "UP", "STOPPING", "QUIET"} : x \in L!Phases
        /\ outstanding[p] \in Nat
    BY <1>0 DEF L!Phases
  <2> QED BY <1>0, <2>1 DEF PluginStep, L!Load, L!Start, L!Retire, L!RequestStop, L!Quiesce, L!Unload, L!Move
<1>1. TypeOK'
  <2>1. phase' \in [Plugins -> L!Phases]
    BY <1>0, <1>b
  <2> QED BY <1>t, <1>a, <2>1 DEF TypeOK, runtimeVars, generationVars, scopeVars, threadVars
<1>2. CallShape'
  BY ZenonT(30), <1>a DEF IInv, CallShape, runtimeVars, generationVars, scopeVars, threadVars
<1>3. GenerationShape'
  BY <1>a DEF IInv, GenerationShape, runtimeVars, generationVars, scopeVars, threadVars
<1>4. ScopeShape'
  BY <1>a DEF IInv, ScopeShape, runtimeVars, generationVars, scopeVars, threadVars
<1>5. AttachShape'
  BY <1>a DEF IInv, AttachShape, runtimeVars, generationVars, scopeVars, threadVars
<1>6. LeaseShape'
  <2>1. modules' = modules
    BY <1>a DEF generationVars
  <2>2. \A q \in Plugins : outstanding[q] > 0 => phase'[q] \in {"UP", "STOPPING"}
    BY ZenonT(30), <1>0, <1>b DEF IInv, LeaseShape
  <2> QED BY <1>a, <2>1, <2>2 DEF IInv, LeaseShape
<1>7. ReleaseShape'
  BY <1>a DEF IInv, ReleaseShape, runtimeVars, generationVars, scopeVars, threadVars
<1> QED BY <1>1, <1>2, <1>3, <1>4, <1>5, <1>6, <1>7 DEF IInv

-----------------------------------------------------------------------------
\* A fresh runtime and untouched bundles satisfy the invariant.
LEMMA InitIInv == Init => IInv
<1> SUFFICES ASSUME Init PROVE IInv
  OBVIOUS
<1>0. /\ \A g \in Generations : {s \in Scopes : bound[s] = g} = {}
      /\ {s \in Scopes : bound[s] # NoGeneration} = {}
      /\ {g \in Generations : owned[g]} = {}
      /\ \A p \in Plugins : {g \in Generations : p \in Elements(modules[g])} = {}
  BY GenerationsAssumption DEF Init, Elements
<1>1. TypeOK
  <2>1. 0 \in 0..MaxId /\ 0 \in 0..MaxFaults
    BY BoundsAssumption
  <2>2. "ZERO" \in GStates /\ "ZERO" \in CStates /\ "OUT" \in L!Phases
    BY DEF GStates, CStates, L!Phases
  <2>3. /\ gstate \in [Generations -> GStates] /\ components \in [Generations -> CStates]
        /\ id \in [Generations -> 0..MaxId] /\ scopes \in [Generations -> Nat]
        /\ owned \in [Generations -> BOOLEAN] /\ settled \in [Generations -> BOOLEAN]
        /\ modules \in [Generations -> Seq(Plugins)]
        /\ uses \in [Generations -> SUBSET Plugins]
    BY <2>1, <2>2 DEF Init
  <2>4. /\ bound \in [Scopes -> Generations \cup {NoGeneration}]
        /\ boundId \in [Scopes -> 0..MaxId]
        /\ phase \in [Plugins -> L!Phases] /\ outstanding \in [Plugins -> Nat]
    BY <2>1, <2>2 DEF Init, L!Init
  <2>5. /\ pc \in [Threads -> {"idle"} \cup Exclusive \cup Draining]
        /\ arg \in [Threads -> Generations \cup {NoGeneration}]
        /\ todo \in [Threads -> Seq(Plugins)]
        /\ scan \in [Threads -> Nat] /\ failed \in [Threads -> BOOLEAN]
    BY DEF Init
  <2>6. /\ initialized \in BOOLEAN /\ current \in Generations \cup {NoGeneration}
        /\ lastId \in 0..MaxId /\ activeScopes \in Nat /\ attached \in Nat
        /\ faults \in 0..MaxFaults
    BY ZenonT(30), <2>1 DEF Init
  <2> QED BY <2>3, <2>4, <2>5, <2>6 DEF TypeOK
<1>2. CallShape
  BY DEF Init, CallShape, Exclusive, Draining
<1>3. GenerationShape
  BY GenerationsAssumption DEF Init, GenerationShape
<1>4. ScopeShape
  BY ZenonT(30), <1>0, FS_EmptySet DEF Init, ScopeShape
<1>5. AttachShape
  <2>1. attached = 0 /\ Cardinality({g \in Generations : owned[g]}) = 0
    BY ZenonT(30), <1>0, FS_EmptySet DEF Init
  <2> QED BY <2>1 DEF AttachShape, MaxAttached
<1>6. LeaseShape
  <2>1. ASSUME NEW p \in Plugins
        PROVE  outstanding[p] = 0 /\ Cardinality({g \in Generations : p \in Elements(modules[g])}) = 0
    BY ZenonT(30), <1>0, FS_EmptySet DEF Init, L!Init
  <2>2. \A g \in Generations : modules[g] = <<>>
    BY DEF Init
  <2> QED BY <2>1, <2>2 DEF LeaseShape
<1>7. ReleaseShape
  BY DEF Init, ReleaseShape, Releasing
<1> QED BY <1>1, <1>2, <1>3, <1>4, <1>5, <1>6, <1>7 DEF IInv

\* A step that changes nothing keeps the invariant.
LEMMA StutterIInv == IInv /\ UNCHANGED vars => IInv'
<1> SUFFICES ASSUME IInv, UNCHANGED vars PROVE IInv'
  OBVIOUS
<1>0. UNCHANGED <<runtimeVars, generationVars, scopeVars, threadVars, leaseVars, uses, faults>>
  BY DEF vars
<1>1. TypeOK'
  BY <1>0 DEF IInv, TypeOK, runtimeVars, generationVars, scopeVars, threadVars, leaseVars
<1>2. CallShape' /\ GenerationShape' /\ AttachShape'
  BY <1>0 DEF IInv, CallShape, GenerationShape, AttachShape, runtimeVars, generationVars, threadVars
<1>3. ScopeShape'
  BY <1>0 DEF IInv, ScopeShape, runtimeVars, generationVars, scopeVars
<1>4. LeaseShape'
  BY <1>0, LeaseFrame DEF IInv, generationVars, leaseVars
<1>5. ReleaseShape'
  BY <1>0 DEF IInv, ReleaseShape, generationVars, threadVars
<1> QED BY <1>1, <1>2, <1>3, <1>4, <1>5 DEF IInv

\* Every step of the calls, the runtime and the plugin manager keeps it.
LEMMA NextIInv == IInv /\ [Next]_vars => IInv'
<1> SUFFICES ASSUME IInv, [Next]_vars PROVE IInv'
  OBVIOUS
<1>1. ASSUME NEW t \in Threads, NEW g \in Generations, Begin(t, g) PROVE IInv'
  BY <1>1, BuildInvalidSourceStep, BuildBeginStep, DiscardStep, RecoverStep, DrainStep DEF Begin
<1>2. ASSUME NEW t \in Threads, Continue(t) PROVE IInv'
  BY <1>2, BuildAdmitStep, BuildAdmitFailedStep, BuildConfigureStep, BuiltStep, BuildFailedStep,
     ReleaseModuleStep, ReleaseModuleFailsStep, ReleaseFailedStep, BuildGivenUpStep, WithdrawnStep,
     DrainedStep, StopReturnsStep DEF Continue
<1>3. CASE Section
  BY <1>3, RuntimeInitStep, RuntimeDestroyStep, CloseStep, PublishStep, RepairStep, ScopeAcquireStep,
     ScopeReleaseStep DEF Section
<1>4. ASSUME NEW p \in Plugins, PluginStep(p) PROVE IInv'
  BY <1>4, PluginStepStep
<1>5. CASE UNCHANGED vars
  BY <1>5, StutterIInv
<1> QED BY <1>1, <1>2, <1>3, <1>4, <1>5 DEF Next

(* The inductive invariant holds in every reachable state, for any number of  *)
(* threads, generations, scopes and plugins, and any bound on the failures.   *)
THEOREM Inductive == Spec => []IInv
<1>1. Init => IInv
  BY InitIInv
<1>2. IInv /\ [Next]_vars => IInv'
  BY NextIInv
<1> QED BY <1>1, <1>2, PTL DEF Spec

(* The variables keep their types.                                            *)
THEOREM TypesKept == Spec => []TypeOK
<1>1. IInv => TypeOK
  BY DEF IInv
<1> QED BY <1>1, Inductive, PTL

(* A live scope keeps the generation it was acquired from attached, active    *)
(* and counted, whatever is published, closed or drained meanwhile.           *)
THEOREM ScopesPinned == Spec => []ScopePinsGeneration
<1>1. IInv => ScopePinsGeneration
  <2> SUFFICES ASSUME IInv, NEW s \in Scopes, bound[s] # NoGeneration
               PROVE  /\ initialized /\ owned[bound[s]] /\ id[bound[s]] = boundId[s]
                      /\ gstate[bound[s]] \in {"PUBLISHED", "DRAINING"}
                      /\ scopes[bound[s]] = Cardinality({r \in Scopes : bound[r] = bound[s]})
                      /\ components[bound[s]] = "ACTIVE"
    BY DEF ScopePinsGeneration
  <2>1. bound[s] \in Generations
    BY DEF IInv, TypeOK
  <2>2. gstate[bound[s]] \in {"PUBLISHED", "DRAINING"} /\ id[bound[s]] = boundId[s]
    BY DEF IInv, ScopeShape
  <2>3. scopes[bound[s]] = Cardinality({r \in Scopes : bound[r] = bound[s]})
    BY <2>1 DEF IInv, ScopeShape
  <2>4. owned[bound[s]] /\ components[bound[s]] = "ACTIVE" /\ initialized
    BY <2>1, <2>2 DEF IInv, GenerationShape
  <2> QED BY <2>2, <2>3, <2>4
<1> QED BY <1>1, Inductive, PTL

(* The code of a provider is in the process as long as an instance record of  *)
(* a generation may refer to it.                                              *)
THEOREM ProvidersPinned == Spec => []CodePinned
<1>1. IInv => CodePinned
  <2> SUFFICES ASSUME IInv, NEW g \in Generations, ~settled[g], NEW p \in uses[g]
               PROVE  p \in Elements(modules[g]) /\ phase[p] \in {"UP", "STOPPING"}
    BY DEF CodePinned
  <2> DEFINE Users == {h \in Generations : p \in Elements(modules[h])}
  <2>1. p \in Plugins /\ p \in Elements(modules[g])
    BY DEF IInv, TypeOK, ReleaseShape
  <2>2. Users \in SUBSET Generations /\ Users # {} /\ outstanding[p] = Cardinality(Users)
    BY <2>1 DEF IInv, LeaseShape
  <2> HIDE DEF Users
  <2>3. Cardinality(Users) \in Nat /\ Cardinality(Users) # 0
    BY <2>2, FiniteAssumption, CountZero
  <2>4. outstanding[p] > 0
    BY <2>2, <2>3
  <2> QED BY ZenonT(30), <2>1, <2>4 DEF IInv, LeaseShape
<1> QED BY <1>1, Inductive, PTL

(* Admission goes to the newest attached generation only, and one drain, for  *)
(* which the runtime stays up, tears a generation down.                       *)
THEOREM HandedOver == Spec => []Handover
<1>1. IInv => NewestAdmits
  BY DEF IInv, TypeOK, GenerationShape, NewestAdmits
<1>2. IInv => DrainExclusive
  <2> SUFFICES ASSUME IInv, NEW t \in Threads, pc[t] \in Draining
               PROVE  /\ initialized /\ gstate[arg[t]] = "STOPPING"
                      /\ \A u \in Threads \ {t} : pc[u] # "idle" => arg[u] # arg[t]
    BY DEF DrainExclusive
  <2>1. arg[t] \in Generations /\ owned[arg[t]] /\ gstate[arg[t]] = "STOPPING"
    BY DEF IInv, CallShape, Draining
  <2>2. \A u \in Threads \ {t} : pc[u] # "idle" => arg[u] # arg[t]
    BY DEF IInv, CallShape, Draining
  <2> QED BY <2>1, <2>2 DEF IInv, GenerationShape
<1> QED BY <1>1, <1>2, Inductive, PTL DEF Handover

(* Leases, attached generations and live scopes are counted exactly, whatever *)
(* fails on the way.                                                          *)
THEOREM BooksKept == Spec => []BooksBalance
<1>1. IInv => BooksBalance
  <2> SUFFICES ASSUME IInv PROVE BooksBalance
    OBVIOUS
  <2>1. ASSUME NEW g \in Generations PROVE Cardinality(Elements(modules[g])) = Len(modules[g])
    <3>1. modules[g] \in Seq(Plugins)
      BY DEF IInv, TypeOK
    <3>2. \A i, j \in DOMAIN modules[g] : modules[g][i] = modules[g][j] => i = j
      BY DEF IInv, LeaseShape
    <3> QED BY <3>1, <3>2, RecordsCounted
  <2>2. LeasesRecorded
    BY <2>1 DEF IInv, LeaseShape, LeasesRecorded
  <2>3. ~initialized => attached = 0
    BY NoneAttached DEF IInv, GenerationShape
  <2> QED BY <2>2, <2>3 DEF IInv, ScopeShape, AttachShape, BooksBalance
<1> QED BY <1>1, Inductive, PTL
=============================================================================
