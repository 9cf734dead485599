------------------------ MODULE ServiceHostReleases -------------------------
(* Giving the leases back, discard, recover and drain keep the invariant of   *)
(* ServiceHost.                                                               *)
EXTENDS ServiceHostInvariant

USE ZenonT(4), SMTT(30), ZenonT(30), SMTT(31)

\* Release_modules gives a lease back.
LEMMA ReleaseModuleStep ==
    ASSUME IInv, NEW t \in Threads, ReleaseModule(t)
    PROVE  IInv'
<1>0. arg[t] \in Generations
  BY DEF IInv, CallShape, ReleaseModule, Releasing
<1>a. scan[t] \in 1..Len(modules[arg[t]])
  BY <1>0 DEF IInv, TypeOK, ReleaseShape, ReleaseModule
<1>b. /\ LeaseShape'
      /\ modules' \in [Generations -> Seq(Plugins)] /\ outstanding' \in [Plugins -> Nat] /\ phase' = phase
      /\ Len(modules'[arg[t]]) = Len(modules[arg[t]]) - 1
      /\ \A h \in Generations \ {arg[t]} : modules'[h] = modules[h]
  BY ZenonT(30), <1>0, <1>a, LeaseReleased DEF IInv, ReleaseModule
<1>1. TypeOK'
  <2>1. scan' \in [Threads -> Nat]
    BY <1>a DEF IInv, TypeOK, ReleaseModule
  <2> QED BY ZenonT(30), <1>b, <2>1 DEF IInv, TypeOK, ReleaseModule, runtimeVars, scopeVars
<1>2. CallShape'
  BY <1>0, GenerationsAssumption, SourcesAssumption, BoundsAssumption DEF IInv, TypeOK, CallShape, ReleaseModule, L!Release, runtimeVars, generationVars, scopeVars, threadVars, leaseVars, Exclusive, Draining, Releasing, GenerationShape
<1>3. GenerationShape'
  BY <1>0, GenerationsAssumption, SourcesAssumption, BoundsAssumption DEF IInv, TypeOK, GenerationShape, ReleaseModule, L!Release, runtimeVars, generationVars, scopeVars, threadVars, leaseVars, CallShape, Exclusive, Draining, Releasing
<1>4. ScopeShape'
  BY <1>0, GenerationsAssumption, SourcesAssumption, BoundsAssumption DEF IInv, TypeOK, ScopeShape, ReleaseModule, L!Release, runtimeVars, generationVars, scopeVars, threadVars, leaseVars
<1>5. AttachShape'
  BY AttachFrame DEF IInv, ReleaseModule, runtimeVars, generationVars
<1>6. LeaseShape'
  BY <1>b
<1>7. ReleaseShape'
  <2>0. ASSUME NEW u \in Threads, pc[u] # "idle"
        PROVE  arg[u] \in Generations /\ (u # t => arg[u] # arg[t])
    BY <2>0 DEF IInv, CallShape, ReleaseModule, Releasing
  <2>1. ASSUME NEW u \in Threads, pc'[u] = "admit"
        PROVE  settled'[arg'[u]] /\ uses'[arg'[u]] \subseteq Elements(modules'[arg'[u]])
    BY ZenonT(30), <1>b, <2>0, <2>1 DEF IInv, ReleaseShape, ReleaseModule, Releasing
  <2>2. ASSUME NEW h \in Generations, ~settled'[h] PROVE uses'[h] \subseteq Elements(modules'[h])
    BY <1>0, <1>b, <2>2 DEF IInv, ReleaseShape, ReleaseModule
  <2>3. ASSUME NEW u \in Threads, pc'[u] \in Releasing
        PROVE  /\ settled'[arg'[u]]
               /\ scan'[u] <= Len(modules'[arg'[u]])
               /\ ~failed'[u] => scan'[u] = Len(modules'[arg'[u]])
    <3>1. CASE u = t
      <4>1. scan'[t] = scan[t] - 1 /\ Len(modules[arg[t]]) \in Nat /\ scan[t] \in Nat
        BY <1>0, <1>a DEF IInv, TypeOK, ReleaseModule
      <4> QED BY <1>0, <1>b, <3>1, <4>1 DEF IInv, ReleaseShape, ReleaseModule
    <3>2. CASE u # t
      <4>1. /\ pc' = pc /\ arg' = arg /\ failed' = failed /\ settled' = settled
            /\ scan'[u] = scan[u] /\ pc[u] # "idle"
        BY <2>3, <3>2 DEF IInv, TypeOK, ReleaseModule, Releasing
      <4>2. modules'[arg[u]] = modules[arg[u]]
        BY <1>b, <2>0, <3>2, <4>1
      <4> QED BY <2>3, <4>1, <4>2 DEF IInv, ReleaseShape
    <3> QED BY <3>1, <3>2
  <2> QED BY <2>1, <2>2, <2>3 DEF ReleaseShape
<1> QED BY <1>1, <1>2, <1>3, <1>4, <1>5, <1>6, <1>7 DEF IInv

\* Release_modules is refused and keeps the record.
LEMMA ReleaseModuleFailsStep ==
    ASSUME IInv, NEW t \in Threads, ReleaseModuleFails(t)
    PROVE  IInv'
<1>t. TypeOK
  BY DEF IInv
<1>0. arg[t] \in Generations
  BY DEF IInv, CallShape, ReleaseModuleFails, Releasing
<1>1. TypeOK'
  <2>1. scan' \in [Threads -> Nat] /\ failed' \in [Threads -> BOOLEAN] /\ faults' \in 0..MaxFaults
    BY <1>t, BoundsAssumption DEF TypeOK, ReleaseModuleFails
  <2> QED BY <1>t, <2>1 DEF TypeOK, ReleaseModuleFails, runtimeVars, generationVars, scopeVars, leaseVars
<1>2. CallShape'
  BY <1>0, GenerationsAssumption, SourcesAssumption, BoundsAssumption DEF IInv, TypeOK, CallShape, ReleaseModuleFails, runtimeVars, generationVars, scopeVars, threadVars, leaseVars, Exclusive, Draining, Releasing, GenerationShape
<1>3. GenerationShape'
  BY <1>0, GenerationsAssumption, SourcesAssumption, BoundsAssumption DEF IInv, TypeOK, GenerationShape, ReleaseModuleFails, runtimeVars, generationVars, scopeVars, threadVars, leaseVars, CallShape, Exclusive, Draining, Releasing
<1>4. ScopeShape'
  BY <1>0, GenerationsAssumption, SourcesAssumption, BoundsAssumption DEF IInv, TypeOK, ScopeShape, ReleaseModuleFails, runtimeVars, generationVars, scopeVars, threadVars, leaseVars
<1>5. AttachShape'
  BY AttachFrame DEF IInv, ReleaseModuleFails, runtimeVars, generationVars
<1>6. LeaseShape'
  BY LeaseFrame DEF IInv, ReleaseModuleFails, generationVars, leaseVars
<1>7. ReleaseShape'
  <2>1. ASSUME NEW u \in Threads, pc'[u] \in Releasing
        PROVE  /\ settled'[arg'[u]]
               /\ scan'[u] <= Len(modules'[arg'[u]])
               /\ ~failed'[u] => scan'[u] = Len(modules'[arg'[u]])
    <3>1. /\ settled[arg[u]] /\ scan[u] <= Len(modules[arg[u]])
          /\ ~failed[u] => scan[u] = Len(modules[arg[u]])
      BY <2>1 DEF IInv, ReleaseShape, ReleaseModuleFails
    <3>2. scan \in [Threads -> Nat] /\ failed \in [Threads -> BOOLEAN] /\ UNCHANGED <<settled, modules, arg>>
      BY DEF IInv, TypeOK, ReleaseModuleFails, generationVars
    <3>3. Len(modules[arg[u]]) \in Nat
      BY <2>1 DEF IInv, TypeOK, CallShape, ReleaseModuleFails, Releasing
    <3> QED BY <3>1, <3>2, <3>3 DEF ReleaseModuleFails
  <2> QED BY <2>1 DEF IInv, ReleaseShape, ReleaseModuleFails, generationVars
<1> QED BY <1>1, <1>2, <1>3, <1>4, <1>5, <1>6, <1>7 DEF IInv

\* A pass with a refusal ends.
LEMMA ReleaseFailedStep ==
    ASSUME IInv, NEW t \in Threads, ReleaseFailed(t)
    PROVE  IInv'
<1>0. arg[t] \in Generations
  BY DEF IInv, CallShape, ReleaseFailed, Releasing
<1>a. gstate[arg[t]] \notin {"PUBLISHED", "DRAINING"} /\ (owned[arg[t]] => gstate[arg[t]] = "STOPPING")
  BY DEF IInv, CallShape, GenerationShape, ReleaseFailed, Releasing, Exclusive, Draining
<1>1. TypeOK'
  BY <1>0, GenerationsAssumption, SourcesAssumption, BoundsAssumption DEF IInv, TypeOK, ReleaseFailed, Return, runtimeVars, generationVars, scopeVars, threadVars, leaseVars, Exclusive, Draining, GStates, CStates, L!Phases
<1>2. CallShape'
  BY <1>0, GenerationsAssumption, SourcesAssumption, BoundsAssumption DEF IInv, TypeOK, CallShape, ReleaseFailed, Return, runtimeVars, generationVars, scopeVars, threadVars, leaseVars, Exclusive, Draining, Releasing, GenerationShape
<1>3. GenerationShape'
  BY <1>0, GenerationsAssumption, SourcesAssumption, BoundsAssumption DEF IInv, TypeOK, GenerationShape, ReleaseFailed, Return, runtimeVars, generationVars, scopeVars, threadVars, leaseVars, CallShape, Exclusive, Draining, Releasing
<1>4. ScopeShape'
  <2>1. \A s \in Scopes : bound[s] # arg[t]
    BY <1>0, <1>a, Unbound DEF IInv
  <2> QED BY <1>0, <2>1, ScopeFrame DEF IInv, TypeOK, ScopeShape, ReleaseFailed, runtimeVars, scopeVars
<1>5. AttachShape'
  BY AttachFrame DEF IInv, ReleaseFailed, runtimeVars, generationVars
<1>6. LeaseShape'
  BY LeaseFrame DEF IInv, ReleaseFailed, generationVars, leaseVars
<1>7. ReleaseShape'
  BY <1>0, GenerationsAssumption, SourcesAssumption, BoundsAssumption DEF IInv, TypeOK, ReleaseShape, ReleaseFailed, Return, runtimeVars, generationVars, scopeVars, threadVars, leaseVars, CallShape, Exclusive, Draining, Releasing
<1> QED BY <1>1, <1>2, <1>3, <1>4, <1>5, <1>6, <1>7 DEF IInv

\* A failed build ends with every lease back.
LEMMA BuildGivenUpStep ==
    ASSUME IInv, NEW t \in Threads, BuildGivenUp(t)
    PROVE  IInv'
<1>t. TypeOK
  BY DEF IInv
<1>0. arg[t] \in Generations /\ modules[arg[t]] = <<>> /\ modules' = modules
  BY NothingLeft DEF IInv, BuildGivenUp, Clear, Releasing
<1>a. gstate[arg[t]] \notin {"PUBLISHED", "DRAINING"} /\ ~owned[arg[t]] /\ gstate[arg[t]] # "STOPPING"
  BY DEF IInv, CallShape, GenerationShape, BuildGivenUp, Exclusive, Draining
<1>1. TypeOK'
  <2>1. /\ components' \in [Generations -> CStates]
        /\ settled' \in [Generations -> BOOLEAN] /\ uses' \in [Generations -> SUBSET Plugins]
    <3>1. /\ components \in [Generations -> CStates]
          /\ settled \in [Generations -> BOOLEAN] /\ uses \in [Generations -> SUBSET Plugins]
      BY <1>t DEF TypeOK
    <3> QED BY <1>0, <3>1 DEF BuildGivenUp, Clear, CStates
  <2>2. /\ pc' \in [Threads -> {"idle"} \cup Exclusive \cup Draining]
        /\ arg' \in [Threads -> Generations \cup {NoGeneration}]
        /\ scan' \in [Threads -> Nat] /\ failed' \in [Threads -> BOOLEAN]
    <3>1. /\ pc \in [Threads -> {"idle"} \cup Exclusive \cup Draining]
          /\ arg \in [Threads -> Generations \cup {NoGeneration}]
          /\ scan \in [Threads -> Nat] /\ failed \in [Threads -> BOOLEAN]
      BY <1>t DEF TypeOK
    <3> QED BY <3>1 DEF BuildGivenUp, Return
  <2>5. UNCHANGED <<runtimeVars, gstate, id, owned, scopes, scopeVars, todo, leaseVars, faults>>
    BY DEF BuildGivenUp
  <2> QED BY <1>0, <1>t, <2>1, <2>2, <2>5 DEF TypeOK, runtimeVars, scopeVars, leaseVars
<1>2. CallShape'
  BY <1>0, GenerationsAssumption, SourcesAssumption, BoundsAssumption DEF IInv, TypeOK, CallShape, BuildGivenUp, Return, Clear, runtimeVars, generationVars, scopeVars, threadVars, leaseVars, Exclusive, Draining, Releasing, GenerationShape
<1>3. GenerationShape'
  BY <1>0, GenerationsAssumption, SourcesAssumption, BoundsAssumption DEF IInv, TypeOK, GenerationShape, BuildGivenUp, Return, Clear, runtimeVars, generationVars, scopeVars, threadVars, leaseVars, CallShape, Exclusive, Draining, Releasing
<1>4. ScopeShape'
  <2>1. \A s \in Scopes : bound[s] # arg[t]
    BY <1>0, <1>a, Unbound DEF IInv
  <2> QED BY <1>0, <2>1, ScopeFrame DEF IInv, TypeOK, ScopeShape, BuildGivenUp, runtimeVars, scopeVars
<1>5. AttachShape'
  BY AttachFrame DEF IInv, BuildGivenUp, runtimeVars, generationVars
<1>6. LeaseShape'
  BY <1>0, LeaseFrame DEF IInv, BuildGivenUp, leaseVars
<1>7. ReleaseShape'
  <2>0. ASSUME NEW u \in Threads, pc'[u] # "idle"
        PROVE  u # t /\ arg'[u] = arg[u] /\ pc'[u] = pc[u] /\ arg[u] \in Generations /\ arg[u] # arg[t]
    BY <2>0 DEF IInv, TypeOK, CallShape, BuildGivenUp, Return, Releasing
  <2>1. ASSUME NEW u \in Threads, pc'[u] = "admit"
        PROVE  settled'[arg'[u]] /\ uses'[arg'[u]] \subseteq Elements(modules'[arg'[u]])
    BY ZenonT(30), <1>0, <2>0, <2>1 DEF IInv, TypeOK, ReleaseShape, BuildGivenUp, Clear
  <2>2. ASSUME NEW h \in Generations, ~settled'[h] PROVE uses'[h] \subseteq Elements(modules'[h])
    BY <1>0, <2>2 DEF IInv, TypeOK, ReleaseShape, BuildGivenUp, Clear
  <2>3. ASSUME NEW u \in Threads, pc'[u] \in Releasing
        PROVE  /\ settled'[arg'[u]]
               /\ scan'[u] <= Len(modules'[arg'[u]])
               /\ ~failed'[u] => scan'[u] = Len(modules'[arg'[u]])
    BY <1>0, <2>0, <2>3 DEF IInv, TypeOK, ReleaseShape, BuildGivenUp, Clear, Return, Releasing
  <2> QED BY <2>1, <2>2, <2>3 DEF ReleaseShape
<1> QED BY <1>1, <1>2, <1>3, <1>4, <1>5, <1>6, <1>7 DEF IInv

\* Discard or recover ends with every lease back.
LEMMA WithdrawnStep ==
    ASSUME IInv, NEW t \in Threads, Withdrawn(t)
    PROVE  IInv'
<1>t. TypeOK
  BY DEF IInv
<1>0. arg[t] \in Generations /\ modules[arg[t]] = <<>> /\ modules' = modules
  BY ZenonT(30), NothingLeft DEF IInv, Withdrawn, Clear, Releasing
<1>a. gstate[arg[t]] \notin {"PUBLISHED", "DRAINING"} /\ ~owned[arg[t]] /\ gstate[arg[t]] # "STOPPING"
  BY ZenonT(30) DEF IInv, CallShape, GenerationShape, Withdrawn, Exclusive, Draining
<1>1. TypeOK'
  <2>1. /\ components' \in [Generations -> CStates]
        /\ settled' \in [Generations -> BOOLEAN] /\ uses' \in [Generations -> SUBSET Plugins]
    <3>1. /\ components \in [Generations -> CStates]
          /\ settled \in [Generations -> BOOLEAN] /\ uses \in [Generations -> SUBSET Plugins]
      BY <1>t DEF TypeOK
    <3> QED BY <1>0, <3>1 DEF Withdrawn, Clear, CStates
  <2>2. /\ pc' \in [Threads -> {"idle"} \cup Exclusive \cup Draining]
        /\ arg' \in [Threads -> Generations \cup {NoGeneration}]
        /\ scan' \in [Threads -> Nat] /\ failed' \in [Threads -> BOOLEAN]
    <3>1. /\ pc \in [Threads -> {"idle"} \cup Exclusive \cup Draining]
          /\ arg \in [Threads -> Generations \cup {NoGeneration}]
          /\ scan \in [Threads -> Nat] /\ failed \in [Threads -> BOOLEAN]
      BY <1>t DEF TypeOK
    <3> QED BY <3>1 DEF Withdrawn, Return
  <2>3. gstate' \in [Generations -> GStates]
    <3>1. gstate \in [Generations -> GStates]
      BY <1>t DEF TypeOK
    <3> QED BY <1>0, <3>1 DEF Withdrawn, GStates
  <2>5. UNCHANGED <<runtimeVars, id, owned, scopes, scopeVars, todo, leaseVars, faults>>
    BY DEF Withdrawn
  <2> QED BY <1>0, <1>t, <2>1, <2>2, <2>3, <2>5 DEF TypeOK, runtimeVars, scopeVars, leaseVars
<1>2. CallShape'
  BY <1>0, GenerationsAssumption, SourcesAssumption, BoundsAssumption DEF IInv, TypeOK, CallShape, Withdrawn, Return, Clear, runtimeVars, generationVars, scopeVars, threadVars, leaseVars, Exclusive, Draining, Releasing, GenerationShape
<1>3. GenerationShape'
  BY <1>0, GenerationsAssumption, SourcesAssumption, BoundsAssumption DEF IInv, TypeOK, GenerationShape, Withdrawn, Return, Clear, runtimeVars, generationVars, scopeVars, threadVars, leaseVars, CallShape, Exclusive, Draining, Releasing
<1>4. ScopeShape'
  <2>1. \A s \in Scopes : bound[s] # arg[t]
    BY <1>0, <1>a, Unbound DEF IInv
  <2> QED BY <1>0, <2>1, ScopeFrame DEF IInv, TypeOK, ScopeShape, Withdrawn, runtimeVars, scopeVars
<1>5. AttachShape'
  BY AttachFrame DEF IInv, Withdrawn, runtimeVars, generationVars
<1>6. LeaseShape'
  BY <1>0, LeaseFrame DEF IInv, Withdrawn, leaseVars
<1>7. ReleaseShape'
  <2>0. ASSUME NEW u \in Threads, pc'[u] # "idle"
        PROVE  u # t /\ arg'[u] = arg[u] /\ pc'[u] = pc[u] /\ arg[u] \in Generations /\ arg[u] # arg[t]
    BY <2>0 DEF IInv, TypeOK, CallShape, Withdrawn, Return, Releasing
  <2>1. ASSUME NEW u \in Threads, pc'[u] = "admit"
        PROVE  settled'[arg'[u]] /\ uses'[arg'[u]] \subseteq Elements(modules'[arg'[u]])
    BY ZenonT(30), <1>0, <2>0, <2>1 DEF IInv, TypeOK, ReleaseShape, Withdrawn, Clear
  <2>2. ASSUME NEW h \in Generations, ~settled'[h] PROVE uses'[h] \subseteq Elements(modules'[h])
    BY <1>0, <2>2 DEF IInv, TypeOK, ReleaseShape, Withdrawn, Clear
  <2>3. ASSUME NEW u \in Threads, pc'[u] \in Releasing
        PROVE  /\ settled'[arg'[u]]
               /\ scan'[u] <= Len(modules'[arg'[u]])
               /\ ~failed'[u] => scan'[u] = Len(modules'[arg'[u]])
    BY <1>0, <2>0, <2>3 DEF IInv, TypeOK, ReleaseShape, Withdrawn, Clear, Return, Releasing
  <2> QED BY <2>1, <2>2, <2>3 DEF ReleaseShape
<1> QED BY <1>1, <1>2, <1>3, <1>4, <1>5, <1>6, <1>7 DEF IInv

\* Drain ends with every lease back.
LEMMA DrainedStep ==
    ASSUME IInv, NEW t \in Threads, Drained(t)
    PROVE  IInv'
<1>t. TypeOK
  BY DEF IInv
<1>0. arg[t] \in Generations /\ modules[arg[t]] = <<>> /\ modules' = modules
  BY ZenonT(30), NothingLeft DEF IInv, Drained, Clear, Releasing
<1>a. gstate[arg[t]] \notin {"PUBLISHED", "DRAINING"} /\ owned[arg[t]] /\ gstate[arg[t]] = "STOPPING"
  BY DEF IInv, CallShape, GenerationShape, Drained, Exclusive, Draining
<1>1. TypeOK'
  <2>1. /\ components' \in [Generations -> CStates]
        /\ settled' \in [Generations -> BOOLEAN] /\ uses' \in [Generations -> SUBSET Plugins]
    <3>1. /\ components \in [Generations -> CStates]
          /\ settled \in [Generations -> BOOLEAN] /\ uses \in [Generations -> SUBSET Plugins]
      BY <1>t DEF TypeOK
    <3> QED BY ZenonT(30), <1>0, <3>1 DEF Drained, Clear, CStates
  <2>2. /\ pc' \in [Threads -> {"idle"} \cup Exclusive \cup Draining]
        /\ arg' \in [Threads -> Generations \cup {NoGeneration}]
        /\ scan' \in [Threads -> Nat] /\ failed' \in [Threads -> BOOLEAN]
    <3>1. /\ pc \in [Threads -> {"idle"} \cup Exclusive \cup Draining]
          /\ arg \in [Threads -> Generations \cup {NoGeneration}]
          /\ scan \in [Threads -> Nat] /\ failed \in [Threads -> BOOLEAN]
      BY <1>t DEF TypeOK
    <3> QED BY <3>1 DEF Drained, Return
  <2>3. gstate' \in [Generations -> GStates]
    <3>1. gstate \in [Generations -> GStates]
      BY <1>t DEF TypeOK
    <3> QED BY ZenonT(30), <1>0, <3>1 DEF Drained, GStates
  <2>4. owned' \in [Generations -> BOOLEAN] /\ attached' \in Nat
    <3>1. attached \in Nat /\ attached # 0 /\ owned \in [Generations -> BOOLEAN]
      BY <1>0, <1>a, NoneAttached DEF IInv, TypeOK
    <3>2. owned' = [owned EXCEPT ![arg[t]] = FALSE] /\ attached' = attached - 1
      BY DEF Drained, Detach
    <3>3. attached' \in Nat
      BY <3>1, <3>2
    <3>4. owned' \in [Generations -> BOOLEAN]
      BY ZenonT(30), <3>1, <3>2
    <3> QED BY <3>3, <3>4
  <2>5. UNCHANGED <<initialized, current, lastId, activeScopes, id, scopes, scopeVars, todo, leaseVars, faults>>
    BY DEF Drained
  <2> QED BY <1>0, <1>t, <2>1, <2>2, <2>3, <2>4, <2>5 DEF TypeOK, runtimeVars, scopeVars, leaseVars
<1>2. CallShape'
  <2>0. ASSUME NEW u \in Threads, pc'[u] # "idle"
        PROVE  u # t /\ arg'[u] = arg[u] /\ pc'[u] = pc[u] /\ arg[u] \in Generations /\ arg[u] # arg[t]
    BY ZenonT(30), <1>t, <2>0 DEF IInv, TypeOK, CallShape, Drained, Return
  <2>1. ASSUME NEW u \in Threads, pc'[u] # "idle"
        PROVE  owned'[arg'[u]] = owned[arg[u]] /\ gstate'[arg'[u]] = gstate[arg[u]]
    BY ZenonT(30), <1>0, <1>t, <2>0, <2>1 DEF TypeOK, Drained, Detach
  <2> QED BY <2>0, <2>1 DEF IInv, CallShape, Exclusive, Draining
<1>3. GenerationShape'
  BY <1>0, GenerationsAssumption, SourcesAssumption, BoundsAssumption DEF IInv, TypeOK, GenerationShape, Drained, Return, Clear, Detach, runtimeVars, generationVars, scopeVars, threadVars, leaseVars, CallShape, Exclusive, Draining, Releasing
<1>4. ScopeShape'
  <2>1. \A s \in Scopes : bound[s] # arg[t]
    BY <1>0, <1>a, Unbound DEF IInv
  <2> QED BY <1>0, <2>1, ScopeFrame DEF IInv, TypeOK, ScopeShape, Drained, runtimeVars, scopeVars
<1>5. AttachShape'
  <2> DEFINE T == {g \in Generations : owned[g]}
  <2>1. T \in SUBSET Generations /\ arg[t] \in T
    BY <1>0, <1>a
  <2>2. {g \in Generations : owned'[g]} = T \ {arg[t]}
    BY <1>0 DEF IInv, TypeOK, Drained, Detach
  <2>3. attached = Cardinality(T) /\ attached <= MaxAttached
    BY DEF IInv, AttachShape
  <2> HIDE DEF T
  <2>4. Cardinality(T \ {arg[t]}) = Cardinality(T) - 1 /\ Cardinality(T) \in Nat \ {0}
    BY <2>1, FiniteAssumption, CountDown
  <2>5. attached' = attached - 1
    BY DEF Drained, Detach
  <2>6. attached' = Cardinality(T \ {arg[t]})
    BY <2>3, <2>4, <2>5
  <2>7. attached' <= MaxAttached
    BY SMTT(30), <2>3, <2>4, <2>5 DEF MaxAttached
  <2> QED BY ZenonT(30), <2>2, <2>6, <2>7 DEF AttachShape, MaxAttached
<1>6. LeaseShape'
  BY <1>0, LeaseFrame DEF IInv, Drained, leaseVars
<1>7. ReleaseShape'
  <2>0. ASSUME NEW u \in Threads, pc'[u] # "idle"
        PROVE  u # t /\ arg'[u] = arg[u] /\ pc'[u] = pc[u] /\ arg[u] \in Generations /\ arg[u] # arg[t]
    BY <2>0 DEF IInv, TypeOK, CallShape, Drained, Return, Releasing
  <2>1. ASSUME NEW u \in Threads, pc'[u] = "admit"
        PROVE  settled'[arg'[u]] /\ uses'[arg'[u]] \subseteq Elements(modules'[arg'[u]])
    BY ZenonT(30), <1>0, <2>0, <2>1 DEF IInv, TypeOK, ReleaseShape, Drained, Clear
  <2>2. ASSUME NEW h \in Generations, ~settled'[h] PROVE uses'[h] \subseteq Elements(modules'[h])
    BY <1>0, <2>2 DEF IInv, TypeOK, ReleaseShape, Drained, Clear
  <2>3. ASSUME NEW u \in Threads, pc'[u] \in Releasing
        PROVE  /\ settled'[arg'[u]]
               /\ scan'[u] <= Len(modules'[arg'[u]])
               /\ ~failed'[u] => scan'[u] = Len(modules'[arg'[u]])
    BY <1>0, <2>0, <2>3 DEF IInv, TypeOK, ReleaseShape, Drained, Clear, Return, Releasing
  <2> QED BY <2>1, <2>2, <2>3 DEF ReleaseShape
<1> QED BY <1>1, <1>2, <1>3, <1>4, <1>5, <1>6, <1>7 DEF IInv

\* Discard takes a built generation.
LEMMA DiscardStep ==
    ASSUME IInv, NEW t \in Threads, NEW g \in Generations, Discard(t, g)
    PROVE  IInv'
<1>t. TypeOK
  BY DEF IInv
<1>0. gstate[g] = "BUILT" /\ ~owned[g]
  BY DEF IInv, GenerationShape, Discard
<1>y. /\ pc \in [Threads -> {"idle"} \cup Exclusive \cup Draining]
      /\ arg \in [Threads -> Generations \cup {NoGeneration}]
  BY <1>t DEF TypeOK
<1>a. \A u \in Threads : pc[u] # "idle" => arg[u] # g
  BY <1>0, Free DEF IInv, Discard
<1>b. /\ pc' = [pc EXCEPT ![t] = "stop_built"] /\ arg' = [arg EXCEPT ![t] = g] /\ owned' = owned
      /\ pc[t] = "idle"
  BY DEF Discard, Enter, generationVars
<1>1. TypeOK'
  BY <1>0, GenerationsAssumption, SourcesAssumption, BoundsAssumption DEF IInv, TypeOK, Discard, Unshared, Enter, runtimeVars, generationVars, scopeVars, threadVars, leaseVars, Exclusive, Draining, GStates, CStates, L!Phases
<1>2. CallShape'
  <2>0. ASSUME NEW u \in Threads \ {t} PROVE pc'[u] = pc[u] /\ arg'[u] = arg[u]
    BY <1>b, <1>y
  <2>1. pc'[t] = "stop_built" /\ arg'[t] = g
    BY <1>b, <1>y
  <2>2. \A u \in Threads : pc'[u] # "idle" => arg'[u] \in Generations
    BY <2>0, <2>1 DEF IInv, CallShape
  <2>3. \A u \in Threads : pc'[u] \in Exclusive => ~owned'[arg'[u]]
    BY <1>0, <1>b, <2>0, <2>1 DEF IInv, CallShape, Exclusive
  <2>4. \A u \in Threads : pc'[u] \in Draining => owned'[arg'[u]] /\ gstate'[arg'[u]] = "STOPPING"
    BY <1>b, <2>0, <2>1 DEF IInv, CallShape, Draining, Discard, generationVars
  <2>5. \A u, v \in Threads : pc'[u] # "idle" /\ pc'[v] # "idle" /\ arg'[u] = arg'[v] => u = v
    BY <1>a, <2>0, <2>1 DEF IInv, CallShape
  <2> QED BY <2>2, <2>3, <2>4, <2>5 DEF CallShape
<1>3. GenerationShape'
  BY <1>0, GenerationsAssumption, SourcesAssumption, BoundsAssumption DEF IInv, TypeOK, GenerationShape, Discard, Unshared, Enter, runtimeVars, generationVars, scopeVars, threadVars, leaseVars, CallShape, Exclusive, Draining, Releasing
<1>4. ScopeShape'
  BY <1>0, GenerationsAssumption, SourcesAssumption, BoundsAssumption DEF IInv, TypeOK, ScopeShape, Discard, Unshared, Enter, runtimeVars, generationVars, scopeVars, threadVars, leaseVars
<1>5. AttachShape'
  BY AttachFrame DEF IInv, Discard, runtimeVars, generationVars
<1>6. LeaseShape'
  BY LeaseFrame DEF IInv, Discard, generationVars, leaseVars
<1>7. ReleaseShape'
  BY <1>0, GenerationsAssumption, SourcesAssumption, BoundsAssumption DEF IInv, TypeOK, ReleaseShape, Discard, Unshared, Enter, runtimeVars, generationVars, scopeVars, threadVars, leaseVars, CallShape, Exclusive, Draining, Releasing
<1> QED BY <1>1, <1>2, <1>3, <1>4, <1>5, <1>6, <1>7 DEF IInv

\* Recover takes a failed generation.
LEMMA RecoverStep ==
    ASSUME IInv, NEW t \in Threads, NEW g \in Generations, Recover(t, g)
    PROVE  IInv'
<1>t. TypeOK
  BY DEF IInv
<1>0. gstate[g] = "FAILED" /\ ~owned[g] /\ settled[g]
  BY ZenonT(30) DEF IInv, GenerationShape, Recover, service_host_components_settled
<1>y. /\ pc \in [Threads -> {"idle"} \cup Exclusive \cup Draining]
      /\ arg \in [Threads -> Generations \cup {NoGeneration}]
  BY <1>t DEF TypeOK
<1>a. \A u \in Threads : pc[u] # "idle" => arg[u] # g
  BY ZenonT(30), <1>0, Free DEF IInv, Recover
<1>b. /\ pc' = [pc EXCEPT ![t] = "release_recover"] /\ arg' = [arg EXCEPT ![t] = g] /\ owned' = owned
      /\ pc[t] = "idle"
  BY DEF Recover, Enter, generationVars
<1>1. TypeOK'
  BY <1>0, GenerationsAssumption, SourcesAssumption, BoundsAssumption DEF IInv, TypeOK, Recover, Unshared, Enter, runtimeVars, generationVars, scopeVars, threadVars, leaseVars, Exclusive, Draining, GStates, CStates, L!Phases
<1>2. CallShape'
  <2>0. ASSUME NEW u \in Threads \ {t} PROVE pc'[u] = pc[u] /\ arg'[u] = arg[u]
    BY <1>b, <1>y
  <2>1. pc'[t] = "release_recover" /\ arg'[t] = g
    BY <1>b, <1>y
  <2>2. \A u \in Threads : pc'[u] # "idle" => arg'[u] \in Generations
    BY <2>0, <2>1 DEF IInv, CallShape
  <2>3. \A u \in Threads : pc'[u] \in Exclusive => ~owned'[arg'[u]]
    BY <1>0, <1>b, <2>0, <2>1 DEF IInv, CallShape, Exclusive
  <2>4. \A u \in Threads : pc'[u] \in Draining => owned'[arg'[u]] /\ gstate'[arg'[u]] = "STOPPING"
    BY <1>b, <2>0, <2>1 DEF IInv, CallShape, Draining, Recover, generationVars
  <2>5. \A u, v \in Threads : pc'[u] # "idle" /\ pc'[v] # "idle" /\ arg'[u] = arg'[v] => u = v
    BY <1>a, <2>0, <2>1 DEF IInv, CallShape
  <2> QED BY <2>2, <2>3, <2>4, <2>5 DEF CallShape
<1>3. GenerationShape'
  BY <1>0, GenerationsAssumption, SourcesAssumption, BoundsAssumption DEF IInv, TypeOK, GenerationShape, Recover, Unshared, Enter, runtimeVars, generationVars, scopeVars, threadVars, leaseVars, CallShape, Exclusive, Draining, Releasing
<1>4. ScopeShape'
  BY <1>0, GenerationsAssumption, SourcesAssumption, BoundsAssumption DEF IInv, TypeOK, ScopeShape, Recover, Unshared, Enter, runtimeVars, generationVars, scopeVars, threadVars, leaseVars
<1>5. AttachShape'
  BY ZenonT(30), AttachFrame DEF IInv, Recover, runtimeVars, generationVars
<1>6. LeaseShape'
  BY ZenonT(30), LeaseFrame DEF IInv, Recover, generationVars, leaseVars
<1>7. ReleaseShape'
  <2>0. ASSUME NEW u \in Threads \ {t} PROVE pc'[u] = pc[u] /\ arg'[u] = arg[u]
    BY <1>b, <1>y
  <2>1. pc'[t] = "release_recover" /\ arg'[t] = g
    BY <1>b, <1>y
  <2>2. /\ \A u \in Threads \ {t} : scan'[u] = scan[u] /\ failed'[u] = failed[u]
        /\ scan'[t] = Len(modules[g]) /\ Len(modules[g]) \in Nat
        /\ UNCHANGED <<settled, modules, uses>>
    <3>1. scan \in [Threads -> Nat] /\ failed \in [Threads -> BOOLEAN] /\ Len(modules[g]) \in Nat
      BY <1>t DEF TypeOK
    <3> QED BY ZenonT(30), <3>1 DEF Recover, generationVars
  <2>3. ASSUME NEW u \in Threads, pc'[u] \in Releasing
        PROVE  /\ settled'[arg'[u]]
               /\ scan'[u] <= Len(modules'[arg'[u]])
               /\ ~failed'[u] => scan'[u] = Len(modules'[arg'[u]])
    <3>1. CASE u = t
      <4>1. arg'[u] = g /\ modules'[g] = modules[g] /\ settled'[g] = settled[g]
        BY <2>1, <2>2, <3>1
      <4>2. scan'[u] = Len(modules[g]) /\ Len(modules[g]) \in Nat /\ settled[g]
        BY <1>0, <2>1, <2>2, <3>1
      <4> QED BY <4>1, <4>2
    <3>2. CASE u # t
      BY <2>0, <2>2, <2>3, <3>2 DEF IInv, ReleaseShape
    <3> QED BY <3>1, <3>2
  <2> QED BY <2>0, <2>1, <2>2, <2>3 DEF IInv, ReleaseShape
<1> QED BY <1>1, <1>2, <1>3, <1>4, <1>5, <1>6, <1>7 DEF IInv

\* The graph has stopped, or could not.
LEMMA StopReturnsStep ==
    ASSUME IInv, NEW t \in Threads, StopReturns(t)
    PROVE  IInv'
<1>t. TypeOK
  BY DEF IInv
<1>0. /\ pc[t] \in {"stop_built", "stop_drain"} /\ arg[t] \in Generations /\ gstate[arg[t]] \notin {"PUBLISHED", "DRAINING"}
      /\ pc[t] = "stop_built" => ~owned[arg[t]] /\ gstate[arg[t]] # "STOPPING"
      /\ pc[t] = "stop_drain" => owned[arg[t]] /\ gstate[arg[t]] = "STOPPING"
  BY ZenonT(30) DEF IInv, CallShape, GenerationShape, Exclusive, Draining, StopReturns
<1>a. \/ /\ settled' = [settled EXCEPT ![arg[t]] = TRUE] /\ UNCHANGED <<arg, gstate, faults>>
         /\ BeginRelease(t, IF pc[t] = "stop_built" THEN "release_built" ELSE "release_drain")
      \/ /\ Return(t) /\ settled' = settled /\ gstate' = [gstate EXCEPT ![arg[t]] = "FAILED"]
         /\ faults < MaxFaults /\ faults' = faults + 1
  BY DEF StopReturns
<1>y. /\ gstate \in [Generations -> GStates] /\ settled \in [Generations -> BOOLEAN]
      /\ pc \in [Threads -> {"idle"} \cup Exclusive \cup Draining]
      /\ arg \in [Threads -> Generations \cup {NoGeneration}]
      /\ scan \in [Threads -> Nat] /\ failed \in [Threads -> BOOLEAN]
  BY <1>t DEF TypeOK
<1>b. UNCHANGED <<owned, modules, uses>>
  BY DEF StopReturns
<1>1. TypeOK'
  <2>1. components' \in [Generations -> CStates]
    <3>1. components \in [Generations -> CStates]
      BY <1>t DEF TypeOK
    <3> QED BY ZenonT(30), <1>0, <3>1 DEF StopReturns, CStates
  <2>2. gstate' \in [Generations -> GStates]
    <3>1. gstate \in [Generations -> GStates]
      BY <1>t DEF TypeOK
    <3> QED BY ZenonT(30), <1>0, <1>a, <3>1 DEF StopReturns, GStates
  <2>3. settled' \in [Generations -> BOOLEAN]
    <3>1. settled \in [Generations -> BOOLEAN]
      BY <1>t DEF TypeOK
    <3> QED BY ZenonT(30), <1>0, <1>a, <3>1
  <2>6. faults' \in 0..MaxFaults
    <3>1. faults \in 0..MaxFaults
      BY <1>t DEF TypeOK
    <3> QED BY <1>a, <3>1, BoundsAssumption
  <2>4. /\ pc' \in [Threads -> {"idle"} \cup Exclusive \cup Draining]
        /\ arg' \in [Threads -> Generations \cup {NoGeneration}]
    <3>1. /\ pc \in [Threads -> {"idle"} \cup Exclusive \cup Draining]
          /\ arg \in [Threads -> Generations \cup {NoGeneration}]
      BY <1>t DEF TypeOK
    <3>2. {"release_configured", "release_built", "release_drain"} \subseteq Exclusive \cup Draining
      BY DEF Exclusive, Draining
    <3> QED BY <1>a, <3>1, <3>2 DEF BeginRelease, Return
  <2>5. scan' \in [Threads -> Nat]
    <3>1. scan \in [Threads -> Nat] /\ Len(modules[arg[t]]) \in Nat
      BY <1>0, <1>t DEF TypeOK
    <3> QED BY <1>a, <3>1 DEF BeginRelease, Return
  <2>7. failed' \in [Threads -> BOOLEAN]
    <3>1. failed \in [Threads -> BOOLEAN]
      BY <1>t DEF TypeOK
    <3> QED BY ZenonT(30), <1>a, <3>1 DEF BeginRelease, Return
  <2>8. UNCHANGED <<runtimeVars, id, owned, scopes, modules, scopeVars, todo, leaseVars, uses>>
    BY DEF StopReturns
  <2> QED BY <1>t, <2>1, <2>2, <2>3, <2>4, <2>5, <2>6, <2>7, <2>8 DEF TypeOK, runtimeVars, scopeVars, leaseVars
<1>2. CallShape'
  <2>0. ASSUME NEW u \in Threads, pc'[u] # "idle"
        PROVE  /\ arg'[u] = arg[u] /\ pc[u] # "idle" /\ arg[u] \in Generations
               /\ u # t => pc'[u] = pc[u] /\ arg[u] # arg[t]
    BY <1>0, <1>a, <1>y, <2>0 DEF IInv, CallShape, BeginRelease, Return
  <2>1. ASSUME NEW u \in Threads, pc'[u] \in Exclusive PROVE ~owned'[arg'[u]]
    <3>1. CASE u = t
      BY <1>0, <1>a, <1>b, <1>y, <2>1, <3>1 DEF BeginRelease, Return, Exclusive
    <3>2. CASE u # t
      BY <1>b, <2>0, <2>1, <3>2 DEF IInv, CallShape, Exclusive
    <3> QED BY <3>1, <3>2
  <2>2. ASSUME NEW u \in Threads, pc'[u] \in Draining PROVE owned'[arg'[u]] /\ gstate'[arg'[u]] = "STOPPING"
    <3>1. CASE u = t
      BY <1>0, <1>a, <1>b, <1>y, <2>2, <3>1 DEF BeginRelease, Return, Draining
    <3>2. CASE u # t
      <4>1. owned[arg[u]] /\ gstate[arg[u]] = "STOPPING"
        BY <2>0, <2>2, <3>2 DEF IInv, CallShape, Draining
      <4>2. gstate'[arg[u]] = gstate[arg[u]]
        BY <1>0, <1>a, <1>b, <1>y, <2>0, <2>2, <3>2 DEF Draining
      <4> QED BY <1>b, <2>0, <2>2, <4>1, <4>2 DEF Draining
    <3> QED BY <3>1, <3>2
  <2>3. \A u, v \in Threads : pc'[u] # "idle" /\ pc'[v] # "idle" /\ arg'[u] = arg'[v] => u = v
    BY <2>0 DEF IInv, CallShape
  <2> QED BY <2>0, <2>1, <2>2, <2>3 DEF CallShape
<1>3. GenerationShape'
  BY <1>0, GenerationsAssumption, SourcesAssumption, BoundsAssumption DEF IInv, TypeOK, GenerationShape, StopReturns, BeginRelease, Return, runtimeVars, generationVars, scopeVars, threadVars, leaseVars, CallShape, Exclusive, Draining, Releasing
<1>4. ScopeShape'
  <2>1. \A s \in Scopes : bound[s] # arg[t]
    BY ZenonT(30), <1>0, Unbound DEF IInv
  <2> QED BY <1>0, <2>1, ScopeFrame DEF IInv, TypeOK, ScopeShape, StopReturns, runtimeVars, scopeVars
<1>5. AttachShape'
  BY ZenonT(30), AttachFrame DEF IInv, StopReturns, runtimeVars, generationVars
<1>6. LeaseShape'
  BY LeaseFrame DEF IInv, StopReturns, generationVars, leaseVars
<1>7. ReleaseShape'
  <2>0. ASSUME NEW u \in Threads \ {t}, pc'[u] # "idle"
        PROVE  /\ arg'[u] = arg[u] /\ pc'[u] = pc[u] /\ scan'[u] = scan[u] /\ failed'[u] = failed[u]
               /\ arg[u] \in Generations /\ settled'[arg[u]] = settled[arg[u]]
    <3>1. /\ arg'[u] = arg[u] /\ pc'[u] = pc[u] /\ scan'[u] = scan[u] /\ failed'[u] = failed[u]
      BY <1>a, <1>y DEF BeginRelease, Return
    <3>2. arg[u] \in Generations /\ arg[u] # arg[t]
      BY <1>0, <2>0, <3>1 DEF IInv, CallShape
    <3> QED BY <1>0, <1>a, <1>y, <3>1, <3>2
  <2>1. ASSUME NEW u \in Threads, pc'[u] = "admit"
        PROVE  settled'[arg'[u]] /\ uses'[arg'[u]] \subseteq Elements(modules'[arg'[u]])
    <3>1. u # t
      BY <1>0, <1>a, <1>y, <2>1 DEF BeginRelease, Return
    <3> QED BY <1>b, <2>0, <2>1, <3>1 DEF IInv, ReleaseShape
  <2>2. ASSUME NEW h \in Generations, ~settled'[h] PROVE uses'[h] \subseteq Elements(modules'[h])
    <3>1. ~settled[h]
      BY <1>0, <1>a, <1>y, <2>2
    <3> QED BY <1>b, <3>1 DEF IInv, ReleaseShape
  <2>3. ASSUME NEW u \in Threads, pc'[u] \in Releasing
        PROVE  /\ settled'[arg'[u]]
               /\ scan'[u] <= Len(modules'[arg'[u]])
               /\ ~failed'[u] => scan'[u] = Len(modules'[arg'[u]])
    <3>1. CASE u = t
      <4>1. Len(modules[arg[t]]) \in Nat
        BY <1>0, <1>t DEF TypeOK
      <4>2. arg' = arg /\ settled' = [settled EXCEPT ![arg[t]] = TRUE] /\ scan'[t] = Len(modules[arg[t]])
        BY <1>a, <1>y, <2>3, <3>1 DEF BeginRelease, Return, Releasing
      <4> QED BY <1>0, <1>b, <1>y, <3>1, <4>1, <4>2
    <3>2. CASE u # t
      BY <1>b, <2>0, <2>3, <3>2 DEF IInv, ReleaseShape, Releasing
    <3> QED BY <3>1, <3>2
  <2> QED BY <2>1, <2>2, <2>3 DEF ReleaseShape
<1> QED BY <1>1, <1>2, <1>3, <1>4, <1>5, <1>6, <1>7 DEF IInv

=============================================================================
