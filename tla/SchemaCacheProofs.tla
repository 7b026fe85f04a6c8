---- MODULE SchemaCacheProofs ----
(***************************************************************************)
(* What SchemaCache's runs show for three loads, proved for any number of  *)
(* namespaces, callers and loads.                                          *)
(***************************************************************************)
EXTENDS SchemaCache, TLAPS

\* Loads are numbered as they begin, and a load that has begun knows its namespace.
Numbered ==
    \A l \in Loads : IF l <= begun THEN loads[l].ns \in Namespaces /\ loads[l].state # "unused"
                     ELSE loads[l] = Unused

\* What is kept has begun, is of the namespace it is kept under, and is not outdated.
KeptWell(kept) ==
    \A n \in Namespaces :
        kept[n] # None => kept[n] <= begun /\ loads[kept[n]].ns = n /\ ~loads[kept[n]].outdated

\* Nobody waits for a load that has not begun.
WaitWell == \A c \in Callers : Waiting(c) => caller[c].load <= begun

\* A load that is kept and has not succeeded has somebody of W waiting for it: the one who began
\* it waits until it ends, and whoever it fails removes it before doing anything else.
Attended(kept, W) ==
    \A n \in Namespaces :
        kept[n] # None /\ loads[kept[n]].state # "done" => \E c \in W : caller[c].load = kept[n]

\* An indexer under way accounts for every root: read, failed, waited for or still to do.
WalkWell ==
    \A c \in Indexers :
        Waiting(c) => caller[c].names \union caller[c].failed \union caller[c].todo \union {NsOf(c)} = roots

IInv ==
    /\ TypeOK
    /\ Numbered
    /\ KeptWell(cache)
    /\ WaitWell
    /\ Attended(cache, Callers)

----------------------------------------------------------------------------

\* The first part of an answer to LoadAsync keeps the entries in order, whoever asks, if the
\* entries it starts from are attended by others than the one who asks.
LEMMA AskKeeps ==
  ASSUME CacheAssumption, IInv,
         NEW c \in Callers, NEW n \in Namespaces, NEW me \in Local,
         NEW kept \in [Namespaces -> Loads \union {None}],
         KeptWell(kept), Attended(kept, Callers \ {c}),
         Ask(c, n, kept, me), UNCHANGED token
  PROVE  /\ cache' \in [Namespaces -> Loads \union {None}]
         /\ loads' \in [Loads -> Task] /\ begun' \in 0..MaxLoads
         /\ caller' \in [Callers -> Local]
         /\ Numbered' /\ KeptWell(cache)' /\ WaitWell' /\ Attended(cache, Callers)'
<1>0. /\ cache \in [Namespaces -> Loads \union {None}]
      /\ loads \in [Loads -> Task] /\ begun \in 0..MaxLoads
      /\ caller \in [Callers -> Local] /\ MaxLoads \in Nat
      /\ token \in Nat /\ refreshing \in BOOLEAN
      /\ None \notin Loads /\ None \notin Namespaces
  BY DEF IInv, TypeOK, CacheAssumption
<1>1. CASE /\ kept[n] # None
           /\ cache' = kept /\ caller' = [caller EXCEPT ![c] = [me EXCEPT !.load = kept[n]]]
           /\ UNCHANGED <<loads, begun>>
  <2>1. kept[n] \in Loads
    BY <1>0, <1>1
  <2>2. caller' \in [Callers -> Local] /\ caller'[c].load = kept[n]
        /\ \A d \in Callers \ {c} : caller'[d] = caller[d]
    BY <1>0, <1>1, <2>1 DEF Local
  <2>3. Numbered' /\ KeptWell(cache)'
    BY <1>1 DEF IInv, Numbered, KeptWell, Unused
  <2>4. WaitWell'
    BY <1>0, <1>1, <2>1, <2>2 DEF IInv, WaitWell, Waiting, KeptWell
  <2>5. Attended(cache, Callers)'
    BY <1>1, <2>2 DEF Attended
  <2> QED BY <1>0, <1>1, <2>2, <2>3, <2>4, <2>5
<1>2. CASE /\ kept[n] = None /\ begun < MaxLoads
           /\ begun' = begun + 1
           /\ loads' = [loads EXCEPT ![begun + 1] =
                            [ns |-> n, state |-> "running", outdated |-> FALSE]]
           /\ cache' = [kept EXCEPT ![n] = begun + 1]
           /\ caller' = [caller EXCEPT ![c] = [me EXCEPT !.load = begun + 1]]
  <2> DEFINE b == begun + 1
             fresh == [ns |-> n, state |-> "running", outdated |-> FALSE]
  <2>1. /\ b \in Loads /\ b <= b /\ b # None /\ fresh \in Task
        /\ \A l \in Loads : l <= begun => l # b /\ l <= b
        /\ \A l \in Loads : l <= b => l <= begun \/ l = b
    BY <1>0, <1>2 DEF Loads, Task
  <2>2. /\ caller' \in [Callers -> Local] /\ caller'[c].load = b
        /\ \A d \in Callers \ {c} : caller'[d] = caller[d]
    BY <1>0, <1>2, <2>1 DEF Local
  <2>3. /\ loads' \in [Loads -> Task] /\ loads'[b] = fresh
        /\ \A l \in Loads \ {b} : loads'[l] = loads[l]
    BY <1>0, <1>2, <2>1
  <2>4. /\ cache' \in [Namespaces -> Loads \union {None}] /\ cache'[n] = b
        /\ \A m \in Namespaces \ {n} : cache'[m] = kept[m]
    BY <1>2, <2>1
  <2>5. begun' = b /\ begun' \in 0..MaxLoads
    BY <1>0, <1>2
  <2> HIDE DEF b
  <2>6. Numbered'
    <3>1. ASSUME NEW l \in Loads, l <= b
          PROVE  loads'[l].ns \in Namespaces /\ loads'[l].state # "unused"
      BY <2>1, <2>3, <3>1 DEF IInv, Numbered
    <3>2. ASSUME NEW l \in Loads, ~(l <= b) PROVE loads'[l] = Unused
      BY <2>1, <2>3, <3>2 DEF IInv, Numbered
    <3> QED BY <2>5, <3>1, <3>2 DEF Numbered
  <2>7. KeptWell(cache)'
    <3> SUFFICES ASSUME NEW m \in Namespaces, cache'[m] # None
                 PROVE  cache'[m] <= b /\ loads'[cache'[m]].ns = m /\ ~loads'[cache'[m]].outdated
      BY <2>5 DEF KeptWell
    <3>1. CASE m = n
      BY <2>1, <2>3, <2>4, <3>1
    <3>2. CASE m # n
      BY <2>1, <2>3, <2>4, <3>2 DEF KeptWell
    <3> QED BY <3>1, <3>2
  <2>8. WaitWell'
    BY <1>0, <2>1, <2>2, <2>5 DEF IInv, WaitWell, Waiting, Local
  <2>9. Attended(cache, Callers)'
    BY <2>1, <2>2, <2>3, <2>4 DEF Attended, KeptWell
  <2> QED BY <2>2, <2>3, <2>4, <2>5, <2>6, <2>7, <2>8, <2>9
<1> QED BY <1>1, <1>2 DEF Ask

\* Who asks waits for a load of the namespace asked for; the others wait for what they waited for.
LEMMA AskChanges ==
  ASSUME CacheAssumption, IInv,
         NEW c \in Callers, NEW n \in Namespaces, NEW me \in Local,
         NEW kept \in [Namespaces -> Loads \union {None}],
         KeptWell(kept), Ask(c, n, kept, me)
  PROVE  /\ caller'[c].load # None /\ loads'[caller'[c].load].ns = n
         /\ caller'[c].todo = me.todo /\ caller'[c].names = me.names /\ caller'[c].failed = me.failed
         /\ \A d \in Callers \ {c} : caller'[d] = caller[d]
         /\ \A d \in Callers : Waiting(d) => loads'[caller[d].load].ns = loads[caller[d].load].ns
<1>0. /\ loads \in [Loads -> Task] /\ begun \in 0..MaxLoads
      /\ caller \in [Callers -> Local] /\ MaxLoads \in Nat
      /\ None \notin Loads
  BY DEF IInv, TypeOK, CacheAssumption
<1>1. CASE /\ kept[n] # None
           /\ caller' = [caller EXCEPT ![c] = [me EXCEPT !.load = kept[n]]]
           /\ UNCHANGED <<loads, begun>>
  BY <1>0, <1>1 DEF Local, KeptWell
<1>2. CASE /\ begun < MaxLoads
           /\ loads' = [loads EXCEPT ![begun + 1] =
                            [ns |-> n, state |-> "running", outdated |-> FALSE]]
           /\ caller' = [caller EXCEPT ![c] = [me EXCEPT !.load = begun + 1]]
  <2>1. begun + 1 \in Loads
    BY <1>0, <1>2 DEF Loads
  <2>2. /\ caller'[c].load = begun + 1
        /\ caller'[c].todo = me.todo /\ caller'[c].names = me.names /\ caller'[c].failed = me.failed
        /\ \A d \in Callers \ {c} : caller'[d] = caller[d]
    BY <1>0, <1>2 DEF Local
  <2>3. loads'[begun + 1].ns = n /\ \A l \in Loads : l # begun + 1 => loads'[l] = loads[l]
    BY <1>0, <1>2, <2>1
  <2>4. ASSUME NEW d \in Callers, Waiting(d)
        PROVE  loads'[caller[d].load].ns = loads[caller[d].load].ns
    <3>1. caller[d].load \in Loads /\ caller[d].load <= begun
      BY <1>0, <2>4 DEF IInv, WaitWell, Waiting, Local
    <3>2. caller[d].load # begun + 1
      BY <1>0, <3>1 DEF Loads
    <3> QED BY <2>3, <3>1, <3>2
  <2> QED BY <1>0, <2>1, <2>2, <2>3, <2>4
<1> QED BY <1>1, <1>2 DEF Ask

\* A caller that resumes leaves entries that others attend to.
LEMMA ForgetKeeps ==
  ASSUME CacheAssumption, IInv, NEW c \in Callers, Loaded(c)
  PROVE  /\ Forget(c) \in [Namespaces -> Loads \union {None}]
         /\ KeptWell(Forget(c)) /\ Attended(Forget(c), Callers \ {c})
         /\ NsOf(c) \in Namespaces
<1>1. /\ cache \in [Namespaces -> Loads \union {None}] /\ loads \in [Loads -> Task]
      /\ caller[c].load \in Loads /\ caller[c].load <= begun
    BY DEF IInv, TypeOK, WaitWell, Loaded, Waiting, Local
<1>2. NsOf(c) \in Namespaces
  BY <1>1 DEF IInv, Numbered, NsOf
<1>3. Forget(c) \in [Namespaces -> Loads \union {None}]
  BY <1>1 DEF Forget
<1>4. KeptWell(Forget(c))
  BY <1>1, <1>2 DEF Forget, IInv, KeptWell
<1>5. Attended(Forget(c), Callers \ {c})
  <2> SUFFICES ASSUME NEW m \in Namespaces, Forget(c)[m] # None,
                      loads[Forget(c)[m]].state # "done"
               PROVE  \E d \in Callers \ {c} : caller[d].load = Forget(c)[m]
    BY DEF Attended
  <2>1. Forget(c)[m] = cache[m]
    BY <1>1, <1>2 DEF Forget
  <2>2. PICK d \in Callers : caller[d].load = cache[m]
    BY <2>1 DEF IInv, Attended
  <2>3. d # c
    BY <1>1, <1>2, <2>1, <2>2 DEF Forget, Loaded, IInv, KeptWell, NsOf
  <2> QED BY <2>1, <2>2, <2>3
<1> QED BY <1>2, <1>3, <1>4, <1>5

\* One who waits for nothing attends to nothing.
LEMMA IdleAttendsNothing ==
  ASSUME CacheAssumption, IInv, NEW c \in Callers, ~Waiting(c)
  PROVE  Attended(cache, Callers \ {c})
BY DEF IInv, TypeOK, Attended, Waiting

\* So does one that asks for nothing more.
LEMMA LeaveKeeps ==
  ASSUME CacheAssumption, IInv, NEW c \in Callers,
         NEW kept \in [Namespaces -> Loads \union {None}],
         KeptWell(kept), Attended(kept, Callers \ {c}),
         cache' = kept, caller' = [caller EXCEPT ![c] = Idle], UNCHANGED <<loads, begun>>
  PROVE  /\ cache' \in [Namespaces -> Loads \union {None}]
         /\ caller' \in [Callers -> Local]
         /\ Numbered' /\ KeptWell(cache)' /\ WaitWell' /\ Attended(cache, Callers)'
<1>1. /\ caller' \in [Callers -> Local] /\ caller'[c].load = None
      /\ \A d \in Callers \ {c} : caller'[d] = caller[d]
  BY DEF IInv, TypeOK, Idle, Local
<1>2. Numbered' /\ KeptWell(cache)'
  BY DEF IInv, Numbered, KeptWell, Unused
<1>3. WaitWell'
  BY <1>1 DEF IInv, WaitWell, Waiting
<1>4. Attended(cache, Callers)'
  BY <1>1 DEF Attended
<1> QED BY <1>1, <1>2, <1>3, <1>4

\* An indexer between two awaits, from entries others attend to.
LEMMA WalkKeeps ==
  ASSUME CacheAssumption, IInv, NEW c \in Callers,
         NEW kept \in [Namespaces -> Loads \union {None}],
         KeptWell(kept), Attended(kept, Callers \ {c}),
         NEW todo \in SUBSET Namespaces, NEW names \in SUBSET Namespaces,
         NEW failed \in SUBSET Namespaces,
         Walk(c, kept, todo, names, failed), UNCHANGED serverVars
  PROVE  IInv'
<1>1. ASSUME NEW n \in todo,
             Ask(c, n, kept, [Idle EXCEPT !.todo = todo \ {n}, !.names = names, !.failed = failed]),
             UNCHANGED indexVars
      PROVE  IInv'
  <2>1. [Idle EXCEPT !.todo = todo \ {n}, !.names = names, !.failed = failed] \in Local
    BY DEF Idle, Local
  <2> QED BY <1>1, <2>1, AskKeeps DEF IInv, TypeOK, serverVars, indexVars
<1>2. CASE /\ index' = [names |-> names, failed |-> failed] /\ indexToken' = Stamp
           /\ cache' = kept /\ caller' = [caller EXCEPT ![c] = Idle]
           /\ UNCHANGED <<loads, begun>>
  <2>1. index' \in Index /\ indexToken' \in 0..(token' + 1)
    BY <1>2 DEF IInv, TypeOK, Index, Stamp, serverVars
  <2> QED BY <1>2, <2>1, LeaveKeeps DEF IInv, TypeOK, serverVars
<1> QED BY <1>1, <1>2 DEF Walk

\* Every action keeps the invariant.
LEMMA Invariance == CacheAssumption /\ IInv /\ [Next]_vars => IInv'
<1> SUFFICES ASSUME CacheAssumption, IInv, [Next]_vars PROVE IInv'
  OBVIOUS
<1>0. cache \in [Namespaces -> Loads \union {None}] /\ KeptWell(cache) /\ roots \in SUBSET Namespaces
  BY DEF IInv, TypeOK
<1>i. Idle \in Local
  BY DEF Idle, Local
<1>1. ASSUME NEW c \in Readers, Resume(c) PROVE IInv'
  <2>1. c \in Callers
    BY DEF Callers
  <2>2. Loaded(c) /\ cache' = Forget(c) /\ caller' = [caller EXCEPT ![c] = Idle]
        /\ UNCHANGED <<loads, begun, serverVars, indexVars>>
    BY <1>1 DEF Resume
  <2>3. /\ Forget(c) \in [Namespaces -> Loads \union {None}]
        /\ KeptWell(Forget(c)) /\ Attended(Forget(c), Callers \ {c})
    BY <2>1, <2>2, ForgetKeeps
  <2> QED BY <2>1, <2>2, <2>3, LeaveKeeps DEF IInv, TypeOK, serverVars, indexVars
<1>2. ASSUME NEW c \in Readers, NEW n \in Namespaces, Load(c, n) PROVE IInv'
  <2>1. c \in Callers
    BY DEF Callers
  <2>2. Attended(cache, Callers \ {c})
    BY <1>2, <2>1, IdleAttendsNothing DEF Load
  <2>3. Ask(c, n, cache, Idle) /\ UNCHANGED <<serverVars, indexVars>>
    BY <1>2 DEF Load
  <2> QED BY <1>0, <1>i, <2>1, <2>2, <2>3, AskKeeps DEF IInv, TypeOK, serverVars, indexVars
<1>3. ASSUME NEW l \in Loads, NEW state \in {"done", "failed"}, LoadEnds(l, state) PROVE IInv'
  <2>1. /\ loads \in [Loads -> Task] /\ loads[l].state = "running"
        /\ loads' = [loads EXCEPT ![l].state = state]
        /\ UNCHANGED <<cache, begun, caller, serverVars, indexVars>>
    BY <1>3 DEF LoadEnds, IInv, TypeOK
  <2>2. /\ loads' \in [Loads -> Task]
        /\ \A k \in Loads :
              /\ loads'[k].ns = loads[k].ns
              /\ loads'[k].outdated = loads[k].outdated
              /\ k # l => loads'[k] = loads[k]
        /\ loads'[l].state = state
    BY <2>1 DEF Task
  <2>3. Numbered'
    <3>1. l <= begun
      BY <2>1 DEF IInv, Numbered, Unused
    <3>2. ASSUME NEW k \in Loads, k <= begun PROVE loads'[k].ns \in Namespaces /\ loads'[k].state # "unused"
      BY <2>2, <3>2 DEF IInv, Numbered
    <3>3. ASSUME NEW k \in Loads, ~(k <= begun) PROVE loads'[k] = Unused
      BY <2>2, <3>1, <3>3 DEF IInv, Numbered
    <3> QED BY <2>1, <3>2, <3>3 DEF Numbered
  <2>4. KeptWell(cache)'
    BY <1>0, <2>1, <2>2 DEF KeptWell
  <2>5. WaitWell'
    BY <2>1 DEF IInv, WaitWell, Waiting
  <2>6. Attended(cache, Callers)'
    BY <1>0, <2>1, <2>2 DEF IInv, Attended
  <2> QED BY <2>1, <2>2, <2>3, <2>4, <2>5, <2>6 DEF IInv, TypeOK, serverVars, indexVars
<1>4. ASSUME NEW c \in Indexers, BeginIndex(c) PROVE IInv'
  <2>1. c \in Callers
    BY DEF Callers
  <2>2. Attended(cache, Callers \ {c})
    BY <1>4, <2>1, IdleAttendsNothing DEF BeginIndex
  <2>3. Walk(c, cache, roots, {}, {}) /\ UNCHANGED serverVars
    BY <1>4 DEF BeginIndex
  <2> QED BY <1>0, <2>1, <2>2, <2>3, WalkKeeps
<1>5. ASSUME NEW c \in Indexers, ContinueIndex(c) PROVE IInv'
  <2>1. c \in Callers
    BY DEF Callers
  <2> DEFINE ok == loads[caller[c].load].state = "done"
             names == caller[c].names \union (IF ok THEN {NsOf(c)} ELSE {})
             failed == caller[c].failed \union (IF ok THEN {} ELSE {NsOf(c)})
  <2>2. Loaded(c) /\ Walk(c, Forget(c), caller[c].todo, names, failed) /\ UNCHANGED serverVars
    BY <1>5 DEF ContinueIndex
  <2>3. /\ Forget(c) \in [Namespaces -> Loads \union {None}]
        /\ KeptWell(Forget(c)) /\ Attended(Forget(c), Callers \ {c}) /\ NsOf(c) \in Namespaces
    BY <2>1, <2>2, ForgetKeeps
  <2>4. caller[c].todo \in SUBSET Namespaces /\ names \in SUBSET Namespaces
        /\ failed \in SUBSET Namespaces
    BY <2>1, <2>3 DEF IInv, TypeOK, Local
  <2> HIDE DEF names, failed
  <2> QED BY <2>1, <2>2, <2>3, <2>4, WalkKeeps
<1>6. ASSUME NEW S \in SUBSET Namespaces, Invalidate(S) PROVE IInv'
  <2>1. /\ cache' = [n \in Namespaces |-> IF n \in S THEN None ELSE cache[n]]
        /\ loads' = [l \in Loads |-> IF loads[l].ns \in S THEN [loads[l] EXCEPT !.outdated = TRUE]
                                      ELSE loads[l]]
        /\ UNCHANGED <<begun, caller, serverVars, indexVars>>
        /\ loads \in [Loads -> Task] /\ None \notin Namespaces
    BY <1>6 DEF Invalidate, IInv, TypeOK, CacheAssumption
  <2>2. /\ loads' \in [Loads -> Task]
        /\ \A l \in Loads :
              /\ loads'[l].ns = loads[l].ns
              /\ loads'[l].state = loads[l].state
              /\ loads[l].ns \notin S => loads'[l] = loads[l]
    BY <2>1 DEF Task
  <2>3. /\ cache' \in [Namespaces -> Loads \union {None}]
        /\ \A n \in Namespaces : cache'[n] # None => n \notin S /\ cache'[n] = cache[n]
    BY <1>0, <2>1
  <2>4. Numbered'
    <3>2. ASSUME NEW k \in Loads, k <= begun PROVE loads'[k].ns \in Namespaces /\ loads'[k].state # "unused"
      BY <2>2, <3>2 DEF IInv, Numbered
    <3>3. ASSUME NEW k \in Loads, ~(k <= begun) PROVE loads'[k] = Unused
      <4>1. loads[k] = Unused
        BY <3>3 DEF IInv, Numbered
      <4>2. loads[k].ns \notin S
        BY <2>1, <4>1 DEF Unused
      <4> QED BY <2>2, <4>1, <4>2
    <3> QED BY <2>1, <3>2, <3>3 DEF Numbered
  <2>5. KeptWell(cache)'
    BY <1>0, <2>1, <2>2, <2>3 DEF KeptWell
  <2>6. WaitWell'
    BY <2>1 DEF IInv, WaitWell, Waiting
  <2>7. Attended(cache, Callers)'
    BY <1>0, <2>1, <2>2, <2>3 DEF IInv, Attended
  <2> QED BY <2>1, <2>2, <2>3, <2>4, <2>5, <2>6, <2>7 DEF IInv, TypeOK, serverVars, indexVars
<1>7. ASSUME UNCHANGED <<cacheVars, caller, indexVars>>, roots' \in SUBSET Namespaces,
             token' \in {token, token + 1}, refreshing' \in BOOLEAN
      PROVE  IInv'
  <2>1. TypeOK'
    <3>1. /\ token \in Nat /\ token' \in Nat /\ indexToken \in 0..(token + 1)
          /\ indexToken' = indexToken /\ token' \in {token, token + 1}
      BY <1>7 DEF IInv, TypeOK, indexVars
    <3>2. indexToken' \in 0..(token' + 1)
      <4>1. CASE token' = token
        BY <3>1, <4>1
      <4>2. CASE token' = token + 1
        BY <3>1, <4>2
      <4> QED BY <3>1, <4>1, <4>2
    <3> QED BY <1>7, <3>1, <3>2 DEF IInv, TypeOK, cacheVars, indexVars
  <2> QED BY <1>7, <2>1 DEF IInv, Numbered, KeptWell, WaitWell, Waiting, Attended, cacheVars
<1>8. CASE BeginRefresh
  BY <1>0, <1>7, <1>8 DEF BeginRefresh
<1>9. CASE RefreshFails
  BY <1>0, <1>7, <1>9 DEF RefreshFails
<1>10. ASSUME NEW S \in SUBSET Namespaces, EndRefresh(S) PROVE IInv'
  BY <1>7, <1>10 DEF EndRefresh
<1>11. CASE UNCHANGED vars
  BY <1>0, <1>7, <1>11 DEF vars, serverVars, IInv, TypeOK
<1> QED
  BY <1>1, <1>2, <1>3, <1>4, <1>5, <1>6, <1>8, <1>9, <1>10, <1>11 DEF Next

LEMMA Initially == CacheAssumption /\ Init => IInv
<1> SUFFICES ASSUME CacheAssumption, Init PROVE IInv
  OBVIOUS
<1>1. TypeOK
  <2>1. Unused \in Task /\ Idle \in Local
    BY DEF Task, Local, Idle, Unused
  <2>2. 0 \in 0..MaxLoads /\ 0 \in 0..(token + 1) /\ token \in Nat
    BY DEF Init, CacheAssumption
  <2> HIDE DEF Task, Local, Idle, Unused
  <2> QED BY <2>1, <2>2 DEF Init, TypeOK
<1>2. Numbered /\ KeptWell(cache) /\ WaitWell /\ Attended(cache, Callers)
  BY DEF Init, Numbered, KeptWell, WaitWell, Waiting, Attended, Idle, Loads, CacheAssumption
<1> QED BY <1>1, <1>2 DEF IInv

----------------------------------------------------------------------------

\* The variables keep their types and the invariant holds in every state.
THEOREM CacheInvariant == Spec => []IInv
<1>1. Init => IInv
  BY Initially, CacheAssumption
<1>2. IInv /\ [Next]_vars => IInv'
  BY Invariance, CacheAssumption
<1> QED BY <1>1, <1>2, PTL DEF Spec

\* CachingSchemaReader: every entry, counter and waiting caller is of its type.
THEOREM TypeCorrect == Spec => []TypeOK
<1>1. IInv => TypeOK
  BY DEF IInv
<1> QED BY <1>1, CacheInvariant, PTL

\* A failed load is never kept without a caller who is about to remove it, however many share
\* the failure and whichever entries the removals by key hit.
THEOREM FailuresAreForgotten == Spec => []FailureForgotten
<1>1. IInv => FailureForgotten
  BY DEF IInv, FailureForgotten, Attended
<1> QED BY <1>1, CacheInvariant, PTL

\* After Invalidate or InvalidateAll nothing that began before is handed out again.
THEOREM InvalidationWorks == Spec => []FreshAfterInvalidate
<1>1. IInv => FreshAfterInvalidate
  BY DEF IInv, FreshAfterInvalidate, KeptWell
<1> QED BY <1>1, CacheInvariant, PTL

----------------------------------------------------------------------------
(* The object index *)

\* No refresh ends while an index is being built.
Undisturbed == "refresh while indexing" \notin Allowed

\* What an indexer accounts for when it has gone on: it waits and the roots are all there, or
\* it has published them.
LEMMA WalkAccounts ==
  ASSUME CacheAssumption, IInv, WalkWell, IndexHonest, NEW c \in Indexers,
         NEW kept \in [Namespaces -> Loads \union {None}],
         KeptWell(kept), Attended(kept, Callers \ {c}),
         NEW todo \in SUBSET Namespaces, NEW names \in SUBSET Namespaces,
         NEW failed \in SUBSET Namespaces, names \union failed \union todo = roots,
         Walk(c, kept, todo, names, failed), UNCHANGED serverVars
  PROVE  WalkWell' /\ IndexHonest'
<1>0. c \in Callers /\ Indexers \subseteq Callers /\ caller \in [Callers -> Local]
  BY DEF Callers, IInv, TypeOK
<1>1. ASSUME NEW n \in todo,
             Ask(c, n, kept, [Idle EXCEPT !.todo = todo \ {n}, !.names = names, !.failed = failed]),
             UNCHANGED indexVars
      PROVE  WalkWell' /\ IndexHonest'
  <2>1. PICK me \in Local : /\ me.names = names /\ me.failed = failed /\ me.todo = todo \ {n}
                            /\ Ask(c, n, kept, me)
    <3> DEFINE m == [Idle EXCEPT !.todo = todo \ {n}, !.names = names, !.failed = failed]
    <3>1. m \in Local /\ m.names = names /\ m.failed = failed /\ m.todo = todo \ {n}
      BY DEF Idle, Local
    <3>2. Ask(c, n, kept, m)
      BY <1>1
    <3> HIDE DEF m
    <3> QED BY <3>1, <3>2
  <2>a. n \in Namespaces /\ UNCHANGED token
    BY <1>1 DEF serverVars
  <2>2. /\ caller'[c].load # None /\ loads'[caller'[c].load].ns = n
        /\ \A d \in Callers : Waiting(d) => loads'[caller[d].load].ns = loads[caller[d].load].ns
        /\ caller'[c].todo = me.todo /\ caller'[c].names = me.names /\ caller'[c].failed = me.failed
        /\ \A d \in Callers \ {c} : caller'[d] = caller[d]
    BY <1>0, <2>1, <2>a, AskChanges
  <2>3. caller'[c].names = names /\ caller'[c].failed = failed /\ caller'[c].todo = todo \ {n}
    BY <2>1, <2>2
  <2>4. roots' = roots /\ n \in todo
    BY <1>1 DEF serverVars
  <2>5. ASSUME NEW d \in Indexers, Waiting(d)'
        PROVE  (caller[d].names \union caller[d].failed \union caller[d].todo \union {NsOf(d)} = roots)'
    <3>1. CASE d = c
      BY <2>2, <2>3, <2>4, <3>1 DEF NsOf
    <3>2. CASE d # c
      BY <1>0, <2>2, <2>3, <2>4, <2>5, <3>2 DEF WalkWell, Waiting, NsOf
    <3> QED BY <3>1, <3>2
  <2>6. IndexHonest'
    BY <1>1 DEF IndexHonest, indexVars, serverVars
  <2> QED BY <2>5, <2>6 DEF WalkWell
<1>2. CASE /\ todo = {}
           /\ index' = [names |-> names, failed |-> failed] /\ indexToken' = Stamp
           /\ cache' = kept /\ caller' = [caller EXCEPT ![c] = Idle]
           /\ UNCHANGED <<loads, begun>>
  <2>1. WalkWell'
    BY <1>0, <1>2 DEF WalkWell, Waiting, NsOf, Idle, serverVars
  <2>2. IndexHonest'
    BY <1>2 DEF IndexHonest, serverVars
  <2> QED BY <2>1, <2>2
<1> QED BY <1>1, <1>2 DEF Walk

\* An action of another caller, or of none, that leaves the index and the roots alone.
LEMMA OthersAccount ==
  ASSUME WalkWell, IndexHonest, UNCHANGED <<roots, token, indexVars>>,
         \A d \in Indexers : Waiting(d)' => caller'[d] = caller[d] /\ NsOf(d)' = NsOf(d)
  PROVE  WalkWell' /\ IndexHonest'
BY DEF WalkWell, IndexHonest, indexVars, Waiting

\* IndexHonest and what indexers account for are kept where no refresh ends under an indexer.
LEMMA Accounting ==
  ASSUME CacheAssumption, IInv, WalkWell, IndexHonest, [Next]_vars,
         Undisturbed
  PROVE  WalkWell' /\ IndexHonest'
<1>0. /\ cache \in [Namespaces -> Loads \union {None}] /\ loads \in [Loads -> Task]
      /\ caller \in [Callers -> Local] /\ KeptWell(cache) /\ roots \in SUBSET Namespaces
      /\ Indexers \subseteq Callers /\ Readers \intersect Indexers = {} /\ Idle \in Local
  BY DEF IInv, TypeOK, Callers, CacheAssumption, Idle, Local
<1>1. ASSUME NEW c \in Readers, Resume(c) PROVE WalkWell' /\ IndexHonest'
  <2>1. \A d \in Indexers : caller'[d] = caller[d] /\ NsOf(d)' = NsOf(d)
    BY <1>0, <1>1 DEF Resume, NsOf
  <2> QED BY <1>1, <2>1, OthersAccount DEF Resume, serverVars
<1>2. ASSUME NEW c \in Readers, NEW n \in Namespaces, Load(c, n) PROVE WalkWell' /\ IndexHonest'
  <2>1. c \in Callers /\ Attended(cache, Callers \ {c})
    BY <1>2, IdleAttendsNothing DEF Load, Callers
  <2>2. /\ \A d \in Callers \ {c} : caller'[d] = caller[d]
        /\ \A d \in Callers : Waiting(d) => loads'[caller[d].load].ns = loads[caller[d].load].ns
    <3>1. Ask(c, n, cache, Idle) /\ UNCHANGED token
      BY <1>2 DEF Load, serverVars
    <3> QED BY <1>0, <2>1, <3>1, AskChanges
  <2>3. \A d \in Indexers : Waiting(d)' => caller'[d] = caller[d] /\ NsOf(d)' = NsOf(d)
    BY <1>0, <2>2 DEF NsOf, Waiting
  <2> QED BY <1>2, <2>3, OthersAccount DEF Load, serverVars
<1>3. ASSUME NEW l \in Loads, NEW state \in {"done", "failed"}, LoadEnds(l, state)
      PROVE  WalkWell' /\ IndexHonest'
  <2>1. \A k \in Loads : loads'[k].ns = loads[k].ns
    BY <1>0, <1>3 DEF LoadEnds, Task
  <2>2. \A d \in Indexers : Waiting(d)' => caller'[d] = caller[d] /\ NsOf(d)' = NsOf(d)
    BY <1>0, <1>3, <2>1 DEF LoadEnds, NsOf, Waiting, Local
  <2> QED BY <1>3, <2>2, OthersAccount DEF LoadEnds, serverVars
<1>4. ASSUME NEW c \in Indexers, BeginIndex(c) PROVE WalkWell' /\ IndexHonest'
  <2>1. Attended(cache, Callers \ {c})
    BY <1>0, <1>4, IdleAttendsNothing DEF BeginIndex
  <2>2. Walk(c, cache, roots, {}, {}) /\ UNCHANGED serverVars
    BY <1>4 DEF BeginIndex
  <2> QED BY <1>0, <2>1, <2>2, WalkAccounts
<1>5. ASSUME NEW c \in Indexers, ContinueIndex(c) PROVE WalkWell' /\ IndexHonest'
  <2> DEFINE ok == loads[caller[c].load].state = "done"
             names == caller[c].names \union (IF ok THEN {NsOf(c)} ELSE {})
             failed == caller[c].failed \union (IF ok THEN {} ELSE {NsOf(c)})
  <2>1. Loaded(c) /\ Walk(c, Forget(c), caller[c].todo, names, failed) /\ UNCHANGED serverVars
    BY <1>5 DEF ContinueIndex
  <2>2. /\ Forget(c) \in [Namespaces -> Loads \union {None}]
        /\ KeptWell(Forget(c)) /\ Attended(Forget(c), Callers \ {c}) /\ NsOf(c) \in Namespaces
    BY <1>0, <2>1, ForgetKeeps
  <2>3. /\ caller[c].todo \in SUBSET Namespaces /\ names \in SUBSET Namespaces
        /\ failed \in SUBSET Namespaces
    BY <1>0, <2>2 DEF Local
  <2>4. names \union failed \union caller[c].todo = roots
    BY <2>1 DEF WalkWell, Loaded
  <2> HIDE DEF names, failed
  <2> QED BY <2>1, <2>2, <2>3, <2>4, WalkAccounts
<1>6. ASSUME NEW S \in SUBSET Namespaces, Invalidate(S) PROVE WalkWell' /\ IndexHonest'
  <2>1. \A k \in Loads : loads'[k].ns = loads[k].ns
    BY <1>0, <1>6 DEF Invalidate, Task
  <2>2. \A d \in Indexers : Waiting(d)' => caller'[d] = caller[d] /\ NsOf(d)' = NsOf(d)
    BY <1>0, <1>6, <2>1 DEF Invalidate, NsOf, Waiting, Local
  <2> QED BY <1>6, <2>2, OthersAccount DEF Invalidate, serverVars
<1>7. CASE BeginRefresh \/ RefreshFails \/ UNCHANGED vars
  <2>1. UNCHANGED <<cacheVars, caller, roots, token, indexVars>>
    BY <1>7 DEF BeginRefresh, RefreshFails, vars, serverVars
  <2> QED BY <2>1, OthersAccount DEF cacheVars, NsOf
<1>8. ASSUME NEW S \in SUBSET Namespaces, EndRefresh(S) PROVE WalkWell' /\ IndexHonest'
  <2>1. \A c \in Indexers : ~Waiting(c)
    BY <1>8 DEF EndRefresh, May, Undisturbed
  <2>2. WalkWell'
    BY <1>8, <2>1 DEF WalkWell, Waiting, EndRefresh
  <2>3. indexToken' # token' + 1
    <3>1. token \in Nat /\ indexToken \in Nat /\ indexToken <= token + 1
      BY DEF IInv, TypeOK
    <3>2. token' = token + 1 /\ indexToken' = indexToken
      BY <1>8 DEF EndRefresh, indexVars
    <3>3. indexToken # token + 1 + 1
      BY <3>1
    <3> QED BY <3>2, <3>3
  <2> QED BY <2>2, <2>3 DEF IndexHonest
<1> QED
  BY <1>1, <1>2, <1>3, <1>4, <1>5, <1>6, <1>7, <1>8 DEF Next

\* GetObjectIndexAsync: where no refresh ends while the index is being built, an index taken for
\* current speaks of exactly the namespaces of the tree.
THEOREM IndexIsHonest ==
  ASSUME Undisturbed
  PROVE  Spec => []IndexHonest
<1>1. Init => IInv /\ WalkWell /\ IndexHonest
  <2> SUFFICES ASSUME Init PROVE IInv /\ WalkWell /\ IndexHonest
    OBVIOUS
  <2>1. IInv
    BY Initially, CacheAssumption
  <2>2. \A c \in Indexers : ~Waiting(c)
    BY DEF Init, Waiting, Idle, Callers
  <2>3. index = None
    BY DEF Init
  <2> QED BY <2>1, <2>2, <2>3 DEF WalkWell, IndexHonest
<1>2. IInv /\ WalkWell /\ IndexHonest /\ [Next]_vars => (IInv /\ WalkWell /\ IndexHonest)'
  BY Invariance, Accounting, CacheAssumption
<1> QED BY <1>1, <1>2, PTL DEF Spec
====
