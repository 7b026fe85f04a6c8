---- MODULE SchemaCache ----
(***************************************************************************)
(* What the client knows about a server: CachingSchemaReader, which keeps  *)
(* one load (a lazily begun task) per namespace and shares it among all    *)
(* who ask, and above it the object index of the workspace, which walks    *)
(* the roots of the tree, asks the cache for each and stamps the result    *)
(* with the connection's refresh token.                                    *)
(*                                                                         *)
(* A failed load is noticed by each of its callers by itself, one await    *)
(* later, and each removes the namespace's entry, whatever it is by then.  *)
(* Any load may fail: the server refuses, the link breaks, or another      *)
(* reader is using the one connection that serves all metadata.            *)
(***************************************************************************)
EXTENDS Naturals, FiniteSets

CONSTANTS
    Namespaces,
    Readers,        \* callers of LoadAsync: tree nodes, completion, analysis of a result
    Indexers,       \* callers of GetObjectIndexAsync: the sidebar's filter, the palette
    None,
    MaxLoads,       \* bound: loads begun
    MaxRefreshes,   \* bound: refreshes that end
    Allowed         \* the overlaps that happen

Overlaps == {"refresh while indexing"}
Callers == Readers \union Indexers
Loads == 1..MaxLoads

ASSUME CacheAssumption ==
    /\ MaxLoads \in Nat /\ MaxRefreshes \in Nat
    /\ None \notin Loads \union Namespaces
    /\ Readers \intersect Indexers = {}
    /\ Allowed \subseteq Overlaps

VARIABLES
    cache,          \* _cache: the load kept for a namespace
    loads, begun,   \* the tasks, numbered as they began; history: outdated is a task begun
                    \* before its namespace was invalidated
    caller,         \* who waits for which load; an indexer's locals
    roots, token, refreshing,   \* Roots, RefreshToken, and a refresh waiting for the roots
    index, indexToken           \* ObjectIndex, ObjectIndexToken + 1

cacheVars == <<cache, loads, begun>>
serverVars == <<roots, token, refreshing>>
indexVars == <<index, indexToken>>
vars == <<cacheVars, caller, serverVars, indexVars>>

May(o, overlapping) == overlapping => o \in Allowed

Idle == [load |-> None, todo |-> {}, names |-> {}, failed |-> {}]
Unused == [ns |-> None, state |-> "unused", outdated |-> FALSE]
Waiting(c) == caller[c].load # None
NsOf(c) == loads[caller[c].load].ns

Init ==
    /\ cache = [n \in Namespaces |-> None]
    /\ loads = [l \in Loads |-> Unused] /\ begun = 0
    /\ caller = [c \in Callers |-> Idle]
    /\ roots \in SUBSET Namespaces /\ token = 0 /\ refreshing = FALSE
    /\ index = None /\ indexToken = 0

----------------------------------------------------------------------------
(* CachingSchemaReader *)

\* GetOrAdd and entry.Value, over the entries kept: caller c, with the locals me, waits for the
\* load of n that is there or begins one.
Ask(c, n, kept, me) ==
    \/ /\ kept[n] # None
       /\ cache' = kept /\ caller' = [caller EXCEPT ![c] = [me EXCEPT !.load = kept[n]]]
       /\ UNCHANGED <<loads, begun>>
    \/ /\ kept[n] = None /\ begun < MaxLoads
       /\ begun' = begun + 1
       /\ loads' = [loads EXCEPT ![begun + 1] =
                        [ns |-> n, state |-> "running", outdated |-> FALSE]]
       /\ cache' = [kept EXCEPT ![n] = begun + 1]
       /\ caller' = [caller EXCEPT ![c] = [me EXCEPT !.load = begun + 1]]

Load(c, n) ==
    /\ ~Waiting(c)
    /\ Ask(c, n, cache, Idle)
    /\ UNCHANGED <<serverVars, indexVars>>

\* The inner reader answers or throws.
LoadEnds(l, state) ==
    /\ loads[l].state = "running"
    /\ loads' = [loads EXCEPT ![l].state = state]
    /\ UNCHANGED <<cache, begun, caller, serverVars, indexVars>>

\* A mutant: a failed load stays.
ForgetNothing(c) == cache

\* A mutant: a caller stores what it was answered.
ForgetOrStore(c) ==
    [cache EXCEPT ![NsOf(c)] = IF loads[caller[c].load].state = "failed" THEN None ELSE caller[c].load]

\* What caller c, which resumes, leaves in the cache: TryRemove by key if its load failed.
Forget(c) ==
    IF loads[caller[c].load].state = "failed" THEN [cache EXCEPT ![NsOf(c)] = None] ELSE cache

Loaded(c) == Waiting(c) /\ loads[caller[c].load].state \in {"done", "failed"}

Resume(c) ==
    /\ Loaded(c)
    /\ cache' = Forget(c)
    /\ caller' = [caller EXCEPT ![c] = Idle]
    /\ UNCHANGED <<loads, begun, serverVars, indexVars>>

\* Invalidate for one namespace, InvalidateAll for all.
Invalidate(S) ==
    /\ cache' = [n \in Namespaces |-> IF n \in S THEN None ELSE cache[n]]
    /\ loads' = [l \in Loads |-> IF loads[l].ns \in S THEN [loads[l] EXCEPT !.outdated = TRUE]
                                  ELSE loads[l]]
    /\ UNCHANGED <<begun, caller, serverVars, indexVars>>

----------------------------------------------------------------------------
(* The object index and the refresh *)

\* A mutant: the stamp is that of the refresh to come.
StampNext == token + 2

\* The token is read after the last await.
Stamp == token + 1

\* GetObjectIndexAsync between two awaits: it asks for the next of the roots it enumerates, or
\* publishes the index.  names have been read, failed could not be and are passed over.
Walk(c, kept, todo, names, failed) ==
    \/ \E n \in todo :
          /\ Ask(c, n, kept, [Idle EXCEPT !.todo = todo \ {n}, !.names = names, !.failed = failed])
          /\ UNCHANGED indexVars
    \/ /\ todo = {}
       /\ index' = [names |-> names, failed |-> failed] /\ indexToken' = Stamp
       /\ cache' = kept /\ caller' = [caller EXCEPT ![c] = Idle]
       /\ UNCHANGED <<loads, begun>>

\* A current index is returned as it is.
BeginIndex(c) ==
    /\ ~Waiting(c)
    /\ index = None \/ indexToken # Stamp
    /\ Walk(c, cache, roots, {}, {})
    /\ UNCHANGED serverVars

ContinueIndex(c) ==
    LET me == caller[c]
        ok == loads[me.load].state = "done"
    IN  /\ Loaded(c)
        /\ Walk(c, Forget(c), me.todo,
                me.names \union (IF ok THEN {NsOf(c)} ELSE {}),
                me.failed \union (IF ok THEN {} ELSE {NsOf(c)}))
        /\ UNCHANGED serverVars

\* RefreshConnectionAsync, and RefreshAllAsync for this connection.
BeginRefresh ==
    /\ ~refreshing /\ token < MaxRefreshes
    /\ refreshing' = TRUE
    /\ UNCHANGED <<cacheVars, caller, roots, token, indexVars>>

\* A mutant: the tree is drawn anew, but nothing else learns of it.
EndRefreshQuietly(namespaces) ==
    /\ refreshing
    /\ May("refresh while indexing", \E c \in Indexers : Waiting(c))
    /\ roots' = namespaces /\ UNCHANGED token
    /\ refreshing' = FALSE
    /\ UNCHANGED <<cacheVars, caller, indexVars>>

\* The roots are those the server has by now.
EndRefresh(namespaces) ==
    /\ refreshing
    /\ May("refresh while indexing", \E c \in Indexers : Waiting(c))
    /\ roots' = namespaces /\ token' = token + 1
    /\ refreshing' = FALSE
    /\ UNCHANGED <<cacheVars, caller, indexVars>>

RefreshFails ==
    /\ refreshing
    /\ refreshing' = FALSE
    /\ UNCHANGED <<cacheVars, caller, roots, token, indexVars>>

----------------------------------------------------------------------------
Next ==
    \/ \E c \in Readers : Resume(c) \/ \E n \in Namespaces : Load(c, n)
    \/ \E l \in Loads : LoadEnds(l, "done") \/ LoadEnds(l, "failed")
    \/ \E c \in Indexers : BeginIndex(c) \/ ContinueIndex(c)
    \/ \E n \in Namespaces : Invalidate({n})
    \/ Invalidate(Namespaces)
    \/ BeginRefresh \/ RefreshFails
    \/ \E S \in SUBSET Namespaces : EndRefresh(S)

Spec == Init /\ [][Next]_vars

----------------------------------------------------------------------------
(* Properties *)

Task == [ns : Namespaces \union {None}, state : {"unused", "running", "done", "failed"},
         outdated : BOOLEAN]
Local == [load : Loads \union {None}, todo : SUBSET Namespaces, names : SUBSET Namespaces,
          failed : SUBSET Namespaces]
Index == [names : SUBSET Namespaces, failed : SUBSET Namespaces]

TypeOK ==
    /\ cache \in [Namespaces -> Loads \union {None}]
    /\ loads \in [Loads -> Task] /\ begun \in 0..MaxLoads
    /\ caller \in [Callers -> Local]
    /\ roots \subseteq Namespaces
    /\ token \in Nat /\ refreshing \in BOOLEAN
    /\ index \in Index \union {None} /\ indexToken \in 0..(token + 1)

\* FailedLoad_IsNotCached (CachingSchemaReaderTests.cs), with any number of callers sharing the
\* failure: a failed load is in the cache only while somebody is about to take it out.
FailureForgotten ==
    \A n \in Namespaces :
        cache[n] # None /\ loads[cache[n]].state = "failed" => \E c \in Callers : caller[c].load = cache[n]

\* Invalidate_ForcesReload, whatever loads and failures are under way: what the next caller
\* would be given is a load of its own namespace that began after the last invalidation.
FreshAfterInvalidate ==
    \A n \in Namespaces :
        cache[n] # None => loads[cache[n]].ns = n /\ ~loads[cache[n]].outdated

\* An index taken for current speaks of all the namespaces the tree shows and of no others,
\* except those that could not be read when it was built.
IndexHonest ==
    index # None /\ indexToken = token + 1 => index.names \union index.failed = roots
====
