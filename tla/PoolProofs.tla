----------------------------- MODULE PoolProofs -----------------------------
(***************************************************************************)
(* Proofs about WorkerPool: reservations are balanced, while one is held   *)
(* no idle reclamation starts, and a shutdown that returns has stopped     *)
(* what it took, for any sets of clients, reservations, shutdowns, workers *)
(* and settings.                                                           *)
(***************************************************************************)
EXTENDS PoolProperties, FiniteSetTheorems, TLAPS

-----------------------------------------------------------------------------
(* The inductive invariant.                                                 *)

\* What anybody holds on to has been constructed, so that a worker that is
\* created is new to all reservations and all calls.
Known ==
    /\ \A r \in Reservers : \A w \in callbacks[r] \cup todo[r] : made[w] # None
    /\ \A c \in Clients : /\ got[c] # None => made[got[c]] # None
                          /\ pc[c] \notin {"new", "done"} => got[c] \in Workers

\* A reservation that goes through the workers has the pool's lock; it is
\* remembered as long as it is held, and until then has a callback of every
\* worker of the pool.
Walks ==
    \A r \in Reservers :
        /\ pc[r] \in {"holding", "releasing"} => poolLock = r
        /\ pc[r] = "new" => callbacks[r] = {}
        /\ pc[r] = "holding" => /\ pool \subseteq todo[r] \cup callbacks[r]
                                /\ todo[r] \cap callbacks[r] = {}
        /\ r \in reservations <=> pc[r] = "held"
        /\ pc[r] = "held" => pool \subseteq callbacks[r]

PoolInv == TypeOK /\ Known /\ Walks /\ HoldsBalanced

-----------------------------------------------------------------------------
(* Handles and counts.                                                      *)

HandleType == [owner : Clients \cup {Reclaim, Handle!Terminating, None},
               child : Clients \cup {None}, dirty : BOOLEAN, holds : Int]

LEMMA Made ==
    ASSUME NEW o, NEW p, NEW d, NEW n
    PROVE  /\ Handle!Of(o, p, d, n).owner = o /\ Handle!Of(o, p, d, n).child = p
           /\ Handle!Of(o, p, d, n).dirty = d /\ Handle!Of(o, p, d, n).holds = n
           /\ o \in Clients \cup {Reclaim, Handle!Terminating, None} /\ p \in Clients \cup {None}
              /\ d \in BOOLEAN /\ n \in Int => Handle!Of(o, p, d, n) \in HandleType
BY DEF Handle!Of, HandleType

\* What the sections of WorkerHandle do to the holds and the owner.
LEMMA HandleOps ==
    ASSUME NEW h \in HandleType
    PROVE  /\ Handle!Reserve(h) \in HandleType /\ Handle!Reserve(h).holds = h.holds + 1
              /\ Handle!Reserve(h).owner = h.owner
           /\ Handle!Unreserve(h) \in HandleType /\ Handle!Unreserve(h).holds = h.holds - 1
              /\ Handle!Unreserve(h).owner = h.owner
           /\ \A k \in Clients \cup {Reclaim, Handle!Terminating, None} :
                /\ Handle!Take(h, k) \in HandleType /\ Handle!Take(h, k).holds = h.holds
                /\ Handle!Take(h, k).owner = k
           /\ Handle!Free(h) \in HandleType /\ Handle!Free(h).holds = h.holds
              /\ Handle!Free(h).owner = None
           /\ \A p \in Clients \cup {None} :
                /\ Handle!Attach(h, p) \in HandleType /\ Handle!Attach(h, p).holds = h.holds
                /\ Handle!Attach(h, p).owner = h.owner
           /\ Handle!Detach(h) \in HandleType /\ Handle!Detach(h).holds = h.holds
              /\ Handle!Detach(h).owner = h.owner
           /\ \A d \in BOOLEAN :
                /\ Handle!Observe(h, d) \in HandleType /\ Handle!Observe(h, d).holds = h.holds
                /\ Handle!Observe(h, d).owner = h.owner
BY DEF HandleType, Handle!Of, Handle!Reserve, Handle!Unreserve, Handle!Take, Handle!Free,
       Handle!Attach, Handle!Detach, Handle!Observe

LEMMA SetHandle ==
    ASSUME HandleTypes, NEW w \in Workers, NEW h \in HandleType, SetWorker(w, h)
    PROVE  HandleTypes' /\ worker'[w] = h /\ \A v \in Workers \ {w} : worker'[v] = worker[v]
BY DEF HandleTypes, HandleType, SetWorker

\* The reservations that have a callback of w, and the calls inside w.
Holding(w) == {r \in Reservers : w \in callbacks[r]}
Calling(w) == {c \in Clients : InCall(c, w)}

LEMMA Counts ==
    ASSUME NEW w
    PROVE  /\ IsFiniteSet(Holding(w)) /\ Cardinality(Holding(w)) \in Nat
           /\ IsFiniteSet(Calling(w)) /\ Cardinality(Calling(w)) \in Nat
<1>1. Holding(w) \subseteq Reservers /\ Calling(w) \subseteq Clients
  BY DEF Holding, Calling
<1> QED  BY <1>1, PoolAssumption, FS_Subset, FS_CardinalityType

LEMMA Balance ==
    HoldsBalanced <=>
        \A w \in Workers : worker[w].holds = Cardinality(Holding(w)) + Cardinality(Calling(w))
BY DEF HoldsBalanced, Holding, Calling

\* A step that leaves the holds, the callbacks and the calls alone.
LEMMA BalanceKept ==
    ASSUME HoldsBalanced,
           \A w \in Workers : worker'[w].holds = worker[w].holds,
           \A w \in Workers : Holding(w)' = Holding(w) /\ Calling(w)' = Calling(w)
    PROVE  HoldsBalanced'
BY Balance DEF HoldsBalanced, Holding, Calling

-----------------------------------------------------------------------------
(* Initial states. *)

LEMMA InitInv ==
    ASSUME Init
    PROVE  PoolInv
<1> USE Init DEF Init
<1>1. Handle!Fresh \in HandleType /\ Handle!Fresh.holds = 0
  BY DEF Handle!Fresh, Handle!Of, HandleType
<1>2. TypeOK
  <2>1. HandleTypes
    BY <1>1 DEF HandleTypes, HandleType
  <2>2. PoolTypes /\ ThreadTypes
    BY PoolAssumption DEF PoolTypes, ThreadTypes, Threads
  <2> QED  BY <2>1, <2>2 DEF TypeOK
<1>3. Known
  BY DEF Known, Threads
<1>4. Walks
  BY PoolAssumption DEF Walks, Threads
<1>5. HoldsBalanced
  <2>1. ASSUME NEW w \in Workers PROVE Holding(w) = {} /\ Calling(w) = {}
    BY DEF Holding, Calling, InCall, Threads
  <2>2. \A w \in Workers : worker[w] = Handle!Fresh
    OBVIOUS
  <2>3. Cardinality({}) = 0
    BY FS_EmptySet
  <2>4. ASSUME NEW w \in Workers
        PROVE  Cardinality(Holding(w)) = 0 /\ Cardinality(Calling(w)) = 0
    BY <2>1, <2>3
  <2>5. \A w \in Workers : worker[w].holds = 0
    BY <1>1, <2>2
  <2> HIDE DEF Init
  <2> QED  BY <2>4, <2>5, Balance
<1> QED  BY <1>2, <1>3, <1>4, <1>5 DEF PoolInv

-----------------------------------------------------------------------------
(* Settings are normalised once: what the constructor makes of a key is the *)
(* key.                                                                     *)

LEMMA Normal ==
    ASSUME NEW c \in Clients, NEW environ \in Environs
    PROVE  LET env == EnvironOf(Asks[c], environ)
               n == ResolveThreads(Asks[c].threads)
           IN  /\ Key(Asks[c], environ) = [threads |-> n, env |-> [julia |-> n, rest |-> env.rest]]
               /\ Constructed(Key(Asks[c], environ)) = Key(Asks[c], environ)
<1> DEFINE env == EnvironOf(Asks[c], environ)
           n == ResolveThreads(Asks[c].threads)
<1>1. env = [julia |-> env.julia, rest |-> env.rest]
  BY SettingsAssumption
<1>2. n \in Nat \ {0}
  <2> DEFINE v == Asks[c].threads.value
  <2>1. v \in Int /\ Cpus \in Nat \ {0}
    BY SettingsAssumption, PoolAssumption
  <2>2. n = AtLeastOne(v) \/ n = Cpus
    BY DEF ResolveThreads
  <2> HIDE DEF n, v
  <2> QED  BY <2>1, <2>2 DEF AtLeastOne
<1>3. ResolveThreads(AsText(n)) = n
  <2> HIDE DEF n
  <2> QED  BY <1>2 DEF ResolveThreads, AsText, AtLeastOne
<1>4. ASSUME NEW x, NEW y, NEW m PROVE Settings(m, [julia |-> x, rest |-> y]) =
                                     [threads |-> m, env |-> [julia |-> m, rest |-> y]]
  BY DEF Settings
<1>5. Key(Asks[c], environ) = Settings(n, env)
  BY DEF Key
<1> HIDE DEF n, env
<1>6. Key(Asks[c], environ) = [threads |-> n, env |-> [julia |-> n, rest |-> env.rest]]
  <2>1. Settings(n, [julia |-> env.julia, rest |-> env.rest]) =
          [threads |-> n, env |-> [julia |-> n, rest |-> env.rest]]
    BY <1>4
  <2> QED  BY <1>1, <1>5, <2>1
<1>7. Constructed(Key(Asks[c], environ)) = Key(Asks[c], environ)
  BY <1>3, <1>4, <1>6 DEF Constructed
<1> QED  BY <1>6, <1>7 DEF n, env

-----------------------------------------------------------------------------
(* get_worker().                                                            *)

LEMMA GetStep ==
    ASSUME PoolInv, NEW c \in Clients, GetWorker(c) \/ FactoryFails(c)
    PROVE  PoolInv'
<1> USE DEF PoolInv
<1>1. c \notin Reservers /\ c \notin Stoppers /\ c \in Threads
  BY PoolAssumption DEF Threads
<1>t. PoolTypes /\ HandleTypes /\ ThreadTypes /\ running \in SUBSET Clients /\ stuck \in SUBSET Clients
  BY DEF TypeOK
<1>2. poolLock = None /\ pc[c] = "new"
  BY DEF GetWorker, FactoryFails
<1>3. pc' \in {[pc EXCEPT ![c] = "got"], [pc EXCEPT ![c] = "done"]}
      /\ UNCHANGED <<poolLock, reservations, worldVars, todo, victim, condemned>>
  BY DEF GetWorker, FactoryFails, Goes, poolVars
<1>4. \A x \in Threads \ {c} : pc'[x] = pc[x]
  BY <1>3, <1>t DEF ThreadTypes
<1>5. pc'[c] \in {"got", "done"}
  BY <1>1, <1>3, <1>t DEF ThreadTypes
<1>6. \A x \in Reservers \cup Stoppers : pc'[x] = pc[x]
  BY <1>1, <1>4 DEF Threads
<1>7. CASE /\ UNCHANGED <<pool, callbacks, made, worker>>
           /\ \/ got' = got /\ pc'[c] = "done"
              \/ \E w \in pool : got' = [got EXCEPT ![c] = w]
  <2>1. got' \in [Threads -> Workers \cup {None}]
    BY <1>7, <1>1, <1>t DEF ThreadTypes, PoolTypes
  <2>2. TypeOK'
    BY <1>t, <1>1, <1>3, <1>4, <1>5, <1>6, <1>7, <2>1
       DEF TypeOK, PoolTypes, HandleTypes, ThreadTypes, worldVars, Threads
  <2>3. Known'
    BY <1>t, <1>1, <1>2, <1>3, <1>4, <1>5, <1>7, <2>1 DEF Known, ThreadTypes, PoolTypes, Threads
  <2>4. Walks'
    BY <1>3, <1>6, <1>7 DEF Walks
  <2>5. ASSUME NEW w \in Workers PROVE Holding(w)' = Holding(w) /\ Calling(w)' = Calling(w)
    BY <1>t, <1>1, <1>2, <1>4, <1>5, <1>7 DEF Holding, Calling, InCall, ThreadTypes, Threads
  <2>6. HoldsBalanced'
    BY <1>7, <2>5, BalanceKept
  <2> QED  BY <2>2, <2>3, <2>4, <2>6
<1>8. ASSUME NEW w \in Workers, made[w] = None, NEW m, m # None,
             made' = [made EXCEPT ![w] = m], pool' = pool \cup {w}, HeldForAll(w),
             got' = [got EXCEPT ![c] = w], pc'[c] = "got"
      PROVE  PoolInv'
  <2> USE <1>8
  <2>1. reservations \subseteq Reservers /\ IsFiniteSet(reservations)
        /\ Cardinality(reservations) \in Nat
    BY <1>t, PoolAssumption, FS_Subset, FS_CardinalityType DEF PoolTypes
  <2> DEFINE n == Cardinality(reservations)
             h == Handle!Of(None, None, FALSE, n)
  <2>2. h \in HandleType /\ h.holds = n
    BY <2>1, Made DEF HandleType, Handle!Of
  <2>3. worker' = [worker EXCEPT ![w] = h]
        /\ callbacks' = [r \in Reservers |-> IF r \in reservations
                                            THEN callbacks[r] \cup {w} ELSE callbacks[r]]
    BY DEF HeldForAll, SetWorker
  <2> HIDE DEF h, n
  <2>4. TypeOK'
    <3>1. HandleTypes'
      BY <1>t, <2>2, <2>3 DEF HandleTypes, HandleType
    <3>2. PoolTypes'
      BY <1>t, <1>3, <2>3 DEF PoolTypes
    <3>3. ThreadTypes'
      BY <1>t, <1>1, <1>3, <1>4, <1>6, <1>8 DEF ThreadTypes, Threads
    <3> QED  BY <1>t, <1>3, <3>1, <3>2, <3>3 DEF TypeOK, worldVars
  <2>5. \A v \in Workers \ {w} : made'[v] = made[v]
    BY <1>t DEF PoolTypes
  <2>6. made'[w] # None
    BY <1>t DEF PoolTypes
  <2>7. \A r \in Reservers : w \notin callbacks[r] /\ w \notin todo[r]
    BY DEF Known
  <2>8. \A d \in Clients : got[d] # w
    BY PoolAssumption DEF Known
  <2>9. \A r \in Reservers : callbacks'[r] \subseteq callbacks[r] \cup {w}
    BY <2>3
  <2>10. Known'
    <3>1. ASSUME NEW d \in Clients
          PROVE  (got'[d] # None => made'[got'[d]] # None)
                 /\ (pc'[d] \notin {"new", "done"} => got'[d] \in Workers)
      BY <1>t, <1>1, <1>4, <2>5, <2>6 DEF Known, ThreadTypes, Threads
    <3>2. ASSUME NEW r \in Reservers, NEW v \in callbacks'[r] \cup todo'[r]
          PROVE  made'[v] # None
      BY <1>t, <1>3, <2>5, <2>6, <2>9, <2>4 DEF Known, ThreadTypes, PoolTypes, TypeOK, Threads
    <3> QED  BY <3>1, <3>2 DEF Known
  <2>11. Walks'
    <3>1. \A r \in Reservers : pc[r] \notin {"holding", "releasing"}
      BY <1>2, PoolAssumption DEF Walks
    <3> QED  BY <1>3, <1>6, <2>3, <3>1 DEF Walks
  <2>12. HoldsBalanced'
    <3>1. ASSUME NEW v \in Workers, v # w
          PROVE  Holding(v)' = Holding(v) /\ Calling(v)' = Calling(v)
      <4>1. Holding(v)' = Holding(v)
        BY <2>3, <3>1 DEF Holding
      <4>2. Calling(v)' = Calling(v)
        BY <1>t, <1>1, <1>2, <1>4, <3>1 DEF Calling, InCall, ThreadTypes, Threads
      <4> QED  BY <4>1, <4>2
    <3>2. Holding(w)' = reservations
      BY <2>1, <2>3, <2>7 DEF Holding
    <3>3. Calling(w)' = {}
      BY <1>t, <1>1, <1>4, <2>8 DEF Calling, InCall, ThreadTypes, Threads
    <3>4. worker'[w].holds = n /\ \A v \in Workers \ {w} : worker'[v].holds = worker[v].holds
      BY <1>t, <2>2, <2>3 DEF HandleTypes
    <3>5. Cardinality({}) = 0
      BY FS_EmptySet
    <3>6. Cardinality(Holding(w)') = n /\ Cardinality(Calling(w)') = 0 /\ n \in Nat
      BY <2>1, <3>2, <3>3, <3>5 DEF n
    <3>7. ASSUME NEW v \in Workers
          PROVE  worker'[v].holds = Cardinality(Holding(v)') + Cardinality(Calling(v)')
      <4>1. CASE v = w
        BY <3>4, <3>6, <4>1
      <4>2. CASE v # w
        BY <3>1, <3>4, <4>2, Balance
      <4> QED  BY <4>1, <4>2
    <3> QED  BY <3>7 DEF HoldsBalanced, Holding, Calling
  <2> QED  BY <2>4, <2>10, <2>11, <2>12
<1>9. CASE FactoryFails(c)
  BY <1>1, <1>7, <1>9, <1>t DEF FactoryFails, poolVars, Goes, ThreadTypes
<1>10. CASE GetWorker(c)
  <2>1. PICK environ \in Environs :
          LET key == Key(Asks[c], environ)
          IN  \/ /\ \E w \in Matching(key) : got' = [got EXCEPT ![c] = w]
                 /\ UNCHANGED <<pool, callbacks, made, worker>>
              \/ \E w \in {v \in Workers : made[v] = None} :
                    /\ made' = [made EXCEPT ![w] = Constructed(key)]
                    /\ pool' = pool \cup {w}
                    /\ HeldForAll(w)
                    /\ got' = [got EXCEPT ![c] = w]
    BY <1>10 DEF GetWorker
  <2>2. Constructed(Key(Asks[c], environ)) # None
    BY SettingsAssumption, Normal
  <2>3. pc'[c] = "got"
    BY <1>1, <1>10, <1>t DEF GetWorker, Goes, ThreadTypes
  <2> QED  BY <1>7, <1>8, <2>1, <2>2, <2>3 DEF Matching
<1> QED  BY <1>9, <1>10

-----------------------------------------------------------------------------
(* hold_idle_cleanup() and its release.                                     *)

LEMMA ReserverStep ==
    ASSUME PoolInv, NEW r \in Reservers, ReserverRuns(r)
    PROVE  PoolInv'
<1> USE DEF PoolInv
<1>1. r \notin Clients /\ r \notin Stoppers /\ r \in Threads /\ None \notin Reservers
  BY PoolAssumption DEF Threads
<1>t. PoolTypes /\ HandleTypes /\ ThreadTypes /\ running \in SUBSET Clients /\ stuck \in SUBSET Clients
  BY DEF TypeOK
<1>2. UNCHANGED <<pool, made, worldVars, seen, got, victim, condemned>>
  BY DEF ReserverRuns
<1>3. \/ UNCHANGED pc
      \/ \E p \in {"holding", "held", "releasing", "done"} : pc' = [pc EXCEPT ![r] = p]
  BY DEF ReserverRuns, StartHold, HoldOne, EndHold, StartRelease, ReleaseOne, EndRelease, Goes
<1>4. \A x \in Threads \ {r} : pc'[x] = pc[x]
  BY <1>3, <1>t DEF ThreadTypes
<1>5. pc'[r] \in {"new", "holding", "held", "releasing", "done"} /\ DOMAIN pc' = Threads
  BY <1>1, <1>3, <1>t DEF ThreadTypes
<1>6. \A c \in Clients \cup Stoppers : pc'[c] = pc[c]
  BY <1>1, <1>4 DEF Threads
<1>7. \A w \in Workers : Calling(w)' = Calling(w)
  BY <1>2, <1>6 DEF Calling, InCall
<1>8. \A w \in Workers : worker[w] \in HandleType
  BY <1>t DEF HandleTypes, HandleType
<1>9. ASSUME UNCHANGED <<callbacks, worker>>, reservations' \in SUBSET Reservers,
             poolLock' \in {r, None}, todo' \in [Threads -> SUBSET Workers],
             \A q \in Reservers : todo'[q] \subseteq todo[q] \cup pool
      PROVE  TypeOK' /\ Known' /\ HoldsBalanced'
  <2> USE <1>9
  <2>1. TypeOK'
    BY <1>t, <1>1, <1>2, <1>4, <1>5, <1>6
       DEF TypeOK, PoolTypes, HandleTypes, ThreadTypes, worldVars, Threads
  <2>2. Known'
    BY <1>t, <1>2, <1>6 DEF Known, PoolTypes
  <2>3. \A w \in Workers : Holding(w)' = Holding(w)
    BY DEF Holding
  <2> QED  BY <1>7, <2>1, <2>2, <2>3, BalanceKept
<1>10. CASE StartHold(r)
  <2>1. pc[r] = "new" /\ pc'[r] = "holding" /\ poolLock = None /\ poolLock' = r
        /\ todo' = [todo EXCEPT ![r] = pool] /\ UNCHANGED <<reservations, callbacks, worker>>
    BY <1>1, <1>10, <1>t DEF StartHold, Goes, ThreadTypes
  <2>2. TypeOK' /\ Known' /\ HoldsBalanced'
    BY <1>1, <1>9, <1>t, <2>1 DEF PoolTypes, ThreadTypes
  <2>3. Walks'
    BY <1>1, <1>2, <1>4, <1>t, <2>1 DEF Walks, ThreadTypes, Threads
  <2> QED  BY <2>2, <2>3
<1>11. CASE HoldOne(r)
  <2>1. PICK w \in todo[r] : /\ SetWorker(w, Handle!Reserve(worker[w]))
                             /\ callbacks' = [callbacks EXCEPT ![r] = @ \cup {w}]
                             /\ todo' = [todo EXCEPT ![r] = @ \ {w}]
    BY <1>11 DEF HoldOne
  <2>2. pc[r] = "holding" /\ UNCHANGED <<poolLock, reservations, pc>>
    BY <1>11 DEF HoldOne
  <2>3. w \in Workers /\ w \notin callbacks[r] /\ made[w] # None
    BY <1>1, <1>t, <2>1, <2>2 DEF ThreadTypes, Walks, Known
  <2>4. worker' = [worker EXCEPT ![w] = Handle!Reserve(worker[w])]
    BY <2>1 DEF SetWorker
  <2>5. Handle!Reserve(worker[w]) \in HandleType
        /\ Handle!Reserve(worker[w]).holds = worker[w].holds + 1
    BY <1>8, <2>3, HandleOps
  <2>6. TypeOK'
    <3>1. HandleTypes'
      BY <1>t, <2>4, <2>5 DEF HandleTypes, HandleType
    <3>2. PoolTypes' /\ ThreadTypes'
      BY <1>t, <1>1, <1>2, <2>1, <2>2, <2>3 DEF PoolTypes, ThreadTypes
    <3> QED  BY <1>t, <1>2, <3>1, <3>2 DEF TypeOK, worldVars
  <2>7. Known'
    BY <1>t, <1>1, <1>2, <2>1, <2>2, <2>3 DEF Known, PoolTypes, ThreadTypes, Threads
  <2>8. Walks'
    BY <1>t, <1>1, <1>2, <2>1, <2>2, <2>3 DEF Walks, PoolTypes, ThreadTypes, Threads
  <2>9. HoldsBalanced'
    <3>1. Holding(w)' = Holding(w) \cup {r} /\ r \notin Holding(w)
      BY <1>t, <2>1, <2>3 DEF Holding, PoolTypes
    <3>2. ASSUME NEW v \in Workers, v # w PROVE Holding(v)' = Holding(v)
      BY <1>t, <2>1, <3>2 DEF Holding, PoolTypes
    <3>3. Cardinality(Holding(w)') = Cardinality(Holding(w)) + 1
      BY <3>1, Counts, FS_AddElement
    <3>4. worker'[w].holds = worker[w].holds + 1
          /\ \A v \in Workers \ {w} : worker'[v].holds = worker[v].holds
      BY <1>t, <2>3, <2>4, <2>5 DEF HandleTypes
    <3>5. ASSUME NEW v \in Workers
          PROVE  worker'[v].holds = Cardinality(Holding(v)') + Cardinality(Calling(v)')
      BY <1>7, <2>3, <3>2, <3>3, <3>4, Counts, Balance
    <3> QED  BY <3>5 DEF HoldsBalanced, Holding, Calling
  <2> QED  BY <2>6, <2>7, <2>8, <2>9
<1>12. CASE EndHold(r)
  <2>1. pc[r] = "holding" /\ pc'[r] = "held" /\ todo[r] = {} /\ poolLock' = None
        /\ reservations' = reservations \cup {r} /\ UNCHANGED <<callbacks, todo, worker>>
    BY <1>1, <1>12, <1>t DEF EndHold, Goes, Remember, ThreadTypes
  <2>2. TypeOK' /\ Known' /\ HoldsBalanced'
    BY <1>1, <1>9, <1>t, <2>1 DEF PoolTypes, ThreadTypes
  <2>3. Walks'
    BY <1>1, <1>2, <1>4, <1>t, <2>1 DEF Walks, ThreadTypes, Threads
  <2> QED  BY <2>2, <2>3
<1>13. CASE StartRelease(r)
  <2>1. pc[r] = "held" /\ pc'[r] = "releasing" /\ poolLock = None /\ poolLock' = r
        /\ reservations' = reservations \ {r} /\ UNCHANGED <<callbacks, todo, worker>>
    BY <1>1, <1>13, <1>t DEF StartRelease, Goes, ThreadTypes
  <2>2. TypeOK' /\ Known' /\ HoldsBalanced'
    BY <1>1, <1>9, <1>t, <2>1 DEF PoolTypes, ThreadTypes
  <2>3. Walks'
    BY <1>1, <1>2, <1>4, <1>t, <2>1 DEF Walks, ThreadTypes, Threads
  <2> QED  BY <2>2, <2>3
<1>14. CASE ReleaseOne(r)
  <2>1. PICK w \in callbacks[r] : /\ SetWorker(w, Handle!Unreserve(worker[w]))
                                  /\ callbacks' = [callbacks EXCEPT ![r] = @ \ {w}]
    BY <1>14 DEF ReleaseOne
  <2>2. pc[r] = "releasing" /\ UNCHANGED <<poolLock, reservations, pc, todo>>
    BY <1>14 DEF ReleaseOne
  <2>3. w \in Workers
    BY <1>1, <1>t, <2>1 DEF PoolTypes
  <2>4. worker' = [worker EXCEPT ![w] = Handle!Unreserve(worker[w])]
    BY <2>1 DEF SetWorker
  <2>5. Handle!Unreserve(worker[w]) \in HandleType
        /\ Handle!Unreserve(worker[w]).holds = worker[w].holds - 1
    BY <1>8, <2>3, HandleOps
  <2>6. TypeOK'
    <3>1. HandleTypes'
      BY <1>t, <2>4, <2>5 DEF HandleTypes, HandleType
    <3>2. PoolTypes' /\ ThreadTypes'
      BY <1>t, <1>1, <1>2, <2>1, <2>2, <2>3 DEF PoolTypes, ThreadTypes
    <3> QED  BY <1>t, <1>2, <3>1, <3>2 DEF TypeOK, worldVars
  <2>7. Known'
    BY <1>t, <1>1, <1>2, <2>1, <2>2 DEF Known, PoolTypes
  <2>8. Walks'
    BY <1>t, <1>1, <1>2, <2>1, <2>2 DEF Walks, PoolTypes
  <2>9. HoldsBalanced'
    <3>1. Holding(w)' = Holding(w) \ {r} /\ r \in Holding(w)
      BY <1>t, <2>1, <2>3 DEF Holding, PoolTypes
    <3>2. ASSUME NEW v \in Workers, v # w PROVE Holding(v)' = Holding(v)
      BY <1>t, <2>1, <3>2 DEF Holding, PoolTypes
    <3>3. Cardinality(Holding(w)') = Cardinality(Holding(w)) - 1
      BY <3>1, Counts, FS_RemoveElement
    <3>4. worker'[w].holds = worker[w].holds - 1
          /\ \A v \in Workers \ {w} : worker'[v].holds = worker[v].holds
      BY <1>t, <2>3, <2>4, <2>5 DEF HandleTypes
    <3>5. ASSUME NEW v \in Workers
          PROVE  worker'[v].holds = Cardinality(Holding(v)') + Cardinality(Calling(v)')
      BY <1>7, <2>3, <3>2, <3>3, <3>4, Counts, Balance
    <3> QED  BY <3>5 DEF HoldsBalanced, Holding, Calling
  <2> QED  BY <2>6, <2>7, <2>8, <2>9
<1>15. CASE EndRelease(r)
  <2>1. pc[r] = "releasing" /\ pc'[r] = "done" /\ poolLock' = None
        /\ UNCHANGED <<reservations, callbacks, todo, worker>>
    BY <1>1, <1>15, <1>t DEF EndRelease, Goes, ThreadTypes
  <2>2. TypeOK' /\ Known' /\ HoldsBalanced'
    BY <1>1, <1>9, <1>t, <2>1 DEF PoolTypes, ThreadTypes
  <2>3. Walks'
    BY <1>1, <1>2, <1>4, <1>t, <2>1 DEF Walks, ThreadTypes, Threads
  <2> QED  BY <2>2, <2>3
<1> QED  BY <1>10, <1>11, <1>12, <1>13, <1>14, <1>15 DEF ReserverRuns

-----------------------------------------------------------------------------
(* A client inside submit() and its event stream.                           *)

LEMMA ClientStep ==
    ASSUME PoolInv, NEW c \in Clients, ClientRuns(c)
    PROVE  PoolInv'
<1> USE DEF PoolInv
<1>1. c \notin Reservers /\ c \notin Stoppers /\ c \in Threads
  BY PoolAssumption DEF Threads
<1>t. PoolTypes /\ HandleTypes /\ ThreadTypes /\ running \in SUBSET Clients /\ stuck \in SUBSET Clients
  BY DEF TypeOK
<1>2. UNCHANGED <<poolVars, todo, condemned>>
  BY DEF ClientRuns
<1>3. pc[c] \notin {"new", "done"}
  BY DEF ClientRuns, Call, Start, Boot, Stop, Leave, Return, Finish
<1>4. PICK w \in Workers : w = got[c] /\ worker[w] \in HandleType
  BY <1>3, <1>t DEF Known, HandleTypes, HandleType
<1> USE <1>4
<1>5. \E p \in {"waiting", "starting", "submitted", "leaving", "stopping", "streaming", "done"} :
         pc' = [pc EXCEPT ![c] = p]
  BY DEF ClientRuns, Call, Start, Boot, Stop, Leave, Return, Finish, Goes, Forget
<1>6. \A x \in Threads \ {c} : pc'[x] = pc[x]
  BY <1>5, <1>t DEF ThreadTypes
<1>7. DOMAIN pc' = Threads /\ pc'[c] \in {"waiting", "starting", "submitted", "leaving",
                                        "stopping", "streaming", "done"}
  BY <1>1, <1>5, <1>t DEF ThreadTypes
<1>8. \A x \in Reservers \cup Stoppers : pc'[x] = pc[x]
  BY <1>1, <1>6 DEF Threads
<1>9. \/ pc'[c] # "done" /\ UNCHANGED got
      \/ pc'[c] = "done" /\ got' = [got EXCEPT ![c] = None]
  BY <1>1, <1>t DEF ClientRuns, Call, Start, Boot, Stop, Leave, Return, Finish, Goes, Forget, ThreadTypes
<1>10. \A h \in HandleType : SetWorker(w, h) =>
           HandleTypes' /\ worker'[w] = h /\ \A v \in Workers \ {w} : worker'[v] = worker[v]
  BY <1>4, <1>t, SetHandle
<1>17. ASSUME Call(c)
       PROVE  /\ HandleTypes' /\ pc[c] = "got" /\ pc'[c] = "waiting"
              /\ worker'[w].holds = worker[w].holds + 1
              /\ \A v \in Workers \ {w} : worker'[v] = worker[v]
  <2>1. SetWorker(w, Handle!Reserve(worker[w])) /\ pc[c] = "got" /\ pc' = [pc EXCEPT ![c] = "waiting"]
    BY <1>17 DEF Call, Goes
  <2>2. Handle!Reserve(worker[w]) \in HandleType
        /\ Handle!Reserve(worker[w]).holds = worker[w].holds + 1
    BY <1>4, HandleOps
  <2> QED  BY <1>1, <1>10, <1>t, <2>1, <2>2 DEF ThreadTypes
<1>18. ASSUME Leave(c) \/ Return(c)
       PROVE  /\ HandleTypes' /\ pc[c] \in {"leaving", "submitted"} /\ pc'[c] \in {"done", "streaming"}
              /\ worker'[w].holds = worker[w].holds - 1
              /\ \A v \in Workers \ {w} : worker'[v] = worker[v]
  <2> DEFINE h == Handle!Unreserve(worker[w])
  <2>1. h \in HandleType /\ h.holds = worker[w].holds - 1
    BY <1>4, HandleOps
  <2>2. Handle!Free(h) \in HandleType /\ Handle!Free(h).holds = h.holds
    BY <2>1, HandleOps
  <2>3. SetWorker(w, h) \/ SetWorker(w, Handle!Free(h))
    BY <1>18 DEF Leave, Return
  <2>4. pc[c] \in {"leaving", "submitted"}
        /\ (pc' = [pc EXCEPT ![c] = "done"] \/ pc' = [pc EXCEPT ![c] = "streaming"])
    BY <1>18 DEF Leave, Return, Forget, Goes
  <2> HIDE DEF h
  <2> QED  BY <1>1, <1>10, <1>t, <2>1, <2>2, <2>3, <2>4 DEF ThreadTypes
<1>16. ASSUME ~Call(c), ~Leave(c), ~Return(c)
       PROVE  HandleTypes' /\ \A v \in Workers : worker'[v].holds = worker[v].holds
  <2> DEFINE h == worker[w]
  <2> HIDE DEF h
  <2> USE <1>4, HandleOps DEF h
  <2>0. ASSUME NEW g \in HandleType, g.holds = h.holds, SetWorker(w, g)
        PROVE  HandleTypes' /\ \A v \in Workers : worker'[v].holds = worker[v].holds
    BY <1>t, <2>0, SetHandle
  <2>1. CASE UNCHANGED worker
    BY <1>t, <2>1 DEF HandleTypes
  <2>2. CASE Start(c)
    <3> DEFINE g == Handle!Take(h, c)
    <3>1. g \in HandleType /\ g.holds = h.holds
      OBVIOUS
    <3> HIDE DEF g
    <3>2. /\ Handle!Attach(g, c) \in HandleType /\ Handle!Attach(g, c).holds = h.holds
          /\ \A d \in BOOLEAN : Handle!Observe(g, d) \in HandleType
                                /\ Handle!Observe(g, d).holds = h.holds
      BY <3>1
    <3>3. \/ SetWorker(w, g) \/ SetWorker(w, Handle!Attach(g, c))
          \/ \E d \in BOOLEAN : SetWorker(w, Handle!Observe(g, d))
      BY <2>2 DEF Start, g
    <3> QED  BY <2>0, <3>1, <3>2, <3>3
  <2>3. CASE Boot(c)
    <3>1. UNCHANGED worker \/ SetWorker(w, Handle!Detach(h))
      BY <2>3 DEF Boot
    <3>2. Handle!Detach(h) \in HandleType /\ Handle!Detach(h).holds = h.holds
      OBVIOUS
    <3> QED  BY <2>0, <2>1, <3>1, <3>2
  <2>4. CASE Stop(c)
    BY <2>1, <2>4 DEF Stop
  <2>5. CASE Finish(c)
    <3>1. \/ UNCHANGED worker
          \/ \E kept \in BOOLEAN : SetWorker(w, Handle!Free(Handle!Observe(h, kept)))
          \/ SetWorker(w, Handle!Free(Handle!Detach(h)))
      BY <2>5 DEF Finish
    <3>2. ASSUME NEW kept \in BOOLEAN
          PROVE  Handle!Free(Handle!Observe(h, kept)) \in HandleType
                 /\ Handle!Free(Handle!Observe(h, kept)).holds = h.holds
      OBVIOUS
    <3>3. Handle!Free(Handle!Detach(h)) \in HandleType /\ Handle!Free(Handle!Detach(h)).holds = h.holds
      OBVIOUS
    <3> QED  BY <2>0, <2>1, <3>1, <3>2, <3>3
  <2> QED  BY <1>16, <2>2, <2>3, <2>4, <2>5 DEF ClientRuns
<1>11. victim' \in [Threads -> Clients \cup {None}] /\ running' \in SUBSET Clients /\ stuck' \in SUBSET Clients
  <2>1. running' \in SUBSET Clients /\ stuck' \in SUBSET Clients
    <3>1. \/ UNCHANGED <<running, stuck>>
          \/ running' = running \cup {c} /\ UNCHANGED stuck
          \/ \E p : running' = running \ {p} /\ UNCHANGED stuck
          \/ \E p \in running : stuck' = stuck \cup {p} /\ UNCHANGED running
      BY DEF ClientRuns, Call, Start, Boot, Stop, Leave, Return, Finish, StopProcess, StopTimesOut
    <3> QED  BY <1>t, <3>1
  <2>2. \/ UNCHANGED victim
        \/ victim' = [victim EXCEPT ![c] = c] \/ victim' = [victim EXCEPT ![c] = None]
    BY DEF ClientRuns, Call, Start, Boot, Stop, Leave, Return, Finish
  <2> QED  BY <1>t, <2>1, <2>2 DEF ThreadTypes
<1>12. got' \in [Threads -> Workers \cup {None}]
  BY <1>9, <1>t DEF ThreadTypes
<1>13. TypeOK'
  <2>1. HandleTypes'
    BY <1>16, <1>17, <1>18
  <2>2. PoolTypes'
    BY <1>t, <1>2 DEF PoolTypes, poolVars
  <2>3. ThreadTypes'
    BY <1>t, <1>1, <1>2, <1>6, <1>7, <1>8, <1>11, <1>12 DEF ThreadTypes, Threads
  <2> QED  BY <1>11, <2>1, <2>2, <2>3 DEF TypeOK
<1>14. Known'
  BY <1>t, <1>1, <1>2, <1>3, <1>6, <1>7, <1>9 DEF Known, poolVars, ThreadTypes, Threads
<1>15. Walks'
  BY <1>2, <1>8 DEF Walks, poolVars
<1>19. \A v \in Workers : Holding(v)' = Holding(v)
  BY <1>2 DEF Holding, poolVars
<1>20. ASSUME NEW v \in Workers, v # w PROVE Calling(v)' = Calling(v)
  BY <1>1, <1>3, <1>6, <1>9, <1>12, <1>20, <1>t DEF Calling, InCall, ThreadTypes, Threads
<1>21. \A d \in Clients \ {c} : got'[d] = got[d] /\ pc'[d] = pc[d]
  BY <1>6, <1>9, <1>t DEF ThreadTypes, Threads
<1>22. HoldsBalanced'
  <2>1. CASE Call(c)
    <3>1. Calling(w)' = Calling(w) \cup {c} /\ c \notin Calling(w)
      BY <1>9, <1>17, <1>21, <2>1 DEF Calling, InCall
    <3>2. Cardinality(Calling(w)') = Cardinality(Calling(w)) + 1
      BY <3>1, Counts, FS_AddElement
    <3>3. \A v \in Workers :
             worker'[v].holds = Cardinality(Holding(v)') + Cardinality(Calling(v)')
      BY <1>4, <1>17, <1>19, <1>20, <2>1, <3>2, Counts, Balance
    <3> QED  BY <3>3 DEF HoldsBalanced, Holding, Calling
  <2>2. CASE Leave(c) \/ Return(c)
    <3>1. Calling(w)' = Calling(w) \ {c} /\ c \in Calling(w)
      BY <1>9, <1>18, <1>21, <2>2 DEF Calling, InCall
    <3>2. Cardinality(Calling(w)') = Cardinality(Calling(w)) - 1
      BY <3>1, Counts, FS_RemoveElement, ZenonT(60)
    <3>3. \A v \in Workers :
             worker'[v].holds = Cardinality(Holding(v)') + Cardinality(Calling(v)')
      BY <1>4, <1>18, <1>19, <1>20, <2>2, <3>2, Counts, Balance
    <3> QED  BY <3>3 DEF HoldsBalanced, Holding, Calling
  <2>3. CASE ~Call(c) /\ ~Leave(c) /\ ~Return(c)
    <3>1. \/ pc[c] = "waiting" /\ pc' \in {[pc EXCEPT ![c] = "starting"], [pc EXCEPT ![c] = "leaving"]}
          \/ pc[c] = "starting" /\ pc' \in {[pc EXCEPT ![c] = p] : p \in {"submitted", "leaving", "stopping"}}
          \/ pc[c] = "stopping" /\ pc' = [pc EXCEPT ![c] = "leaving"]
          \/ pc[c] = "streaming" /\ pc' = [pc EXCEPT ![c] = "done"]
      BY <2>3 DEF ClientRuns, Start, Boot, Stop, Finish, Goes, Forget
    <3>2. InCall(c, w)' <=> InCall(c, w)
      BY <1>1, <1>9, <1>t, <3>1 DEF InCall, ThreadTypes
    <3>3. Calling(w)' = Calling(w)
      BY <1>21, <3>2 DEF Calling, InCall
    <3>4. \A v \in Workers : worker'[v].holds = worker[v].holds
      BY <1>16, <2>3
    <3>5. \A v \in Workers : Calling(v)' = Calling(v)
      BY <1>20, <3>3
    <3> QED  BY <1>19, <3>4, <3>5, BalanceKept
  <2> QED  BY <2>1, <2>2, <2>3
<1> QED  BY <1>13, <1>14, <1>15, <1>22

-----------------------------------------------------------------------------
(* Idle reclamation, children, and shutdown(): no hold changes.             *)

\* A section of one worker, of a thread that holds none of it.
LEMMA Frame ==
    ASSUME PoolInv, UNCHANGED <<poolLock, reservations, callbacks, made>>,
           pool' \in SUBSET pool, HandleTypes', ThreadTypes',
           running' \in SUBSET Clients, stuck' \in SUBSET Clients,
           \A v \in Workers : worker'[v].holds = worker[v].holds,
           \A x \in Clients \cup Reservers : pc'[x] = pc[x],
           \A c \in Clients : got'[c] = got[c], \A r \in Reservers : todo'[r] = todo[r]
    PROVE  PoolInv'
<1> USE DEF PoolInv
<1>1. TypeOK'
  BY DEF TypeOK, PoolTypes
<1>2. Known' /\ Walks'
  BY DEF Known, Walks
<1>3. \A v \in Workers : Holding(v)' = Holding(v) /\ Calling(v)' = Calling(v)
  BY DEF Holding, Calling, InCall
<1> QED  BY <1>1, <1>2, <1>3, BalanceKept

LEMMA IdleStep ==
    ASSUME PoolInv, NEW w \in Workers, IdleRuns(w)
    PROVE  PoolInv'
<1>t. HandleTypes /\ ThreadTypes /\ running \in SUBSET Clients /\ stuck \in SUBSET Clients
  BY DEF PoolInv, TypeOK
<1> DEFINE h == worker[w]
<1>1. h \in HandleType
  BY <1>t DEF HandleTypes, HandleType
<1>2. /\ Handle!Take(h, Reclaim) \in HandleType /\ Handle!Take(h, Reclaim).holds = h.holds
      /\ Handle!Free(Handle!Detach(h)) \in HandleType
      /\ Handle!Free(Handle!Detach(h)).holds = h.holds
      /\ \A d \in BOOLEAN : /\ Handle!Free(Handle!Observe(h, d)) \in HandleType
                            /\ Handle!Free(Handle!Observe(h, d)).holds = h.holds
  BY <1>1, HandleOps
<1> HIDE DEF h
<1>3. \/ SetWorker(w, Handle!Take(h, Reclaim)) \/ SetWorker(w, Handle!Free(Handle!Detach(h)))
      \/ \E d \in BOOLEAN : SetWorker(w, Handle!Free(Handle!Observe(h, d)))
  BY DEF IdleRuns, StartReclaim, EndReclaim, h
<1>4. HandleTypes' /\ \A v \in Workers : worker'[v].holds = worker[v].holds
  BY <1>t, <1>2, <1>3, SetHandle DEF h
<1>5. running' \in SUBSET Clients
  BY <1>t DEF IdleRuns, StartReclaim, EndReclaim
<1>6. UNCHANGED <<poolVars, threadVars, stuck>>
  BY DEF IdleRuns
<1>7. ThreadTypes'
  BY <1>t, <1>6 DEF ThreadTypes, threadVars
<1> QED  BY <1>t, <1>4, <1>5, <1>6, <1>7, Frame DEF poolVars, threadVars

LEMMA DiesStep ==
    ASSUME PoolInv, NEW p \in Clients, ChildDies(p)
    PROVE  PoolInv'
<1>1. HandleTypes /\ ThreadTypes /\ running \in SUBSET Clients /\ stuck \in SUBSET Clients
  BY DEF PoolInv, TypeOK
<1>2. UNCHANGED <<poolVars, threadVars, worker, stuck>> /\ running' \in SUBSET Clients
  BY <1>1 DEF ChildDies
<1>3. HandleTypes' /\ ThreadTypes' /\ \A v \in Workers : worker'[v].holds = worker[v].holds
  BY <1>1, <1>2 DEF HandleTypes, ThreadTypes, threadVars
<1> QED  BY <1>1, <1>2, <1>3, Frame DEF poolVars, threadVars

LEMMA StopperStep ==
    ASSUME PoolInv, NEW s \in Stoppers, StopperRuns(s)
    PROVE  PoolInv'
<1>1. s \notin Reservers /\ s \notin Clients /\ s \in Threads
  BY PoolAssumption DEF Threads
<1>t. PoolTypes /\ HandleTypes /\ ThreadTypes /\ running \in SUBSET Clients /\ stuck \in SUBSET Clients
  BY DEF PoolInv, TypeOK
<1>2. UNCHANGED <<poolLock, reservations, callbacks, made, seen>>
  BY DEF StopperRuns
<1>3. \E q \in {"terminating", "killing", "raised", "done"} : pc' = [pc EXCEPT ![s] = q]
  BY DEF StopperRuns, BeginShutdown, SeizeWorker, StopWorker, EndShutdown, Goes
<1>4. DOMAIN pc' = Threads /\ pc'[s] \in {"terminating", "killing", "raised", "done"}
      /\ \A x \in Threads \ {s} : pc'[x] = pc[x]
  BY <1>1, <1>3, <1>t DEF ThreadTypes
<1>5. \/ UNCHANGED todo \/ todo' = [todo EXCEPT ![s] = pool]
      \/ \E w : todo' = [todo EXCEPT ![s] = @ \ {w}]
  BY DEF StopperRuns, BeginShutdown, SeizeWorker, StopWorker, EndShutdown, TakeAll
<1>6. todo' \in [Threads -> SUBSET Workers] /\ \A r \in Reservers : todo'[r] = todo[r]
  BY <1>1, <1>5, <1>t DEF ThreadTypes, PoolTypes, Threads
<1>7. UNCHANGED got \/ \E w \in Workers : got' = [got EXCEPT ![s] = w]
  BY <1>1, <1>t DEF StopperRuns, BeginShutdown, SeizeWorker, StopWorker, EndShutdown, ThreadTypes
<1>8. got' \in [Threads -> Workers \cup {None}] /\ \A c \in Clients : got'[c] = got[c]
  BY <1>1, <1>7, <1>t DEF ThreadTypes, Threads
<1>9. UNCHANGED victim \/ victim' = [victim EXCEPT ![s] = None]
      \/ \E w \in Workers : victim' = [victim EXCEPT ![s] = worker[w].child]
  BY <1>1, <1>t DEF StopperRuns, BeginShutdown, SeizeWorker, StopWorker, EndShutdown, ThreadTypes
<1>10. victim' \in [Threads -> Clients \cup {None}]
  BY <1>9, <1>t DEF ThreadTypes, HandleTypes
<1>11. condemned' \in [Stoppers -> SUBSET Clients]
  BY <1>t DEF StopperRuns, BeginShutdown, SeizeWorker, StopWorker, EndShutdown, ThreadTypes
<1>12. ThreadTypes'
  BY <1>1, <1>4, <1>6, <1>8, <1>10, <1>11, <1>t DEF ThreadTypes, Threads
<1>13. running' \in SUBSET Clients /\ stuck' \in SUBSET Clients /\ pool' \in SUBSET pool
  BY <1>t DEF StopperRuns, BeginShutdown, SeizeWorker, StopWorker, EndShutdown, TakeAll,
     StopProcess, StopTimesOut
<1>14. HandleTypes' /\ \A v \in Workers : worker'[v].holds = worker[v].holds
  <2>1. CASE UNCHANGED worker
    BY <1>t, <2>1 DEF HandleTypes
  <2>2. ASSUME NEW w \in Workers,
               SetWorker(w, Handle!Take(Handle!Detach(worker[w]), Handle!Terminating))
        PROVE  HandleTypes' /\ \A v \in Workers : worker'[v].holds = worker[v].holds
    <3> DEFINE d == Handle!Detach(worker[w])
    <3>1. worker[w] \in HandleType
      BY <1>t DEF HandleTypes, HandleType
    <3>2. d \in HandleType /\ d.holds = worker[w].holds
      BY <3>1, HandleOps
    <3> HIDE DEF d
    <3>3. Handle!Take(d, Handle!Terminating) \in HandleType
          /\ Handle!Take(d, Handle!Terminating).holds = d.holds
      BY <3>2, HandleOps
    <3> QED  BY <1>t, <2>2, <3>2, <3>3, SetHandle DEF d
  <2>3. ASSUME NEW w \in Workers, SetWorker(w, Handle!Free(worker[w]))
        PROVE  HandleTypes' /\ \A v \in Workers : worker'[v].holds = worker[v].holds
    <3>1. worker[w] \in HandleType
      BY <1>t DEF HandleTypes, HandleType
    <3> QED  BY <1>t, <2>3, <3>1, HandleOps, SetHandle
  <2>4. CASE StopWorker(s)
    <3>1. CASE got[s] \in Workers
      BY <2>3, <2>4, <3>1 DEF StopWorker
    <3>2. CASE got[s] \notin Workers
      BY <1>t, <2>1, <2>4, <3>2 DEF StopWorker, SetWorker, HandleTypes
    <3> QED  BY <3>1, <3>2
  <2>5. CASE SeizeWorker(s)
    BY <1>1, <1>t, <2>2, <2>5 DEF SeizeWorker, ThreadTypes
  <2> QED  BY <2>1, <2>4, <2>5 DEF StopperRuns, BeginShutdown, EndShutdown
<1> QED  BY <1>2, <1>4, <1>1, <1>6, <1>8, <1>12, <1>13, <1>14, Frame DEF Threads

-----------------------------------------------------------------------------
(* The theorems.                                                            *)

LEMMA NextInv ==
    ASSUME PoolInv, [Next]_vars
    PROVE  PoolInv'
<1>1. CASE UNCHANGED vars
  BY <1>1 DEF vars, poolVars, worldVars, threadVars, PoolInv, TypeOK, PoolTypes, HandleTypes,
     ThreadTypes, Known, Walks, HoldsBalanced, InCall
<1> QED
  BY <1>1, GetStep, ReserverStep, ClientStep, IdleStep, DiesStep, StopperStep DEF Next, Rest

\* The inductive invariant holds of every pool.
THEOREM Invariance == Spec => []PoolInv
BY InitInv, NextInv, PTL DEF Spec

\* The types of the pool, for any threads, workers and settings.
THEOREM Typing == Spec => []TypeOK
<1>1. PoolInv => TypeOK
  BY DEF PoolInv
<1> QED  BY <1>1, Invariance, PTL

\* Every hold is accounted for, by one reservation or one call.
THEOREM Balancing == Spec => []HoldsBalanced
<1>1. PoolInv => HoldsBalanced
  BY DEF PoolInv
<1> QED  BY <1>1, Invariance, PTL

\* A client's worker has the key of its call, and no key has two workers.
Keyed ==
    /\ \A c \in Clients : got[c] # None =>
          seen[c] \in Environs /\ made[got[c]] = Key(Asks[c], seen[c])
    /\ \A v, w \in pool : made[v] = made[w] => v = w

LEMMA KeyedStep ==
    ASSUME PoolInv, Keyed, DOMAIN seen = Clients, [Next]_vars
    PROVE  Keyed' /\ DOMAIN seen' = Clients
<1>t. PoolTypes /\ ThreadTypes
  BY DEF PoolInv, TypeOK
<1>1. ASSUME pool' \subseteq pool, UNCHANGED made, DOMAIN seen' = Clients,
             \A c \in Clients : got'[c] # None => got'[c] = got[c] /\ seen'[c] = seen[c]
      PROVE  Keyed' /\ DOMAIN seen' = Clients
  BY <1>1 DEF Keyed
<1>2. ASSUME NEW c \in Clients, ClientRuns(c) PROVE Keyed' /\ DOMAIN seen' = Clients
  <2>1. pool' = pool /\ made' = made
    BY <1>2 DEF ClientRuns, poolVars
  <2>2. \/ UNCHANGED <<got, seen>>
        \/ got' = [got EXCEPT ![c] = None] /\ seen' = [seen EXCEPT ![c] = None]
    <3>1. CASE Leave(c) \/ Finish(c)
      BY <3>1 DEF Leave, Finish, Forget
    <3>2. CASE Call(c) \/ Start(c) \/ Boot(c)
      BY <3>2 DEF Call, Start, Boot
    <3>3. CASE Stop(c) \/ Return(c)
      BY <3>3 DEF Stop, Return
    <3> QED  BY <1>2, <3>1, <3>2, <3>3 DEF ClientRuns
  <2>3. DOMAIN seen' = Clients
        /\ \A d \in Clients : got'[d] # None => got'[d] = got[d] /\ seen'[d] = seen[d]
    BY <1>t, <2>2 DEF ThreadTypes, Threads
  <2> QED  BY <1>1, <2>1, <2>3
<1>3. ASSUME NEW s \in Stoppers, StopperRuns(s) PROVE Keyed' /\ DOMAIN seen' = Clients
  <2>1. UNCHANGED <<made, seen>> /\ pool' \subseteq pool
    BY <1>3 DEF StopperRuns, BeginShutdown, SeizeWorker, StopWorker, EndShutdown, TakeAll
  <2>2. UNCHANGED got \/ \E w \in Workers : got' = [got EXCEPT ![s] = w]
    BY <1>3, <1>t DEF StopperRuns, BeginShutdown, SeizeWorker, StopWorker, EndShutdown,
       ThreadTypes, Threads
  <2>3. \A d \in Clients : got'[d] = got[d]
    BY <1>t, <2>2, PoolAssumption DEF ThreadTypes, Threads
  <2> QED  BY <1>1, <2>1, <2>3
<1>4. ASSUME NEW c \in Clients, GetWorker(c) PROVE Keyed' /\ DOMAIN seen' = Clients
  <2>1. PICK environ \in Environs :
          LET key == Key(Asks[c], environ)
          IN  /\ seen' = [seen EXCEPT ![c] = environ]
              /\ \/ \E w \in Matching(key) :
                       /\ got' = [got EXCEPT ![c] = w]
                       /\ UNCHANGED <<pool, callbacks, made, worker>>
                 \/ /\ Matching(key) = {}
                    /\ \E w \in {v \in Workers : made[v] = None} :
                          /\ made' = [made EXCEPT ![w] = Constructed(key)]
                          /\ pool' = pool \cup {w}
                          /\ got' = [got EXCEPT ![c] = w]
    BY <1>4 DEF GetWorker
  <2> DEFINE key == Key(Asks[c], environ)
  <2>2. Constructed(key) = key
    BY Normal
  <2> HIDE DEF key
  <2>3. DOMAIN seen' = Clients /\ seen'[c] = environ
        /\ \A d \in Clients \ {c} : seen'[d] = seen[d]
    BY <2>1
  <2>4. ASSUME NEW w \in Matching(key), got' = [got EXCEPT ![c] = w], UNCHANGED <<pool, made>>
        PROVE  Keyed'
    BY <1>t, <2>3, <2>4 DEF Keyed, Matching, ThreadTypes, Threads, key
  <2>5. ASSUME Matching(key) = {}, NEW w \in Workers, made[w] = None,
               made' = [made EXCEPT ![w] = key], pool' = pool \cup {w}, got' = [got EXCEPT ![c] = w]
        PROVE  Keyed'
    <3>1. made'[w] = key /\ \A v \in Workers \ {w} : made'[v] = made[v]
      BY <1>t, <2>5 DEF PoolTypes
    <3>2. \A d \in Clients : got[d] # w \/ got[d] = None
      BY <2>5 DEF PoolInv, Known
    <3>3. \A d \in Clients : got[d] \in Workers \cup {None} /\ (d # c => got'[d] = got[d])
      BY <1>t, <2>5 DEF ThreadTypes, Threads
    <3>4. got'[c] = w /\ w # None
      BY <1>t, <2>5, PoolAssumption DEF ThreadTypes, Threads
    <3>5. \A v \in pool : v \in Workers /\ made[v] # key /\ v # w
      BY <1>t, <2>5 DEF Matching, PoolTypes
    <3>6. \A d \in Clients : got'[d] # None =>
             seen'[d] \in Environs /\ made'[got'[d]] = Key(Asks[d], seen'[d])
      BY <2>3, <3>1, <3>2, <3>3, <3>4 DEF Keyed, key
    <3>7. \A u, v \in pool' : made'[u] = made'[v] => u = v
      BY <2>5, <3>1, <3>5 DEF Keyed
    <3> QED  BY <3>6, <3>7 DEF Keyed
  <2> QED  BY <2>1, <2>2, <2>3, <2>4, <2>5 DEF key
<1>5. CASE UNCHANGED <<pool, made, seen, got>>
  BY <1>1, <1>5
<1>6. ASSUME NEW r \in Reservers, ReserverRuns(r) PROVE UNCHANGED <<pool, made, seen, got>>
  BY <1>6 DEF ReserverRuns
<1>7. ASSUME NEW w \in Workers, IdleRuns(w) PROVE UNCHANGED <<pool, made, seen, got>>
  BY <1>7 DEF IdleRuns, poolVars, threadVars
<1>8. ASSUME NEW c \in Clients, FactoryFails(c) \/ ChildDies(c)
      PROVE  UNCHANGED <<pool, made, seen, got>>
  BY <1>8 DEF FactoryFails, ChildDies, poolVars, threadVars
<1>9. ASSUME Rest \/ UNCHANGED vars PROVE UNCHANGED <<pool, made, seen, got>>
  BY <1>9 DEF Rest, vars, poolVars, threadVars
<1> QED  BY <1>2, <1>3, <1>4, <1>5, <1>6, <1>7, <1>8, <1>9 DEF Next

\* A client is given a worker of its own settings, and no settings have two
\* workers, whatever the spellings and environments.
THEOREM Settling == Spec => []SettingsMatch
<1>1. Init => Keyed /\ DOMAIN seen = Clients
  BY DEF Init, Keyed, Threads
<1>2. PoolInv /\ Keyed /\ DOMAIN seen = Clients /\ [Next]_vars
        => (Keyed /\ DOMAIN seen = Clients)'
  BY KeyedStep
<1>3. Keyed => SettingsMatch
  BY Normal DEF Keyed, SettingsMatch, EnvironOf
<1> QED  BY <1>1, <1>2, <1>3, Invariance, PTL DEF Spec

LEMMA OwnerStep ==
    ASSUME PoolInv, [Next]_vars, NEW w \in Workers,
           worker[w].owner # Reclaim, worker'[w].owner = Reclaim
    PROVE  worker[w].holds = 0
<1>t. HandleTypes /\ PoolTypes /\ ThreadTypes
  BY DEF PoolInv, TypeOK
<1>1. Reclaim # None /\ Reclaim # Handle!Terminating /\ Reclaim \notin Clients
  BY PoolAssumption DEF Reclaim, Handle!Terminating
<1>2. \A v \in Workers : worker[v] \in HandleType
  BY <1>t DEF HandleTypes, HandleType
<1>3. ASSUME NEW v \in Workers, NEW h \in HandleType, SetWorker(v, h),
             h.owner = Reclaim => h.owner = worker[v].owner
      PROVE  FALSE
  BY <1>t, <1>3, SetHandle
<1>4. ~UNCHANGED worker
  OBVIOUS
<1>5. ASSUME NEW c \in Clients, GetWorker(c) PROVE FALSE
  <2>1. UNCHANGED worker \/ \E v \in Workers : HeldForAll(v)
    BY <1>5 DEF GetWorker
  <2>2. PICK v \in Workers : HeldForAll(v)
    BY <1>4, <2>1
  <2>3. Cardinality(reservations) \in Nat
    BY <1>t, PoolAssumption, FS_Subset, FS_CardinalityType DEF PoolTypes
  <2> DEFINE n == Cardinality(reservations)
             h == Handle!Of(None, None, FALSE, n)
  <2>4. h \in HandleType /\ h.owner = None
    BY <2>3 DEF Handle!Of, HandleType
  <2>5. SetWorker(v, h)
    BY <2>2 DEF HeldForAll
  <2> HIDE DEF h
  <2> QED  BY <1>1, <1>3, <2>4, <2>5
<1>6. ASSUME NEW r \in Reservers, ReserverRuns(r) PROVE FALSE
  <2>1. \E v \in todo[r] \cup callbacks[r] : SetWorker(v, Handle!Reserve(worker[v]))
                                           \/ SetWorker(v, Handle!Unreserve(worker[v]))
    BY <1>4, <1>6 DEF ReserverRuns, StartHold, HoldOne, EndHold, StartRelease, ReleaseOne, EndRelease
  <2>2. PICK v \in Workers : SetWorker(v, Handle!Reserve(worker[v]))
                             \/ SetWorker(v, Handle!Unreserve(worker[v]))
    BY <1>t, <2>1 DEF PoolTypes, ThreadTypes, Threads
  <2> QED  BY <1>2, <1>3, <2>2, HandleOps
<1>7. ASSUME NEW c \in Clients, ClientRuns(c) PROVE FALSE
  <2>1. pc[c] \notin {"new", "done"}
    BY <1>7 DEF ClientRuns, Call, Start, Boot, Stop, Leave, Return, Finish
  <2>2. PICK v \in Workers : v = got[c]
    BY <2>1 DEF PoolInv, Known
  <2> DEFINE h == worker[v]
             u == Handle!Unreserve(h)
             t == Handle!Take(h, c)
  <2>3. h \in HandleType
    BY <1>2
  <2>4. \/ UNCHANGED worker
        \/ SetWorker(v, Handle!Reserve(h)) \/ SetWorker(v, t) \/ SetWorker(v, Handle!Attach(t, c))
        \/ \E d \in BOOLEAN : SetWorker(v, Handle!Observe(t, d)) \/ SetWorker(v, Handle!Free(Handle!Observe(h, d)))
        \/ SetWorker(v, Handle!Detach(h)) \/ SetWorker(v, u) \/ SetWorker(v, Handle!Free(u))
        \/ SetWorker(v, Handle!Free(Handle!Detach(h)))
    BY <1>7, <2>2 DEF ClientRuns, Call, Start, Boot, Stop, Leave, Return, Finish
  <2> HIDE DEF h
  <2>5. u \in HandleType /\ u.owner = h.owner /\ t \in HandleType /\ t.owner = c
    BY <2>3, HandleOps
  <2> HIDE DEF u, t
  <2>6. ASSUME NEW g \in HandleType, g.owner \in {h.owner, c, None} PROVE ~SetWorker(v, g)
    BY <1>1, <1>3, <2>6 DEF h
  <2>7. /\ ~SetWorker(v, Handle!Reserve(h)) /\ ~SetWorker(v, Handle!Detach(h))
        /\ ~SetWorker(v, u) /\ ~SetWorker(v, t)
    BY <2>3, <2>5, <2>6, HandleOps
  <2>8. ~SetWorker(v, Handle!Free(u)) /\ ~SetWorker(v, Handle!Attach(t, c))
        /\ \A d \in BOOLEAN : ~SetWorker(v, Handle!Observe(t, d))
    <3>1. Handle!Free(u) \in HandleType /\ Handle!Free(u).owner = None
      BY <2>5, HandleOps
    <3>2. Handle!Attach(t, c) \in HandleType /\ Handle!Attach(t, c).owner = c
      BY <2>5, HandleOps, ZenonT(60)
    <3>3. \A d \in BOOLEAN : Handle!Observe(t, d) \in HandleType /\ Handle!Observe(t, d).owner = c
      BY <2>5, HandleOps
    <3> QED  BY <2>6, <3>1, <3>2, <3>3
  <2>9. Handle!Detach(h) \in HandleType /\ \A d \in BOOLEAN : Handle!Observe(h, d) \in HandleType
    BY <2>3, HandleOps
  <2>10. ~SetWorker(v, Handle!Free(Handle!Detach(h)))
         /\ \A d \in BOOLEAN : ~SetWorker(v, Handle!Free(Handle!Observe(h, d)))
    BY <2>6, <2>9, HandleOps
  <2> QED  BY <1>4, <2>4, <2>7, <2>8, <2>10
<1>8. ASSUME NEW s \in Stoppers, StopperRuns(s) PROVE FALSE
  <2>1. \E v : \/ v \in Workers /\ SetWorker(v, Handle!Take(Handle!Detach(worker[v]), Handle!Terminating))
              \/ SetWorker(v, Handle!Free(worker[v]))
    BY <1>4, <1>8, <1>t, PoolAssumption DEF StopperRuns, BeginShutdown, SeizeWorker, StopWorker, EndShutdown,
       ThreadTypes, Threads
  <2>2. PICK v \in Workers : \/ SetWorker(v, Handle!Take(Handle!Detach(worker[v]), Handle!Terminating))
                             \/ SetWorker(v, Handle!Free(worker[v]))
    BY <1>4, <1>t, <2>1 DEF SetWorker, HandleTypes
  <2>3. Handle!Detach(worker[v]) \in HandleType
    BY <1>2, HandleOps
  <2> QED  BY <1>1, <1>2, <1>3, <2>2, <2>3, HandleOps
<1>9. ASSUME NEW v \in Workers, IdleRuns(v) PROVE worker[w].holds = 0
  <2> DEFINE h == worker[v]
  <2>1. h \in HandleType
    BY <1>2
  <2>2. \/ Handle!Reclaimable(h) /\ SetWorker(v, Handle!Take(h, Reclaim))
        \/ SetWorker(v, Handle!Free(Handle!Detach(h)))
        \/ \E d \in BOOLEAN : SetWorker(v, Handle!Free(Handle!Observe(h, d)))
    BY <1>9 DEF IdleRuns, StartReclaim, EndReclaim
  <2>3. CASE Handle!Reclaimable(h) /\ SetWorker(v, Handle!Take(h, Reclaim))
    <3>1. Handle!Take(h, Reclaim) \in HandleType
      BY <2>1, HandleOps
    <3>2. v = w
      BY <1>t, <2>3, <3>1, SetHandle
    <3> QED  BY <2>3, <3>2 DEF Handle!Reclaimable
  <2>4. CASE ~(Handle!Reclaimable(h) /\ SetWorker(v, Handle!Take(h, Reclaim)))
    <3>1. Handle!Detach(h) \in HandleType /\ \A d \in BOOLEAN : Handle!Observe(h, d) \in HandleType
      BY <2>1, HandleOps
    <3> HIDE DEF h
    <3>2. ASSUME NEW g \in HandleType PROVE ~SetWorker(v, Handle!Free(g))
      BY <1>1, <1>3, <3>2, HandleOps
    <3> QED  BY <2>2, <2>4, <3>1, <3>2
  <2> QED  BY <2>3, <2>4
<1> QED
  BY <1>4, <1>5, <1>6, <1>7, <1>8, <1>9 DEF Next, FactoryFails, ChildDies, Rest, vars

\* While a reservation is held no idle reclamation starts on a worker of the
\* pool: only StartReclaim lets the reclaimer own a worker, it needs one without
\* holds, and a held reservation has a callback of every worker of the pool.
THEOREM Reserving == Spec => NoReclaimReserved
<1>1. ASSUME PoolInv, [Next]_vars, NEW w \in pool,
             worker[w].owner # Reclaim, worker'[w].owner = Reclaim
      PROVE  \A r \in Reservers : pc[r] # "held"
  <2>1. w \in Workers
    BY <1>1 DEF PoolInv, TypeOK, PoolTypes
  <2>2. worker[w].holds = 0
    BY <1>1, <2>1, OwnerStep
  <2>3. Cardinality(Holding(w)) = 0
    BY <1>1, <2>1, <2>2, Counts, Balance DEF PoolInv
  <2>4. Holding(w) = {}
    BY <2>3, Counts, FS_EmptySet
  <2>5. ASSUME NEW r \in Reservers, pc[r] = "held" PROVE r \in Holding(w)
    BY <1>1, <2>5 DEF PoolInv, Walks, Holding
  <2> QED  BY <2>4, <2>5
<1>2. PoolInv /\ [Next]_vars =>
        [\A w \in pool : worker[w].owner # Reclaim /\ worker'[w].owner = Reclaim
             => \A r \in Reservers : pc[r] # "held"]_vars
  BY <1>1
<1> QED  BY <1>2, Invariance, PTL DEF Spec, NoReclaimReserved


-----------------------------------------------------------------------------
(* shutdown(). A child that ran on a worker of the pool when it was called  *)
(* is on its way out until it has stopped.                                  *)

\* A client that has not called Popen has no child.
Unborn ==
    \A c \in Clients : pc[c] \in {"new", "got", "waiting"} =>
        c \notin running /\ \A s \in Stoppers : c \notin condemned[s]

\* A shutdown goes through workers that exist; the one whose child it stops is
\* its own as long as it does.
Seized ==
    \A s \in Stoppers :
        /\ \A w \in todo[s] : made[w] # None
        /\ pc[s] = "done" => todo[s] = {}
        /\ pc[s] = "killing" => /\ got[s] \in Workers /\ made[got[s]] # None
                               /\ worker[got[s]].owner = Handle!Terminating
        /\ \A t \in Stoppers :
             pc[s] = "killing" /\ pc[t] = "killing" /\ got[s] = got[t] => s = t

\* The child p that shutdown s has condemned: a stop gave up on it, its own
\* call stops it, it is on a worker s has yet to come to, or s stops it, or
\* another shutdown does that s will have to wait for.
Ending(s, p) ==
    \/ p \in stuck
    \/ pc[p] = "stopping"
    \/ \E w \in todo[s] : worker[w].child = p
    \/ \E t \in Stoppers : /\ pc[t] = "killing" /\ victim[t] = p
                          /\ (t = s \/ got[t] \in todo[s])

Doomed == \A s \in Stoppers : \A p \in condemned[s] \cap running : Ending(s, p)

EndInv == Unborn /\ Seized /\ Doomed

\* What the sections of WorkerHandle do to the owner and the child.
LEMMA Sections ==
    ASSUME NEW h
    PROVE  /\ Handle!Reserve(h).owner = h.owner /\ Handle!Reserve(h).child = h.child
           /\ Handle!Unreserve(h).owner = h.owner /\ Handle!Unreserve(h).child = h.child
           /\ \A k : Handle!Take(h, k).owner = k /\ Handle!Take(h, k).child = h.child
           /\ Handle!Free(h).owner = None /\ Handle!Free(h).child = h.child
           /\ \A p : Handle!Attach(h, p).owner = h.owner /\ Handle!Attach(h, p).child = p
           /\ Handle!Detach(h).owner = h.owner /\ Handle!Detach(h).child = None
           /\ \A d : Handle!Observe(h, d).owner = h.owner /\ Handle!Observe(h, d).child = h.child
BY DEF Handle!Of, Handle!Reserve, Handle!Unreserve, Handle!Take, Handle!Free,
       Handle!Attach, Handle!Detach, Handle!Observe

\* A step of anybody but a shutdown. It leaves a worker that is being stopped
\* alone, and takes a child that still runs off its worker only to stop it.
LEMMA Elsewhere ==
    ASSUME EndInv, PoolTypes, ThreadTypes, stuck \in SUBSET Clients,
           \A s \in Stoppers : /\ pc'[s] = pc[s] /\ todo'[s] = todo[s] /\ got'[s] = got[s]
                               /\ victim'[s] = victim[s] /\ condemned'[s] = condemned[s],
           stuck' \in SUBSET Clients, stuck \subseteq stuck',
           \A w \in Workers : made[w] # None =>
               /\ made'[w] # None
               /\ worker[w].owner = Handle!Terminating => worker'[w].owner = Handle!Terminating
               /\ worker[w].child \in running' => \/ worker'[w].child = worker[w].child
                                                  \/ pc'[worker[w].child] = "stopping",
           \A c \in Clients :
               /\ pc'[c] \in {"new", "got", "waiting"} =>
                    pc[c] \in {"new", "got", "waiting"} /\ (c \in running' => c \in running)
               /\ c \in running' \ running => pc[c] = "waiting"
               /\ pc[c] = "stopping" /\ c \in running' => pc'[c] = "stopping" \/ c \in stuck',
           running' \in SUBSET Clients
    PROVE  EndInv'
<1> USE DEF EndInv
<1>1. Unborn'
  BY DEF Unborn
<1>2. Seized'
  BY DEF Seized, ThreadTypes, Threads
<1>3. ASSUME NEW s \in Stoppers, NEW p \in Clients, p \in condemned[s], p \in running'
      PROVE  Ending(s, p)'
  <2>1. p \in running
    BY <1>3 DEF Unborn
  <2>2. Ending(s, p)
    BY <1>3, <2>1 DEF Doomed
  <2>3. CASE p \in stuck
    BY <2>3 DEF Ending
  <2>4. CASE pc[p] = "stopping"
    BY <1>3, <2>4 DEF Ending
  <2>5. CASE \E w \in todo[s] : worker[w].child = p
    <3>1. PICK w \in Workers : w \in todo[s] /\ worker[w].child = p
      BY <2>5 DEF ThreadTypes, Threads
    <3>2. made[w] # None
      BY <3>1 DEF Seized
    <3>3. worker'[w].child = p \/ pc'[p] = "stopping"
      BY <1>3, <3>1, <3>2
    <3> QED  BY <3>1, <3>3 DEF Ending
  <2>6. CASE \E t \in Stoppers : /\ pc[t] = "killing" /\ victim[t] = p
                                 /\ (t = s \/ got[t] \in todo[s])
    BY <2>6 DEF Ending
  <2> QED  BY <2>2, <2>3, <2>4, <2>5, <2>6 DEF Ending
<1>4. Doomed'
  BY <1>3 DEF Doomed, ThreadTypes
<1> QED  BY <1>1, <1>2, <1>4

LEMMA EndInit ==
    ASSUME Init
    PROVE  EndInv
BY DEF Init, EndInv, Unborn, Seized, Doomed, Threads

LEMMA EndGet ==
    ASSUME PoolInv, EndInv, NEW c \in Clients, GetWorker(c) \/ FactoryFails(c)
    PROVE  EndInv'
<1>t. PoolTypes /\ HandleTypes /\ ThreadTypes /\ running \in SUBSET Clients /\ stuck \in SUBSET Clients
  BY DEF PoolInv, TypeOK
<1>1. c \in Threads /\ c \notin Stoppers /\ Stoppers \subseteq Threads /\ Clients \subseteq Threads
  BY PoolAssumption DEF Threads
<1>2. pc[c] = "new" /\ UNCHANGED <<worldVars, todo, victim, condemned>>
      /\ (pc' = [pc EXCEPT ![c] = "got"] \/ pc' = [pc EXCEPT ![c] = "done"])
      /\ (UNCHANGED got \/ \E w : got' = [got EXCEPT ![c] = w])
  BY DEF GetWorker, FactoryFails, Goes
<1>3. UNCHANGED <<made, worker>>
      \/ \E w \in Workers : \E m : made[w] = None /\ made' = [made EXCEPT ![w] = m] /\ HeldForAll(w)
  BY DEF GetWorker, FactoryFails, poolVars
<1>4. ASSUME NEW w \in Workers, made[w] # None
      PROVE  made'[w] # None /\ worker'[w] = worker[w]
  BY <1>3, <1>4, <1>t DEF HeldForAll, SetWorker, HandleTypes, PoolTypes
<1>5. \A x \in Threads \ {c} : pc'[x] = pc[x] /\ got'[x] = got[x]
  BY <1>2, <1>t DEF ThreadTypes
<1>6. pc'[c] \in {"got", "done"}
  BY <1>1, <1>2, <1>t DEF ThreadTypes
<1> QED  BY <1>1, <1>2, <1>4, <1>5, <1>6, <1>t, Elsewhere DEF worldVars

LEMMA EndReserver ==
    ASSUME PoolInv, EndInv, NEW r \in Reservers, ReserverRuns(r)
    PROVE  EndInv'
<1>t. PoolTypes /\ HandleTypes /\ ThreadTypes /\ running \in SUBSET Clients /\ stuck \in SUBSET Clients
  BY DEF PoolInv, TypeOK
<1>1. r \in Threads /\ r \notin Stoppers /\ r \notin Clients
      /\ Stoppers \subseteq Threads /\ Clients \subseteq Threads
  BY PoolAssumption DEF Threads
<1>2. UNCHANGED <<made, worldVars, got, victim, condemned>>
      /\ (UNCHANGED pc \/ \E q : pc' = [pc EXCEPT ![r] = q])
      /\ (UNCHANGED todo \/ \E q : todo' = [todo EXCEPT ![r] = q])
  BY DEF ReserverRuns, StartHold, HoldOne, EndHold, StartRelease, ReleaseOne, EndRelease, Goes
<1>3. UNCHANGED worker \/ \E w : \/ SetWorker(w, Handle!Reserve(worker[w]))
                                \/ SetWorker(w, Handle!Unreserve(worker[w]))
  BY DEF ReserverRuns, StartHold, HoldOne, EndHold, StartRelease, ReleaseOne, EndRelease
<1>4. ASSUME NEW w \in Workers
      PROVE  worker'[w].owner = worker[w].owner /\ worker'[w].child = worker[w].child
  BY <1>3, <1>t, Sections DEF SetWorker, HandleTypes
<1>5. \A x \in Threads \ {r} : pc'[x] = pc[x] /\ todo'[x] = todo[x]
  BY <1>2, <1>t DEF ThreadTypes
<1> QED  BY <1>1, <1>2, <1>4, <1>5, <1>t, Elsewhere DEF worldVars

LEMMA EndIdle ==
    ASSUME PoolInv, EndInv, NEW w \in Workers, IdleRuns(w)
    PROVE  EndInv'
<1>t. PoolTypes /\ HandleTypes /\ ThreadTypes /\ running \in SUBSET Clients /\ stuck \in SUBSET Clients
  BY DEF PoolInv, TypeOK
<1>1. UNCHANGED <<poolVars, threadVars, stuck>>
  BY DEF IdleRuns
<1>2. running' \subseteq running
  BY DEF IdleRuns, StartReclaim, EndReclaim
<1>3. Handle!Terminating # None /\ Handle!Terminating # Reclaim
  BY PoolAssumption DEF Reclaim, Handle!Terminating
<1> DEFINE h == worker[w]
<1>4. /\ h.owner # Handle!Terminating
      /\ \/ SetWorker(w, Handle!Take(h, Reclaim))
         \/ \E d \in BOOLEAN : SetWorker(w, Handle!Free(Handle!Observe(h, d)))
         \/ SetWorker(w, Handle!Free(Handle!Detach(h))) /\ running' = running \ {h.child}
  BY <1>3 DEF IdleRuns, StartReclaim, EndReclaim, Handle!Reclaimable
<1> HIDE DEF h
<1>5. h.child \in running' => worker'[w].child = h.child
  <2>1. \A g : SetWorker(w, g) => worker'[w] = g
    BY <1>t DEF SetWorker, HandleTypes
  <2>2. Handle!Take(h, Reclaim).child = h.child
        /\ \A d : Handle!Free(Handle!Observe(h, d)).child = h.child
    BY Sections
  <2> QED  BY <1>4, <2>1, <2>2
<1>6. \A v \in Workers \ {w} : worker'[v] = worker[v]
  BY <1>4, <1>t DEF SetWorker, HandleTypes
<1>7. ASSUME NEW v \in Workers
      PROVE  /\ worker[v].owner = Handle!Terminating => worker'[v].owner = Handle!Terminating
             /\ worker[v].child \in running' => worker'[v].child = worker[v].child
  BY <1>4, <1>5, <1>6 DEF h
<1> QED  BY <1>1, <1>2, <1>7, <1>t, Elsewhere DEF poolVars, threadVars

LEMMA EndDies ==
    ASSUME PoolInv, EndInv, NEW p \in Clients, ChildDies(p)
    PROVE  EndInv'
<1>1. PoolTypes /\ HandleTypes /\ ThreadTypes /\ running \in SUBSET Clients /\ stuck \in SUBSET Clients
  BY DEF PoolInv, TypeOK
<1>2. UNCHANGED <<poolVars, threadVars, worker, stuck>> /\ running' \subseteq running
  BY DEF ChildDies
<1> QED  BY <1>1, <1>2, Elsewhere DEF poolVars, threadVars

LEMMA EndClient ==
    ASSUME PoolInv, EndInv, NEW c \in Clients, ClientRuns(c)
    PROVE  EndInv'
<1>t. PoolTypes /\ HandleTypes /\ ThreadTypes /\ running \in SUBSET Clients /\ stuck \in SUBSET Clients
  BY DEF PoolInv, TypeOK
<1>1. c \in Threads /\ c \notin Stoppers /\ Stoppers \subseteq Threads /\ Clients \subseteq Threads
  BY PoolAssumption DEF Threads
<1>2. UNCHANGED <<poolVars, todo, condemned>>
  BY DEF ClientRuns
<1>3. pc[c] \notin {"new", "done"}
  BY DEF ClientRuns, Call, Start, Boot, Stop, Leave, Return, Finish
<1>4. PICK w \in Workers : w = got[c]
  BY <1>3 DEF PoolInv, Known
<1>5. c # Handle!Terminating /\ Handle!Terminating # None
  BY PoolAssumption
<1> DEFINE h == worker[w]
           g == worker'[w]
<1>6. \A v \in Workers \ {w} : worker'[v] = worker[v]
  <2>1. UNCHANGED worker \/ \E x : SetWorker(w, x)
    BY <1>4 DEF ClientRuns, Call, Start, Boot, Stop, Leave, Return, Finish
  <2> QED  BY <2>1, <1>t DEF SetWorker, HandleTypes
<1>7. \A x : SetWorker(w, x) => g = x
  BY <1>t DEF SetWorker, HandleTypes
<1>8. /\ \/ pc[c] = "got" /\ pc' = [pc EXCEPT ![c] = "waiting"]
         \/ \E q \in {"starting", "leaving", "submitted", "stopping", "done", "streaming"} :
                pc' = [pc EXCEPT ![c] = q]
      /\ UNCHANGED got \/ got' = [got EXCEPT ![c] = None]
      /\ UNCHANGED victim \/ \E q : victim' = [victim EXCEPT ![c] = q]
  <2>1. CASE Call(c)
    BY <2>1 DEF Call, Goes
  <2>2. CASE Start(c) \/ Return(c)
    BY <2>2 DEF Start, Return, Goes
  <2>3. CASE Boot(c) \/ Stop(c)
    BY <2>3 DEF Boot, Stop, Goes
  <2>4. CASE Leave(c) \/ Finish(c)
    BY <2>4 DEF Leave, Finish, Goes, Forget
  <2> QED  BY <2>1, <2>2, <2>3, <2>4 DEF ClientRuns
<1>9. \A x \in Threads \ {c} : pc'[x] = pc[x] /\ got'[x] = got[x] /\ victim'[x] = victim[x]
  BY <1>8, <1>t DEF ThreadTypes
<1>10. pc'[c] \notin {"new", "got"} /\ (pc'[c] = "waiting" => pc[c] = "got")
  BY <1>8, <1>1, <1>t DEF ThreadTypes
<1>11. stuck' \in SUBSET Clients /\ stuck \subseteq stuck' /\ running' \subseteq running \cup {c}
       /\ (c \in running' \ running => pc[c] = "waiting" /\ pc'[c] = "starting")
  BY <1>1, <1>t DEF ClientRuns, Call, Start, Boot, Stop, Leave, Return, Finish, Goes, Forget,
     StopProcess, StopTimesOut, ThreadTypes
<1>12. pc[c] = "stopping" /\ c \in running' => c \in stuck'
  BY <1>t DEF ClientRuns, Call, Start, Boot, Stop, Leave, Return, Finish, StopProcess, StopTimesOut
<1>13. /\ h.owner = Handle!Terminating => g.owner = Handle!Terminating
       /\ h.child \in running' => g.child = h.child \/ pc'[h.child] = "stopping"
  <2> HIDE DEF h, g
  <2>1. CASE UNCHANGED worker
    BY <2>1 DEF h, g
  <2>2. CASE Call(c) \/ Return(c)
    <3>1. SetWorker(w, Handle!Reserve(h)) \/ SetWorker(w, Handle!Unreserve(h))
      BY <1>4, <2>2 DEF Call, Return, h
    <3> QED  BY <1>7, <3>1, Sections
  <2>3. CASE Leave(c)
    <3> DEFINE u == Handle!Unreserve(h)
    <3>1. u.owner = h.owner /\ u.child = h.child
      BY Sections
    <3>2. SetWorker(w, IF h.owner = c THEN Handle!Free(u) ELSE u)
      BY <1>4, <2>3 DEF Leave, Mine, h
    <3> HIDE DEF u
    <3> QED  BY <1>5, <1>7, <3>1, <3>2, Sections
  <2>4. CASE Start(c)
    <3> DEFINE t == Handle!Take(h, c)
    <3>1. t.child = h.child
      BY Sections
    <3>2. h.owner = None /\ pc[c] = "waiting" /\ pc' \in {[pc EXCEPT ![c] = "starting"], [pc EXCEPT ![c] = "leaving"]}
      BY <1>4, <2>4 DEF Start, Goes, h
    <3>3. \/ t.child \in running /\ SetWorker(w, t)
          \/ t.child \notin running /\ running' = running \cup {c} /\ SetWorker(w, Handle!Attach(t, c))
          \/ \E d : SetWorker(w, Handle!Observe(t, d))
      BY <1>4, <2>4 DEF Start, h
    <3> HIDE DEF t
    <3>4. CASE SetWorker(w, t) \/ \E d : SetWorker(w, Handle!Observe(t, d))
      <4>1. \A d : Handle!Observe(t, d).child = t.child
        BY Sections
      <4>2. g.child = t.child
        BY <1>7, <3>4, <4>1
      <4> QED  BY <1>5, <3>1, <3>2, <4>2
    <3>5. CASE t.child \notin running /\ running' = running \cup {c} /\ SetWorker(w, Handle!Attach(t, c))
      BY <1>5, <1>7, <3>1, <3>2, <3>5, Sections
    <3> QED  BY <3>3, <3>4, <3>5
  <2>5. CASE Boot(c) /\ ~UNCHANGED worker
    <3>1. h.child = c /\ SetWorker(w, Handle!Detach(h)) /\ pc' = [pc EXCEPT ![c] = "stopping"]
      BY <1>4, <2>5 DEF Boot, Goes, h
    <3> QED  BY <1>1, <1>7, <1>t, <3>1, Sections DEF ThreadTypes
  <2>6. CASE Finish(c) /\ ~UNCHANGED worker
    <3>1. h.owner = c
          /\ \/ \E d : SetWorker(w, Handle!Free(Handle!Observe(h, d)))
             \/ running' = running \ {h.child}
      BY <1>4, <2>6 DEF Finish, Mine, h
    <3>2. ASSUME NEW d PROVE Handle!Free(Handle!Observe(h, d)).child = h.child
      BY DEF Handle!Free, Handle!Take, Handle!Observe, Handle!Of
    <3> QED  BY <1>5, <1>7, <3>1, <3>2
  <2> QED  BY <2>1, <2>2, <2>3, <2>4, <2>5, <2>6 DEF ClientRuns, Stop
<1>14. ASSUME NEW v \in Workers
       PROVE  /\ worker[v].owner = Handle!Terminating => worker'[v].owner = Handle!Terminating
              /\ worker[v].child \in running' =>
                   worker'[v].child = worker[v].child \/ pc'[worker[v].child] = "stopping"
  BY <1>6, <1>13
<1>15. running' \in SUBSET Clients
  BY <1>11, <1>t
<1> HIDE DEF h, g
<1>16. ASSUME NEW d \in Clients
       PROVE  /\ pc'[d] \in {"new", "got", "waiting"} =>
                   pc[d] \in {"new", "got", "waiting"} /\ (d \in running' => d \in running)
              /\ d \in running' \ running => pc[d] = "waiting"
              /\ pc[d] = "stopping" /\ d \in running' => pc'[d] = "stopping" \/ d \in stuck'
  <2>1. CASE d = c
    BY <1>10, <1>11, <1>12, <2>1
  <2>2. CASE d # c
    BY <1>1, <1>9, <1>11, <2>2
  <2> QED  BY <2>1, <2>2
<1>17. \A s \in Stoppers : /\ pc'[s] = pc[s] /\ todo'[s] = todo[s] /\ got'[s] = got[s]
                            /\ victim'[s] = victim[s] /\ condemned'[s] = condemned[s]
  BY <1>1, <1>2, <1>9
<1>18. ASSUME NEW v \in Workers, made[v] # None
       PROVE  /\ made'[v] # None
              /\ worker[v].owner = Handle!Terminating => worker'[v].owner = Handle!Terminating
              /\ worker[v].child \in running' => \/ worker'[v].child = worker[v].child
                                                 \/ pc'[worker[v].child] = "stopping"
  BY <1>2, <1>14, <1>18 DEF poolVars
<1>19. stuck' \in SUBSET Clients /\ stuck \subseteq stuck'
  BY <1>11
<1> QED  BY <1>15, <1>16, <1>17, <1>18, <1>19, <1>t, Elsewhere

LEMMA EndStopper ==
    ASSUME PoolInv, EndInv, NEW s \in Stoppers, StopperRuns(s)
    PROVE  EndInv'
<1>t. PoolTypes /\ HandleTypes /\ ThreadTypes /\ running \in SUBSET Clients /\ stuck \in SUBSET Clients
  BY DEF PoolInv, TypeOK
<1>1. s \in Threads /\ s \notin Clients /\ Stoppers \subseteq Threads /\ Clients \subseteq Threads
      /\ Stoppers \cap Clients = {}
  BY PoolAssumption DEF Threads
<1>2. made' = made
  BY DEF StopperRuns
<1>3. \E q : pc' = [pc EXCEPT ![s] = q]
  BY DEF StopperRuns, BeginShutdown, SeizeWorker, StopWorker, EndShutdown, Goes
<1>4. \A x \in Threads \ {s} : pc'[x] = pc[x]
  BY <1>3, <1>t DEF ThreadTypes
<1>5. \A c \in Clients : pc'[c] = pc[c]
  BY <1>1, <1>4
<1> USE DEF EndInv
<1>6. CASE BeginShutdown(s)
  <2>1. /\ pc[s] = "new" /\ pc'[s] = "terminating" /\ todo' = [todo EXCEPT ![s] = pool]
        /\ condemned' = [condemned EXCEPT ![s] = {worker[w].child : w \in pool} \cap running]
        /\ UNCHANGED <<worker, running, stuck, got, victim>>
    BY <1>1, <1>6, <1>t DEF BeginShutdown, TakeAll, Goes, ThreadTypes
  <2>2. /\ todo'[s] = pool /\ condemned'[s] = {worker[w].child : w \in pool} \cap running
        /\ \A t \in Stoppers \ {s} : todo'[t] = todo[t] /\ condemned'[t] = condemned[t]
    BY <1>1, <1>t, <2>1 DEF ThreadTypes
  <2>3. Unborn'
    BY <1>5, <2>1, <2>2 DEF Unborn
  <2>4. Seized'
    <3>1. \A w \in pool : made[w] # None
      BY <1>t DEF PoolTypes
    <3> QED  BY <1>1, <1>2, <1>4, <2>1, <2>2, <3>1 DEF Seized
  <2>5. ASSUME NEW t \in Stoppers, NEW p \in condemned'[t] \cap running' PROVE Ending(t, p)'
    <3>1. CASE t = s
      <4>1. \E w \in pool : worker[w].child = p
        BY <2>2, <2>5, <3>1
      <4> QED  BY <2>1, <2>2, <3>1, <4>1 DEF Ending
    <3>2. CASE t # s
      <4>1. Ending(t, p) /\ p \in Clients
        BY <1>t, <2>1, <2>2, <2>5, <3>2 DEF Doomed
      <4> QED  BY <1>1, <1>4, <1>5, <2>1, <2>2, <3>2, <4>1 DEF Ending
    <3> QED  BY <3>1, <3>2
  <2> QED  BY <2>3, <2>4, <2>5 DEF Doomed
<1>7. CASE SeizeWorker(s)
  <2>1. PICK w \in todo[s] :
        /\ worker[w].owner # Handle!Terminating
        /\ victim' = [victim EXCEPT ![s] = worker[w].child]
        /\ SetWorker(w, Handle!Take(Handle!Detach(worker[w]), Handle!Terminating))
        /\ todo' = [todo EXCEPT ![s] = @ \ {w}]
        /\ got' = [got EXCEPT ![s] = w]
    BY <1>7 DEF SeizeWorker
  <2>2. w \in Workers /\ made[w] # None
    BY <1>1, <1>t DEF ThreadTypes, Seized
  <2>3. pc[s] = "terminating" /\ pc'[s] = "killing" /\ UNCHANGED <<running, stuck, condemned>>
    BY <1>1, <1>7, <1>t DEF SeizeWorker, Goes, ThreadTypes
  <2>4. /\ victim'[s] = worker[w].child /\ got'[s] = w /\ todo'[s] = todo[s] \ {w}
        /\ \A t \in Stoppers \ {s} : /\ victim'[t] = victim[t] /\ got'[t] = got[t]
                                     /\ todo'[t] = todo[t] /\ pc'[t] = pc[t]
    BY <1>1, <1>4, <1>t, <2>1 DEF ThreadTypes
  <2>5. worker'[w].owner = Handle!Terminating /\ \A v \in Workers \ {w} : worker'[v] = worker[v]
    <3>1. Handle!Take(Handle!Detach(worker[w]), Handle!Terminating).owner = Handle!Terminating
      BY DEF Handle!Take, Handle!Of
    <3> QED  BY <1>t, <2>1, <2>2, <3>1 DEF SetWorker, HandleTypes
  <2>6. \A t \in Stoppers : pc[t] = "killing" => got[t] # w /\ t # s
    BY <2>1, <2>3 DEF Seized
  <2>7. Unborn'
    BY <1>5, <2>3 DEF Unborn
  <2>8. Seized'
    BY <1>2, <2>2, <2>3, <2>4, <2>5, <2>6 DEF Seized
  <2>9. ASSUME NEW t \in Stoppers, NEW p \in condemned'[t] \cap running' PROVE Ending(t, p)'
    <3>1. Ending(t, p) /\ p \in Clients
      BY <1>t, <2>3, <2>9 DEF Doomed
    <3>2. CASE p \in stuck \/ pc[p] = "stopping"
      BY <1>5, <2>3, <3>1, <3>2 DEF Ending
    <3>3. CASE \E v \in todo[t] : worker[v].child = p
      <4>1. PICK v \in todo[t] : worker[v].child = p
        BY <3>3
      <4>2. v \in Workers
        BY <1>1, <1>t DEF ThreadTypes
      <4>3. CASE v = w
        BY <2>3, <2>4, <4>1, <4>3 DEF Ending
      <4>4. CASE v # w
        BY <2>4, <2>5, <4>1, <4>2, <4>4 DEF Ending
      <4> QED  BY <4>3, <4>4
    <3>4. CASE \E u \in Stoppers : /\ pc[u] = "killing" /\ victim[u] = p
                                   /\ (u = t \/ got[u] \in todo[t])
      <4>1. PICK u \in Stoppers : /\ pc[u] = "killing" /\ victim[u] = p
                                 /\ (u = t \/ got[u] \in todo[t])
        BY <3>4
      <4> QED  BY <2>4, <2>6, <4>1 DEF Ending
    <3> QED  BY <3>1, <3>2, <3>3, <3>4 DEF Ending
  <2> QED  BY <2>7, <2>8, <2>9 DEF Doomed
<1>8. CASE StopWorker(s)
  <2>1. PICK w \in Workers : w = got[s] /\ made[w] # None
    BY <1>8 DEF StopWorker, Seized
  <2>2. /\ pc[s] = "killing" /\ pc'[s] \in {"terminating", "raised"}
        /\ SetWorker(w, Handle!Free(worker[w])) /\ victim' = [victim EXCEPT ![s] = None]
        /\ UNCHANGED <<todo, got, condemned>>
    BY <1>1, <1>8, <1>t, <2>1 DEF StopWorker, Goes, ThreadTypes
  <2>3. \/ running' = running \ {victim[s]} /\ stuck' = stuck
        \/ running' = running /\ stuck' = stuck \cup {victim[s]}
    BY <1>8, <1>t DEF StopWorker, StopProcess, StopTimesOut
  <2>4. \A t \in Stoppers \ {s} : victim'[t] = victim[t] /\ pc'[t] = pc[t]
    BY <1>1, <1>4, <1>t, <2>2 DEF ThreadTypes
  <2>5. /\ worker'[w].child = worker[w].child
        /\ \A v \in Workers \ {w} : worker'[v] = worker[v]
    BY <1>t, <2>1, <2>2, Sections DEF SetWorker, HandleTypes
  <2>6. \A t \in Stoppers \ {s} : pc[t] = "killing" => got[t] # w
    BY <2>1, <2>2 DEF Seized
  <2>7. Unborn'
    BY <1>5, <2>2, <2>3 DEF Unborn
  <2>8. Seized'
    BY <1>2, <2>2, <2>4, <2>5, <2>6 DEF Seized
  <2>9. ASSUME NEW t \in Stoppers, NEW p \in condemned'[t] \cap running' PROVE Ending(t, p)'
    <3>1. Ending(t, p) /\ p \in Clients
      BY <1>t, <2>2, <2>3, <2>9 DEF Doomed
    <3>2. CASE p \in stuck'
      BY <3>2 DEF Ending
    <3>3. CASE p \notin stuck'
      <4>0. p # victim[s] /\ p \notin stuck
        BY <2>3, <2>9, <3>3
      <4>1. CASE pc[p] = "stopping"
        BY <1>5, <3>1, <4>1 DEF Ending
      <4>2. CASE \E v \in todo[t] : worker[v].child = p
        <5>1. \A v \in todo[t] : worker'[v].child = worker[v].child
          BY <1>1, <1>t, <2>5 DEF ThreadTypes
        <5> QED  BY <2>2, <4>2, <5>1 DEF Ending
      <4>3. CASE \E u \in Stoppers : /\ pc[u] = "killing" /\ victim[u] = p
                                     /\ (u = t \/ got[u] \in todo[t])
        <5>1. PICK u \in Stoppers : /\ pc[u] = "killing" /\ victim[u] = p
                                   /\ (u = t \/ got[u] \in todo[t])
          BY <4>3
        <5>2. u # s
          BY <4>0, <5>1
        <5> QED  BY <2>2, <2>4, <5>1, <5>2 DEF Ending
      <4> QED  BY <3>1, <4>0, <4>1, <4>2, <4>3 DEF Ending
    <3> QED  BY <3>2, <3>3
  <2> QED  BY <2>7, <2>8, <2>9 DEF Doomed
<1>9. CASE EndShutdown(s)
  <2>1. /\ pc[s] = "terminating" /\ pc'[s] = "done" /\ todo[s] = {}
        /\ UNCHANGED <<worker, running, stuck, todo, got, victim, condemned>>
    BY <1>1, <1>9, <1>t DEF EndShutdown, Goes, ThreadTypes
  <2>2. Unborn'
    BY <1>5, <2>1 DEF Unborn
  <2>3. Seized'
    BY <1>1, <1>2, <1>4, <2>1 DEF Seized
  <2>4. ASSUME NEW t \in Stoppers, NEW p \in condemned'[t] \cap running' PROVE Ending(t, p)'
    <3>1. Ending(t, p) /\ p \in Clients
      BY <1>t, <2>1, <2>4 DEF Doomed
    <3> QED  BY <1>1, <1>4, <1>5, <2>1, <3>1 DEF Ending
  <2> QED  BY <2>2, <2>3, <2>4 DEF Doomed
<1> QED  BY <1>6, <1>7, <1>8, <1>9 DEF StopperRuns

LEMMA EndNext ==
    ASSUME PoolInv, EndInv, [Next]_vars
    PROVE  EndInv'
<1>1. CASE UNCHANGED vars
  BY <1>1 DEF vars, poolVars, worldVars, threadVars, EndInv, Unborn, Seized, Doomed, Ending
<1> QED
  BY <1>1, EndGet, EndReserver, EndClient, EndIdle, EndDies, EndStopper DEF Next, Rest

\* When shutdown() returns, the children that ran on the workers it took have
\* stopped, but for one its own failed startup is about to stop or one whose
\* own stop timed out; also when several shutdowns, calls and idle timers meet.
THEOREM Stopping == Spec => []ShutdownStops
<1>1. PoolInv /\ EndInv => ShutdownStops
  <2> SUFFICES ASSUME PoolInv, EndInv, NEW s \in Stoppers, pc[s] = "done",
                      NEW p \in condemned[s] \cap running
               PROVE  pc[p] = "stopping" \/ p \in stuck
    BY DEF ShutdownStops
  <2>1. Ending(s, p) /\ todo[s] = {}
    BY DEF EndInv, Seized, Doomed
  <2> QED  BY <2>1 DEF Ending
<1> QED  BY <1>1, EndInit, EndNext, Invariance, PTL DEF Spec

=============================================================================
