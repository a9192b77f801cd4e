----------------------------- MODULE LoopProofs -----------------------------
(***************************************************************************)
(* Proofs about the command loop of the worker: what its counter says of   *)
(* the caches that stay in the process, and how the cache of field         *)
(* evaluations keeps its order.                                            *)
(***************************************************************************)
EXTENDS WorkerLoopProperties, FiniteSetTheorems, SequenceTheorems, WellFoundedInduction, TLAPS

-----------------------------------------------------------------------------
(* The inductive invariant. KeptIsCounted speaks of a loop at rest; while a *)
(* solve runs, caches are in the process before the counter has moved, and  *)
(* ReuseBounded looks back from the rest at the comparison made before it.  *)

LoopStates ==
    {"boot", "idle", "reclaim", "solve", "solving", "clean", "reclaiming",
     "bem_field", "evict", "evaluate", "evaluated", "failing", "gone"}

CommandTypes ==
    /\ input \in Seq(Commands) /\ command \in Commands
    /\ count \in Nat /\ kept \in BOOLEAN

\* The states in which the counter and the caches agree.
Agreeing == {"boot", "idle", "reclaim", "solve", "bem_field", "evict",
             "evaluate", "evaluated"}

Counted ==
    /\ pc \in LoopStates
    /\ pc \in Agreeing => (kept <=> count > 0)
    /\ pc \in {"solving", "clean"} => kept
    /\ pc = "clean" => count > 0
    /\ pc = "boot" => count = 0

FieldStates == {"bem_field", "evict", "evaluate", "evaluated"}

Compared ==
    /\ pc \in FieldStates => command.operation = "bem_field"
    /\ pc = "clean" /\ reason = "reuse" => ~(count >= command.limit)

LoopInv == CommandTypes /\ Counted /\ Compared /\ ReuseBounded

-----------------------------------------------------------------------------

\* A command is one of three operations.
LEMMA Three ==
    ASSUME NEW x \in Commands
    PROVE  x.operation \in {"solve", "bem_field", "reclaim"}
BY DEF Commands, Solve, Field, ReclaimCommand

\* The loop starts without caches and with a counter of zero.
LEMMA InitHolds == Init => LoopInv
<1> SUFFICES ASSUME Init PROVE LoopInv
  OBVIOUS
<1>1. CommandTypes
  <2>1. ReclaimCommand \in Commands
    BY DEF Commands
  <2>2. kept \in BOOLEAN /\ ~kept
    BY Zenon DEF Init
  <2>3. << >> \in Seq(Commands)
    OBVIOUS
  <2> QED
    BY <2>1, <2>2, <2>3 DEF Init, CommandTypes
<1>2. Counted /\ Compared /\ ReuseBounded
  BY DEF Init, Counted, LoopStates, Agreeing, Compared, FieldStates, ReuseBounded
<1> QED
  BY <1>1, <1>2 DEF LoopInv

\* Only "reuse" is returned for a count below the limit of the command.
LEMMA ReuseIsBelow ==
    ASSUME NEW cmd, NEW n \in Nat, NEW cancelled \in BOOLEAN, NEW memory \in Memory,
           CleanupReason(cmd, n, cancelled, memory) = "reuse"
    PROVE  ~(n >= cmd.limit)
BY DEF CleanupReason, Memory

\* A limit is a number.
LEMMA LimitIsNumber ==
    ASSUME LoopAssumption, NEW x \in Commands, x.operation = "solve"
    PROVE  x.limit \in Nat
BY DEF LoopAssumption, Commands, Solve, Field, ReclaimCommand

\* Freeing what the reclamation frees ends with nothing counted.
LEMMA ReclaimFrees == Reclaim => ~kept' /\ kept' \in BOOLEAN
BY Zenon DEF Reclaim

\* A solve that starts has freed everything, and will have caches of its own.
LEMMA StartKeeps ==
    ASSUME StartSolve, kept \in BOOLEAN
    PROVE  /\ kept' \in BOOLEAN
           /\ pc' \in {"solving", "failing"} /\ (pc' = "solving" => kept')
BY Zenon DEF StartSolve, Throw

\* Every step of the loop, of the client and of the end of the process.
LEMMA StepHolds ==
    ASSUME LoopAssumption, LoopInv, [Next]_vars
    PROVE  LoopInv'
<1> USE DEF LoopInv
<1> DEFINE Quiet == UNCHANGED <<command, input, reason, count, kept>>
<1>1. CASE Announce
  BY <1>1 DEF Announce, CommandTypes, Counted, Compared, ReuseBounded,
              LoopStates, Agreeing, FieldStates
<1>2. CASE Fetch
  <2>1. /\ input \in Seq(Commands) /\ input # << >>
        /\ command' = Head(input) /\ input' = Tail(input)
        /\ pc = "idle" /\ pc' \in {command'.operation, "failing"}
        /\ UNCHANGED <<count, reason, kept>>
    BY <1>2 DEF Fetch, CommandTypes
  <2>2. command' \in Commands /\ input' \in Seq(Commands)
    BY <2>1
  <2>3. command'.operation \in {"solve", "bem_field", "reclaim"}
    BY <2>2, Three
  <2>4. CommandTypes'
    BY <2>1, <2>2 DEF CommandTypes
  <2>5. Counted' /\ Compared' /\ ReuseBounded'
    BY <2>1, <2>3 DEF Counted, Compared, ReuseBounded, LoopStates, Agreeing, FieldStates
  <2> QED
    BY <2>4, <2>5
<1>3. CASE ReclaimOnCommand
  BY <1>3, ReclaimFrees DEF ReclaimOnCommand, CommandTypes, Counted, Compared,
     ReuseBounded, LoopStates, Agreeing, FieldStates
<1>4. CASE StartSolve
  <2>1. UNCHANGED <<input, command, count, reason>> /\ kept \in BOOLEAN
    BY <1>4 DEF StartSolve, CommandTypes
  <2>2. kept' \in BOOLEAN /\ pc' \in {"solving", "failing"} /\ (pc' = "solving" => kept')
    BY <1>4, <2>1, StartKeeps
  <2> QED
    BY <2>1, <2>2
    DEF CommandTypes, Counted, Compared, ReuseBounded, LoopStates, Agreeing, FieldStates
<1>5. CASE PrintResult
  BY <1>5 DEF PrintResult, CommandTypes, Counted, Compared, ReuseBounded,
     LoopStates, Agreeing, FieldStates
<1>6. CASE EndSolve
  <2>1. CASE pc' = "clean" /\ count' = count + 1
    <3>1. PICK cancelled \in BOOLEAN, memory \in Memory :
             reason' = CleanupReason(command, count + 1, cancelled, memory)
      BY <1>6, <2>1 DEF EndSolve, Throw
    <3>2. reason' = "reuse" => ~(count + 1 >= command.limit)
      BY <3>1, ReuseIsBelow DEF CommandTypes
    <3>3. pc = "solving" /\ UNCHANGED <<input, command, kept>>
      BY <1>6 DEF EndSolve
    <3> QED
      BY <2>1, <3>2, <3>3 DEF CommandTypes, Counted, Compared, ReuseBounded,
         LoopStates, Agreeing, FieldStates
  <2>2. CASE pc' = "failing" /\ UNCHANGED <<count, reason>>
    BY <1>6, <2>2 DEF EndSolve, CommandTypes, Counted, Compared, ReuseBounded,
       LoopStates, Agreeing, FieldStates
  <2> QED
    BY <1>6, <2>1, <2>2 DEF EndSolve, Throw
<1>7. CASE AnswerFirst
  BY <1>7 DEF AnswerFirst, CommandTypes, Counted, Compared, ReuseBounded,
     LoopStates, Agreeing, FieldStates
<1>8. CASE FinishAggressive
  BY <1>8, ReclaimFrees DEF FinishAggressive, CommandTypes, Counted, Compared,
     ReuseBounded, LoopStates, Agreeing, FieldStates
<1>9. CASE KeepCaches
  <2>1. CASE pc' = "idle"
    <3>1. command.operation = "solve" => command.limit \in Nat
      BY LimitIsNumber DEF CommandTypes
    <3>2. pc = "clean" /\ reason = "reuse" /\ Quiet
      BY <1>9 DEF KeepCaches
    <3>3. command.operation = "solve" => count < command.limit
      BY <3>1, <3>2 DEF Compared, CommandTypes
    <3> QED
      BY <2>1, <3>2, <3>3 DEF CommandTypes, Counted, Compared, ReuseBounded,
         LoopStates, Agreeing, FieldStates
  <2>2. CASE pc' = "failing"
    BY <1>9, <2>2 DEF KeepCaches, CommandTypes, Counted, Compared, ReuseBounded,
       LoopStates, Agreeing, FieldStates
  <2> QED
    BY <1>9, <2>1, <2>2 DEF KeepCaches, Throw
<1>10. CASE CleanFully
  BY <1>10, ReclaimFrees DEF CleanFully, CommandTypes, Counted, Compared,
     ReuseBounded, LoopStates, Agreeing, FieldStates
<1>11. CASE LookUp
  <2>1. /\ pc = "bem_field" /\ pc' \in {"evaluate", "evict", "failing"} /\ Quiet
    BY <1>11 DEF LookUp, Throw
  <2> QED
    BY <2>1 DEF CommandTypes, Counted, Compared, ReuseBounded, LoopStates,
       Agreeing, FieldStates
<1>12. CASE Evict
  <2>1. /\ pc = "evict" /\ pc' \in {"evaluate", "evict", "failing"} /\ Quiet
    BY <1>12 DEF Evict, Throw
  <2> QED
    BY <2>1 DEF CommandTypes, Counted, Compared, ReuseBounded, LoopStates,
       Agreeing, FieldStates
<1>13. CASE Evaluate
  BY <1>13 DEF Evaluate, Throw, CommandTypes, Counted, Compared, ReuseBounded,
     LoopStates, Agreeing, FieldStates
<1>14. CASE CompleteField
  BY <1>14 DEF CompleteField, CommandTypes, Counted, Compared, ReuseBounded,
     LoopStates, Agreeing, FieldStates
<1>15. CASE Fail
  BY <1>15, ReclaimFrees DEF Fail, Reported, CommandTypes, Counted, Compared,
     ReuseBounded, LoopStates, Agreeing, FieldStates
<1>16. CASE Die
  <2>1. pc' = "gone" /\ input' = << >> /\ UNCHANGED <<command, count, reason>>
    BY <1>16 DEF Die
  <2>2. kept' \in BOOLEAN
    BY <1>16, Zenon DEF Die
  <2>3. << >> \in Seq(Commands)
    OBVIOUS
  <2> QED
    BY <2>1, <2>2, <2>3 DEF CommandTypes, Counted, Compared, ReuseBounded, LoopStates,
       Agreeing, FieldStates
<1>17. CASE WriteCommand
  <2>1. PICK c \in Commands : input' = Append(input, c)
    BY <1>17 DEF WriteCommand
  <2>2. input' \in Seq(Commands)
    BY <2>1 DEF CommandTypes
  <2> QED
    BY <1>17, <2>2 DEF WriteCommand, CommandTypes, Counted, Compared,
       ReuseBounded, LoopStates, Agreeing, FieldStates
<1>18. CASE ReadEvent \/ UNCHANGED vars
  BY <1>18 DEF ReadEvent, vars, CommandTypes, Counted, Compared, ReuseBounded,
     LoopStates, Agreeing, FieldStates
<1> QED
  BY <1>1, <1>2, <1>3, <1>4, <1>5, <1>6, <1>7, <1>8, <1>9, <1>10, <1>11, <1>12,
     <1>13, <1>14, <1>15, <1>16, <1>17, <1>18 DEF Next, Advance, Over

-----------------------------------------------------------------------------

\* The invariant holds in every state, for any keys, limits and bounds.
LEMMA Invariance == Spec => []LoopInv
<1> USE LoopAssumption
<1>1. Init => LoopInv
  BY InitHolds
<1>2. LoopInv /\ [Next]_vars => LoopInv'
  BY StepHolds
<1> QED
  BY <1>1, <1>2, PTL DEF Spec

\* A loop at rest holds caches of a solve exactly when its counter says so:
\* what run_worker reports of a full cleanup is true, whatever failed before.
THEOREM Counting == Spec => []KeptIsCounted
<1>1. LoopInv => KeptIsCounted
  BY DEF LoopInv, Counted, Agreeing, KeptIsCounted
<1> QED
  BY <1>1, Invariance, PTL

\* No solve that reused its caches has left a counter that reached its limit:
\* the comparison of cleanup_reason bounds every run of reuses.
THEOREM Bounding == Spec => []ReuseBounded
<1>1. LoopInv => ReuseBounded
  BY DEF LoopInv
<1> QED
  BY <1>1, Invariance, PTL
-----------------------------------------------------------------------------
(* What filter! returns, for a sequence of any length. Induction on numbers *)
(* is stated for sets, and comes from the order of the naturals.            *)

LEMMA SetInduction ==
    ASSUME NEW S, 0 \in S, \A n \in Nat : n \in S => n + 1 \in S
    PROVE  Nat \subseteq S
<1> DEFINE T == Nat \ S
           R == OpToRel(<, Nat)
<1>1. SUFFICES ASSUME T # {} PROVE FALSE
  OBVIOUS
<1>2. IsWellFoundedOn(R, Nat)
  BY NatLessThanWellFounded DEF OpToRel
<1>3. \A m, n \in Nat : m < n => <<m, n>> \in R
  BY DEF OpToRel
<1> HIDE DEF R
<1>4. PICK n \in T : \A m \in T : ~(<<m, n>> \in R)
  BY <1>1, <1>2, WFMin
<1>5. n # 0 /\ n - 1 \in Nat /\ n - 1 < n
  BY <1>4
<1>6. n - 1 \in T
  <2>1. n - 1 \in S => (n - 1) + 1 \in S
    BY <1>5
  <2> QED  BY <1>5, <2>1, <1>4
<1> QED  BY <1>3, <1>4, <1>5, <1>6
\* The value of the filter up to i, from its values before.
Passed(s, keys, g, i) ==
    IF i = 0 THEN << >> ELSE IF s[i] \in keys THEN g[i - 1] ELSE Append(g[i - 1], s[i])

\* The recursion of Without defines a function.
LEMMA FilterRecursion ==
    ASSUME NEW T, NEW s \in Seq(T), NEW keys
    PROVE  \E f : /\ f = [i \in 0 .. Len(s) |-> Passed(s, keys, f, i)]
                  /\ Without(s, keys) = f[Len(s)]
<1> DEFINE n == Len(s)
           S == {i \in Nat : \E g : g = [j \in 0 .. i |-> Passed(s, keys, g, j)]}
<1>1. 0 \in S
  <2> DEFINE g == [j \in 0 .. 0 |-> << >>]
  <2>1. g = [j \in 0 .. 0 |-> Passed(s, keys, g, j)]
    BY DEF Passed
  <2> HIDE DEF g
  <2> QED  BY <2>1
<1>2. ASSUME NEW i \in Nat, i \in S PROVE i + 1 \in S
  <2>1. PICK g : g = [j \in 0 .. i |-> Passed(s, keys, g, j)]
    BY <1>2
  <2> DEFINE h == [j \in 0 .. i + 1 |-> IF j = i + 1 THEN Passed(s, keys, g, j) ELSE g[j]]
  <2>2. ASSUME NEW j \in 0 .. i + 1 PROVE h[j] = Passed(s, keys, h, j)
    <3>1. j # 0 => j - 1 \in 0 .. i /\ h[j - 1] = g[j - 1]
      OBVIOUS
    <3>2. h[j] = Passed(s, keys, g, j)
      BY <2>1
    <3> HIDE DEF h
    <3> QED  BY <3>1, <3>2 DEF Passed
  <2>3. h = [j \in 0 .. i + 1 |-> h[j]]
    OBVIOUS
  <2> HIDE DEF h
  <2>4. h = [j \in 0 .. i + 1 |-> Passed(s, keys, h, j)]
    BY <2>2, <2>3
  <2> QED  BY <2>4
<1> HIDE DEF S
<1>3. n \in S
  BY <1>1, <1>2, SetInduction
<1> DEFINE f == CHOOSE g : g = [i \in 0 .. n |-> Passed(s, keys, g, i)]
<1>4. f = [i \in 0 .. n |-> Passed(s, keys, f, i)]
  BY <1>3 DEF S
<1>5. Without(s, keys) = f[n]
  BY DEF Without, Passed
<1> HIDE DEF f
<1> QED  BY <1>4, <1>5

\* It keeps all that is not to go and nothing that is, and is shorter when
\* anything goes.
LEMMA FilterIs ==
    ASSUME NEW T, NEW s \in Seq(T), NEW keys
    PROVE  LET t == Without(s, keys)
           IN  /\ t \in Seq(T) /\ Len(t) <= Len(s)
               /\ \A i \in 1 .. Len(s) : s[i] \in keys => Len(t) < Len(s)
               /\ \A i \in 1 .. Len(s) : s[i] \notin keys => \E j \in 1 .. Len(t) : t[j] = s[i]
               /\ \A j \in 1 .. Len(t) : t[j] \notin keys /\ \E i \in 1 .. Len(s) : s[i] = t[j]
<1>1. PICK f : /\ f = [i \in 0 .. Len(s) |-> Passed(s, keys, f, i)]
               /\ Without(s, keys) = f[Len(s)]
  BY FilterRecursion
<1> DEFINE Good(m) == 
               /\ f[m] \in Seq(T) /\ Len(f[m]) <= m
               /\ \A i \in 1 .. m : s[i] \in keys => Len(f[m]) < m
               /\ \A i \in 1 .. m : s[i] \notin keys => \E j \in 1 .. Len(f[m]) : f[m][j] = s[i]
               /\ \A j \in 1 .. Len(f[m]) : f[m][j] \notin keys /\ \E i \in 1 .. m : s[i] = f[m][j]
           S == {m \in Nat : m <= Len(s) => Good(m)}
<1>2. 0 \in S
  <2>1. f[0] = << >>
    BY <1>1 DEF Passed
  <2>2. << >> \in Seq(T) /\ Len(<< >>) = 0
    OBVIOUS
  <2>3. Good(0)
    BY <2>1, <2>2
  <2> QED  BY <2>3
<1>3. ASSUME NEW m \in Nat, m \in S PROVE m + 1 \in S
  <2>1. SUFFICES ASSUME m + 1 <= Len(s) PROVE Good(m + 1)
    OBVIOUS
  <2>2. Good(m)
    <3>1. Len(s) \in Nat /\ m <= Len(s)
      BY <2>1
    <3> HIDE DEF Good
    <3> QED  BY <1>3, <3>1
  <2>3. f[m + 1] = IF s[m + 1] \in keys THEN f[m] ELSE Append(f[m], s[m + 1])
    <3>1. m + 1 \in 0 .. Len(s) /\ m + 1 # 0 /\ (m + 1) - 1 = m
      BY <2>1
    <3>2. f[m + 1] = Passed(s, keys, f, m + 1)
      BY <1>1, <3>1
    <3> QED  BY <3>1, <3>2 DEF Passed
  <2>4. s[m + 1] \in T
    BY <2>1
  <2>5. CASE s[m + 1] \in keys
    BY <2>2, <2>3, <2>5
  <2>6. CASE s[m + 1] \notin keys
    <3> DEFINE t == f[m]
               u == Append(t, s[m + 1])
    <3>1. t \in Seq(T) /\ u \in Seq(T) /\ Len(u) = Len(t) + 1 /\ u[Len(u)] = s[m + 1]
          /\ \A j \in 1 .. Len(t) : u[j] = t[j]
      BY <2>2, <2>4
    <3>2. f[m + 1] = u
      BY <2>3, <2>6
    <3> HIDE DEF t, u
    <3>3. Len(t) \in Nat
      BY <3>1
    <3>4. ASSUME NEW i \in 1 .. m + 1, s[i] \notin keys PROVE \E j \in 1 .. Len(u) : u[j] = s[i]
      <4>1. CASE i = m + 1
        BY <3>1, <3>3, <4>1
      <4>2. CASE i \in 1 .. m
        <5>1. PICK j \in 1 .. Len(t) : t[j] = s[i]
          BY <2>2, <3>4, <4>2 DEF t
        <5> QED  BY <3>1, <3>3, <5>1
      <4> QED  BY <4>1, <4>2
    <3>5. ASSUME NEW j \in 1 .. Len(u) PROVE u[j] \notin keys /\ \E i \in 1 .. m + 1 : s[i] = u[j]
      <4>1. CASE j = Len(u)
        BY <2>6, <3>1, <3>3, <4>1
      <4>2. CASE j \in 1 .. Len(t)
        <5>1. t[j] \notin keys /\ \E i \in 1 .. m : s[i] = t[j]
          BY <2>2, <4>2 DEF t
        <5> QED  BY <3>1, <4>2, <5>1
      <4> QED  BY <3>1, <3>3, <4>1, <4>2
    <3>6. Len(t) <= m /\ \A i \in 1 .. m : s[i] \in keys => Len(t) < m
      BY <2>2 DEF t
    <3>7. Len(u) <= m + 1 /\ \A i \in 1 .. m + 1 : s[i] \in keys => Len(u) < m + 1
      BY <2>6, <3>1, <3>3, <3>6
    <3> QED  BY <3>1, <3>2, <3>4, <3>5, <3>7
  <2> QED  BY <2>5, <2>6
<1> HIDE DEF S
<1>4. Len(s) \in S
  BY <1>2, <1>3, SetInduction
<1>5. Good(Len(s))
  BY <1>4 DEF S
<1> QED  BY <1>1, <1>5
-----------------------------------------------------------------------------
(* The cache of field evaluations. A release that throws leaves its key in  *)
(* the order, so that the order may be longer than the cache and hold a key *)
(* twice; it never holds more than two between commands, because what is    *)
(* left over is first in the order when the eviction throws.                *)

FieldTypes == order \in Seq(Keys) /\ cached \in SUBSET Keys

Ordered == \A k \in cached : \E i \in 1 .. Len(order) : order[i] = k

Short ==
    /\ pc \notin {"evict", "failing"} => Len(order) <= 2
    /\ pc = "failing" /\ Len(order) > 2 => Len(order) = 3 /\ order[1] \notin cached
    /\ pc = "evict" /\ Len(order) > 2 => Len(order) = 3 /\ order[3] = command.key
    /\ pc \in {"solving", "clean"} => cached = {}

FieldInv == FieldTypes /\ Ordered /\ Short

LEMMA Pair ==
    ASSUME NEW x, NEW y, NEW S, S \subseteq {x, y}
    PROVE  IsFiniteSet(S) /\ Cardinality(S) \in Nat /\ Cardinality(S) <= 2
<1>1. IsFiniteSet({x}) /\ Cardinality({x}) = 1
  BY FS_Singleton
<1>2. {x, y} = {x} \cup {y}
  OBVIOUS
<1>3. IsFiniteSet({x, y})
  BY <1>1, <1>2, FS_AddElement
<1>4. Cardinality({x, y}) = 1 \/ Cardinality({x, y}) = 2
  <2>1. Cardinality({x} \cup {y}) = IF y \in {x} THEN Cardinality({x}) ELSE Cardinality({x}) + 1
    BY <1>1, FS_AddElement
  <2> QED  BY <1>1, <1>2, <2>1
<1>5. IsFiniteSet(S) /\ Cardinality(S) <= Cardinality({x, y})
  BY <1>3, FS_Subset
<1>6. Cardinality(S) \in Nat
  BY <1>5, FS_CardinalityType
<1> QED  BY <1>4, <1>5, <1>6

\* release_all_bem_field_evaluation_caches! to its end, or to a key whose
\* release throws.
LEMMA ReleaseEffect ==
    ASSUME FieldInv, ReleasesAll \/ ReleaseAllFails
    PROVE  /\ FieldTypes' /\ Ordered' /\ cached' \subseteq cached
           /\ ReleasesAll => order' = << >> /\ cached' = {}
           /\ pc # "evict" => Len(order') <= 2
<1> USE DEF FieldInv, FieldTypes, Ordered
<1>1. CASE ReleasesAll
  <2>1. order' = << >> /\ cached' = {}
    BY <1>1 DEF ReleasesAll
  <2>2. << >> \in Seq(Keys) /\ Len(<< >>) = 0
    OBVIOUS
  <2> QED  BY <2>1, <2>2
<1>2. CASE ReleaseAllFails /\ ~ReleasesAll
  <2>1. PICK i \in 1 .. Len(order) :
          LET before == {order[j] : j \in 1 .. i - 1}
          IN  /\ order[i] \in cached \ before
              /\ cached' = cached \ (before \cup {order[i]})
              /\ order' = Without(order, before)
    BY <1>2 DEF ReleaseAllFails
  <2> DEFINE before == {order[j] : j \in 1 .. i - 1}
             t == Without(order, before)
  <2>0. order \in Seq(Keys)
    OBVIOUS
  <2>2. /\ t \in Seq(Keys) /\ Len(t) <= Len(order)
        /\ \A j \in 1 .. Len(order) : order[j] \in before => Len(t) < Len(order)
        /\ \A j \in 1 .. Len(order) : order[j] \notin before =>
             \E k \in 1 .. Len(t) : t[k] = order[j]
    <3> HIDE DEF before, FieldInv, FieldTypes, Ordered
    <3> QED  BY <2>0, FilterIs, SMTT(30)
  <2>3. order' = t /\ cached' \subseteq cached /\ \A k \in cached' : k \notin before
    BY <2>1
  <2>4. Len(order) = 3 /\ order[1] \notin cached => order[1] \in before
    BY <2>1
  <2> HIDE DEF t, before
  <2>5. Ordered'
    BY <2>2, <2>3
  <2>6. Len(order) \in Nat /\ Len(t) \in Nat
    BY <2>2
  <2>7. pc # "evict" => Len(t) <= 2
    BY <2>2, <2>4, <2>6 DEF Short
  <2> QED  BY <1>2, <2>2, <2>3, <2>5, <2>7
<1> QED  BY <1>1, <1>2
\* One key leaves the order.
LEMMA Dropped ==
    ASSUME NEW s \in Seq(Keys), NEW x
    PROVE  LET t == Without(s, {x})
           IN  /\ t \in Seq(Keys)
               /\ \A i \in 1 .. Len(s) : s[i] = x => Len(t) < Len(s)
               /\ \A i \in 1 .. Len(s) : s[i] # x => \E j \in 1 .. Len(t) : t[j] = s[i]
<1> DEFINE K == {x}
<1>1. \A y : y \in K <=> y = x
  OBVIOUS
<1> HIDE DEF K
<1>2. LET t == Without(s, K)
      IN  /\ t \in Seq(Keys)
          /\ \A i \in 1 .. Len(s) : s[i] \in K => Len(t) < Len(s)
          /\ \A i \in 1 .. Len(s) : s[i] \notin K => \E j \in 1 .. Len(t) : t[j] = s[i]
  BY FilterIs
<1>3. LET t == Without(s, K)
      IN  /\ t \in Seq(Keys)
          /\ \A i \in 1 .. Len(s) : s[i] = x => Len(t) < Len(s)
          /\ \A i \in 1 .. Len(s) : s[i] # x => \E j \in 1 .. Len(t) : t[j] = s[i]
  BY <1>1, <1>2
<1> QED  BY <1>3 DEF K

\* The key a field command looks up.
LEMMA KeyOf ==
    ASSUME NEW x \in Commands, x.operation = "bem_field"
    PROVE  x.key \in Keys
BY DEF Commands, Solve, Field, ReclaimCommand

LEMMA FieldInit == Init => FieldInv
<1>1. << >> \in Seq(Keys) /\ Len(<< >>) = 0
  OBVIOUS
<1> QED  BY <1>1 DEF Init, FieldInv, FieldTypes, Ordered, Short

\* A step that leaves the cache alone.
LEMMA FieldKept ==
    ASSUME FieldInv, UNCHANGED fieldVars,
           pc' \notin {"evict", "failing"} => Len(order) <= 2,
           pc' = "failing" => pc = "failing" \/ Len(order) <= 2,
           pc' = "evict" => pc = "evict" /\ UNCHANGED command,
           pc' \in {"solving", "clean"} => pc \in {"solving", "clean"}
    PROVE  FieldInv'
BY DEF FieldInv, FieldTypes, Ordered, Short, fieldVars

LEMMA FieldStep ==
    ASSUME LoopInv, FieldInv, [Next]_vars
    PROVE  FieldInv'
<1>1. Len(order) \in Nat /\ order \in Seq(Keys) /\ cached \in SUBSET Keys
  BY DEF FieldInv, FieldTypes
<1>2. pc \notin {"evict", "failing"} => Len(order) <= 2
  BY DEF FieldInv, Short
<1>3. ASSUME ReleasesAll \/ ReleaseAllFails, pc # "evict", pc' \notin {"evict"},
             pc' \in {"solving", "clean"} => ReleasesAll
      PROVE  FieldInv'
  <2>1. /\ FieldTypes' /\ Ordered' /\ Len(order') <= 2
        /\ ReleasesAll => cached' = {}
    BY <1>3, ReleaseEffect
  <2>2. Len(order') \in Nat
    BY <2>1 DEF FieldTypes
  <2> QED  BY <1>3, <2>1, <2>2 DEF FieldInv, Short
<1>4. CASE Announce \/ Evaluate \/ CompleteField \/ AnswerFirst \/ PrintResult \/ EndSolve
  BY <1>1, <1>2, <1>4, FieldKept DEF Announce, Evaluate, CompleteField, AnswerFirst, PrintResult,
     EndSolve, Throw
<1>5. CASE WriteCommand \/ ReadEvent \/ UNCHANGED vars
  <2>1. UNCHANGED <<pc, command>> /\ UNCHANGED fieldVars
    BY <1>5 DEF WriteCommand, ReadEvent, vars
  <2> QED  BY <1>1, <1>2, <2>1, FieldKept
<1>6. CASE Fetch
  <2>1. command' \in Commands
    BY <1>6 DEF Fetch, LoopInv, CommandTypes
  <2>2. pc = "idle" /\ pc' \in {"solve", "bem_field", "reclaim", "failing"} /\ UNCHANGED fieldVars
    BY <1>6, <2>1, Three DEF Fetch
  <2> QED  BY <1>1, <1>2, <2>2, FieldKept
<1>7. CASE ReclaimOnCommand \/ FinishAggressive \/ CleanFully \/ Fail
  BY <1>3, <1>7 DEF ReclaimOnCommand, FinishAggressive, CleanFully, Fail, Reported, Reclaim
<1>8. CASE StartSolve \/ KeepCaches
  BY <1>3, <1>8 DEF StartSolve, KeepCaches, Throw
<1>9. CASE Die
  <2>1. << >> \in Seq(Keys) /\ Len(<< >>) = 0
    OBVIOUS
  <2> QED  BY <1>9, <2>1 DEF Die, FieldInv, FieldTypes, Ordered, Short
<1>10. CASE LookUp
  <2>1. PICK key \in Keys : key = command.key
    BY <1>10, KeyOf DEF LookUp, LoopInv, CommandTypes, Compared, FieldStates
  <2>2. pc = "bem_field" /\ command' = command /\ Len(order) <= 2
    BY <1>2, <1>10 DEF LookUp
  <2>3. CASE key \in cached
    <3> DEFINE t == Without(order, {key})
    <3>1. order' = Append(t, key) /\ pc' = "evaluate" /\ cached' = cached
      BY <1>10, <2>1, <2>3 DEF LookUp, Throw
    <3>2. /\ t \in Seq(Keys)
          /\ \A i \in 1 .. Len(order) : order[i] = key => Len(t) < Len(order)
          /\ \A i \in 1 .. Len(order) : order[i] # key => \E j \in 1 .. Len(t) : t[j] = order[i]
      BY <1>1, Dropped
    <3> HIDE DEF t
    <3>3. Len(t) \in Nat /\ Len(t) < Len(order)
      BY <2>3, <3>2 DEF FieldInv, Ordered
    <3>4. /\ order' \in Seq(Keys) /\ Len(order') = Len(t) + 1 /\ order'[Len(t) + 1] = key
          /\ \A j \in 1 .. Len(t) : order'[j] = t[j]
      BY <2>1, <3>1, <3>2
    <3>5. ASSUME NEW k \in cached' PROVE \E i \in 1 .. Len(order') : order'[i] = k
      <4>1. CASE k = key
        BY <3>3, <3>4, <4>1
      <4>2. CASE k # key
        <5>1. PICK i \in 1 .. Len(order) : order[i] = k
          BY <3>1, <3>5 DEF FieldInv, Ordered
        <5>2. PICK j \in 1 .. Len(t) : t[j] = k
          BY <3>2, <4>2, <5>1
        <5> QED  BY <3>3, <3>4, <5>2
      <4> QED  BY <4>1, <4>2
    <3>6. Len(order') <= 2
      BY <1>1, <2>2, <3>3, <3>4
    <3> QED  BY <1>1, <3>1, <3>4, <3>5, <3>6 DEF FieldInv, FieldTypes, Ordered, Short
  <2>4. CASE key \notin cached /\ pc' = "evict"
    <3>1. order' = Append(order, key) /\ cached' = cached \cup {key}
      BY <1>10, <2>1, <2>4 DEF LookUp, Throw
    <3>2. /\ order' \in Seq(Keys) /\ Len(order') = Len(order) + 1 /\ order'[Len(order) + 1] = key
          /\ \A j \in 1 .. Len(order) : order'[j] = order[j]
      BY <1>1, <3>1
    <3>3. ASSUME NEW k \in cached' PROVE \E i \in 1 .. Len(order') : order'[i] = k
      <4>1. CASE k = key
        BY <1>1, <3>2, <4>1
      <4>2. CASE k # key
        <5>1. PICK i \in 1 .. Len(order) : order[i] = k
          BY <3>1, <3>3, <4>2 DEF FieldInv, Ordered
        <5> QED  BY <1>1, <3>2, <5>1
      <4> QED  BY <4>1, <4>2
    <3>4. Len(order') > 2 => Len(order') = 3 /\ order'[3] = command'.key
      BY <1>1, <2>1, <2>2, <3>2
    <3> QED  BY <1>1, <2>4, <3>1, <3>2, <3>3, <3>4 DEF FieldInv, FieldTypes, Ordered, Short
  <2>5. CASE key \notin cached /\ pc' # "evict"
    <3>1. pc' = "failing" /\ UNCHANGED fieldVars
      BY <1>10, <2>1, <2>5 DEF LookUp, Throw
    <3> QED  BY <2>2, <3>1, FieldKept
  <2> QED  BY <2>3, <2>4, <2>5
<1>11. CASE Evict
  <2>1. pc = "evict" /\ command' = command
    BY <1>11 DEF Evict
  <2>2. CASE ~Overfull /\ pc' = "evaluate" /\ UNCHANGED fieldVars
    BY <1>1, <2>2, FieldKept DEF Overfull, MaxEntries
  <2>3. CASE Overfull /\ Released(Oldest) /\ pc' = pc
    <3>0. PICK oldest : oldest = order[1]
      OBVIOUS
    <3> DEFINE t == Without(order, {oldest})
    <3>1. Len(order) = 3
      BY <1>1, <2>1, <2>3 DEF FieldInv, Short, Overfull, MaxEntries
    <3>2. order' = t /\ cached' = cached \ {oldest}
      BY <2>3, <3>0 DEF Released, Oldest
    <3>3. /\ t \in Seq(Keys)
          /\ \A i \in 1 .. Len(order) : order[i] = oldest => Len(t) < Len(order)
          /\ \A i \in 1 .. Len(order) : order[i] # oldest => \E j \in 1 .. Len(t) : t[j] = order[i]
      BY <1>1, Dropped
    <3> HIDE DEF t
    <3>4. Len(t) \in Nat /\ Len(t) <= 2
      BY <3>0, <3>1, <3>3
    <3>5. Ordered'
      BY <3>2, <3>3 DEF FieldInv, Ordered
    <3> QED  BY <1>1, <2>1, <2>3, <3>2, <3>3, <3>4, <3>5 DEF FieldInv, FieldTypes, Short
  <2>4. CASE Overfull /\ ReleaseFails(Oldest) /\ pc' = "failing"
    <3>1. Len(order) = 3
      BY <1>1, <2>1, <2>4 DEF FieldInv, Short, Overfull, MaxEntries
    <3>2. order' = order /\ cached' = cached \ {order[1]}
      BY <2>4 DEF ReleaseFails, Oldest
    <3> QED  BY <1>1, <2>4, <3>1, <3>2 DEF FieldInv, FieldTypes, Ordered, Short
  <2> QED  BY <1>11, <2>2, <2>3, <2>4 DEF Evict, Throw
<1> QED
  BY <1>4, <1>5, <1>6, <1>7, <1>8, <1>9, <1>10, <1>11 DEF Next, Advance, Over

LEMMA FieldInvariance == Spec => []FieldInv
<1>1. LoopInv /\ FieldInv /\ [Next]_vars => FieldInv'
  BY FieldStep
<1> QED  BY <1>1, FieldInit, Invariance, PTL DEF Spec

\* Two of three entries of the order account for a cache that lacks one.
LEMMA Few ==
    ASSUME FieldInv, Len(order) <= 2 \/ (Len(order) = 3 /\ order[1] \notin cached)
                                     \/ (Len(order) = 3 /\ order[3] \notin cached)
                                     \/ (Len(order) = 3 /\ order[1] = order[3])
    PROVE  Cardinality(cached) \in Nat /\ Cardinality(cached) <= 2
<1>1. \A k \in cached : \E i \in 1 .. Len(order) : order[i] = k
  BY DEF FieldInv, Ordered
<1>2. Len(order) \in Nat
  BY DEF FieldInv, FieldTypes
<1>3. CASE Len(order) <= 2
  <2>1. cached \subseteq {order[1], order[2]}
    BY <1>1, <1>2, <1>3
  <2> QED  BY <2>1, Pair
<1>4. CASE Len(order) = 3 /\ order[1] \notin cached
  <2>1. cached \subseteq {order[2], order[3]}
    BY <1>1, <1>4
  <2> QED  BY <2>1, Pair
<1>5. CASE Len(order) = 3 /\ (order[3] \notin cached \/ order[1] = order[3])
  <2>1. cached \subseteq {order[1], order[2]}
    BY <1>1, <1>5
  <2> QED  BY <2>1, Pair
<1> QED  BY <1>3, <1>4, <1>5

\* No entry is lost from the order, there are never more than two but while a
\* third makes room for itself, and none while a solve runs: for any number of
\* keys, and whatever releases throw.
THEOREM Accounting == Spec => []CachesAccounted
<1>1. FieldInv => CachesAccounted
  <2> SUFFICES ASSUME FieldInv PROVE CachesAccounted
    OBVIOUS
  <2>1. Len(order) \in Nat
    BY DEF FieldInv, FieldTypes
  <2>2. pc # "evict" => Len(order) <= 2 \/ (Len(order) = 3 /\ order[1] \notin cached)
    BY <2>1 DEF FieldInv, Short
  <2>3. pc # "evict" => Cardinality(cached) <= MaxEntries
    BY <2>2, Few DEF MaxEntries
  <2> QED  BY <2>3 DEF CachesAccounted, FieldInv, Ordered, Short
<1> QED  BY <1>1, FieldInvariance, PTL

\* With three entries in the cache the order is exactly these three, and the
\* one the evaluation has built last is the last: the eviction frees another.
THEOREM Evicting == Spec => EvictsAnother
<1>1. ASSUME FieldInv, [Next]_vars, pc = "evict", pc' = "evict", Cardinality(cached) > MaxEntries
      PROVE  command.key \in cached'
  <2>1. Len(order) \in Nat /\ Len(order) = 3 /\ order[3] = command.key
        /\ order[3] \in cached /\ order[1] # order[3]
    <3>1. Len(order) \in Nat
      BY <1>1 DEF FieldInv, FieldTypes
    <3>2. ~(Cardinality(cached) \in Nat /\ Cardinality(cached) <= 2)
      BY <1>1 DEF MaxEntries
    <3>3. ~(Len(order) <= 2)
      BY <1>1, <3>2, Few
    <3>4. Len(order) = 3 /\ order[3] = command.key
      BY <1>1, <3>1, <3>3 DEF FieldInv, Short
    <3> QED  BY <1>1, <3>1, <3>2, <3>4, Few
  <2>2. cached' = cached \/ cached' = cached \ {order[1]}
    <3>1. CASE Advance
      <4>1. Evict
        BY <1>1, <3>1, Three DEF Advance, Announce, Fetch, ReclaimOnCommand, StartSolve, EndSolve,
           AnswerFirst, FinishAggressive, KeepCaches, CleanFully, LookUp, Evaluate, CompleteField, Fail
      <4> QED  BY <1>1, <4>1 DEF Evict, Released, Oldest, fieldVars, Throw
    <3>2. CASE ~Advance
      BY <1>1, <3>2 DEF Next, PrintResult, Die, WriteCommand, ReadEvent, Over, vars, fieldVars
    <3> QED  BY <3>1, <3>2
  <2> QED  BY <2>1, <2>2
<1>2. FieldInv /\ [Next]_vars =>
        [pc = "evict" /\ pc' = "evict" /\ Cardinality(cached) > MaxEntries
           => command.key \in cached']_vars
  BY <1>1
<1> QED  BY <1>2, FieldInvariance, PTL DEF Spec, EvictsAnother
-----------------------------------------------------------------------------
(* The refinement: every step of the loop is one of the abstract worker, or *)
(* changes nothing of what a client can tell.                               *)

\* The loop works on a command of the operation that brought it there.
Doing ==
    /\ pc \in {"solve", "solving", "clean"} => command.operation = "solve"
    /\ pc = "reclaim" => command.operation = "reclaim"

LEMMA DoingStep ==
    ASSUME LoopInv, Doing, [Next]_vars
    PROVE  Doing'
<1> USE DEF Doing
<1>1. CASE Fetch
  <2>1. command' \in Commands /\ pc' \in {command'.operation, "failing"}
    BY <1>1 DEF Fetch, LoopInv, CommandTypes
  <2> QED  BY <2>1, Three
<1>2. CASE Announce \/ ReclaimOnCommand \/ StartSolve \/ EndSolve \/ AnswerFirst \/ FinishAggressive
  BY <1>2 DEF Announce, ReclaimOnCommand, StartSolve, EndSolve, AnswerFirst, FinishAggressive, Throw
<1>3. CASE KeepCaches \/ CleanFully \/ LookUp \/ Evict \/ Evaluate \/ CompleteField \/ Fail
  BY <1>3 DEF KeepCaches, CleanFully, LookUp, Evict, Evaluate, CompleteField, Fail, Throw
<1>4. CASE PrintResult \/ Die \/ WriteCommand \/ ReadEvent \/ UNCHANGED vars
  BY <1>4 DEF PrintResult, Die, WriteCommand, ReadEvent, vars
<1> QED  BY <1>1, <1>2, <1>3, <1>4 DEF Next, Advance, Over

Operations == {"solve", "bem_field", "reclaim"}

\* The operations of a sequence of commands.
LEMMA OperationsType ==
    ASSUME NEW s \in Seq(Commands)
    PROVE  /\ OperationsOf(s) \in Seq(Operations) /\ Len(OperationsOf(s)) = Len(s)
           /\ \A i \in 1 .. Len(s) : OperationsOf(s)[i] = s[i].operation
<1>1. Len(s) \in Nat /\ \A i \in 1 .. Len(s) : s[i] \in Commands
  OBVIOUS
<1>2. \A i \in 1 .. Len(s) : s[i].operation \in Operations
  BY <1>1, Three DEF Operations
<1> QED  BY <1>1, <1>2 DEF OperationsOf

LEMMA OperationsRead ==
    ASSUME NEW s \in Seq(Commands), s # << >>
    PROVE  OperationsOf(s) = << Head(s).operation >> \o OperationsOf(Tail(s))
<1>1. Tail(s) \in Seq(Commands) /\ Head(s) \in Commands /\ Len(Tail(s)) = Len(s) - 1
      /\ \A i \in 1 .. Len(Tail(s)) : Tail(s)[i] = s[i + 1]
  BY HeadTailProperties
<1>2. Head(s).operation \in Operations /\ Len(s) \in Nat \ {0} /\ s[1] = Head(s)
  BY <1>1, Three, EmptySeq DEF Operations
<1> DEFINE h == << Head(s).operation >>
           t == OperationsOf(Tail(s))
<1>3. h \in Seq(Operations) /\ Len(h) = 1 /\ h[1] = Head(s).operation
  BY <1>2
<1>4. t \in Seq(Operations) /\ Len(t) = Len(s) - 1
      /\ \A i \in 1 .. Len(s) - 1 : t[i] = s[i + 1].operation
  BY <1>1, OperationsType
<1>5. OperationsOf(s) \in Seq(Operations) /\ Len(OperationsOf(s)) = Len(s)
      /\ \A i \in 1 .. Len(s) : OperationsOf(s)[i] = s[i].operation
  BY OperationsType
<1> HIDE DEF h, t
<1>6. h \o t \in Seq(Operations) /\ Len(h \o t) = Len(h) + Len(t)
      /\ \A i \in 1 .. Len(h) + Len(t) : (h \o t)[i] = IF i <= Len(h) THEN h[i] ELSE t[i - Len(h)]
  BY <1>3, <1>4, ConcatProperties
<1>7. ASSUME NEW i \in 1 .. Len(s) PROVE OperationsOf(s)[i] = (h \o t)[i]
  <2>1. CASE i = 1
    BY <1>2, <1>3, <1>4, <1>5, <1>6, <2>1
  <2>2. CASE i # 1
    <3>1. i - 1 \in 1 .. Len(s) - 1 /\ (i - 1) + 1 = i
      BY <1>2, <2>2
    <3> QED  BY <1>2, <1>3, <1>4, <1>5, <1>6, <2>2, <3>1
  <2> QED  BY <2>1, <2>2
<1>8. OperationsOf(s) = h \o t
  <2>1. Len(h \o t) = Len(s)
    BY <1>2, <1>3, <1>4, <1>6
  <2>2. /\ OperationsOf(s) \in Seq(Operations) /\ h \o t \in Seq(Operations)
        /\ Len(OperationsOf(s)) = Len(h \o t)
        /\ \A i \in 1 .. Len(OperationsOf(s)) : OperationsOf(s)[i] = (h \o t)[i]
    BY <1>5, <1>6, <1>7, <2>1
  <2> QED  BY <2>2, SeqEqual
<1> QED  BY <1>8 DEF h, t

LEMMA OperationsWritten ==
    ASSUME NEW s \in Seq(Commands), NEW c \in Commands
    PROVE  OperationsOf(Append(s, c)) = Append(OperationsOf(s), c.operation)
<1> DEFINE u == Append(s, c)
           q == OperationsOf(s)
           o == c.operation
<1>1. u \in Seq(Commands) /\ Len(u) = Len(s) + 1 /\ u[Len(s) + 1] = c
      /\ \A i \in 1 .. Len(s) : u[i] = s[i]
  BY AppendProperties
<1>2. q \in Seq(Operations) /\ Len(q) = Len(s) /\ o \in Operations
      /\ \A i \in 1 .. Len(s) : q[i] = s[i].operation
  BY OperationsType, Three DEF Operations
<1>s. Len(s) \in Nat
  OBVIOUS
<1> HIDE DEF u, q
<1>3. OperationsOf(u) \in Seq(Operations) /\ Len(OperationsOf(u)) = Len(u)
      /\ \A i \in 1 .. Len(u) : OperationsOf(u)[i] = u[i].operation
  BY <1>1, OperationsType
<1> HIDE DEF o
<1>4. Append(q, o) \in Seq(Operations) /\ Len(Append(q, o)) = Len(q) + 1
      /\ Append(q, o)[Len(q) + 1] = o
      /\ \A i \in 1 .. Len(q) : Append(q, o)[i] = q[i]
  BY <1>2, AppendProperties
<1>5. ASSUME NEW i \in 1 .. Len(u) PROVE OperationsOf(u)[i] = Append(q, o)[i]
  <2>1. CASE i = Len(s) + 1
    BY <1>1, <1>2, <1>3, <1>4, <2>1 DEF o
  <2>2. CASE i \in 1 .. Len(s)
    BY <1>1, <1>2, <1>3, <1>4, <2>2
  <2>3. Len(u) = Len(s) + 1
    BY <1>1
  <2>4. i = Len(s) + 1 \/ i \in 1 .. Len(s)
    BY <1>s, <2>3
  <2> QED  BY <2>1, <2>2, <2>4
<1>6. OperationsOf(u) = Append(q, o)
  BY <1>1, <1>2, <1>3, <1>4, <1>5, SeqEqual
<1> QED  BY <1>6 DEF u, q, o

\* What a command at work puts before the commands not yet read.
LEMMA Before ==
    ASSUME NEW q \in Seq(Operations), NEW o \in Operations
    PROVE  /\ << o >> \o q # << >> /\ Head(<< o >> \o q) = o /\ Tail(<< o >> \o q) = q
           /\ \A p \in Operations : << o >> \o Append(q, p) = Append(<< o >> \o q, p)
<1> DEFINE s == << o >>
<1>1. s \in Seq(Operations) /\ Len(s) = 1 /\ s[1] = o /\ Len(q) \in Nat
  OBVIOUS
<1> HIDE DEF s
<1> DEFINE t == s \o q
<1>2. t \in Seq(Operations) /\ Len(t) = Len(s) + Len(q)
      /\ \A i \in 1 .. Len(s) + Len(q) : t[i] = IF i <= Len(s) THEN s[i] ELSE q[i - Len(s)]
  BY <1>1, ConcatProperties
<1> HIDE DEF t
<1>3. Len(t) = Len(q) + 1 /\ t[1] = o /\ \A i \in 1 .. Len(q) : t[i + 1] = q[i]
  BY <1>1, <1>2
<1>4. t # << >> /\ Head(t) = o
  BY <1>1, <1>2, <1>3
<1>5. Tail(t) = q
  <2>1. Tail(t) \in Seq(Operations) /\ Len(Tail(t)) = Len(t) - 1
        /\ \A i \in 1 .. Len(Tail(t)) : Tail(t)[i] = t[i + 1]
    BY <1>2, <1>4, HeadTailProperties
  <2>2. Len(Tail(t)) = Len(q) /\ \A i \in 1 .. Len(Tail(t)) : Tail(t)[i] = q[i]
    BY <1>1, <1>3, <2>1
  <2> QED  BY <2>1, <2>2, SeqEqual
<1>6. ASSUME NEW p \in Operations PROVE s \o Append(q, p) = Append(t, p)
  <2>1. << p >> \in Seq(Operations)
    OBVIOUS
  <2>2. Append(q, p) = q \o << p >> /\ Append(t, p) = t \o << p >>
    BY <1>2, AppendIsConcat
  <2>3. (s \o q) \o << p >> = s \o (q \o << p >>)
    BY <1>1, <2>1, ConcatAssociative
  <2> QED  BY <2>2, <2>3 DEF t
<1> QED  BY <1>4, <1>5, <1>6 DEF s, t

\* The answer to the command at work.
LEMMA Finishes ==
    ASSUME LoopInv, Working, pc' \in {"idle", "reclaiming"}, UNCHANGED <<command, input>>,
           NEW o \in Outcomes(command.operation, Retained),
           output' = Append(output, [type |-> o.type, cleanup |-> o.cleanup]),
           Retained' = o.keeps
    PROVE  Child!Finish
<1> DEFINE q == OperationsOf(input)
           op == command.operation
<1>1. q \in Seq(Operations) /\ op \in Operations
  BY OperationsType, Three DEF LoopInv, CommandTypes, Operations
<1>2. Pending = << op >> \o q /\ Pending' = q
  BY DEF Pending, Working
<1> HIDE DEF q, op
<1>3. Pending # << >> /\ Head(Pending) = op /\ Pending' = Tail(Pending)
  BY <1>1, <1>2, Before
<1>4. Phase = "up" /\ Phase' = "up"
  BY DEF Phase, Working
<1>5. Head(Pending) = command.operation
  BY <1>3 DEF op
<1>6. PICK x : x = Head(Pending)
  OBVIOUS
<1>7. Child!Outcomes(x, Retained) = Outcomes(x, Retained)
  BY DEF Child!Outcomes, Outcomes, Child!Answer, Answer
<1>8. o \in Child!Outcomes(Head(Pending), Retained)
  BY <1>5, <1>6, <1>7
<1> QED  BY <1>3, <1>4, <1>8 DEF Child!Finish, Child!Emit

\* A command at work is pending, and what the loop does that prints nothing
\* and keeps the caches changes nothing.
LEMMA AtWork ==
    ASSUME LoopInv, Working
    PROVE  /\ Phase = "up" /\ Pending # << >> /\ Head(Pending) = command.operation
           /\ Working' /\ UNCHANGED <<command, input>> => Phase' = Phase /\ Pending' = Pending
<1> DEFINE q == OperationsOf(input)
           op == command.operation
<1>1. q \in Seq(Operations) /\ op \in Operations
  BY OperationsType, Three DEF LoopInv, CommandTypes, Operations
<1>2. Pending = << op >> \o q
  BY DEF Pending
<1> HIDE DEF q, op
<1>3. Pending # << >> /\ Head(Pending) = op
  BY <1>1, <1>2, Before
<1>4. Phase = "up" /\ (Working' => Phase' = "up")
  BY DEF Phase, Working
<1>5. Working' /\ UNCHANGED <<command, input>> => Pending' = Pending
  BY DEF Pending
<1> QED  BY <1>3, <1>4, <1>5 DEF op

LEMMA Outcome ==
    ASSUME NEW type \in {"completed", "cancelled", "failed"},
           NEW cleanup \in {"none", "reuse", "full"}, NEW keeps \in BOOLEAN,
           NEW op, NEW held,
           \/ type = "failed" /\ cleanup = "none" /\ ~keeps
           \/ op = "reclaim" /\ type = "completed" /\ cleanup = "full" /\ ~keeps
           \/ op = "bem_field" /\ type = "completed" /\ cleanup = "none" /\ keeps = held
           \/ op = "solve" /\ type # "failed" /\ ~keeps /\ cleanup # "reuse"
           \/ op = "solve" /\ type = "completed" /\ keeps /\ cleanup = "reuse"
    PROVE  [type |-> type, cleanup |-> cleanup, keeps |-> keeps] \in Outcomes(op, held)
<1> DEFINE o == [type |-> type, cleanup |-> cleanup, keeps |-> keeps]
<1>1. o \in Answer /\ o.type = type /\ o.cleanup = cleanup /\ o.keeps = keeps
  BY DEF Answer
<1> HIDE DEF o
<1>2. \/ o.type = "failed" /\ o.cleanup = "none" /\ ~o.keeps
      \/ op = "reclaim" /\ o.type = "completed" /\ o.cleanup = "full" /\ ~o.keeps
      \/ op = "bem_field" /\ o.type = "completed" /\ o.cleanup = "none" /\ o.keeps = held
      \/ op = "solve" /\ o.type # "failed" /\ (o.keeps <=> o.cleanup = "reuse")
                      /\ (o.keeps => o.type = "completed")
  BY <1>1, Zenon
<1>3. o \in Outcomes(op, held)
  BY <1>1, <1>2 DEF Outcomes
<1> QED  BY <1>3 DEF o

\* An event that ends the command, in the terms of the loop.
LEMMA Ends ==
    ASSUME LoopInv, Working, pc' \in {"idle", "reclaiming"}, UNCHANGED <<command, input>>,
           NEW type \in {"completed", "cancelled", "failed"},
           NEW cleanup \in {"none", "reuse", "full"},
           Emit(type, cleanup), Retained' \in BOOLEAN,
           LET op == command.operation IN
           \/ type = "failed" /\ cleanup = "none" /\ ~Retained'
           \/ op = "reclaim" /\ type = "completed" /\ cleanup = "full" /\ ~Retained'
           \/ op = "bem_field" /\ type = "completed" /\ cleanup = "none" /\ Retained' = Retained
           \/ op = "solve" /\ type # "failed" /\ ~Retained' /\ cleanup # "reuse"
           \/ op = "solve" /\ type = "completed" /\ Retained' /\ cleanup = "reuse"
    PROVE  Child!Finish
<1>1. PICK op, held : op = command.operation /\ held = Retained
  OBVIOUS
<1>2. PICK keeps \in BOOLEAN : keeps = Retained'
  OBVIOUS
<1> DEFINE o == [type |-> type, cleanup |-> cleanup, keeps |-> keeps]
<1>3. o \in Outcomes(op, held)
  <2>1. \/ type = "failed" /\ cleanup = "none" /\ ~keeps
        \/ op = "reclaim" /\ type = "completed" /\ cleanup = "full" /\ ~keeps
        \/ op = "bem_field" /\ type = "completed" /\ cleanup = "none" /\ keeps = held
        \/ op = "solve" /\ type # "failed" /\ ~keeps /\ cleanup # "reuse"
        \/ op = "solve" /\ type = "completed" /\ keeps /\ cleanup = "reuse"
    BY <1>1, <1>2, Zenon
  <2> QED  BY <2>1, Outcome
<1>4. o.type = type /\ o.cleanup = cleanup /\ o.keeps = keeps
  OBVIOUS
<1> HIDE DEF o
<1>5. output' = Append(output, [type |-> o.type, cleanup |-> o.cleanup])
  BY <1>4 DEF Emit
<1>6. o \in Outcomes(command.operation, Retained)
  BY <1>1, <1>3
<1> QED  BY <1>2, <1>4, <1>5, <1>6, Finishes

\* A step of the loop, the client or the end of the process, as one of the
\* abstract worker.
LEMMA ChildStep ==
    ASSUME LoopInv, Doing, [Next]_vars
    PROVE  Child!Next \/ UNCHANGED <<Phase, Pending, output, Retained>>
<1>t. /\ input \in Seq(Commands) /\ command \in Commands /\ kept \in BOOLEAN
      /\ pc \in LoopStates
  BY DEF LoopInv, CommandTypes, Counted
<1> USE DEF Doing
\* What does not print, nor reach or leave a rest, nor touch the caches.
<1>1. ASSUME Working, Working', UNCHANGED <<command, input, output, kept>>
      PROVE  UNCHANGED <<Phase, Pending, output, Retained>>
  <2>1. Phase' = Phase /\ Pending' = Pending
    BY <1>1, AtWork
  <2>2. Retained' = Retained
    BY <1>1 DEF Retained, Working
  <2> QED  BY <1>1, <2>1, <2>2
<1>2. ASSUME Working, Working', UNCHANGED <<command, input, kept>>, Emit("progress", "none")
      PROVE  Child!Next
  <2>1. Phase = "up" /\ Phase' = Phase /\ Pending # << >> /\ Pending' = Pending
    BY <1>2, AtWork
  <2>2. Retained' = Retained
    BY <1>2 DEF Retained, Working
  <2>3. Child!Report
    BY <1>2, <2>1, <2>2 DEF Emit, Child!Report, Child!Emit
  <2> QED  BY <2>3 DEF Child!Next
<1>3. CASE Announce
  <2>1. Pending' = Pending /\ Retained' = Retained
    BY <1>3 DEF Announce, Pending, Retained, Working
  <2>2. Phase = "booting" /\ Phase' = "up"
    BY <1>3 DEF Announce, Phase
  <2>3. Child!Announce
    BY <1>3, <2>1, <2>2 DEF Announce, Emit, Child!Announce, Child!Emit
  <2> QED  BY <2>3 DEF Child!Next
<1>4. CASE Fetch
  <2>1. /\ input # << >> /\ command' = Head(input) /\ input' = Tail(input) /\ pc = "idle"
        /\ pc' \in {command'.operation, "failing"} /\ UNCHANGED <<output, kept>>
    BY <1>4 DEF Fetch
  <2>2. pc' \in {"solve", "bem_field", "reclaim", "failing"}
    <3>1. command' \in Commands
      BY <1>t, <2>1
    <3> QED  BY <2>1, <3>1, Three
  <2>3. ~Working /\ Working'
    BY <2>1, <2>2 DEF Working
  <2>4. Pending = OperationsOf(input)
    BY <2>3 DEF Pending
  <2>5. Pending' = << command'.operation >> \o OperationsOf(input')
    BY <2>3 DEF Pending
  <2>6. Pending' = Pending
    <3>1. OperationsOf(input) = << Head(input).operation >> \o OperationsOf(Tail(input))
      BY <1>t, <2>1, OperationsRead
    <3> QED  BY <2>1, <2>4, <2>5, <3>1
  <2>7. Phase' = Phase /\ Retained' = Retained
    BY <2>1, <2>2 DEF Phase, Retained
  <2> QED  BY <2>1, <2>6, <2>7
<1>5. CASE ReclaimOnCommand
  <2>1. kept' = FALSE /\ pc = "reclaim" /\ pc' = "idle" /\ UNCHANGED <<input, command>>
        /\ Emit("completed", "full")
    BY <1>5 DEF ReclaimOnCommand, Reclaim
  <2>2. ~Retained' /\ Retained' \in BOOLEAN
    BY <2>1 DEF Retained
  <2>3. Working
    BY <2>1 DEF Working
  <2>4. Child!Finish
    BY <2>1, <2>2, <2>3, Ends
  <2> QED  BY <2>4 DEF Child!Next
<1>6. CASE StartSolve
  <2>1. /\ pc = "solve" /\ UNCHANGED <<input, command, output>>
        /\ \/ pc' = "solving" /\ kept' = TRUE
           \/ pc' = "failing" /\ kept' = kept
    BY <1>6, Zenon DEF StartSolve, Throw
  <2>2. Working /\ Working'
    BY <2>1 DEF Working
  <2>3. CASE pc' = "failing" /\ kept' = kept
    BY <1>1, <2>1, <2>2, <2>3
  <2>4. CASE pc' = "solving" /\ kept' = TRUE
    <3>1. Phase = "up" /\ Phase' = Phase /\ Pending # << >> /\ Pending' = Pending
          /\ Head(Pending) = "solve"
      BY <2>1, <2>2, AtWork
    <3>2. Retained' = TRUE
      BY <2>4 DEF Retained
    <3>3. Child!Fill
      BY <2>1, <3>1, <3>2 DEF Child!Fill
    <3> QED  BY <3>3 DEF Child!Next
  <2> QED  BY <2>1, <2>3, <2>4
<1>7. CASE PrintResult
  BY <1>2, <1>7 DEF PrintResult, Working
<1>8. CASE EndSolve
  BY <1>1, <1>8 DEF EndSolve, Throw, Working
<1>9. CASE AnswerFirst
  <2>1. pc = "clean" /\ pc' = "reclaiming" /\ UNCHANGED <<input, command>>
        /\ Emit("completed", "none")
    BY <1>9 DEF AnswerFirst
  <2>2. ~Retained' /\ Retained' \in BOOLEAN
    BY <2>1 DEF Retained
  <2>3. Working
    BY <2>1 DEF Working
  <2>4. Child!Finish
    BY <2>1, <2>2, <2>3, Ends
  <2> QED  BY <2>4 DEF Child!Next
<1>10. CASE FinishAggressive
  <2>1. kept' = FALSE /\ pc = "reclaiming" /\ pc' = "idle" /\ UNCHANGED <<input, command, output>>
    BY <1>10 DEF FinishAggressive, Reclaim
  <2>2. Retained = FALSE /\ Retained' = FALSE
    BY <2>1 DEF Retained
  <2>3. Phase' = Phase /\ Pending' = Pending
    BY <2>1 DEF Phase, Pending, Working
  <2> QED  BY <2>1, <2>2, <2>3
<1>11. CASE KeepCaches
  <2>1. pc = "clean" /\ UNCHANGED <<input, command, kept>> /\ kept
    BY <1>11 DEF KeepCaches, LoopInv, Counted
  <2>2. Working
    BY <2>1 DEF Working
  <2>3. CASE pc' = "idle" /\ Emit("completed", "reuse")
    <3>1. Retained' /\ Retained' \in BOOLEAN
      BY <1>t, <2>1, <2>3 DEF Retained
    <3>2. Child!Finish
      BY <2>1, <2>2, <2>3, <3>1, Ends
    <3> QED  BY <3>2 DEF Child!Next
  <2>4. CASE pc' = "failing" /\ UNCHANGED output
    BY <1>1, <2>1, <2>2, <2>4 DEF Working
  <2> QED  BY <1>11, <2>3, <2>4 DEF KeepCaches, Throw
<1>12. CASE CleanFully
  <2>1. kept' = FALSE /\ pc = "clean" /\ pc' = "idle" /\ UNCHANGED <<input, command>>
    BY <1>12 DEF CleanFully, Reclaim
  <2>2. PICK type \in {"completed", "cancelled"}, cleanup \in {"full", "none"} : Emit(type, cleanup)
    BY <1>12 DEF CleanFully
  <2>3. ~Retained' /\ Retained' \in BOOLEAN
    BY <2>1 DEF Retained
  <2>4. Working
    BY <2>1 DEF Working
  <2>5. Child!Finish
    BY <2>1, <2>2, <2>3, <2>4, Ends
  <2> QED  BY <2>5 DEF Child!Next
<1>13. CASE LookUp \/ Evict
  BY <1>1, <1>13 DEF LookUp, Evict, Throw, Working
<1>14. CASE Evaluate
  BY <1>1, <1>2, <1>14 DEF Evaluate, Throw, Working
<1>15. CASE CompleteField
  <2>1. pc = "evaluated" /\ pc' = "idle" /\ UNCHANGED <<input, command, kept>>
        /\ Emit("completed", "none")
    BY <1>15 DEF CompleteField
  <2>2. Retained' = Retained /\ Retained' \in BOOLEAN
    BY <1>t, <2>1 DEF Retained
  <2>3. Working /\ command.operation = "bem_field"
    BY <2>1 DEF Working, LoopInv, Compared, FieldStates
  <2>4. Child!Finish
    BY <2>1, <2>2, <2>3, Ends
  <2> QED  BY <2>4 DEF Child!Next
<1>16. CASE Fail
  <2>1. kept' = FALSE /\ pc = "failing" /\ pc' = "idle" /\ UNCHANGED <<input, command>>
        /\ Emit("failed", "none")
    BY <1>16 DEF Fail, Reported, Reclaim
  <2>2. ~Retained' /\ Retained' \in BOOLEAN
    BY <2>1 DEF Retained
  <2>3. Working
    BY <2>1 DEF Working
  <2>4. Child!Finish
    BY <2>1, <2>2, <2>3, Ends
  <2> QED  BY <2>4 DEF Child!Next
<1>17. CASE Die
  <2>1. pc # "gone" /\ pc' = "gone" /\ input' = << >> /\ kept' = FALSE /\ output' = output
    BY <1>17 DEF Die
  <2>2. Phase # "gone" /\ Phase' = "gone" /\ Retained' = FALSE
    BY <2>1 DEF Phase, Retained
  <2>3. Pending' = << >>
    <3>1. << >> \in Seq(Commands) /\ Len(<< >>) = 0
      OBVIOUS
    <3>2. OperationsOf(<< >>) \in Seq(Operations) /\ Len(OperationsOf(<< >>)) = 0
      BY <3>1, OperationsType
    <3>3. OperationsOf(<< >>) = << >>
      BY <3>2, EmptySeq
    <3> QED  BY <2>1, <3>3 DEF Pending, Working
  <2>4. Child!Die
    BY <2>1, <2>2, <2>3 DEF Child!Die
  <2> QED  BY <2>4 DEF Child!Next
<1>18. CASE WriteCommand
  <2>1. PICK c \in Commands : input' = Append(input, c)
    BY <1>18 DEF WriteCommand
  <2>2. pc # "gone" /\ UNCHANGED <<pc, command, output, kept>>
    BY <1>18 DEF WriteCommand
  <2>3. Phase # "gone" /\ Phase' = Phase /\ Retained' = Retained
    BY <2>2 DEF Phase, Retained
  <2> DEFINE q == OperationsOf(input)
  <2>4. PICK op \in Operations : op = c.operation
    BY Three DEF Operations
  <2>5. q \in Seq(Operations) /\ OperationsOf(input') = Append(q, op)
    BY <1>t, <2>1, <2>4, OperationsType, OperationsWritten
  <2> HIDE DEF q
  <2>6. Pending' = Append(Pending, op)
    <3>1. CASE ~Working
      BY <2>2, <2>5, <3>1 DEF Pending, Working, q
    <3>2. CASE Working
      <4>1. PICK o \in Operations : o = command.operation
        BY <1>t, Three DEF Operations
      <4>2. Pending = << o >> \o q /\ Pending' = << o >> \o Append(q, op)
        BY <2>2, <2>5, <3>2, <4>1 DEF Pending, Working, q
      <4>3. << o >> \o Append(q, op) = Append(<< o >> \o q, op)
        BY <2>5, Before
      <4> QED  BY <4>2, <4>3
    <3> QED  BY <3>1, <3>2
  <2>7. Child!Write
    BY <2>2, <2>3, <2>6 DEF Child!Write, Operations
  <2> QED  BY <2>7 DEF Child!Next
<1>19. CASE ReadEvent
  <2>1. UNCHANGED <<Phase, Pending, Retained>>
    BY <1>19 DEF ReadEvent, Phase, Pending, Retained, Working
  <2>2. Child!Read
    BY <1>19, <2>1 DEF ReadEvent, Child!Read
  <2> QED  BY <2>2 DEF Child!Next
<1>20. CASE UNCHANGED vars
  BY <1>20 DEF vars, Phase, Pending, Retained, Working
<1> QED
  BY <1>3, <1>4, <1>5, <1>6, <1>7, <1>8, <1>9, <1>10, <1>11, <1>12, <1>13, <1>14, <1>15,
     <1>16, <1>17, <1>18, <1>19, <1>20 DEF Next, Advance, Over

LEMMA ChildInit ==
    ASSUME Init
    PROVE  Child!Init
<1>1. << >> \in Seq(Commands) /\ Len(<< >>) = 0
  OBVIOUS
<1>2. OperationsOf(<< >>) \in Seq(Operations) /\ Len(OperationsOf(<< >>)) = 0
  BY <1>1, OperationsType
<1>3. OperationsOf(<< >>) = << >>
  BY <1>2, EmptySeq
<1>4. pc = "boot" /\ input = << >> /\ output = << >> /\ kept = FALSE
  BY DEF Init
<1> QED  BY <1>3, <1>4 DEF Child!Init, Phase, Pending, Retained, Working

\* The command loop implements the worker the transport relies on: one terminal
\* event for every command, in order, whatever throws, and true reports of the
\* caches it keeps.
THEOREM Refining == Spec => KeepsPromise
<1>1. Init => Child!Init
  BY ChildInit
<1>2. Init => Doing
  BY DEF Init, Doing
<1>3. LoopInv /\ Doing /\ [Next]_vars => Doing'
  BY DoingStep
<1>4. LoopInv /\ Doing /\ [Next]_vars => [Child!Next]_(Child!childVars)
  BY ChildStep DEF Child!childVars
<1> QED  BY <1>1, <1>2, <1>3, <1>4, Invariance, PTL DEF Spec, KeepsPromise, Child!Spec
=============================================================================
