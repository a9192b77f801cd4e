---------------------------- MODULE ClientProofs ----------------------------
(***************************************************************************)
(* Proofs about the contract and the worker that negotiates: what a        *)
(* request has when every look at it passes, in what words it is refused   *)
(* when one does not, and what a caller is handed.                         *)
(***************************************************************************)
EXTENDS ClientProperties, FiniteSetTheorems, SequenceTheorems, WellFoundedInduction, TLAPS

-----------------------------------------------------------------------------
(* Looks, one after the other. *)

Good(look) == look.found /\ look.holds
Passes(looks) == \A i \in DOMAIN looks : Good(looks[i])

\* A look that finds nothing comes after one that has ended it.
Careful(looks) ==
    \A i \in DOMAIN looks : ~looks[i].found => \E k \in 1 .. i - 1 : ~Good(looks[k])

Listed(list) == \E S : list \in Seq(S)

\* A set of numbers has a least one.
LEMMA Least ==
    ASSUME NEW T, T \subseteq Nat, T # {}
    PROVE  \E n \in T : \A m \in T : n <= m
<1> DEFINE R == OpToRel(<, Nat)
<1>1. IsWellFoundedOn(R, Nat)
  BY NatLessThanWellFounded DEF OpToRel
<1>2. \A m, n \in Nat : m < n => <<m, n>> \in R
  BY DEF OpToRel
<1> HIDE DEF R
<1>3. PICK n \in T : \A m \in T : ~(<<m, n>> \in R)
  BY <1>1, WFMin
<1>4. ASSUME NEW m \in T PROVE n <= m
  <2>1. m \in Nat /\ n \in Nat
    OBVIOUS
  <2>2. ~(m < n)
    BY <1>2, <1>3, <2>1
  <2> QED
    BY <2>1, <2>2
<1> QED
  BY <1>4

\* A request is accepted when every look passes,
LEMMA Ok ==
    ASSUME NEW looks
    PROVE  Verdict(looks) = "ok" <=> Passes(looks)
<1> DEFINE bad == {i \in DOMAIN looks : ~looks[i].found \/ ~looks[i].holds}
<1>1. Verdict(looks) = "ok" <=> bad = {}
  BY DEF Verdict
<1>2. bad = {} <=> Passes(looks)
  BY Zenon DEF Passes, Good
<1> QED
  BY <1>1, <1>2

\* and refused in words when no look is made before what it needs is found.
LEMMA InWords ==
    ASSUME NEW looks, Listed(looks), Careful(looks)
    PROVE  Verdict(looks) \in {"ok", "refused"}
<1> DEFINE bad == {i \in DOMAIN looks : ~looks[i].found \/ ~looks[i].holds}
           first == CHOOSE i \in bad : \A j \in bad : i <= j
<1>1. CASE bad = {}
  BY <1>1 DEF Verdict
<1>2. CASE bad # {}
  <2>1. DOMAIN looks \subseteq Nat /\ \A i \in DOMAIN looks : 1 .. i - 1 \subseteq DOMAIN looks
    BY DEF Listed
  <2>2. \E i \in bad : \A j \in bad : i <= j
    BY <1>2, <2>1, Least
  <2>3. first \in bad /\ \A j \in bad : first <= j
    BY <2>2
  <2>4. \A i \in DOMAIN looks : ~Good(looks[i]) => i \in bad
    BY DEF Good
  <2>5. Verdict(looks) = IF looks[first].found THEN "refused" ELSE "KeyError"
    BY <1>2 DEF Verdict
  <2> HIDE DEF first
  <2>6. first \in DOMAIN looks
    BY <2>3
  <2> HIDE DEF bad
  <2>7. looks[first].found
    <3>1. SUFFICES ASSUME ~looks[first].found PROVE FALSE
      OBVIOUS
    <3>2. PICK k \in 1 .. first - 1 : ~Good(looks[k])
      BY <3>1, <2>6 DEF Careful
    <3>3. k \in bad
      BY <2>1, <2>4, <2>6, <3>2
    <3>4. first \in Nat /\ k \in Nat /\ k < first
      BY <2>1, <2>6
    <3> QED
      BY <2>3, <3>3, <3>4
  <2> QED
    BY <2>5, <2>7
<1> QED
  BY <1>1, <1>2

\* A look asks for what it holds.
LEMMA Asking ==
    ASSUME NEW P, NEW Q, Good(Look(P, Q))
    PROVE  P /\ Q
BY Zenon DEF Good, Look

LEMMA Demanding ==
    ASSUME NEW P, Good(Demand(P))
    PROVE  P
BY Zenon DEF Good, Look, Demand

LEMMA Finding ==
    ASSUME NEW P, NEW Q
    PROVE  Demand(P).found /\ (P => Look(P, Q).found)
BY Zenon DEF Demand, Look

\* Of one sequence of looks after another.
LEMMA Concat ==
    ASSUME NEW s, NEW t, Listed(s), Listed(t)
    PROVE  /\ Listed(s \o t)
           /\ Passes(s \o t) <=> Passes(s) /\ Passes(t)
           /\ Careful(s) /\ Careful(t) => Careful(s \o t)
<1>1. PICK S : s \in Seq(S) /\ t \in Seq(S)
  <2>1. PICK S, T : s \in Seq(S) /\ t \in Seq(T)
    BY DEF Listed
  <2>2. s \in Seq(S \cup T) /\ t \in Seq(S \cup T)
    BY <2>1
  <2> QED
    BY <2>2
<1> DEFINE n == Len(s)
           u == s \o t
<1>2. /\ u \in Seq(S) /\ n \in Nat /\ Len(t) \in Nat
      /\ DOMAIN s = 1 .. n /\ DOMAIN t = 1 .. Len(t) /\ DOMAIN u = 1 .. n + Len(t)
      /\ \A i \in 1 .. n : u[i] = s[i]
      /\ \A i \in 1 .. Len(t) : u[n + i] = t[i]
  BY <1>1
<1>3. \A i \in DOMAIN u : i \in 1 .. n \/ (i - n \in 1 .. Len(t) /\ u[i] = t[i - n])
  BY <1>2
<1> HIDE DEF n, u
<1>4. Listed(u)
  BY <1>2 DEF Listed
<1>5. ASSUME Passes(u) PROVE Passes(s) /\ Passes(t)
  <2>1. \A i \in 1 .. n : i \in DOMAIN u
    BY <1>2
  <2>2. \A i \in 1 .. Len(t) : n + i \in DOMAIN u
    BY <1>2
  <2> QED
    BY <1>2, <1>5, <2>1, <2>2 DEF Passes
<1>7. ASSUME Passes(s), Passes(t) PROVE Passes(u)
  BY <1>2, <1>3, <1>7 DEF Passes
<1>6. ASSUME Careful(s), Careful(t) PROVE Careful(u)
  <2>1. SUFFICES ASSUME NEW i \in DOMAIN u, ~u[i].found
                 PROVE  \E k \in 1 .. i - 1 : ~Good(u[k])
    BY DEF Careful
  <2>2. CASE i \in 1 .. n
    <3>1. PICK k \in 1 .. i - 1 : ~Good(s[k])
      BY <1>2, <1>6, <2>1, <2>2 DEF Careful
    <3>2. u[k] = s[k]
      BY <1>2, <2>2
    <3> QED
      BY <3>1, <3>2
  <2>3. CASE i - n \in 1 .. Len(t) /\ u[i] = t[i - n]
    <3>1. PICK k \in 1 .. (i - n) - 1 : ~Good(t[k])
      BY <1>2, <1>6, <2>1, <2>3 DEF Careful
    <3>2. k \in 1 .. Len(t) /\ n + k \in 1 .. i - 1
      BY <1>2, <2>3
    <3>3. u[n + k] = t[k]
      BY <1>2, <3>2
    <3> QED
      BY <3>1, <3>2, <3>3
  <2> QED
    BY <1>3, <2>2, <2>3
<1> QED
  BY <1>4, <1>5, <1>6, <1>7 DEF u

\* Of the looks at each item of a list.
Upto(seqs, g, i) == IF i = 1 THEN seqs[i] ELSE g[i - 1] \o seqs[i]

LEMMA FlattenRecursion ==
    ASSUME NEW seqs, NEW T, seqs \in Seq(T), Len(seqs) # 0
    PROVE  \E f : /\ f = [i \in 1 .. Len(seqs) |-> Upto(seqs, f, i)]
                  /\ FlattenSeq(seqs) = f[Len(seqs)]
<1> DEFINE n == Len(seqs)
           Bad == {i \in Nat : ~\E g : g = [j \in 1 .. i |-> Upto(seqs, g, j)]}
<1>1. Bad = {}
  <2>1. SUFFICES ASSUME Bad # {} PROVE FALSE
    OBVIOUS
  <2>2. PICK i \in Bad : \A m \in Bad : i <= m
    BY <2>1, Least
  <2>3. CASE i = 0
    <3> DEFINE g == [j \in 1 .. 0 |-> << >>]
    <3>1. g = [j \in 1 .. 0 |-> Upto(seqs, g, j)]
      OBVIOUS
    <3> HIDE DEF g
    <3> QED
      BY <2>3, <3>1
  <2>4. CASE i # 0
    <3>1. i \in Nat /\ i - 1 \in Nat /\ ~(i <= i - 1)
      BY <2>4
    <3>2. i - 1 \notin Bad
      BY <2>2, <3>1
    <3>3. PICK g : g = [j \in 1 .. i - 1 |-> Upto(seqs, g, j)]
      BY <3>1, <3>2
    <3> DEFINE h == [j \in 1 .. i |-> IF j = i THEN Upto(seqs, g, j) ELSE g[j]]
    <3>4. ASSUME NEW j \in 1 .. i PROVE h[j] = Upto(seqs, h, j)
      <4>1. j # 1 => j - 1 \in 1 .. i /\ j - 1 # i /\ h[j - 1] = g[j - 1]
        BY <3>1
      <4>2. h[j] = Upto(seqs, g, j)
        BY <3>1, <3>3, SMTT(30)
      <4> HIDE DEF h
      <4> QED
        BY <4>1, <4>2 DEF Upto
    <3>5. h = [j \in 1 .. i |-> h[j]]
      OBVIOUS
    <3> HIDE DEF h
    <3>6. h = [j \in 1 .. i |-> Upto(seqs, h, j)]
      BY <3>4, <3>5
    <3> QED
      BY <3>6
  <2> QED
    BY <2>3, <2>4
<1>2. \E g : g = [j \in 1 .. n |-> Upto(seqs, g, j)]
  BY <1>1
<1> DEFINE f == CHOOSE g : g = [i \in 1 .. n |-> Upto(seqs, g, i)]
<1>3. f = [i \in 1 .. n |-> Upto(seqs, f, i)]
  BY <1>2
<1>4. FlattenSeq(seqs) = f[n]
  BY DEF FlattenSeq, Upto
<1> HIDE DEF f
<1> QED
  BY <1>3, <1>4

LEMMA Flatten ==
    ASSUME NEW seqs, Listed(seqs), \A i \in DOMAIN seqs : Listed(seqs[i])
    PROVE  /\ Listed(FlattenSeq(seqs))
           /\ Passes(FlattenSeq(seqs)) => \A i \in DOMAIN seqs : Passes(seqs[i])
           /\ (\A i \in DOMAIN seqs : Careful(seqs[i])) => Careful(FlattenSeq(seqs))
<1>1. PICK T : seqs \in Seq(T)
  BY DEF Listed
<1>2. CASE Len(seqs) = 0
  <2>1. FlattenSeq(seqs) = seqs /\ DOMAIN seqs = {}
    BY <1>1, <1>2 DEF FlattenSeq
  <2> QED
    BY <2>1 DEF Passes, Careful
<1>3. CASE Len(seqs) # 0
  <2>1. PICK f : /\ f = [i \in 1 .. Len(seqs) |-> Upto(seqs, f, i)]
                 /\ FlattenSeq(seqs) = f[Len(seqs)]
    BY <1>1, <1>3, FlattenRecursion
  <2> DEFINE n == Len(seqs)
             Fine(i) == /\ Listed(f[i])
                        /\ Passes(f[i]) => \A k \in 1 .. i : Passes(seqs[k])
                        /\ (\A k \in 1 .. i : Careful(seqs[k])) => Careful(f[i])
             Bad == {i \in 1 .. n : ~Fine(i)}
  <2>2. n \in Nat /\ n \in 1 .. n /\ DOMAIN seqs = 1 .. n
    BY <1>1, <1>3
  <2>3. Bad = {}
    <3>1. SUFFICES ASSUME Bad # {} PROVE FALSE
      OBVIOUS
    <3>2. PICK i \in Bad : \A m \in Bad : i <= m
      <4>1. Bad \subseteq Nat
        BY <2>2
      <4> HIDE DEF Bad
      <4> QED
        BY <3>1, <4>1, Least
    <3>3. f[i] = IF i = 1 THEN seqs[i] ELSE f[i - 1] \o seqs[i]
      BY <2>1 DEF Upto
    <3>4. CASE i = 1
      <4>1. 1 .. i = {1} /\ f[i] = seqs[1] /\ 1 \in DOMAIN seqs
        BY <3>3, <3>4, <2>2
      <4> QED
        BY <4>1, <3>4
    <3>5. CASE i # 1
      <4>1. i - 1 \in 1 .. n /\ ~(i <= i - 1) /\ i \in 1 .. n
        BY <2>2, <3>5
      <4>2. Fine(i - 1)
        BY <3>2, <4>1
      <4>3. f[i] = f[i - 1] \o seqs[i] /\ Listed(seqs[i])
        BY <3>3, <3>5, <2>2, <4>1
      <4> DEFINE s == f[i - 1]
                 t == seqs[i]
      <4>4. \A k \in 1 .. i : k = i \/ k \in 1 .. i - 1
        BY <4>1, <2>2
      <4>5. \A k \in 1 .. i - 1 : k \in 1 .. i
        BY <4>1, <2>2
      <4>6. i \in 1 .. i
        BY <4>1, <2>2
      <4>7. /\ Listed(s \o t)
            /\ Passes(s \o t) => Passes(s) /\ Passes(t)
            /\ Careful(s) /\ Careful(t) => Careful(s \o t)
        <5> HIDE DEF s, t
        <5>1. Listed(s) /\ Listed(t)
          BY <4>2, <4>3 DEF s, t
        <5> QED
          BY <5>1, Concat
      <4>8. Fine(i)
        BY <4>2, <4>3, <4>4, <4>5, <4>6, <4>7
      <4> HIDE DEF Fine
      <4> QED
        BY <4>8
    <3> QED
      BY <3>4, <3>5
  <2>4. Fine(n)
    BY <2>2, <2>3
  <2> QED
    BY <2>1, <2>2, <2>4
<1> QED
  BY <1>2, <1>3

\* Looks that are written down: each is good when they pass, and it is enough
\* that each finds what it looks at when those before it are good.
LEMMA Of1 ==
    ASSUME NEW a
    PROVE  /\ Listed(<<a>>)
           /\ Passes(<<a>>) =>
                Good(a)
           /\ (a.found)
                => Careful(<<a>>)
<1> DEFINE looks == <<a>>
<1>1. /\ DOMAIN looks = 1 .. 1
      /\ looks[1] = a
  OBVIOUS
<1>2. looks \in Seq({a})
  OBVIOUS
<1> HIDE DEF looks
<1>3. \A n \in 1 .. 1 : n = 1
  OBVIOUS
<1>4. Listed(looks)
  BY <1>2 DEF Listed
<1>5. Passes(looks) => Good(a)
  BY <1>1 DEF Passes
<1>6. ASSUME a.found
      PROVE  Careful(looks)
  BY <1>1, <1>6 DEF Careful
<1> QED
  BY <1>4, <1>5, <1>6 DEF looks

LEMMA Of2 ==
    ASSUME NEW a, NEW b
    PROVE  /\ Listed(<<a, b>>)
           /\ Passes(<<a, b>>) =>
                Good(a) /\ Good(b)
           /\ (a.found
               /\ (Good(a) => b.found))
                => Careful(<<a, b>>)
<1> DEFINE looks == <<a, b>>
<1>1. /\ DOMAIN looks = 1 .. 2
      /\ looks[1] = a /\ looks[2] = b
  OBVIOUS
<1>2. looks \in Seq({a, b})
  OBVIOUS
<1> HIDE DEF looks
<1>3. \A n \in 1 .. 2 : n = 1 \/ n = 2
  OBVIOUS
<1>4. Listed(looks)
  BY <1>2 DEF Listed
<1>5. Passes(looks) => Good(a) /\ Good(b)
  BY <1>1 DEF Passes
<1>6. ASSUME /\ a.found
             /\ (Good(a) => b.found)
      PROVE  Careful(looks)
  <2>1. \A n, k \in 1 .. 2 : k < n => k \in 1 .. n - 1
    OBVIOUS
  <2>2. SUFFICES ASSUME NEW n \in 1 .. 2, ~looks[n].found
                 PROVE  \E k \in 1 .. 2 : k < n /\ ~Good(looks[k])
    BY <1>1, <2>1 DEF Careful
  <2> QED
    BY <1>1, <1>3, <1>6, <2>2
<1> QED
  BY <1>4, <1>5, <1>6 DEF looks

LEMMA Of3 ==
    ASSUME NEW a, NEW b, NEW c
    PROVE  /\ Listed(<<a, b, c>>)
           /\ Passes(<<a, b, c>>) =>
                Good(a) /\ Good(b) /\ Good(c)
           /\ (a.found
               /\ (Good(a) => b.found)
               /\ (Good(a) /\ Good(b) => c.found))
                => Careful(<<a, b, c>>)
<1> DEFINE looks == <<a, b, c>>
<1>1. /\ DOMAIN looks = 1 .. 3
      /\ looks[1] = a /\ looks[2] = b /\ looks[3] = c
  OBVIOUS
<1>2. looks \in Seq({a, b, c})
  OBVIOUS
<1> HIDE DEF looks
<1>3. \A n \in 1 .. 3 : n = 1 \/ n = 2 \/ n = 3
  OBVIOUS
<1>4. Listed(looks)
  BY <1>2 DEF Listed
<1>5. Passes(looks) => Good(a) /\ Good(b) /\ Good(c)
  BY <1>1 DEF Passes
<1>6. ASSUME /\ a.found
             /\ (Good(a) => b.found)
             /\ (Good(a) /\ Good(b) => c.found)
      PROVE  Careful(looks)
  <2>1. \A n, k \in 1 .. 3 : k < n => k \in 1 .. n - 1
    OBVIOUS
  <2>2. SUFFICES ASSUME NEW n \in 1 .. 3, ~looks[n].found
                 PROVE  \E k \in 1 .. 3 : k < n /\ ~Good(looks[k])
    BY <1>1, <2>1 DEF Careful
  <2> QED
    BY <1>1, <1>3, <1>6, <2>2
<1> QED
  BY <1>4, <1>5, <1>6 DEF looks

LEMMA Of4 ==
    ASSUME NEW a, NEW b, NEW c, NEW d
    PROVE  /\ Listed(<<a, b, c, d>>)
           /\ Passes(<<a, b, c, d>>) =>
                Good(a) /\ Good(b) /\ Good(c) /\ Good(d)
           /\ (a.found
               /\ (Good(a) => b.found)
               /\ (Good(a) /\ Good(b) => c.found)
               /\ (Good(a) /\ Good(b) /\ Good(c) => d.found))
                => Careful(<<a, b, c, d>>)
<1> DEFINE looks == <<a, b, c, d>>
<1>1. /\ DOMAIN looks = 1 .. 4
      /\ looks[1] = a /\ looks[2] = b /\ looks[3] = c /\ looks[4] = d
  OBVIOUS
<1>2. looks \in Seq({a, b, c, d})
  OBVIOUS
<1> HIDE DEF looks
<1>3. \A n \in 1 .. 4 : n = 1 \/ n = 2 \/ n = 3 \/ n = 4
  OBVIOUS
<1>4. Listed(looks)
  BY <1>2 DEF Listed
<1>5. Passes(looks) => Good(a) /\ Good(b) /\ Good(c) /\ Good(d)
  BY <1>1 DEF Passes
<1>6. ASSUME /\ a.found
             /\ (Good(a) => b.found)
             /\ (Good(a) /\ Good(b) => c.found)
             /\ (Good(a) /\ Good(b) /\ Good(c) => d.found)
      PROVE  Careful(looks)
  <2>1. \A n, k \in 1 .. 4 : k < n => k \in 1 .. n - 1
    OBVIOUS
  <2>2. SUFFICES ASSUME NEW n \in 1 .. 4, ~looks[n].found
                 PROVE  \E k \in 1 .. 4 : k < n /\ ~Good(looks[k])
    BY <1>1, <2>1 DEF Careful
  <2> QED
    BY <1>1, <1>3, <1>6, <2>2
<1> QED
  BY <1>4, <1>5, <1>6 DEF looks

LEMMA Of5 ==
    ASSUME NEW a, NEW b, NEW c, NEW d, NEW e
    PROVE  /\ Listed(<<a, b, c, d, e>>)
           /\ Passes(<<a, b, c, d, e>>) =>
                Good(a) /\ Good(b) /\ Good(c) /\ Good(d) /\ Good(e)
           /\ (a.found
               /\ (Good(a) => b.found)
               /\ (Good(a) /\ Good(b) => c.found)
               /\ (Good(a) /\ Good(b) /\ Good(c) => d.found)
               /\ (Good(a) /\ Good(b) /\ Good(c) /\ Good(d) => e.found))
                => Careful(<<a, b, c, d, e>>)
<1> DEFINE looks == <<a, b, c, d, e>>
<1>1. /\ DOMAIN looks = 1 .. 5
      /\ looks[1] = a /\ looks[2] = b /\ looks[3] = c /\ looks[4] = d /\ looks[5] = e
  OBVIOUS
<1>2. looks \in Seq({a, b, c, d, e})
  OBVIOUS
<1> HIDE DEF looks
<1>3. \A n \in 1 .. 5 : n = 1 \/ n = 2 \/ n = 3 \/ n = 4 \/ n = 5
  OBVIOUS
<1>4. Listed(looks)
  BY <1>2 DEF Listed
<1>5. Passes(looks) => Good(a) /\ Good(b) /\ Good(c) /\ Good(d) /\ Good(e)
  BY <1>1 DEF Passes
<1>6. ASSUME /\ a.found
             /\ (Good(a) => b.found)
             /\ (Good(a) /\ Good(b) => c.found)
             /\ (Good(a) /\ Good(b) /\ Good(c) => d.found)
             /\ (Good(a) /\ Good(b) /\ Good(c) /\ Good(d) => e.found)
      PROVE  Careful(looks)
  <2>1. \A n, k \in 1 .. 5 : k < n => k \in 1 .. n - 1
    OBVIOUS
  <2>2. SUFFICES ASSUME NEW n \in 1 .. 5, ~looks[n].found
                 PROVE  \E k \in 1 .. 5 : k < n /\ ~Good(looks[k])
    BY <1>1, <2>1 DEF Careful
  <2> QED
    BY <1>1, <1>3, <1>6, <2>2
<1> QED
  BY <1>4, <1>5, <1>6 DEF looks

LEMMA Of6 ==
    ASSUME NEW a, NEW b, NEW c, NEW d, NEW e, NEW f
    PROVE  /\ Listed(<<a, b, c, d, e, f>>)
           /\ Passes(<<a, b, c, d, e, f>>) =>
                Good(a) /\ Good(b) /\ Good(c) /\ Good(d) /\ Good(e) /\ Good(f)
           /\ (a.found
               /\ (Good(a) => b.found)
               /\ (Good(a) /\ Good(b) => c.found)
               /\ (Good(a) /\ Good(b) /\ Good(c) => d.found)
               /\ (Good(a) /\ Good(b) /\ Good(c) /\ Good(d) => e.found)
               /\ (Good(a) /\ Good(b) /\ Good(c) /\ Good(d) /\ Good(e) => f.found))
                => Careful(<<a, b, c, d, e, f>>)
<1> DEFINE looks == <<a, b, c, d, e, f>>
<1>1. /\ DOMAIN looks = 1 .. 6
      /\ looks[1] = a /\ looks[2] = b /\ looks[3] = c /\ looks[4] = d /\ looks[5] = e /\ looks[6] = f
  OBVIOUS
<1>2. looks \in Seq({a, b, c, d, e, f})
  OBVIOUS
<1> HIDE DEF looks
<1>3. \A n \in 1 .. 6 : n = 1 \/ n = 2 \/ n = 3 \/ n = 4 \/ n = 5 \/ n = 6
  OBVIOUS
<1>4. Listed(looks)
  BY <1>2 DEF Listed
<1>5. Passes(looks) => Good(a) /\ Good(b) /\ Good(c) /\ Good(d) /\ Good(e) /\ Good(f)
  BY <1>1 DEF Passes
<1>6. ASSUME /\ a.found
             /\ (Good(a) => b.found)
             /\ (Good(a) /\ Good(b) => c.found)
             /\ (Good(a) /\ Good(b) /\ Good(c) => d.found)
             /\ (Good(a) /\ Good(b) /\ Good(c) /\ Good(d) => e.found)
             /\ (Good(a) /\ Good(b) /\ Good(c) /\ Good(d) /\ Good(e) => f.found)
      PROVE  Careful(looks)
  <2>1. \A n, k \in 1 .. 6 : k < n => k \in 1 .. n - 1
    OBVIOUS
  <2>2. SUFFICES ASSUME NEW n \in 1 .. 6, ~looks[n].found
                 PROVE  \E k \in 1 .. 6 : k < n /\ ~Good(looks[k])
    BY <1>1, <2>1 DEF Careful
  <2> QED
    BY <1>1, <1>3, <1>6, <2>2
<1> QED
  BY <1>4, <1>5, <1>6 DEF looks

LEMMA Of7 ==
    ASSUME NEW a, NEW b, NEW c, NEW d, NEW e, NEW f, NEW g
    PROVE  /\ Listed(<<a, b, c, d, e, f, g>>)
           /\ Passes(<<a, b, c, d, e, f, g>>) =>
                Good(a) /\ Good(b) /\ Good(c) /\ Good(d) /\ Good(e) /\ Good(f) /\ Good(g)
           /\ (a.found
               /\ (Good(a) => b.found)
               /\ (Good(a) /\ Good(b) => c.found)
               /\ (Good(a) /\ Good(b) /\ Good(c) => d.found)
               /\ (Good(a) /\ Good(b) /\ Good(c) /\ Good(d) => e.found)
               /\ (Good(a) /\ Good(b) /\ Good(c) /\ Good(d) /\ Good(e) => f.found)
               /\ (Good(a) /\ Good(b) /\ Good(c) /\ Good(d) /\ Good(e) /\ Good(f) => g.found))
                => Careful(<<a, b, c, d, e, f, g>>)
<1> DEFINE looks == <<a, b, c, d, e, f, g>>
<1>1. /\ DOMAIN looks = 1 .. 7
      /\ looks[1] = a /\ looks[2] = b /\ looks[3] = c /\ looks[4] = d /\ looks[5] = e /\ looks[6] = f /\ looks[7] = g
  OBVIOUS
<1>2. looks \in Seq({a, b, c, d, e, f, g})
  OBVIOUS
<1> HIDE DEF looks
<1>3. \A n \in 1 .. 7 : n = 1 \/ n = 2 \/ n = 3 \/ n = 4 \/ n = 5 \/ n = 6 \/ n = 7
  OBVIOUS
<1>4. Listed(looks)
  BY <1>2 DEF Listed
<1>5. Passes(looks) => Good(a) /\ Good(b) /\ Good(c) /\ Good(d) /\ Good(e) /\ Good(f) /\ Good(g)
  BY <1>1 DEF Passes
<1>6. ASSUME /\ a.found
             /\ (Good(a) => b.found)
             /\ (Good(a) /\ Good(b) => c.found)
             /\ (Good(a) /\ Good(b) /\ Good(c) => d.found)
             /\ (Good(a) /\ Good(b) /\ Good(c) /\ Good(d) => e.found)
             /\ (Good(a) /\ Good(b) /\ Good(c) /\ Good(d) /\ Good(e) => f.found)
             /\ (Good(a) /\ Good(b) /\ Good(c) /\ Good(d) /\ Good(e) /\ Good(f) => g.found)
      PROVE  Careful(looks)
  <2>1. \A n, k \in 1 .. 7 : k < n => k \in 1 .. n - 1
    OBVIOUS
  <2>2. SUFFICES ASSUME NEW n \in 1 .. 7, ~looks[n].found
                 PROVE  \E k \in 1 .. 7 : k < n /\ ~Good(looks[k])
    BY <1>1, <2>1 DEF Careful
  <2> QED
    BY <1>1, <1>3, <1>6, <2>2
<1> QED
  BY <1>4, <1>5, <1>6 DEF looks

LEMMA Of9 ==
    ASSUME NEW a, NEW b, NEW c, NEW d, NEW e, NEW f, NEW g, NEW h, NEW i
    PROVE  /\ Listed(<<a, b, c, d, e, f, g, h, i>>)
           /\ Passes(<<a, b, c, d, e, f, g, h, i>>) =>
                Good(a) /\ Good(b) /\ Good(c) /\ Good(d) /\ Good(e) /\ Good(f) /\ Good(g) /\ Good(h) /\ Good(i)
           /\ (a.found
               /\ (Good(a) => b.found)
               /\ (Good(a) /\ Good(b) => c.found)
               /\ (Good(a) /\ Good(b) /\ Good(c) => d.found)
               /\ (Good(a) /\ Good(b) /\ Good(c) /\ Good(d) => e.found)
               /\ (Good(a) /\ Good(b) /\ Good(c) /\ Good(d) /\ Good(e) => f.found)
               /\ (Good(a) /\ Good(b) /\ Good(c) /\ Good(d) /\ Good(e) /\ Good(f) => g.found)
               /\ (Good(a) /\ Good(b) /\ Good(c) /\ Good(d) /\ Good(e) /\ Good(f) /\ Good(g) => h.found)
               /\ (Good(a) /\ Good(b) /\ Good(c) /\ Good(d) /\ Good(e) /\ Good(f) /\ Good(g) /\ Good(h) => i.found))
                => Careful(<<a, b, c, d, e, f, g, h, i>>)
<1> DEFINE looks == <<a, b, c, d, e, f, g, h, i>>
<1>1. /\ DOMAIN looks = 1 .. 9
      /\ looks[1] = a /\ looks[2] = b /\ looks[3] = c /\ looks[4] = d /\ looks[5] = e /\ looks[6] = f /\ looks[7] = g /\ looks[8] = h /\ looks[9] = i
  OBVIOUS
<1>2. looks \in Seq({a, b, c, d, e, f, g, h, i})
  OBVIOUS
<1> HIDE DEF looks
<1>3. \A n \in 1 .. 9 : n = 1 \/ n = 2 \/ n = 3 \/ n = 4 \/ n = 5 \/ n = 6 \/ n = 7 \/ n = 8 \/ n = 9
  OBVIOUS
<1>4. Listed(looks)
  BY <1>2 DEF Listed
<1>5. Passes(looks) => Good(a) /\ Good(b) /\ Good(c) /\ Good(d) /\ Good(e) /\ Good(f) /\ Good(g) /\ Good(h) /\ Good(i)
  BY <1>1 DEF Passes
<1>6. ASSUME /\ a.found
             /\ (Good(a) => b.found)
             /\ (Good(a) /\ Good(b) => c.found)
             /\ (Good(a) /\ Good(b) /\ Good(c) => d.found)
             /\ (Good(a) /\ Good(b) /\ Good(c) /\ Good(d) => e.found)
             /\ (Good(a) /\ Good(b) /\ Good(c) /\ Good(d) /\ Good(e) => f.found)
             /\ (Good(a) /\ Good(b) /\ Good(c) /\ Good(d) /\ Good(e) /\ Good(f) => g.found)
             /\ (Good(a) /\ Good(b) /\ Good(c) /\ Good(d) /\ Good(e) /\ Good(f) /\ Good(g) => h.found)
             /\ (Good(a) /\ Good(b) /\ Good(c) /\ Good(d) /\ Good(e) /\ Good(f) /\ Good(g) /\ Good(h) => i.found)
      PROVE  Careful(looks)
  <2>1. \A n, k \in 1 .. 9 : k < n => k \in 1 .. n - 1
    OBVIOUS
  <2>2. SUFFICES ASSUME NEW n \in 1 .. 9, ~looks[n].found
                 PROVE  \E k \in 1 .. 9 : k < n /\ ~Good(looks[k])
    BY <1>1, <2>1 DEF Careful
  <2> QED
    BY <1>1, <1>3, <1>6, <2>2
<1> QED
  BY <1>4, <1>5, <1>6 DEF looks

\* Of the looks at each item of a list.
LEMMA AtEach ==
    ASSUME NEW list, Listed(list), NEW seqs,
           seqs = [i \in DOMAIN list |-> seqs[i]],
           \A i \in DOMAIN list : Listed(seqs[i])
    PROVE  /\ Listed(FlattenSeq(seqs))
           /\ Passes(FlattenSeq(seqs)) => \A i \in DOMAIN list : Passes(seqs[i])
           /\ (\A i \in DOMAIN list : Careful(seqs[i])) => Careful(FlattenSeq(seqs))
<1>1. Listed(seqs) /\ DOMAIN seqs = DOMAIN list
  <2>1. PICK S : list \in Seq(S)
    BY DEF Listed
  <2>2. DOMAIN list = 1 .. Len(list) /\ Len(list) \in Nat
    BY <2>1
  <2>3. seqs \in Seq({seqs[i] : i \in DOMAIN list})
    BY <2>2
  <2> QED
    BY <2>3 DEF Listed
<1> QED
  BY <1>1, Flatten

-----------------------------------------------------------------------------
(* The contract. What a request has that passes, and that none of its looks *)
(* is made too early.                                                       *)

LEMMA OneReference ==
    ASSUME NEW x, NEW available, References(<<x>>, available)
    PROVE  x \in available
BY DEF References, ToSet

LEMMA Boundary ==
    ASSUME NEW s, NEW b
    PROVE  LET looks == BoundaryLooks(s, b) IN
           /\ Listed(looks) /\ Careful(looks)
           /\ Passes(looks) =>
                /\ b.region_id \in Ids(s.regions)
                /\ LossyWall(b) => RestingWall(s, b)
                /\ \A r \in Named(s.regions, b.region_id) : b.group.mesh_id \in ToSet(r.mesh_ids)
<1> DEFINE known == b.region_id \in Ids(s.regions)
           d1 == Demand(References(<<b.region_id>>, Ids(s.regions)))
           d2 == Look(LossyWall(b) => known, LossyWall(b) => RestingWall(s, b))
           in3 == /\ \A r \in Named(s.regions, b.region_id) :
                         b.group.mesh_id \in ToSet(r.mesh_ids)
                  /\ b.group.dimension = 2
           d3 == Look(known, in3)
<1>1. BoundaryLooks(s, b) = <<d1, d2, d3>>
  BY DEF BoundaryLooks
<1>2. Good(d1) => known
  BY Demanding, OneReference
<1>3. d1.found /\ (known => d2.found /\ d3.found)
  BY Finding
<1>4. Good(d2) => (LossyWall(b) => RestingWall(s, b))
  BY Asking
<1>5. Good(d3) => in3
  BY Asking
<1> HIDE DEF d1, d2, d3
<1> QED
  BY <1>1, <1>2, <1>3, <1>4, <1>5, Of3

LEMMA Region ==
    ASSUME NEW s, NEW r, IsList(r.volume_groups)
    PROVE  /\ Listed(RegionLooks(s, r)) /\ Careful(RegionLooks(s, r))
           /\ Passes(RegionLooks(s, r)) => References(r.mesh_ids, Ids(s.meshes))
<1> DEFINE d1 == Demand(~r.lossy)
           d2 == Demand(References(r.mesh_ids, Ids(s.meshes)))
           e(g) == Demand(g.mesh_id \in ToSet(r.mesh_ids) /\ g.dimension = 3)
           seqs == [i \in DOMAIN r.volume_groups |-> << e(r.volume_groups[i]) >>]
<1>1. RegionLooks(s, r) = <<d1, d2>> \o FlattenSeq(seqs)
  BY DEF RegionLooks, ForEach
<1>2. d1.found /\ d2.found /\ \A g : e(g).found
  BY Finding
<1>7. Good(d2) => References(r.mesh_ids, Ids(s.meshes))
  BY DEF Good, Demand, Look
<1> HIDE DEF d1, d2, e
<1>3. Listed(<<d1, d2>>) /\ Careful(<<d1, d2>>) /\ (Passes(<<d1, d2>>) => Good(d2))
  BY <1>2, Of2
<1>4. \A i \in DOMAIN r.volume_groups : Listed(seqs[i]) /\ Careful(seqs[i])
  BY <1>2, Of1
<1>5. seqs = [i \in DOMAIN r.volume_groups |-> seqs[i]] /\ Listed(r.volume_groups)
  BY DEF Listed, IsList
<1> HIDE DEF seqs
<1>6. Listed(FlattenSeq(seqs)) /\ Careful(FlattenSeq(seqs))
  BY <1>4, <1>5, AtEach
<1> QED
  BY <1>1, <1>3, <1>6, <1>7, Concat

LEMMA Interface ==
    ASSUME NEW s, NEW i
    PROVE  Listed(InterfaceLooks(s, i)) /\ Careful(InterfaceLooks(s, i))
<1> DEFINE d1 == Demand(References(<<i.bounded_boundary_id, i.unbounded_boundary_id>>,
                                   Ids(s.boundaries)))
           d2 == Demand(i.fem_vertices = i.bem_vertices)
           d3 == Demand(i.fem_faces = i.bem_faces /\ i.bem_faces = i.signs)
<1>1. InterfaceLooks(s, i) = <<d1, d2, d3>>
  BY DEF InterfaceLooks
<1>2. d1.found /\ d2.found /\ d3.found
  BY Finding
<1> HIDE DEF d1, d2, d3
<1> QED
  BY <1>1, <1>2, Of3

\* An element of a block that passes lies within the points, and has a tag that
\* names a group.
Readable(m) ==
    \A block \in ToSet(m.cells) : \A i \in 1 .. block.connectivity.rows :
        /\ \A v \in ToSet(block.elements[i]) : v >= 0 /\ 24 * (v + 1) <= m.points.bytes
        /\ i \in DOMAIN block.tags
        /\ \E g \in m.physical_names : g[1] = block.tags[i]

LEMMA Block ==
    ASSUME NEW block, NEW count, NEW groups
    PROVE  LET looks == BlockLooks(block, count, groups) IN
           /\ Listed(looks) /\ Careful(looks)
           /\ Passes(looks) =>
                /\ block.type \in DOMAIN CellWidth
                /\ DecodeArray(block.connectivity, CellWidth[block.type])
                /\ DecodeArray(block.physical_tags, 1)
                /\ block.connectivity.rows = block.physical_tags.rows
                /\ \A i \in DOMAIN block.elements :
                      ToSet(block.elements[i]) \subseteq 0 .. (count - 1)
                /\ \A i \in DOMAIN block.tags : \E g \in groups : g[1] = block.tags[i]
<1> DEFINE in5 == \A i \in DOMAIN block.elements :
                    /\ ToSet(block.elements[i]) \subseteq 0..(count - 1)
                    /\ IsInjective(block.elements[i])
           in6 == LET dimension == IF block.type \in {"tetra", "tetra10"} THEN 3 ELSE 2
                  IN  \A i \in DOMAIN block.tags :
                        <<block.tags[i], dimension>> \in groups
           d1 == Demand(block.type \in DOMAIN CellWidth)
           d2 == Look(block.type \in DOMAIN CellWidth,
                      DecodeArray(block.connectivity, CellWidth[block.type]))
           d3 == Demand(DecodeArray(block.physical_tags, 1))
           d4 == Demand(block.connectivity.rows = block.physical_tags.rows)
           d5 == Demand(in5)
           d6 == Demand(in6)
<1>1. BlockLooks(block, count, groups) = <<d1, d2, d3, d4, d5, d6>>
  BY DEF BlockLooks
<1>2. Good(d1) => block.type \in DOMAIN CellWidth
  BY DEF Good, Demand, Look
<1>3. Good(d2) => DecodeArray(block.connectivity, CellWidth[block.type])
  BY Asking
<1>4. /\ Good(d3) => DecodeArray(block.physical_tags, 1)
      /\ Good(d4) => block.connectivity.rows = block.physical_tags.rows
  BY DEF Good, Demand, Look
<1>5. Good(d5) => in5
  BY Demanding, Zenon
<1>6. Good(d6) => in6
  BY Demanding, Zenon
<1>7. /\ d1.found /\ d3.found /\ d4.found /\ d5.found /\ d6.found
      /\ block.type \in DOMAIN CellWidth => d2.found
  BY Finding, Zenon
<1>8. in6 => \A i \in DOMAIN block.tags : \E g \in groups : g[1] = block.tags[i]
  OBVIOUS
<1> HIDE DEF d1, d2, d3, d4, d5, d6, in6
<1>9. LET looks == <<d1, d2, d3, d4, d5, d6>> IN
      /\ Listed(looks) /\ Careful(looks)
      /\ Passes(looks) => Good(d1) /\ Good(d2) /\ Good(d3) /\ Good(d4) /\ Good(d5) /\ Good(d6)
  BY <1>2, <1>7, Of6
<1> QED
  BY <1>1, <1>2, <1>3, <1>4, <1>5, <1>6, <1>8, <1>9

LEMMA MeshData ==
    ASSUME NEW m, ParsedMesh(m)
    PROVE  LET looks == MeshDataLooks(m) IN
           Listed(looks) /\ Careful(looks) /\ (Passes(looks) => Readable(m))
<1> DEFINE d1 == Demand(m.schema_version = 1)
           d2 == Demand(DecodeArray(m.points, 3))
           d3 == Demand(m.finite)
           d4 == Demand(\A g \in m.physical_names : g[1] > 0 /\ g[2] \in {2, 3})
           d5 == Demand(m.cells # << >>)
           tuple == <<d1, d2, d3, d4, d5>>
           seqs == [i \in DOMAIN m.cells |->
                        BlockLooks(m.cells[i], m.points.rows, m.physical_names)]
<1>1. MeshDataLooks(m) = tuple \o FlattenSeq(seqs)
  BY DEF MeshDataLooks, ForEach
<1>2. Good(d2) => DecodeArray(m.points, 3)
  BY Demanding
<1>3. d1.found /\ d2.found /\ d3.found /\ d4.found /\ d5.found
  BY Finding, Zenon
<1> HIDE DEF d1, d2, d3, d4, d5
<1>4. Listed(tuple) /\ Careful(tuple) /\ (Passes(tuple) => Good(d2))
  BY <1>3, Of5
<1>5. \A i \in DOMAIN m.cells :
         seqs[i] = BlockLooks(m.cells[i], m.points.rows, m.physical_names)
  OBVIOUS
<1>6. seqs = [i \in DOMAIN m.cells |-> seqs[i]] /\ Listed(m.cells)
  BY DEF Listed, IsList, ParsedMesh
<1> HIDE DEF seqs, tuple
<1>7. \A i \in DOMAIN m.cells : Listed(seqs[i]) /\ Careful(seqs[i])
  BY <1>5, Block
<1>8. /\ Listed(FlattenSeq(seqs)) /\ Careful(FlattenSeq(seqs))
      /\ Passes(FlattenSeq(seqs)) => \A i \in DOMAIN m.cells : Passes(seqs[i])
  BY <1>6, <1>7, AtEach
<1>9. /\ Listed(MeshDataLooks(m)) /\ Careful(MeshDataLooks(m))
      /\ Passes(MeshDataLooks(m)) => Passes(tuple) /\ Passes(FlattenSeq(seqs))
  BY <1>1, <1>4, <1>8, Concat
<1>10. ASSUME Passes(MeshDataLooks(m)) PROVE Readable(m)
  <2>1. DecodeArray(m.points, 3) /\ m.points.rows \in Nat
    BY <1>2, <1>4, <1>9, <1>10 DEF ParsedMesh
  <2>2. m.points.bytes = 24 * m.points.rows
    BY <2>1 DEF DecodeArray
  <2>3. ASSUME NEW block \in ToSet(m.cells), NEW i \in 1 .. block.connectivity.rows
        PROVE  /\ \A v \in ToSet(block.elements[i]) :
                     v >= 0 /\ 24 * (v + 1) <= m.points.bytes
               /\ i \in DOMAIN block.tags
               /\ \E g \in m.physical_names : g[1] = block.tags[i]
    <3>1. PICK k \in DOMAIN m.cells : block = m.cells[k]
      BY <2>3 DEF ToSet
    <3>2. /\ DecodeArray(block.connectivity, CellWidth[block.type])
          /\ DecodeArray(block.physical_tags, 1)
          /\ block.connectivity.rows = block.physical_tags.rows
          /\ \A n \in DOMAIN block.elements :
                ToSet(block.elements[n]) \subseteq 0 .. (m.points.rows - 1)
          /\ \A n \in DOMAIN block.tags : \E g \in m.physical_names : g[1] = block.tags[n]
      BY <1>5, <1>8, <1>9, <1>10, <3>1, Block
    <3>3. /\ DOMAIN block.elements = 1 .. block.connectivity.rows
          /\ DOMAIN block.tags = 1 .. block.physical_tags.rows
      BY <2>3, <3>2, Zenon DEF ParsedMesh, Rows, DecodeArray
    <3>4. i \in DOMAIN block.elements /\ i \in DOMAIN block.tags
      BY <3>2, <3>3
    <3>5. ASSUME NEW v \in ToSet(block.elements[i])
          PROVE  v >= 0 /\ 24 * (v + 1) <= m.points.bytes
      <4>1. v \in 0 .. (m.points.rows - 1)
        BY <3>2, <3>4, <3>5
      <4> QED
        BY <2>1, <2>2, <4>1
    <3> QED
      BY <3>2, <3>4, <3>5
  <2> QED
    BY <2>3 DEF Readable
<1> QED
  BY <1>9, <1>10

LEMMA Mesh ==
    ASSUME NEW mesh, mesh.mesh_data # None => ParsedMesh(mesh.mesh_data)
    PROVE  LET looks == MeshLooks(mesh) IN
           /\ Listed(looks) /\ Careful(looks)
           /\ Passes(looks) /\ mesh.mesh_data # None => Readable(mesh.mesh_data)
<1> DEFINE d1 == Demand(mesh.file)
           d2 == Demand(~mesh.file)
<1>1. MeshLooks(mesh) = IF mesh.mesh_data = None THEN <<d1>>
                        ELSE <<d2>> \o MeshDataLooks(mesh.mesh_data)
  BY DEF MeshLooks
<1>2. d1.found /\ d2.found
  BY Finding
<1> HIDE DEF d1, d2
<1>3. Listed(<<d1>>) /\ Careful(<<d1>>) /\ Listed(<<d2>>) /\ Careful(<<d2>>)
  BY <1>2, Of1
<1>4. CASE mesh.mesh_data = None
  BY <1>1, <1>3, <1>4
<1>5. CASE mesh.mesh_data # None
  BY <1>1, <1>3, <1>5, MeshData, Concat
<1> QED
  BY <1>4, <1>5

\* What the objects of a system are to each other.
Connected(s) ==
    /\ UniqueIds(s)
    /\ \A m \in ToSet(s.meshes) : m.mesh_data # None => Readable(m.mesh_data)
    /\ \A r \in ToSet(s.regions) : References(r.mesh_ids, Ids(s.meshes))
    /\ \A b \in ToSet(s.boundaries) :
        /\ b.region_id \in Ids(s.regions)
        /\ LossyWall(b) => RestingWall(s, b)
        /\ \A r \in Named(s.regions, b.region_id) : b.group.mesh_id \in ToSet(r.mesh_ids)
    /\ \A c \in ToSet(s.components) : References(c.boundary_ids, Ids(s.boundaries))
    /\ \A p \in ToSet(s.excitation_ports) : p.component_id \in Ids(s.components)

LEMMA Graph ==
    ASSUME NEW s, ParsedSystem(s)
    PROVE  LET looks == GraphLooks(s) IN
           Listed(looks) /\ Careful(looks) /\ (Passes(looks) => Connected(s))
<1> DEFINE a1 == [i \in DOMAIN s.meshes |-> MeshLooks(s.meshes[i])]
           a2 == << Demand(UniqueIds(s)) >>
           a3 == [i \in DOMAIN s.regions |-> RegionLooks(s, s.regions[i])]
           a4 == [i \in DOMAIN s.boundaries |-> BoundaryLooks(s, s.boundaries[i])]
           c5(c) == Demand(References(c.boundary_ids, Ids(s.boundaries)))
           a5 == [i \in DOMAIN s.components |-> << c5(s.components[i]) >>]
           p6(p) == Demand(References(<<p.component_id>>, Ids(s.components)))
           a6 == [i \in DOMAIN s.excitation_ports |-> << p6(s.excitation_ports[i]) >>]
           a7 == [i \in DOMAIN s.interfaces |-> InterfaceLooks(s, s.interfaces[i])]
           f1 == FlattenSeq(a1)
           f3 == FlattenSeq(a3)
           f4 == FlattenSeq(a4)
           f5 == FlattenSeq(a5)
           f6 == FlattenSeq(a6)
           f7 == FlattenSeq(a7)
<1>1. GraphLooks(s) = f1 \o a2 \o f3 \o f4 \o f5 \o f6 \o f7
  BY DEF GraphLooks, ForEach
<1>2. /\ Listed(s.meshes) /\ Listed(s.regions) /\ Listed(s.boundaries)
      /\ Listed(s.components) /\ Listed(s.excitation_ports) /\ Listed(s.interfaces)
  BY DEF ParsedSystem, IsList, Listed
<1>3. /\ Listed(f1) /\ Careful(f1)
      /\ Passes(f1) => \A m \in ToSet(s.meshes) : m.mesh_data # None => Readable(m.mesh_data)
  <2>1. a1 = [i \in DOMAIN s.meshes |-> a1[i]]
    OBVIOUS
  <2>2. \A i \in DOMAIN s.meshes : a1[i] = MeshLooks(s.meshes[i])
    OBVIOUS
  <2> HIDE DEF a1
  <2>3. \A i \in DOMAIN s.meshes : s.meshes[i] \in ToSet(s.meshes)
    BY DEF ToSet
  <2>4. \A i \in DOMAIN s.meshes :
          /\ Listed(a1[i]) /\ Careful(a1[i])
          /\ Passes(a1[i]) /\ s.meshes[i].mesh_data # None => Readable(s.meshes[i].mesh_data)
    BY <2>2, <2>3, Mesh DEF ParsedSystem
  <2> QED
    BY <1>2, <2>1, <2>4, AtEach DEF ToSet
<1>4. /\ Listed(a2) /\ Careful(a2) /\ (Passes(a2) => UniqueIds(s))
  <2> DEFINE d == Demand(UniqueIds(s))
  <2>1. d.found /\ (Good(d) => UniqueIds(s))
    BY DEF Good, Demand, Look
  <2> HIDE DEF d
  <2>2. Listed(<<d>>) /\ Careful(<<d>>) /\ (Passes(<<d>>) => Good(d))
    BY <2>1, Of1
  <2> QED
    BY <2>1, <2>2 DEF d
<1>5. /\ Listed(f3) /\ Careful(f3)
      /\ Passes(f3) => \A r \in ToSet(s.regions) : References(r.mesh_ids, Ids(s.meshes))
  <2>1. a3 = [i \in DOMAIN s.regions |-> a3[i]]
    OBVIOUS
  <2>2. \A i \in DOMAIN s.regions : a3[i] = RegionLooks(s, s.regions[i])
    OBVIOUS
  <2> HIDE DEF a3
  <2>3. \A i \in DOMAIN s.regions : s.regions[i] \in ToSet(s.regions)
    BY DEF ToSet
  <2>4. \A i \in DOMAIN s.regions :
          /\ Listed(a3[i]) /\ Careful(a3[i])
          /\ Passes(a3[i]) => References(s.regions[i].mesh_ids, Ids(s.meshes))
    BY <2>2, <2>3, Region DEF ParsedSystem
  <2> QED
    BY <1>2, <2>1, <2>4, AtEach DEF ToSet
<1>6. /\ Listed(f4) /\ Careful(f4)
      /\ Passes(f4) => \A b \in ToSet(s.boundaries) :
            /\ b.region_id \in Ids(s.regions)
            /\ LossyWall(b) => RestingWall(s, b)
            /\ \A r \in Named(s.regions, b.region_id) : b.group.mesh_id \in ToSet(r.mesh_ids)
  <2>1. a4 = [i \in DOMAIN s.boundaries |-> a4[i]]
    OBVIOUS
  <2>2. \A i \in DOMAIN s.boundaries : a4[i] = BoundaryLooks(s, s.boundaries[i])
    OBVIOUS
  <2> HIDE DEF a4
  <2>3. \A i \in DOMAIN s.boundaries : Listed(a4[i]) /\ Careful(a4[i])
    BY <2>2, Boundary
  <2>4. /\ Listed(f4) /\ Careful(f4)
        /\ Passes(f4) => \A i \in DOMAIN s.boundaries : Passes(a4[i])
    BY <1>2, <2>1, <2>3, AtEach
  <2> HIDE DEF f4
  <2>5. ASSUME Passes(f4), NEW b \in ToSet(s.boundaries)
        PROVE  /\ b.region_id \in Ids(s.regions)
               /\ LossyWall(b) => RestingWall(s, b)
               /\ \A r \in Named(s.regions, b.region_id) : b.group.mesh_id \in ToSet(r.mesh_ids)
    <3>1. PICK i \in DOMAIN s.boundaries : b = s.boundaries[i]
      BY DEF ToSet
    <3>2. Passes(BoundaryLooks(s, b))
      BY <2>2, <2>4, <2>5, <3>1
    <3> QED
      BY <3>2, Boundary
  <2> QED
    BY <2>4, <2>5
<1>7. /\ Listed(f5) /\ Careful(f5)
      /\ Passes(f5) => \A c \in ToSet(s.components) : References(c.boundary_ids, Ids(s.boundaries))
  <2>1. a5 = [i \in DOMAIN s.components |-> a5[i]]
    OBVIOUS
  <2>2. \A i \in DOMAIN s.components : a5[i] = << c5(s.components[i]) >>
    OBVIOUS
  <2>3. \A c : c5(c).found /\ (Good(c5(c)) => References(c.boundary_ids, Ids(s.boundaries)))
    BY DEF Good, Demand, Look
  <2> HIDE DEF a5, c5
  <2>4. \A i \in DOMAIN s.components :
          /\ Listed(a5[i]) /\ Careful(a5[i])
          /\ Passes(a5[i]) => References(s.components[i].boundary_ids, Ids(s.boundaries))
    BY <2>2, <2>3, Of1
  <2> QED
    BY <1>2, <2>1, <2>4, AtEach DEF ToSet
<1>8. /\ Listed(f6) /\ Careful(f6)
      /\ Passes(f6) => \A p \in ToSet(s.excitation_ports) : p.component_id \in Ids(s.components)
  <2>1. a6 = [i \in DOMAIN s.excitation_ports |-> a6[i]]
    OBVIOUS
  <2>2. \A i \in DOMAIN s.excitation_ports : a6[i] = << p6(s.excitation_ports[i]) >>
    OBVIOUS
  <2>3. \A p : p6(p).found /\ (Good(p6(p)) => References(<<p.component_id>>, Ids(s.components)))
    BY DEF Good, Demand, Look
  <2> HIDE DEF a6, p6
  <2>4. \A i \in DOMAIN s.excitation_ports :
          /\ Listed(a6[i]) /\ Careful(a6[i])
          /\ Passes(a6[i]) => References(<<s.excitation_ports[i].component_id>>, Ids(s.components))
    BY <2>2, <2>3, Of1
  <2>5. \A i \in DOMAIN s.excitation_ports :
          Passes(a6[i]) => s.excitation_ports[i].component_id \in Ids(s.components)
    BY <2>4, OneReference
  <2> QED
    BY <1>2, <2>1, <2>4, <2>5, AtEach DEF ToSet
<1>9. Listed(f7) /\ Careful(f7)
  <2>1. a7 = [i \in DOMAIN s.interfaces |-> a7[i]]
    OBVIOUS
  <2>2. \A i \in DOMAIN s.interfaces : a7[i] = InterfaceLooks(s, s.interfaces[i])
    OBVIOUS
  <2> HIDE DEF a7
  <2>3. \A i \in DOMAIN s.interfaces : Listed(a7[i]) /\ Careful(a7[i])
    BY <2>2, Interface
  <2> QED
    BY <1>2, <2>1, <2>3, AtEach
<1> HIDE DEF a2, f1, f3, f4, f5, f6, f7
<1>10. /\ Listed(f1 \o a2) /\ Careful(f1 \o a2)
       /\ Passes(f1 \o a2) => Passes(f1) /\ Passes(a2)
  BY <1>3, <1>4, Concat
<1>11. /\ Listed(f1 \o a2 \o f3) /\ Careful(f1 \o a2 \o f3)
       /\ Passes(f1 \o a2 \o f3) => Passes(f1 \o a2) /\ Passes(f3)
  BY <1>10, <1>5, Concat
<1>12. /\ Listed(f1 \o a2 \o f3 \o f4) /\ Careful(f1 \o a2 \o f3 \o f4)
       /\ Passes(f1 \o a2 \o f3 \o f4) => Passes(f1 \o a2 \o f3) /\ Passes(f4)
  BY <1>11, <1>6, Concat
<1>13. /\ Listed(f1 \o a2 \o f3 \o f4 \o f5) /\ Careful(f1 \o a2 \o f3 \o f4 \o f5)
       /\ Passes(f1 \o a2 \o f3 \o f4 \o f5) => Passes(f1 \o a2 \o f3 \o f4) /\ Passes(f5)
  BY <1>12, <1>7, Concat
<1>14. /\ Listed(f1 \o a2 \o f3 \o f4 \o f5 \o f6) /\ Careful(f1 \o a2 \o f3 \o f4 \o f5 \o f6)
       /\ Passes(f1 \o a2 \o f3 \o f4 \o f5 \o f6)
             => Passes(f1 \o a2 \o f3 \o f4 \o f5) /\ Passes(f6)
  BY <1>13, <1>8, Concat
<1>15. /\ Listed(GraphLooks(s)) /\ Careful(GraphLooks(s))
       /\ Passes(GraphLooks(s)) => Passes(f1 \o a2 \o f3 \o f4 \o f5 \o f6)
  BY <1>1, <1>14, <1>9, Concat
<1>16. Passes(GraphLooks(s)) => /\ Passes(f1) /\ Passes(a2) /\ Passes(f3) /\ Passes(f4)
                                /\ Passes(f5) /\ Passes(f6)
  BY <1>10, <1>11, <1>12, <1>13, <1>14, <1>15
<1> QED
  BY <1>3, <1>4, <1>5, <1>6, <1>7, <1>8, <1>15, <1>16 DEF Connected

LEMMA System ==
    ASSUME NEW s, ParsedSystem(s)
    PROVE  LET looks == SystemLooks(s) IN
           Listed(looks) /\ Careful(looks) /\ (Passes(looks) => Connected(s))
<1> DEFINE d1 == Demand(SourceProfileVersion(s))
           d2 == Demand(ComponentSupport(s))
           graph == GraphLooks(s)
<1>1. SystemLooks(s) = <<d1>> \o graph \o <<d2>>
  BY DEF SystemLooks
<1>2. d1.found /\ d2.found
  BY Finding
<1> HIDE DEF d1, d2
<1>3. Listed(<<d1>>) /\ Careful(<<d1>>) /\ Listed(<<d2>>) /\ Careful(<<d2>>)
  BY <1>2, Of1
<1>4. Listed(graph) /\ Careful(graph) /\ (Passes(graph) => Connected(s))
  BY Graph
<1> HIDE DEF graph
<1>5. /\ Listed(<<d1>> \o graph) /\ Careful(<<d1>> \o graph)
      /\ Passes(<<d1>> \o graph) => Passes(graph)
  BY <1>3, <1>4, Concat
<1> QED
  BY <1>1, <1>3, <1>4, <1>5, Concat

\* Who looks for a driver among the targets has made sure that they are there.
LEMMA Output ==
    ASSUME NEW q, NEW o
    PROVE  Listed(OutputLooks(q, o)) /\ Careful(OutputLooks(q, o))
<1> DEFINE s == q.system
           ids == Ids(s.components)
           others == ToSet(o.target_ids) \ Excited(q)
           d1 == Demand(Exterior(s) /\ \A c \in ToSet(s.components) :
                          c.kind \in {"ideal_velocity_source", "electrodynamic_transducer"})
           d2 == Demand(References(o.target_ids, ids))
           d3 == Look(others \subseteq ids,
                      \A t \in others : Named(s.components, t) \subseteq Transducers(s))
           d4 == Demand(\A c \in ToSet(s.components) :
                          c.kind = "ideal_velocity_source" => c.id \in Excited(q))
<1>1. OutputLooks(q, o) \in {<<d1, d2, d3>>, <<d4>>, << >>}
  <2>1. CASE o.quantity = "radiation_impedance_matrix"
    BY <2>1 DEF OutputLooks
  <2>2. CASE o.quantity = "radiation_impedance" /\ Exterior(q.system)
    BY <2>2 DEF OutputLooks
  <2>3. CASE /\ o.quantity # "radiation_impedance_matrix"
             /\ ~(o.quantity = "radiation_impedance" /\ Exterior(q.system))
    BY <2>3, Zenon DEF OutputLooks
  <2> QED
    BY <2>1, <2>2, <2>3
<1>2. Good(d2) => References(o.target_ids, ids)
  BY DEF Good, Demand, Look
<1>3. References(o.target_ids, ids) => others \subseteq ids
  BY DEF References
<1>4. d1.found /\ d2.found /\ d4.found /\ (others \subseteq ids => d3.found)
  BY Finding, Zenon
<1> HIDE DEF d1, d2, d3, d4, others, ids
<1>5. Listed(<<d1, d2, d3>>) /\ Careful(<<d1, d2, d3>>)
  BY <1>2, <1>3, <1>4, Of3
<1>6. Listed(<<d4>>) /\ Careful(<<d4>>)
  BY <1>4, Of1
<1>7. Listed(<< >>) /\ Careful(<< >>)
  BY DEF Listed, Careful
<1> QED
  BY <1>1, <1>5, <1>6, <1>7

LEMMA Outputs ==
    ASSUME NEW q, IsList(q.outputs)
    PROVE  Listed(ImpedanceOutputLooks(q)) /\ Careful(ImpedanceOutputLooks(q))
<1> DEFINE o == q.options
           d1 == Demand(o.voltage # None => /\ o.voltage.type \in {"int", "float"}
                                            /\ o.voltage.tenths > 0)
           d2 == Demand(Exterior(q.system) /\ Transducers(q.system) # {} =>
                          /\ ~(o.bem_backend = "metal" /\ o.precision = "float64")
                          /\ o.symmetry \in {None, "off", "ground", "x", "xy"})
           seqs == [i \in DOMAIN q.outputs |-> OutputLooks(q, q.outputs[i])]
<1>1. ImpedanceOutputLooks(q) = <<d1, d2>> \o FlattenSeq(seqs)
  BY DEF ImpedanceOutputLooks, OptionLooks, ForEach
<1>2. d1.found /\ d2.found
  BY Finding, Zenon
<1> HIDE DEF d1, d2
<1>3. Listed(<<d1, d2>>) /\ Careful(<<d1, d2>>)
  BY <1>2, Of2
<1>4. seqs = [i \in DOMAIN q.outputs |-> seqs[i]] /\ Listed(q.outputs)
  BY DEF Listed, IsList
<1>5. \A i \in DOMAIN q.outputs : Listed(seqs[i]) /\ Careful(seqs[i])
  BY Output
<1> HIDE DEF seqs
<1>6. Listed(FlattenSeq(seqs)) /\ Careful(FlattenSeq(seqs))
  BY <1>4, <1>5, AtEach
<1> QED
  BY <1>1, <1>3, <1>6, Concat

\* The request of an ask.
Asks(q) == ParsedSystem(q.system) /\ IsList(q.outputs)

\* A request is accepted when its system is, and each excited port is there;
\* else it is refused in words.
LEMMA SolveRequest ==
    ASSUME NEW q, Asks(q)
    PROVE  /\ ValidateSolveRequest(q) \in {"ok", "refused"}
           /\ ValidateSolveRequest(q) = "ok" =>
                /\ RequestSyntax(q) /\ Connected(q.system)
                /\ ValidateCompiledSystem(q.system) = "ok"
                /\ References(q.excitation_port_ids, Ids(q.system.excitation_ports))
<1> DEFINE s == q.system
           d1 == Demand(FiniteJson(q.options.voltage) /\ FiniteJson(s.contract_version))
           d2 == Demand(RequestSyntax(q))
           d3 == Demand(References(q.excitation_port_ids, Ids(s.excitation_ports)))
           d4 == Demand(Unique(IdsOf(q.outputs)))
           e1 == Demand(FiniteJson(s.contract_version))
           e2 == Demand(SystemSyntax(s))
           system == SystemLooks(s)
           outputs == ImpedanceOutputLooks(q)
           all == <<d1, d2>> \o system \o <<d3, d4>> \o outputs
<1>1. ValidateSolveRequest(q) = Verdict(all)
  BY DEF ValidateSolveRequest
<1>2. ValidateCompiledSystem(s) = Verdict(<<e1, e2>> \o system)
  BY DEF ValidateCompiledSystem
<1>3. /\ d1.found /\ d2.found /\ d3.found /\ d4.found
      /\ Good(d1) => FiniteJson(s.contract_version)
      /\ Good(d2) => RequestSyntax(q)
      /\ Good(d3) => References(q.excitation_port_ids, Ids(s.excitation_ports))
      /\ FiniteJson(s.contract_version) => Good(e1)
      /\ SystemSyntax(s) => Good(e2)
  BY Zenon DEF Good, Demand, Look
<1>4. Listed(system) /\ Careful(system) /\ (Passes(system) => Connected(s))
  BY System DEF Asks
<1>5. Listed(outputs) /\ Careful(outputs)
  BY Outputs DEF Asks
<1> HIDE DEF d1, d2, d3, d4, e1, e2, system, outputs
<1>6. /\ Listed(<<d1, d2>>) /\ Careful(<<d1, d2>>) /\ (Passes(<<d1, d2>>) => Good(d1) /\ Good(d2))
      /\ Listed(<<d3, d4>>) /\ Careful(<<d3, d4>>) /\ (Passes(<<d3, d4>>) => Good(d3))
  BY <1>3, Of2
<1>7. Good(e1) /\ Good(e2) => Listed(<<e1, e2>>) /\ Passes(<<e1, e2>>)
  <2>1. Good(e1) /\ Good(e2) => Passes(<<e1, e2>>)
    BY DEF Passes
  <2> QED
    BY <2>1, Of2
<1>8. LET looks == <<d1, d2>> \o system IN
      Listed(looks) /\ Careful(looks) /\ (Passes(looks) => Passes(<<d1, d2>>) /\ Passes(system))
  BY <1>4, <1>6, Concat
<1>9. LET looks == <<d1, d2>> \o system IN
      /\ Listed(looks \o <<d3, d4>>) /\ Careful(looks \o <<d3, d4>>)
      /\ Passes(looks \o <<d3, d4>>) => Passes(looks) /\ Passes(<<d3, d4>>)
  BY <1>6, <1>8, Concat
<1>10. /\ Listed(all) /\ Careful(all)
       /\ Passes(all) => Passes(<<d1, d2>>) /\ Passes(system) /\ Passes(<<d3, d4>>)
  BY <1>5, <1>8, <1>9, Concat
<1>11. ValidateSolveRequest(q) \in {"ok", "refused"}
  BY <1>1, <1>10, InWords
<1>12. ASSUME ValidateSolveRequest(q) = "ok"
       PROVE  /\ RequestSyntax(q) /\ Connected(q.system)
              /\ ValidateCompiledSystem(q.system) = "ok"
              /\ References(q.excitation_port_ids, Ids(q.system.excitation_ports))
  <2>1. Passes(<<d1, d2>>) /\ Passes(system) /\ Passes(<<d3, d4>>)
    BY <1>1, <1>10, <1>12, Ok
  <2>2. FiniteJson(s.contract_version) /\ RequestSyntax(q)
    BY <1>3, <1>6, <2>1
  <2>3. Good(e1) /\ Good(e2)
    BY <1>3, <2>2 DEF RequestSyntax
  <2>4. Passes(<<e1, e2>> \o system)
    BY <1>4, <1>7, <2>1, <2>3, Concat
  <2>5. ValidateCompiledSystem(s) = "ok"
    BY <1>2, <2>4, Ok
  <2> QED
    BY <1>3, <1>4, <1>6, <2>1, <2>2, <2>5
<1> QED
  BY <1>11, <1>12

LEMMA ByName ==
    ASSUME NEW items, Unique(IdsOf(items)), NEW id \in Ids(items)
    PROVE  One(items, id)
<1>1. PICK i \in DOMAIN items : items[i].id = id
  BY DEF Ids
<1>2. \A k \in DOMAIN items : items[k].id = id => k = i
  BY <1>1 DEF Unique, IdsOf, IsInjective
<1>3. {k \in DOMAIN items : items[k].id = id} = {i}
  BY <1>1, <1>2
<1> QED
  BY <1>3, FS_Singleton DEF One

LEMMA Names ==
    ASSUME NEW items, NEW id
    PROVE  /\ Named(items, id) \subseteq ToSet(items)
           /\ id \in Ids(items) => Named(items, id) # {}
BY DEF Named, ToSet, Ids

\* The way from a port down to a mesh.
LEMMA WayDown ==
    ASSUME NEW s, Connected(s), SystemSyntax(s), NEW id \in Ids(s.excitation_ports)
    PROVE  Drives(s, id)
<1>1. /\ Unique(IdsOf(s.meshes)) /\ Unique(IdsOf(s.regions)) /\ Unique(IdsOf(s.boundaries))
      /\ Unique(IdsOf(s.components)) /\ Unique(IdsOf(s.excitation_ports))
  BY DEF Connected, UniqueIds
<1>2. One(s.excitation_ports, id)
  BY <1>1, ByName
<1>3. ASSUME NEW port \in Named(s.excitation_ports, id)
      PROVE  One(s.components, port.component_id)
  <2>1. port.component_id \in Ids(s.components)
    BY <1>3, Names DEF Connected
  <2> QED
    BY <1>1, <2>1, ByName
<1>4. ASSUME NEW c \in ToSet(s.components), NEW b \in ToSet(c.boundary_ids)
      PROVE  b \in Ids(s.boundaries)
  BY <1>4 DEF Connected, References
<1>5. ASSUME NEW wall \in ToSet(s.boundaries)
      PROVE  /\ One(s.regions, wall.region_id)
             /\ One(s.meshes, wall.group.mesh_id)
             /\ \A r \in Named(s.regions, wall.region_id) :
                    wall.group.mesh_id \in ToSet(r.mesh_ids)
  <2>1. /\ wall.region_id \in Ids(s.regions)
        /\ \A r \in Named(s.regions, wall.region_id) : wall.group.mesh_id \in ToSet(r.mesh_ids)
    BY <1>5 DEF Connected
  <2>2. PICK r \in Named(s.regions, wall.region_id) : TRUE
    BY <2>1, Names
  <2>3. References(r.mesh_ids, Ids(s.meshes))
    BY <2>2, Names DEF Connected
  <2>4. wall.group.mesh_id \in Ids(s.meshes)
    BY <2>1, <2>2, <2>3 DEF References
  <2> QED
    BY <1>1, <2>1, <2>4, ByName
<1>6. ASSUME NEW c \in ToSet(s.components)
      PROVE  /\ c.boundary_ids # << >>
             /\ \A b \in ToSet(c.boundary_ids) :
                /\ One(s.boundaries, b)
                /\ \A wall \in Named(s.boundaries, b) :
                    /\ One(s.regions, wall.region_id)
                    /\ One(s.meshes, wall.group.mesh_id)
                    /\ \A r \in Named(s.regions, wall.region_id) :
                        wall.group.mesh_id \in ToSet(r.mesh_ids)
  <2>1. c.boundary_ids # << >>
    BY <1>6 DEF SystemSyntax
  <2>2. \A b \in ToSet(c.boundary_ids) : One(s.boundaries, b)
    BY <1>1, <1>4, <1>6, ByName
  <2>3. \A b : Named(s.boundaries, b) \subseteq ToSet(s.boundaries)
    BY Names
  <2> QED
    BY <1>5, <2>1, <2>2, <2>3
<1>7. \A x : Named(s.components, x) \subseteq ToSet(s.components)
  BY Names
<1> QED
  BY <1>2, <1>3, <1>6, <1>7 DEF Drives

\* An accepted request drives something, and no wall of it both moves and loses
\* heat.
LEMMA Grounded ==
    ASSUME NEW q, Asks(q), ValidateSolveRequest(q) = "ok"
    PROVE  LET s == q.system IN
           /\ \A id \in ToSet(q.excitation_port_ids) : Drives(s, id)
           /\ \A c \in ToSet(s.components), b \in ToSet(s.boundaries) :
                 b.id \in ToSet(c.boundary_ids) => ~LossyWall(b)
           /\ ValidateCompiledSystem(s) = "ok"
           /\ \A mesh \in ToSet(s.meshes) : mesh.mesh_data # None => Readable(mesh.mesh_data)
<1> DEFINE s == q.system
<1>1. /\ RequestSyntax(q) /\ Connected(s) /\ ValidateCompiledSystem(s) = "ok"
      /\ References(q.excitation_port_ids, Ids(s.excitation_ports))
  BY SolveRequest
<1>2. SystemSyntax(s)
  BY <1>1 DEF RequestSyntax
<1>3. \A id \in ToSet(q.excitation_port_ids) : id \in Ids(s.excitation_ports)
  BY <1>1 DEF References
<1>4. \A id \in ToSet(q.excitation_port_ids) : Drives(s, id)
  BY <1>1, <1>2, <1>3, WayDown
<1>5. ASSUME NEW c \in ToSet(s.components), NEW b \in ToSet(s.boundaries),
             b.id \in ToSet(c.boundary_ids)
      PROVE  ~LossyWall(b)
  <2>1. LossyWall(b) => RestingWall(s, b)
    BY <1>1, <1>5 DEF Connected
  <2> QED
    BY <1>5, <2>1 DEF RestingWall
<1>6. \A mesh \in ToSet(s.meshes) : mesh.mesh_data # None => Readable(mesh.mesh_data)
  BY <1>1 DEF Connected
<1> QED
  BY <1>1, <1>4, <1>5, <1>6

-----------------------------------------------------------------------------
(* The negotiation. *)

LEMMA Announcement ==
    ASSUME NEW own, NEW op
    PROVE  LET looks == ReadyLooks(own) \o << Demand(op \in Says(own, "operations")) >> IN
           /\ Verdict(looks) \in {"ok", "refused"}
           /\ Verdict(looks) = "ok" =>
                own.protocol # None /\ op \in Says(own, "operations")
<1> DEFINE d1 == Demand(own.type = "ready")
           d2 == Demand(own.protocol # None)
           d3 == Look(own.protocol # None, own.protocol.name = "beat-worker")
           d4 == Look(own.protocol # None, own.protocol.version
                        = [type |-> "int", tenths |-> 10 * WORKER_PROTOCOL_VERSION])
           d5 == Demand(own.engine)
           d6 == Demand(Versions \cup Capabilities \subseteq DOMAIN own.lists)
           d7 == Demand(\A v \in Versions \cap DOMAIN own.lists : own.lists[v] # {})
           d8 == Demand(own.malformed \cap
                          (Versions \cup Capabilities \cup OptionalCapabilities) = {})
           d9 == Demand(DOMAIN own.backends # {})
           e == Demand(op \in Says(own, "operations"))
           ready == <<d1, d2, d3, d4, d5, d6, d7, d8, d9>>
<1>1. ReadyLooks(own) = ready
  BY DEF ReadyLooks
<1>2. /\ Good(d2) => own.protocol # None
      /\ Good(e) => op \in Says(own, "operations")
  BY Zenon DEF Good, Demand, Look
<1>3. /\ d1.found /\ d2.found /\ d5.found /\ d6.found /\ d7.found /\ d8.found /\ d9.found
      /\ e.found /\ (own.protocol # None => d3.found /\ d4.found)
  BY Zenon DEF Demand, Look
<1> HIDE DEF d1, d2, d3, d4, d5, d6, d7, d8, d9, e
<1>4. Listed(ready) /\ Careful(ready) /\ (Passes(ready) => Good(d2))
  BY <1>2, <1>3, Of9
<1>5. Listed(<<e>>) /\ Careful(<<e>>) /\ (Passes(<<e>>) => Good(e))
  BY <1>3, Of1
<1> HIDE DEF ready
<1>6. /\ Listed(ready \o <<e>>) /\ Careful(ready \o <<e>>)
      /\ Passes(ready \o <<e>>) => Passes(ready) /\ Passes(<<e>>)
  BY <1>4, <1>5, Concat
<1>7. /\ Verdict(ready \o <<e>>) \in {"ok", "refused"}
      /\ Verdict(ready \o <<e>>) = "ok" => Passes(ready \o <<e>>)
  BY <1>6, InWords, Ok
<1>8. ReadyLooks(own) \o << Demand(op \in Says(own, "operations")) >> = ready \o <<e>>
  BY <1>1 DEF e
<1> QED
  BY <1>2, <1>4, <1>5, <1>6, <1>7, <1>8

LEMMA Backends ==
    ASSUME NEW own, NEW q, NEW op
    PROVE  LET looks == BackendLooks(own, q, op) 
               name == Backend(q, op)
           IN  /\ Listed(looks) /\ Careful(looks)
               /\ Passes(looks) =>
                    /\ Convention(q) \in Says(own, "phasor_conventions")
                    /\ name \in DOMAIN own.backends /\ own.backends[name].available
                    /\ Convention(q) \in Or(own.backends[name].phasor_conventions,
                                            Says(own, "phasor_conventions"))
<1> DEFINE name == Backend(q, op)
           known == name \in DOMAIN own.backends
           d1 == Demand(Convention(q) \in Says(own, "phasor_conventions"))
           d2 == Demand(Precision(q, op) \in Says(own, "precisions"))
           d3 == Demand(known /\ own.backends[name].available)
           d4 == Look(known, Convention(q) \in Or(own.backends[name].phasor_conventions,
                                                  Says(own, "phasor_conventions")))
<1>1. BackendLooks(own, q, op) = <<d1, d2, d3, d4>>
  BY DEF BackendLooks
<1>2. /\ Good(d1) => Convention(q) \in Says(own, "phasor_conventions")
      /\ Good(d3) => known /\ own.backends[name].available
      /\ Good(d4) => (known => Convention(q) \in Or(own.backends[name].phasor_conventions,
                                                    Says(own, "phasor_conventions")))
  BY Zenon DEF Good, Demand, Look
<1>3. d1.found /\ d2.found /\ d3.found /\ (known => d4.found)
  BY Zenon DEF Demand, Look
<1> HIDE DEF d1, d2, d3, d4
<1>4. LET looks == <<d1, d2, d3, d4>> IN
      /\ Listed(looks) /\ Careful(looks)
      /\ Passes(looks) => Good(d1) /\ Good(d3) /\ Good(d4)
  BY <1>2, <1>3, Of4
<1> QED
  BY <1>1, <1>2, <1>4

\* What a worker has announced that is asked to solve.
Serves(own, q) ==
    LET s == q.system IN
    /\ (\E m \in ToSet(s.meshes) : m.mesh_data # None) => 1 \in Says(own, "mesh_data")
    /\ s.contract_version.tenths \div 10 \in Says(own, "compiled_system")
    /\ SYSTEM_RESULT_VERSION \in Says(own, "system_result")
    /\ \A b \in ToSet(s.boundaries) : LossyWall(b)
          => /\ "boundary" \in Says(own, "fem_wall_loss_scopes")
             /\ b.losses \in Says(own, "fem_wall_loss_models")
    /\ Kind(s) \in Says(own, "solve_kinds")
    /\ \A c \in ToSet(s.components) : SourceProfile(own, s, c)

LEMMA Solves ==
    ASSUME NEW own, NEW q
    PROVE  LET looks == SolveLooks(own, q) IN
           Listed(looks) /\ Careful(looks) /\ (Passes(looks) => Serves(own, q))
<1> DEFINE s == q.system
           d1 == Demand((\E m \in ToSet(s.meshes) : m.mesh_data # None)
                          => 1 \in Says(own, "mesh_data"))
           d2 == Demand(/\ SYSTEM_SOLVE_REQUEST_VERSION \in Says(own, "system_request")
                        /\ s.contract_version.tenths \div 10 \in Says(own, "compiled_system")
                        /\ SYSTEM_RESULT_VERSION \in Says(own, "system_result"))
           d3 == Demand(\A o \in ToSet(q.outputs) : o.quantity \in AnnouncedOutputs
                          => o.quantity \in Says(own, "optional_output_quantities"))
           d4 == Demand(\A b \in ToSet(s.boundaries) : LossyWall(b)
                          => /\ "boundary" \in Says(own, "fem_wall_loss_scopes")
                             /\ b.losses \in Says(own, "fem_wall_loss_models"))
           d5 == Demand(Kind(s) \in Says(own, "solve_kinds"))
           d6 == Demand(\A c \in ToSet(s.components) :
                          /\ Kind(s) = "exterior_bem" =>
                               c.kind \in Says(own, "exterior_component_kinds")
                          /\ SourceProfile(own, s, c))
           d7 == Demand(q.cancel => own.cancellation = "marker_file")
<1>1. SolveLooks(own, q) = <<d1, d2, d3, d4, d5, d6, d7>>
  BY DEF SolveLooks
<1>2. Good(d1) /\ Good(d2) /\ Good(d4) /\ Good(d5) /\ Good(d6) => Serves(own, q)
  BY Zenon DEF Good, Demand, Look, Serves
<1>3. d1.found /\ d2.found /\ d3.found /\ d4.found /\ d5.found /\ d6.found /\ d7.found
  BY Zenon DEF Demand, Look
<1> HIDE DEF d1, d2, d3, d4, d5, d6, d7
<1>4. LET looks == <<d1, d2, d3, d4, d5, d6, d7>> IN
      /\ Listed(looks) /\ Careful(looks)
      /\ Passes(looks) => Good(d1) /\ Good(d2) /\ Good(d4) /\ Good(d5) /\ Good(d6)
  BY <1>3, Of7
<1> QED
  BY <1>1, <1>2, <1>4

LEMMA Fields ==
    ASSUME NEW own, NEW q
    PROVE  LET looks == FieldLooks(own, q) IN
           /\ Listed(looks) /\ Careful(looks)
           /\ Passes(looks) => FIELD_ARRAY_VERSION \in Says(own, "field_array")
<1> DEFINE d1 == Demand(FIELD_ARRAY_VERSION \in Says(own, "field_array"))
           d2 == Demand(q.arrays = FIELD_ARRAY_VERSION)
           d3 == Demand(Or(q.field_quantity, "pressure") # "pressure" =>
                          <<Or(q.options.bem_backend, "cpu"), q.field_quantity>>
                              \in own.field_quantities)
<1>1. FieldLooks(own, q) = <<d1, d2, d3>>
  BY DEF FieldLooks
<1>2. Good(d1) => FIELD_ARRAY_VERSION \in Says(own, "field_array")
  BY Zenon DEF Good, Demand, Look
<1>3. d1.found /\ d2.found /\ d3.found
  BY Zenon DEF Demand, Look
<1> HIDE DEF d1, d2, d3
<1> QED
  BY <1>1, <1>2, <1>3, Of3

\* A submission is agreed on when the worker can do it, and refused in words.
LEMMA Agreement ==
    ASSUME NEW own, NEW q, NEW op \in {"solve", "bem_field"},
           op = "solve" /\ q.system # None => Asks(q)
    PROVE  /\ NegotiateSubmission(own, q, op) \in {"ok", "refused"}
           /\ NegotiateSubmission(own, q, op) = "ok" =>
                /\ own.protocol # None /\ op \in Says(own, "operations")
                /\ op = "solve" =>
                      q.system # None /\ ValidateSolveRequest(q) = "ok" /\ Serves(own, q)
                /\ op = "bem_field" => FIELD_ARRAY_VERSION \in Says(own, "field_array")
                /\ Convention(q) \in Says(own, "phasor_conventions")
                /\ Backend(q, op) \in DOMAIN own.backends
                /\ own.backends[Backend(q, op)].available
                /\ Convention(q) \in Or(own.backends[Backend(q, op)].phasor_conventions,
                                        Says(own, "phasor_conventions"))
<1> DEFINE ready == Verdict(ReadyLooks(own) \o << Demand(op \in Says(own, "operations")) >>)
           request == IF op # "solve" THEN "ok"
                      ELSE IF q.system = None THEN "refused" ELSE ValidateSolveRequest(q)
           first == IF op = "solve" THEN SolveLooks(own, q) ELSE FieldLooks(own, q)
           second == BackendLooks(own, q, op)
<1>1. NegotiateSubmission(own, q, op) =
        IF ready # "ok" THEN ready ELSE IF request # "ok" THEN request
        ELSE Verdict(first \o second)
  BY DEF NegotiateSubmission
<1>2. ready \in {"ok", "refused"} /\ (ready = "ok" => own.protocol # None /\ op \in Says(own, "operations"))
  BY Announcement
<1>3. request \in {"ok", "refused"}
  BY SolveRequest
<1>4. request = "ok" /\ op = "solve" => q.system # None /\ ValidateSolveRequest(q) = "ok"
  OBVIOUS
<1>5. /\ Listed(first) /\ Careful(first)
      /\ Passes(first) => /\ op = "solve" => Serves(own, q)
                          /\ op = "bem_field" => FIELD_ARRAY_VERSION \in Says(own, "field_array")
  BY Solves, Fields
<1>6. /\ Listed(second) /\ Careful(second)
      /\ Passes(second) =>
                /\ Convention(q) \in Says(own, "phasor_conventions")
                /\ Backend(q, op) \in DOMAIN own.backends
                /\ own.backends[Backend(q, op)].available
                /\ Convention(q) \in Or(own.backends[Backend(q, op)].phasor_conventions,
                                        Says(own, "phasor_conventions"))
  BY Backends
<1> HIDE DEF ready, request, first, second
<1>7. /\ Verdict(first \o second) \in {"ok", "refused"}
      /\ Verdict(first \o second) = "ok" => Passes(first) /\ Passes(second)
  BY <1>5, <1>6, Concat, InWords, Ok
<1> QED
  BY <1>1, <1>2, <1>3, <1>4, <1>5, <1>6, <1>7

-----------------------------------------------------------------------------
(* The inductive invariant. *)

PCs == {"new", "booting", "ready", "streaming", "read", "accepted", "raising",
        "done", "refused", "failed", "terminated", "mismatch"}
Waiting == {"new", "booting", "ready"}
Holding == {"read", "accepted", "raising"}
Reading == {"streaming"} \cup Holding

\* The request of an ask, and what edit makes of it.
Edited(q) ==
    [q EXCEPT !.options.phasor_convention = Flip(Convention(q))]
Written(j) == {case.asks[j].request, Edited(case.asks[j].request)}

Kinds ==
    /\ case \in Cases /\ pc \in [Jobs -> PCs]
    /\ process \in Children \cup {None} /\ spawned \subseteq Children
    /\ starting \in Jobs \cup {None} /\ active \in Jobs \cup {None}
    /\ invalidated \subseteq Jobs
    /\ child \in [Jobs -> Children \cup {None}]
    /\ DOMAIN file = DOMAIN case.asks /\ DOMAIN asked = Jobs /\ DOMAIN line = Jobs
    /\ DOMAIN handed = Jobs /\ DOMAIN command = Children /\ DOMAIN out = Children

\* A file is as it was asked with, or edited; and then the job was asked with
\* what it is, or with what it was.
Files ==
    \A j \in DOMAIN case.asks :
        /\ file[j] \in Written(j)
        /\ child[j] # None => asked[j] \in {file[j], case.asks[j].request}

\* One child at a time.
OneChild ==
    /\ alive \subseteq {process} /\ None \notin alive
    /\ process # None => process \in spawned
    /\ \A p \in Children \ spawned : command[p] = None /\ out[p] = << >>

\* What the worker knows of its child is what that child said, except while
\* the child is started.
Known ==
    /\ starting # None => active = None /\ pc[starting] \in {"booting", "ready"}
    /\ process # None /\ (starting # None => pc[starting] # "booting")
          => info = Announces(process)

\* A job that reads has its child, and is the active one unless terminate() has
\* been there.
Owned ==
    /\ \A j \in Jobs :
        /\ pc[j] \in Waiting => child[j] = None
        /\ pc[j] \in Waiting \cup Reading => j \in DOMAIN case.asks
        /\ pc[j] \in Reading => child[j] # None /\ (j \notin invalidated => active = j)
        /\ j \in invalidated => child[j] # None
        /\ handed[j] # {} => child[j] # None
    /\ active # None =>
        /\ pc[active] \in Reading /\ active \notin invalidated
        /\ process = child[active] /\ expected = Convention(asked[active])

\* A command is the one that was agreed.
CommandOf(own, j) ==
    [job |-> j, operation |-> Operation(j), inline |-> Inline(j),
     request |-> IF Inline(j) THEN asked[j] ELSE None,
     protocol_version |-> IF own.protocol # None THEN WORKER_PROTOCOL_VERSION ELSE None,
     result_schema_version |-> SYSTEM_RESULT_VERSION,
     field_array_schema_version |-> FIELD_ARRAY_VERSION,
     phasor_convention |-> IF own.protocol # None
                           THEN asked[j].options.phasor_convention ELSE None]

Agreed(own, j) ==
    /\ Inline(j) => Operation(j) = "solve"
    /\ IF Operation(j) = "bem_field" \/ asked[j].system # None \/ own.protocol # None
       THEN NegotiateSubmission(own, asked[j], Operation(j)) = "ok"
       ELSE Convention(asked[j]) \in Says(own, "phasor_conventions")

Sent ==
    \A p \in Children : command[p] # None =>
        \E j \in DOMAIN case.asks :
            child[j] = p /\ command[p] = CommandOf(Announces(p), j) /\ Agreed(Announces(p), j)

\* What a child prints: one result and a word that it is done, or a failure.
Terminal(e) == e.type \in {"completed", "failed"}
Printed(lines) ==
    \/ lines = << >>
    \/ \E e : Terminal(e) /\ lines = <<e>>
    \/ \E e, f : ~Terminal(e) /\ Terminal(f) /\ lines = <<e, f>>

True(j, e) ==
    /\ e.job = j /\ (e.type = "result" <=> Operation(j) = "solve")
    /\ Or(e.phasor_convention, "negative") = Convention(asked[j]) =>
            e.computed = Meaning(asked[j])

Excused(e) ==
    e.type = "failed" /\ e.computed = {"contract"} =>
        /\ e.job \in DOMAIN case.asks /\ child[e.job] # None
        /\ file[e.job] # asked[e.job]

Lines == \A p \in Children : Printed(out[p]) /\ \A i \in DOMAIN out[p] : Excused(out[p][i])

\* A child that is at work works for the active job, and is done when its last
\* line is read.
Working ==
    /\ process # None =>
        /\ command[process] # None => /\ active # None /\ pc[active] = "streaming"
                                      /\ command[process].job = active
                                      /\ out[process] = << >>
        /\ out[process] # << >> => active # None
        /\ \A i \in DOMAIN out[process] :
              IsResult(out[process][i]) => True(active, out[process][i])
    /\ active # None /\ pc[active] \in Holding /\ Terminal(line[active])
          => out[process] = << >>

\* What a reader that is not terminated has in hand, and whether it is right.
InHand ==
    \A j \in Jobs : pc[j] \in Holding /\ j \notin invalidated =>
        /\ IsResult(line[j]) => True(j, line[j])
        /\ pc[j] = "accepted" =>
            /\ IsResult(line[j]) =>
                  Or(line[j].phasor_convention, "negative") = Convention(asked[j])
            /\ Announces(child[j]).protocol # None => ValidateWorkerEvent(line[j])
        /\ pc[j] = "raising" =>
            \/ IsResult(line[j])
                 /\ Or(line[j].phasor_convention, "negative") # Convention(asked[j])
            \/ ~ValidateWorkerEvent(line[j])

ClientInv ==
    /\ Kinds /\ Files /\ OneChild /\ Known /\ Owned /\ Sent /\ Lines /\ Working /\ InHand
    /\ HandedAsAsked /\ BlameIsRight

-----------------------------------------------------------------------------
(* What is asked, and what a worker makes of it. *)

LEMMA Announcing ==
    ASSUME ClientAssumption, CasesAssumption, Kinds
    PROVE  /\ None \notin Jobs \cup Children \cup {"negative", "positive"}
           /\ DOMAIN case.asks \subseteq Jobs
           /\ \A j \in DOMAIN case.asks : Parsed(case.asks[j])
           /\ \A p \in Children : Announced(Announces(p))
BY DEF ClientAssumption, CasesAssumption, Kinds, Announces

\* An edit leaves everything but the convention, and changes that.
LEMMA Editing ==
    ASSUME None \notin {"negative", "positive"}, NEW ask, Parsed(ask)
    PROVE  LET q == Edited(ask.request) IN
           /\ q.system = ask.request.system /\ q.outputs = ask.request.outputs
           /\ Convention(q) # Convention(ask.request)
<1> DEFINE r == ask.request
           q == Edited(r)
<1>1. /\ "system" \in DOMAIN r /\ "options" \in DOMAIN r /\ "outputs" \in DOMAIN r
      /\ "phasor_convention" \in DOMAIN r.options
  BY DEF Parsed
<1>2. q.system = r.system /\ q.outputs = r.outputs
  BY <1>1 DEF Edited
<1>3. q.options.phasor_convention = Flip(Convention(r))
  BY <1>1 DEF Edited
<1>4. Convention(q) = Flip(Convention(r))
  BY <1>3 DEF Convention, Or, Flip
<1>5. Convention(q) # Convention(r)
  BY <1>4 DEF Flip
<1> QED
  BY <1>2, <1>5

\* What a job was asked with is what it was, or the edit of it.
LEMMA Requested ==
    ASSUME ClientAssumption, CasesAssumption, Kinds, NEW j \in DOMAIN case.asks,
           NEW q \in Written(j)
    PROVE  /\ q.system = case.asks[j].request.system
           /\ Operation(j) \in {"solve", "bem_field"}
           /\ q.system # None => Operation(j) = "solve" /\ Asks(q)
           /\ \A r \in Written(j) : Convention(q) = Convention(r) => q = r
<1> DEFINE ask == case.asks[j]
<1>1. Parsed(ask) /\ None \notin {"negative", "positive"}
  BY Announcing
<1>2. LET r == Edited(ask.request) IN
      /\ r.system = ask.request.system /\ r.outputs = ask.request.outputs
      /\ Convention(r) # Convention(ask.request)
  BY <1>1, Editing
<1>3. q.system = ask.request.system /\ q.outputs = ask.request.outputs
  BY <1>2 DEF Written
<1>4. Operation(j) \in {"solve", "bem_field"}
  BY <1>1 DEF Parsed, Operation
<1>5. q.system # None => Operation(j) = "solve" /\ Asks(q)
  BY <1>1, <1>3 DEF Parsed, Asks, Operation
<1>6. \A r \in Written(j) : Convention(q) = Convention(r) => q = r
  BY <1>2 DEF Written
<1> QED
  BY <1>3, <1>4, <1>5, <1>6

\* A worker with a protocol reads a command that was agreed on, if the request
\* is still the one it was agreed on for.
LEMMA Compatible ==
    ASSUME ClientAssumption, CasesAssumption, Kinds, NEW j \in DOMAIN case.asks,
           asked[j] \in Written(j), NEW own, own.protocol # None, Agreed(own, j)
    PROVE  Reads(own, CommandOf(own, j), asked[j])
<1> DEFINE q == asked[j]
           op == Operation(j)
           cmd == CommandOf(own, j)
<1>1. op \in {"solve", "bem_field"} /\ (q.system # None => Asks(q))
  BY Requested
<1>2. NegotiateSubmission(own, q, op) = "ok" /\ (Inline(j) => op = "solve")
  BY DEF Agreed
<1>3. /\ op \in Says(own, "operations")
      /\ op = "solve" => q.system # None /\ ValidateSolveRequest(q) = "ok" /\ Serves(own, q)
      /\ op = "bem_field" => FIELD_ARRAY_VERSION \in Says(own, "field_array")
      /\ Convention(q) \in Says(own, "phasor_conventions")
      /\ own.backends[Backend(q, op)].available
  BY <1>1, <1>2, Agreement
<1>4. /\ cmd.operation = op /\ cmd.inline = Inline(j)
      /\ cmd.protocol_version = WORKER_PROTOCOL_VERSION
      /\ cmd.result_schema_version = SYSTEM_RESULT_VERSION
      /\ cmd.field_array_schema_version = FIELD_ARRAY_VERSION
      /\ Or(cmd.phasor_convention, "negative") = Convention(q)
  BY DEF CommandOf, Convention
<1> HIDE DEF cmd
<1>5. ValidateWorkerSubmission(own, cmd)
  <2>1. op = "solve" => SYSTEM_RESULT_VERSION \in Says(own, "system_result")
    BY <1>3 DEF Serves
  <2> QED
    BY <1>1, <1>2, <1>3, <1>4, <2>1 DEF ValidateWorkerSubmission
<1>6. SameConvention(cmd, q)
  BY <1>4 DEF SameConvention
<1>7. ASSUME cmd.operation = "solve"
      PROVE  /\ ValidateSolveRequest(q) = "ok"
             /\ q.system.contract_version.tenths \div 10 \in Says(own, "compiled_system")
             /\ Kind(q.system) \in Says(own, "solve_kinds")
             /\ \A m \in ToSet(q.system.meshes) : m.mesh_data # None => 1 \in Says(own, "mesh_data")
             /\ \A b \in {Backend(q, "solve")} \cap DOMAIN own.backends : own.backends[b].available
  <2>1. op = "solve"
    BY <1>4, <1>7
  <2> QED
    BY <1>3, <2>1, Zenon DEF Serves
<1>8. Reads(own, cmd, q)
  BY <1>5, <1>6, <1>7, Zenon DEF Reads
<1> QED
  BY <1>8 DEF cmd

\* A worker that says it knows what a request asks for computes that.
LEMMA AllKnown ==
    ASSUME NEW own, NEW q, NEW op,
           q.system # None => op = "solve" /\ Serves(own, q),
           op = "solve" => q.system # None,
           Convention(q) \in Says(own, "phasor_conventions"),
           Backend(q, op) \in DOMAIN own.backends,
           Convention(q) \in Or(own.backends[Backend(q, op)].phasor_conventions,
                                Says(own, "phasor_conventions"))
    PROVE  Computes(own, q, op) = Meaning(q)
<1> DEFINE backend == IF q.system = None THEN Or(q.options.bem_backend, "cpu")
                      ELSE Backend(q, op)
           known == {m \in Meaning(q) :
                       /\ m[2] \in Says(own, m[1])
                       /\ m[1] = "phasor_conventions" => m[2] \in Qualified(own, backend)
                       /\ m[1] = "fem_wall_loss_models" =>
                               "boundary" \in Says(own, "fem_wall_loss_scopes")}
           Before(m) == CASE m[1] = "phasor_conventions" -> "negative"
                          [] m[1] = "exterior_source_profiles" -> "uniform_normal"
                          [] OTHER -> "off"
           Done(m) == IF m \in known THEN m ELSE <<m[1], Before(m)>>
<1>1. Computes(own, q, op) = {Done(m) : m \in Meaning(q)}
  BY DEF Computes
<1>2. backend = Backend(q, op)
  BY DEF Backend
<1>3. Convention(q) \in Qualified(own, backend)
  BY <1>2 DEF Qualified
<1>4. ASSUME NEW m \in Meaning(q) PROVE Done(m) = m
  <2>1. CASE m = <<"phasor_conventions", Convention(q)>>
    <3>1. m \in known
      BY <1>3, <1>4, <2>1
    <3> QED
      BY <3>1
  <2>2. ASSUME q.system # None, NEW c \in ToSet(q.system.components),
               c.kind = "ideal_velocity_source",
               m = <<"exterior_source_profiles", Or(c.motion_profile, "uniform_normal")>>
        PROVE  Done(m) = m
    <3>1. SourceProfile(own, q.system, c)
      BY <2>2 DEF Serves
    <3>2. CASE Or(c.motion_profile, "uniform_normal") = "uniform_normal"
      <4>1. m = <<m[1], Before(m)>>
        BY <2>2, <3>2
      <4> HIDE DEF known, Before
      <4> QED
        BY <4>1
    <3>3. CASE Or(c.motion_profile, "uniform_normal") # "uniform_normal"
      <4>1. m[2] \in Says(own, m[1])
        BY <2>2, <3>1, <3>3 DEF SourceProfile
      <4>2. m \in known
        BY <1>4, <2>2, <4>1
      <4> QED
        BY <4>2
    <3> QED
      BY <3>2, <3>3
  <2>3. ASSUME q.system # None, NEW b \in ToSet(q.system.boundaries), LossyWall(b),
               m = <<"fem_wall_loss_models", b.losses>>
        PROVE  Done(m) = m
    <3>1. /\ "boundary" \in Says(own, "fem_wall_loss_scopes")
          /\ b.losses \in Says(own, "fem_wall_loss_models")
      BY <2>3 DEF Serves
    <3>2. m \in known
      BY <1>4, <2>3, <3>1
    <3> QED
      BY <3>2
  <2>4. \/ m = <<"phasor_conventions", Convention(q)>>
        \/ /\ q.system # None
           /\ \E c \in ToSet(q.system.components) :
                /\ c.kind = "ideal_velocity_source"
                /\ m = <<"exterior_source_profiles", Or(c.motion_profile, "uniform_normal")>>
        \/ /\ q.system # None
           /\ \E b \in ToSet(q.system.boundaries) :
                LossyWall(b) /\ m = <<"fem_wall_loss_models", b.losses>>
    BY DEF Meaning
  <2> HIDE DEF Done
  <2> QED
    BY <2>1, <2>2, <2>3, <2>4
<1> HIDE DEF Done
<1> QED
  BY <1>1, <1>4

\* A result that says the convention that was asked for is of what was asked
\* for, whatever the worker knew and read.
LEMMA Computation ==
    ASSUME ClientAssumption, CasesAssumption, Kinds, Files, NEW j \in DOMAIN case.asks,
           child[j] # None, NEW own, Announced(own), Agreed(own, j), NEW q,
           q = IF Inline(j) THEN asked[j] ELSE file[j],
           own.protocol # None => Reads(own, CommandOf(own, j), q),
           NEW r \in Results(own, CommandOf(own, j), q)
    PROVE  True(j, r) /\ r.type \in {"result", "field_result"}
<1> DEFINE op == Operation(j)
           a == asked[j]
           cmd == CommandOf(own, j)
<1>1. cmd.job = j /\ cmd.operation = op
  BY DEF CommandOf
<1>2. /\ r.type = IF op = "solve" THEN "result" ELSE "field_result"
      /\ r.phasor_convention = Echo(own, q)
      /\ r.computed = Computes(own, q, op) /\ r.job = j
  BY <1>1 DEF Results
<1>3. file[j] \in Written(j) /\ a \in Written(j) /\ q \in Written(j)
  BY DEF Files, Written
<1>4. /\ op \in {"solve", "bem_field"} /\ q.system = a.system
      /\ a.system # None => op = "solve" /\ Asks(a)
      /\ Convention(q) = Convention(a) => q = a
  BY <1>3, Requested
<1>5. Convention(q) # None /\ None # "negative"
  <2>1. None \notin {"negative", "positive"}
    BY DEF ClientAssumption
  <2> QED
    BY <2>1 DEF Convention, Or
<1>6. ASSUME Or(Echo(own, q), "negative") = Convention(a)
      PROVE  Computes(own, q, op) = Meaning(a)
  <2>1. CASE own.protocol # None
    <3>1. NegotiateSubmission(own, a, op) = "ok"
      BY <2>1 DEF Agreed
    <3>2. /\ op = "solve" => a.system # None /\ Serves(own, a)
          /\ Convention(a) \in Says(own, "phasor_conventions")
          /\ Backend(a, op) \in DOMAIN own.backends
          /\ Convention(a) \in Or(own.backends[Backend(a, op)].phasor_conventions,
                                  Says(own, "phasor_conventions"))
      BY <1>4, <3>1, Agreement
    <3>3. SameConvention(cmd, q)
      BY <2>1 DEF Reads
    <3>4. Or(cmd.phasor_convention, "negative") = Convention(a)
      BY <2>1 DEF CommandOf, Convention
    <3>5. q = a
      BY <1>4, <3>3, <3>4 DEF SameConvention
    <3> QED
      BY <1>4, <3>2, <3>5, AllKnown
  <2>2. CASE own.protocol = None
    <3>1. NegotiateSubmission(own, a, op) # "ok"
      BY <1>4, <2>2, Agreement
    <3>2. /\ a.system = None /\ Convention(a) \in Says(own, "phasor_conventions")
          /\ q.system = None
      BY <1>4, <3>1 DEF Agreed
    <3> DEFINE all == Says(own, "phasor_conventions")
               backend == Or(q.options.bem_backend, "cpu")
               m == <<"phasor_conventions", Convention(q)>>
    <3>3. Qualified(own, backend) = all
      BY <2>2 DEF Qualified, Announced, Or
    <3>4. Meaning(q) = {m} /\ Meaning(a) = {<<"phasor_conventions", Convention(a)>>}
      BY <3>2 DEF Meaning
    <3>5. Computes(own, q, op) =
            {IF Convention(q) \in all THEN m ELSE <<"phasor_conventions", "negative">>}
      <4> DEFINE known == {x \in Meaning(q) :
                             /\ x[2] \in Says(own, x[1])
                             /\ x[1] = "phasor_conventions" => x[2] \in Qualified(own, backend)
                             /\ x[1] = "fem_wall_loss_models" =>
                                     "boundary" \in Says(own, "fem_wall_loss_scopes")}
                 Before(x) == CASE x[1] = "phasor_conventions" -> "negative"
                                [] x[1] = "exterior_source_profiles" -> "uniform_normal"
                                [] OTHER -> "off"
                 Done(x) == IF x \in known THEN x ELSE <<x[1], Before(x)>>
      <4>1. Computes(own, q, op) = {Done(x) : x \in Meaning(q)}
        BY <3>2 DEF Computes
      <4>2. m[1] = "phasor_conventions" /\ m[2] = Convention(q) /\ Before(m) = "negative"
        OBVIOUS
      <4>3. m \in known <=> Convention(q) \in all
        BY <3>3, <3>4, <4>2
      <4> HIDE DEF known, Before
      <4>4. Done(m) = IF Convention(q) \in all THEN m ELSE <<"phasor_conventions", "negative">>
        BY <4>2, <4>3
      <4> HIDE DEF Done, m
      <4> QED
        BY <3>4, <4>1, <4>4
    <3>6. CASE "phasor_conventions" \in DOMAIN own.lists
      <4>1. Convention(q) = Convention(a)
        BY <1>5, <1>6, <3>6 DEF Echo, Or
      <4> QED
        BY <3>2, <3>4, <3>5, <4>1
    <3>7. CASE "phasor_conventions" \notin DOMAIN own.lists
      <4>1. Convention(a) = "negative"
        BY <1>6, <3>7 DEF Echo, Or
      <4>2. all = {"negative"}
        BY <3>7 DEF Says, Unsaid
      <4> QED
        BY <3>4, <3>5, <4>1, <4>2
    <3> QED
      BY <3>6, <3>7
  <2> QED
    BY <2>1, <2>2
<1> QED
  BY <1>2, <1>4, <1>6 DEF True

-----------------------------------------------------------------------------
(* The steps. *)

LEMMA Kept ==
    ASSUME ClientInv, UNCHANGED <<case, file, asked, child, command, out, handed>>
    PROVE  Files' /\ Sent' /\ Lines' /\ HandedAsAsked'
<1>1. Files'
  BY DEF ClientInv, Files, Written
<1>2. Sent'
  BY DEF ClientInv, Sent, CommandOf, Agreed, Operation, Inline, Announces
<1>3. Lines'
  BY DEF ClientInv, Lines, Excused
<1>4. HandedAsAsked'
  BY DEF ClientInv, HandedAsAsked, Operation, Announces
<1> QED
  BY <1>1, <1>2, <1>3, <1>4

LEMMA InitHolds ==
    ASSUME ClientAssumption, CasesAssumption, Init
    PROVE  ClientInv
<1>1. case \in Cases /\ DOMAIN case.asks \subseteq Jobs /\ None \notin Children
  BY DEF Init, ClientAssumption
<1>2. Kinds
  BY <1>1 DEF Init, Kinds, PCs
<1>3. Files /\ OneChild /\ Known
  BY <1>1 DEF Init, Files, Written, OneChild, Known
<1>4. Owned /\ InHand
  BY <1>1 DEF Init, Owned, InHand, Waiting, Reading, Holding
<1>5. Sent /\ Working
  BY <1>1 DEF Init, Sent, Working
<1>6. Lines
  BY DEF Init, Lines, Printed
<1>7. HandedAsAsked /\ BlameIsRight
  BY DEF Init, HandedAsAsked, BlameIsRight
<1> QED
  BY <1>2, <1>3, <1>4, <1>5, <1>6, <1>7 DEF ClientInv

LEMMA StartHolds ==
    ASSUME ClientAssumption, ClientInv, NEW j \in DOMAIN case.asks, Start(j)
    PROVE  ClientInv'
<1>1. Files' /\ Sent' /\ Lines' /\ HandedAsAsked'
  BY Kept DEF Start
<1>2. /\ Kinds /\ OneChild /\ Known /\ Owned /\ Working /\ InHand /\ BlameIsRight
      /\ j \in Jobs /\ None \notin Jobs \cup Children
  BY DEF ClientInv, Kinds, ClientAssumption
<1>3. /\ pc[j] = "new" /\ starting = None /\ active = None /\ starting' = j
      /\ UNCHANGED <<case, file, asked, expected, active, invalidated, command, out, line,
                     child, handed>>
  BY DEF Start
<1>4. \/ process \in alive /\ Goes(j, "ready") /\ UNCHANGED <<process, info, alive, spawned>>
      \/ /\ process \notin alive /\ Goes(j, "booting")
         /\ \E p \in Children \ spawned :
               /\ process' = p /\ alive' = alive \cup {p} /\ spawned' = spawned \cup {p}
  BY DEF Start
<1>5. \E w \in {"ready", "booting"} : pc' = [pc EXCEPT ![j] = w]
  BY <1>4 DEF Goes
<1>6. Kinds'
  BY <1>2, <1>3, <1>4, <1>5 DEF Kinds, PCs
<1>7. OneChild'
  BY <1>2, <1>3, <1>4 DEF OneChild, Kinds
<1>8. Known'
  BY <1>2, <1>3, <1>4 DEF Known, Kinds, Goes, OneChild, Announces
<1>9. Owned'
  BY <1>2, <1>3, <1>5 DEF Owned, Kinds, Waiting, Reading, Holding
<1>10. Working'
  <2>1. process' # None =>
          /\ command[process'] = None /\ out[process'] = << >>
    BY <1>2, <1>3, <1>4 DEF Working, OneChild, Kinds
  <2> QED
    BY <1>3, <2>1 DEF Working
<1>11. InHand' /\ BlameIsRight'
  BY <1>2, <1>3, <1>5 DEF InHand, BlameIsRight, Kinds, Holding, True, Operation, Announces
<1> QED
  BY <1>1, <1>6, <1>7, <1>8, <1>9, <1>10, <1>11 DEF ClientInv

LEMMA ReadyHolds ==
    ASSUME ClientAssumption, ClientInv, NEW j \in DOMAIN case.asks, Ready(j)
    PROVE  ClientInv'
<1>1. Files' /\ Sent' /\ Lines' /\ HandedAsAsked'
  BY Kept DEF Ready
<1>2. /\ Kinds /\ OneChild /\ Known /\ Owned /\ Working /\ InHand /\ BlameIsRight
      /\ j \in Jobs /\ None \notin Jobs \cup Children
  BY DEF ClientInv, Kinds, ClientAssumption
<1>3. /\ pc[j] = "booting" /\ starting = j /\ active = None
      /\ UNCHANGED <<case, file, asked, expected, active, invalidated, spawned, command, out,
                     line, child, handed>>
  BY <1>2 DEF Ready, Known
<1>4. \/ /\ process \in alive /\ info' = Announces(process) /\ Goes(j, "ready")
         /\ UNCHANGED <<process, alive, starting>>
      \/ process' = None /\ alive' = alive \ {process} /\ starting' = None /\ Goes(j, "refused")
  BY DEF Ready, Discard
<1>5. \E w \in {"ready", "refused"} : pc' = [pc EXCEPT ![j] = w]
  BY <1>4 DEF Goes
<1>6. Kinds'
  BY <1>2, <1>3, <1>4, <1>5 DEF Kinds, PCs
<1>7. OneChild'
  BY <1>2, <1>3, <1>4 DEF OneChild, Kinds
<1>8. Known'
  BY <1>2, <1>3, <1>4 DEF Known, Kinds, Goes, Announces
<1>9. Owned'
  BY <1>2, <1>3, <1>5 DEF Owned, Kinds, Waiting, Reading, Holding
<1>10. Working'
  BY <1>2, <1>3, <1>4 DEF Working
<1>11. InHand' /\ BlameIsRight'
  BY <1>2, <1>3, <1>5 DEF InHand, BlameIsRight, Kinds, Holding, True, Operation, Announces
<1> QED
  BY <1>1, <1>6, <1>7, <1>8, <1>9, <1>10, <1>11 DEF ClientInv

LEMMA AbortedHolds ==
    ASSUME ClientAssumption, ClientInv, NEW j \in DOMAIN case.asks, Aborted(j)
    PROVE  ClientInv'
<1>1. Files' /\ Sent' /\ Lines' /\ HandedAsAsked'
  BY Kept DEF Aborted, children
<1>2. /\ Kinds /\ OneChild /\ Known /\ Owned /\ Working /\ InHand /\ BlameIsRight
      /\ j \in Jobs
  BY DEF ClientInv, Kinds, ClientAssumption
<1>3. /\ pc[j] \in {"booting", "ready"} /\ starting # j
      /\ pc' = [pc EXCEPT ![j] = "terminated"]
      /\ UNCHANGED <<case, file, asked, process, info, expected, starting, active, invalidated,
                     alive, spawned, command, out, line, child, handed>>
  BY DEF Aborted, Goes, worker, children
<1>4. active # j
  BY <1>2, <1>3 DEF Owned, Reading, Holding, Kinds
<1>5. Kinds' /\ OneChild'
  BY <1>2, <1>3 DEF Kinds, PCs, OneChild
<1>6. Known'
  BY <1>2, <1>3 DEF Known, Kinds, Announces
<1>7. Owned'
  BY <1>2, <1>3, <1>4 DEF Owned, Kinds, Waiting, Reading, Holding
<1>8. Working'
  BY <1>2, <1>3, <1>4 DEF Working, Kinds, True, Operation
<1>9. InHand' /\ BlameIsRight'
  BY <1>2, <1>3 DEF InHand, BlameIsRight, Kinds, Holding, True, Operation, Announces
<1> QED
  BY <1>1, <1>5, <1>6, <1>7, <1>8, <1>9 DEF ClientInv

LEMMA AcceptHolds ==
    ASSUME ClientAssumption, CasesAssumption, ClientInv, NEW j \in DOMAIN case.asks, Accept(j)
    PROVE  ClientInv'
<1>1. Files' /\ Sent' /\ Lines' /\ HandedAsAsked'
  BY Kept DEF Accept, children
<1>2. /\ Kinds /\ OneChild /\ Known /\ Owned /\ Working /\ InHand /\ BlameIsRight
      /\ j \in Jobs
  BY DEF ClientInv, Kinds, ClientAssumption
<1>3. /\ pc[j] = "read"
      /\ pc' = [pc EXCEPT ![j] = IF AcceptEvent(line[j]) THEN "accepted" ELSE "raising"]
      /\ UNCHANGED <<case, file, asked, process, info, expected, starting, active, invalidated,
                     alive, spawned, command, out, line, child, handed>>
  BY DEF Accept, Goes, worker, children
<1>4. pc'[j] \in {"accepted", "raising"} /\ \A k \in Jobs : k # j => pc'[k] = pc[k]
  BY <1>2, <1>3 DEF Kinds
<1>5. Kinds' /\ OneChild'
  BY <1>2, <1>3 DEF Kinds, PCs, OneChild
<1>6. Known'
  BY <1>2, <1>3, <1>4 DEF Known, Kinds, Announces
<1>7. Owned'
  BY <1>2, <1>3, <1>4 DEF Owned, Kinds, Waiting, Reading, Holding
<1>8. Working'
  BY <1>2, <1>3, <1>4 DEF Working, Kinds, True, Operation, Holding
<1>9. InHand'
  <2>1. SUFFICES ASSUME NEW k \in Jobs, pc'[k] \in Holding, k \notin invalidated
                 PROVE /\ IsResult(line[k]) => True(k, line[k])
                       /\ pc'[k] = "accepted" =>
                            /\ IsResult(line[k]) =>
                                  Or(line[k].phasor_convention, "negative") = Convention(asked[k])
                            /\ Announces(child[k]).protocol # None => ValidateWorkerEvent(line[k])
                       /\ pc'[k] = "raising" =>
                            \/ IsResult(line[k])
                                 /\ Or(line[k].phasor_convention, "negative") # Convention(asked[k])
                            \/ ~ValidateWorkerEvent(line[k])
    BY <1>3 DEF InHand, True, Operation, Announces
  <2>2. CASE k # j
    BY <1>2, <1>4, <2>1, <2>2 DEF InHand
  <2>3. CASE k = j
    <3>1. active = j /\ process = child[j] /\ expected = Convention(asked[j]) /\ child[j] # None
      BY <1>2, <1>3, <2>1, <2>3 DEF Owned, Reading, Holding, Kinds
    <3>2. starting = None
      BY <1>2, <3>1 DEF Known, Kinds, ClientAssumption
    <3>3. info = Announces(child[j]) /\ child[j] \in Children
      BY <1>2, <3>1, <3>2 DEF Known, Kinds
    <3>4. info # None
      BY <1>2, <3>3, Announcing DEF Announced
    <3>5. IsResult(line[j]) => True(j, line[j])
      BY <1>2, <1>3, <2>1, <2>3 DEF InHand, Holding
    <3>6. CASE AcceptEvent(line[j])
      <4>1. pc'[j] = "accepted"
        BY <1>2, <1>3, <3>6 DEF Kinds
      <4> QED
        BY <2>3, <3>1, <3>3, <3>4, <3>5, <3>6, <4>1 DEF AcceptEvent, Negotiated
    <3>7. CASE ~AcceptEvent(line[j])
      <4>1. pc'[j] = "raising"
        BY <1>2, <1>3, <3>7 DEF Kinds
      <4> QED
        BY <2>3, <3>1, <3>5, <3>7, <4>1 DEF AcceptEvent
    <3> QED
      BY <3>6, <3>7
  <2> QED
    BY <2>2, <2>3
<1>10. BlameIsRight'
  BY <1>2, <1>3, <1>4 DEF BlameIsRight
<1> QED
  BY <1>1, <1>5, <1>6, <1>7, <1>8, <1>9, <1>10 DEF ClientInv

\* A stream that ends and takes its child with it.
LEMMA EndHolds ==
    ASSUME ClientAssumption, ClientInv, NEW j \in DOMAIN case.asks, pc[j] \in Reading,
           Finish(j, TRUE), NEW w \in {"done", "failed", "terminated", "mismatch"},
           pc' = [pc EXCEPT ![j] = w],
           w = "mismatch" => pc[j] = "raising" /\ j \notin invalidated,
           UNCHANGED <<case, file, asked, expected, starting, invalidated, spawned, command, out,
                       line, child, handed>>
    PROVE  ClientInv'
<1>1. Files' /\ Sent' /\ Lines' /\ HandedAsAsked'
  BY Kept
<1>2. /\ Kinds /\ OneChild /\ Known /\ Owned /\ Working /\ InHand /\ BlameIsRight
      /\ j \in Jobs /\ None \notin Jobs \cup Children
  BY DEF ClientInv, Kinds, ClientAssumption
<1>3. \/ /\ active = j /\ active' = None /\ process' = None /\ alive' = alive \ {process}
      \/ active # j /\ UNCHANGED <<active, process, info, alive>>
  BY DEF Finish, Discard
<1>4. pc'[j] = w /\ \A k \in Jobs : k # j => pc'[k] = pc[k]
  BY <1>2 DEF Kinds
<1>5. Kinds'
  BY <1>2, <1>3 DEF Kinds, PCs
<1>6. OneChild'
  BY <1>2, <1>3 DEF OneChild
<1>7. Known'
  <2>1. starting # j
    BY <1>2 DEF Known, Reading, Holding
  <2> QED
    BY <1>2, <1>3, <1>4, <2>1 DEF Known, Kinds, Announces
<1>8. Owned'
  BY <1>2, <1>3, <1>4 DEF Owned, Kinds, Waiting, Reading, Holding
<1>9. Working'
  <2>1. CASE active = j
    BY <1>3, <2>1 DEF Working
  <2>2. CASE active # j
    BY <1>2, <1>3, <1>4, <2>2 DEF Working, Kinds, True, Operation, Holding
  <2> QED
    BY <2>1, <2>2
<1>10. InHand'
  BY <1>2, <1>4 DEF InHand, Holding, True, Operation, Announces
<1>11. BlameIsRight'
  <2>1. w = "mismatch" =>
          \/ IsResult(line[j]) /\ Or(line[j].phasor_convention, "negative") # Convention(asked[j])
          \/ ~ValidateWorkerEvent(line[j])
    BY <1>2 DEF InHand, Holding
  <2> QED
    BY <1>2, <1>4, <2>1 DEF BlameIsRight
<1> QED
  BY <1>1, <1>5, <1>6, <1>7, <1>8, <1>9, <1>10, <1>11 DEF ClientInv

LEMMA RaiseHolds ==
    ASSUME ClientAssumption, ClientInv, NEW j \in DOMAIN case.asks, Raise(j)
    PROVE  ClientInv'
<1>1. PICK w \in {"terminated", "mismatch"} :
         w = Blame(j) /\ pc' = [pc EXCEPT ![j] = w]
  BY DEF Raise, Goes, Blame
<1>2. w = "mismatch" => pc[j] = "raising" /\ j \notin invalidated
  BY <1>1 DEF Raise, Blame
<1> QED
  BY <1>1, <1>2, EndHolds DEF Raise, Reading, Holding

LEMMA LeaveHolds ==
    ASSUME ClientAssumption, ClientInv, NEW j \in DOMAIN case.asks, Leave(j)
    PROVE  ClientInv'
<1>1. PICK w \in {"terminated", "failed", "done"} : pc' = [pc EXCEPT ![j] = w]
  BY DEF Leave, Goes
<1> QED
  BY <1>1, EndHolds DEF Leave, Reading, Holding

LEMMA TerminateHolds ==
    ASSUME ClientAssumption, ClientInv, Terminate
    PROVE  ClientInv'
<1>1. Files' /\ Sent' /\ Lines' /\ HandedAsAsked'
  BY Kept DEF Terminate, jobs
<1>2. /\ Kinds /\ OneChild /\ Known /\ Owned /\ Working /\ InHand /\ BlameIsRight
      /\ None \notin Jobs \cup Children
  BY DEF ClientInv, ClientAssumption
<1>3. /\ starting' = None /\ active' = None /\ process' = None /\ alive' = alive \ {process}
      /\ invalidated' = IF active = None THEN invalidated ELSE invalidated \cup {active}
      /\ UNCHANGED <<case, file, asked, expected, spawned, command, out, pc, line, child, handed>>
  BY DEF Terminate, Discard, jobs
<1>4. Kinds' /\ OneChild'
  BY <1>2, <1>3 DEF Kinds, OneChild
<1>5. Known' /\ Working'
  BY <1>2, <1>3 DEF Known, Working
<1>6. Owned'
  BY <1>2, <1>3 DEF Owned, Kinds, Waiting, Reading, Holding
<1>7. InHand' /\ BlameIsRight'
  BY <1>2, <1>3 DEF InHand, BlameIsRight, Holding, True, Operation, Announces
<1> QED
  BY <1>1, <1>4, <1>5, <1>6, <1>7 DEF ClientInv

LEMMA ChildDiesHolds ==
    ASSUME ClientInv, NEW p \in Children, ChildDies(p)
    PROVE  ClientInv'
<1>1. Files' /\ Sent' /\ Lines' /\ HandedAsAsked'
  BY Kept DEF ChildDies, jobs
<1>2. Kinds /\ OneChild /\ Known /\ Owned /\ Working /\ InHand /\ BlameIsRight
  BY DEF ClientInv
<1>3. /\ alive' = alive \ {p}
      /\ UNCHANGED <<case, file, asked, process, info, expected, starting, active, invalidated,
                     spawned, command, out, pc, line, child, handed>>
  BY DEF ChildDies, worker, jobs
<1>4. Kinds' /\ OneChild' /\ Known'
  <2>1. Kinds'
    BY <1>2, <1>3 DEF Kinds
  <2>2. OneChild'
    BY <1>2, <1>3 DEF OneChild
  <2>3. Known'
    BY <1>2, <1>3 DEF Known, Announces
  <2> QED
    BY <2>1, <2>2, <2>3
<1>5. Owned' /\ Working'
  BY <1>2, <1>3 DEF Owned, Working, True, Operation
<1>6. InHand' /\ BlameIsRight'
  BY <1>2, <1>3 DEF InHand, BlameIsRight, True, Operation, Announces
<1> QED
  BY <1>1, <1>4, <1>5, <1>6 DEF ClientInv

\* The edit of a file spoils no excuse: what differed from what was asked is
\* the edit of it, and is not edited again.
LEMMA EditHolds ==
    ASSUME ClientAssumption, CasesAssumption, ClientInv, NEW j \in DOMAIN case.asks, Edit(j)
    PROVE  ClientInv'
<1>1. /\ Kinds /\ Files /\ OneChild /\ Known /\ Owned /\ Sent /\ Lines /\ Working /\ InHand
      /\ BlameIsRight /\ HandedAsAsked
  BY DEF ClientInv
<1>2. /\ file[j] = case.asks[j].request
      /\ file' = [file EXCEPT ![j].options.phasor_convention = Flip(Convention(file[j]))]
      /\ UNCHANGED <<case, asked, process, info, expected, starting, active, invalidated, alive,
                     spawned, command, out, pc, line, child, handed>>
  BY DEF Edit, worker, children, jobs
<1>3. /\ file'[j] = Edited(case.asks[j].request) /\ DOMAIN file' = DOMAIN file
      /\ \A k \in DOMAIN case.asks : k # j => file'[k] = file[k]
  BY <1>1, <1>2 DEF Kinds, Edited
<1>4. Kinds' /\ OneChild' /\ Known'
  BY <1>1, <1>2, <1>3 DEF Kinds, OneChild, Known, Announces
<1>5. Files'
  BY <1>1, <1>2, <1>3 DEF Files, Written
<1>6. Owned' /\ Working'
  BY <1>1, <1>2 DEF Owned, Working, True, Operation
<1>7. Sent'
  BY <1>1, <1>2 DEF Sent, CommandOf, Agreed, Operation, Inline, Announces
<1>8. Lines'
  <2>1. Edited(case.asks[j].request) # case.asks[j].request
    BY <1>1, Announcing, Editing
  <2>2. \A k \in DOMAIN case.asks : child[k] # None /\ file[k] # asked[k] => file'[k] # asked[k]
    BY <1>1, <1>2, <1>3, <2>1 DEF Files
  <2> QED
    BY <1>1, <1>2, <2>2 DEF Lines, Excused
<1>9. InHand' /\ BlameIsRight' /\ HandedAsAsked'
  BY <1>1, <1>2 DEF InHand, BlameIsRight, HandedAsAsked, True, Operation, Announces
<1> QED
  BY <1>4, <1>5, <1>6, <1>7, <1>8, <1>9 DEF ClientInv

\* The next line of what a child prints.
LEMMA NextLine ==
    ASSUME NEW lines, Printed(lines), lines # << >>
    PROVE  /\ Printed(Tail(lines)) /\ Head(lines) = lines[1] /\ 1 \in DOMAIN lines
           /\ Terminal(Head(lines)) => Tail(lines) = << >>
           /\ \A i \in DOMAIN Tail(lines) : i + 1 \in DOMAIN lines /\ Tail(lines)[i] = lines[i + 1]
<1>1. CASE \E e : Terminal(e) /\ lines = <<e>>
  <2>1. PICK e : Terminal(e) /\ lines = <<e>>
    BY <1>1
  <2>2. Tail(lines) = << >> /\ Head(lines) = lines[1] /\ 1 \in DOMAIN lines
    BY <2>1
  <2> QED
    BY <2>2 DEF Printed
<1>2. CASE \E e, f : ~Terminal(e) /\ Terminal(f) /\ lines = <<e, f>>
  <2>1. PICK e, f : ~Terminal(e) /\ Terminal(f) /\ lines = <<e, f>>
    BY <1>2
  <2>2. Tail(lines) = <<f>> /\ Head(lines) = lines[1] /\ Head(lines) = e
        /\ DOMAIN lines = 1 .. 2 /\ lines[2] = f
    BY <2>1
  <2>3. DOMAIN Tail(lines) = {1} /\ Tail(lines)[1] = f
    BY <2>2
  <2>4. Printed(Tail(lines))
    BY <2>1, <2>2 DEF Printed
  <2> QED
    BY <2>1, <2>2, <2>3, <2>4
<1> QED
  BY <1>1, <1>2 DEF Printed

LEMMA ReadLineHolds ==
    ASSUME ClientAssumption, ClientInv, NEW j \in DOMAIN case.asks, ReadLine(j)
    PROVE  ClientInv'
<1>1. /\ Kinds /\ Files /\ OneChild /\ Known /\ Owned /\ Sent /\ Lines /\ Working /\ InHand
      /\ BlameIsRight /\ HandedAsAsked /\ j \in Jobs /\ None \notin Jobs \cup Children
  BY DEF ClientInv, ClientAssumption, Kinds
<1>2. /\ pc[j] = "streaming" /\ j \notin invalidated /\ out[child[j]] # << >>
      /\ line' = [line EXCEPT ![j] = Head(out[child[j]])]
      /\ out' = [out EXCEPT ![child[j]] = Tail(@)]
      /\ pc' = [pc EXCEPT ![j] = "read"]
      /\ UNCHANGED <<case, file, asked, process, info, expected, starting, active, invalidated,
                     alive, spawned, command, child, handed>>
  BY DEF ReadLine, Goes, worker
<1>3. active = j /\ process = child[j] /\ process \in Children /\ process # None
  BY <1>1, <1>2 DEF Owned, Reading, Kinds
<1>4. PICK lines : lines = out[process]
  OBVIOUS
<1>5. /\ Printed(lines) /\ lines # << >>
  BY <1>1, <1>2, <1>3, <1>4 DEF Lines
<1>6. /\ Printed(Tail(lines)) /\ Head(lines) = lines[1] /\ 1 \in DOMAIN lines
      /\ Terminal(Head(lines)) => Tail(lines) = << >>
      /\ \A i \in DOMAIN Tail(lines) : i + 1 \in DOMAIN lines /\ Tail(lines)[i] = lines[i + 1]
  BY <1>5, NextLine
<1>7. /\ line'[j] = Head(lines) /\ out'[process] = Tail(lines) /\ pc'[j] = "read"
      /\ \A k \in Jobs : k # j => line'[k] = line[k] /\ pc'[k] = pc[k]
      /\ \A p \in Children : p # process => out'[p] = out[p]
  BY <1>1, <1>2, <1>3, <1>4 DEF Kinds
<1>8. Kinds' /\ OneChild'
  <2>1. Kinds'
    BY <1>1, <1>2 DEF Kinds, PCs
  <2>2. OneChild'
    BY <1>1, <1>2, <1>3, <1>7 DEF OneChild
  <2> QED
    BY <2>1, <2>2
<1>9. Files' /\ Known'
  BY <1>1, <1>2, <1>3, <1>7 DEF Files, Written, Known, Kinds, Announces
<1>10. Owned'
  BY <1>1, <1>2, <1>7 DEF Owned, Kinds, Waiting, Reading, Holding
<1>11. Sent'
  BY <1>1, <1>2 DEF Sent, CommandOf, Agreed, Operation, Inline, Announces
<1>12. Lines'
  <2>1. \A i \in DOMAIN lines : Excused(lines[i])
    BY <1>1, <1>3, <1>4 DEF Lines
  <2>2. \A i \in DOMAIN Tail(lines) : Excused(Tail(lines)[i])
    BY <1>6, <2>1
  <2>3. \A p \in Children : Printed(out'[p]) /\ \A i \in DOMAIN out'[p] : Excused(out'[p][i])
    BY <1>1, <1>6, <1>7, <2>2 DEF Lines
  <2> QED
    BY <1>2, <2>3, ZenonT(60) DEF Lines, Excused
<1>13. \A i \in DOMAIN lines : IsResult(lines[i]) => True(j, lines[i])
  BY <1>1, <1>3, <1>4 DEF Working
<1>14. Working'
  <2>1. command[process] = None
    BY <1>1, <1>2, <1>3 DEF Working
  <2>2. \A i \in DOMAIN Tail(lines) : IsResult(Tail(lines)[i]) => True(j, Tail(lines)[i])
    BY <1>6, <1>13
  <2>3. \A i \in DOMAIN out'[process] : IsResult(out'[process][i]) => True(j, out'[process][i])
    BY <1>7, <2>2
  <2>4. j # None /\ active' = j /\ process' = process /\ command'[process'] = None
    BY <1>1, <1>2, <1>3, <2>1
  <2>5. \A i \in DOMAIN out'[process'] :
          IsResult(out'[process'][i]) => True(active, out[process][i])'
    BY <1>2, <1>3, <2>3, <2>4 DEF True, Operation
  <2>6. Terminal(line'[active']) => out'[process'] = << >>
    BY <1>6, <1>7, <2>4
  <2> QED
    BY <2>4, <2>5, <2>6 DEF Working, IsResult
<1>15. InHand'
  <2>1. IsResult(line'[j]) => True(j, line'[j])
    BY <1>6, <1>7, <1>13
  <2> QED
    BY <1>1, <1>2, <1>7, <2>1 DEF InHand, Holding, True, Operation, Announces
<1>16. BlameIsRight' /\ HandedAsAsked'
  BY <1>1, <1>2, <1>7 DEF BlameIsRight, HandedAsAsked, Operation, Announces
<1> QED
  BY <1>8, <1>9, <1>10, <1>11, <1>12, <1>14, <1>15, <1>16 DEF ClientInv

LEMMA HandHolds ==
    ASSUME ClientAssumption, ClientInv, NEW j \in DOMAIN case.asks, Hand(j)
    PROVE  ClientInv'
<1>1. /\ Kinds /\ Files /\ OneChild /\ Known /\ Owned /\ Sent /\ Lines /\ Working /\ InHand
      /\ BlameIsRight /\ HandedAsAsked /\ j \in Jobs /\ None \notin Jobs \cup Children
  BY DEF ClientInv, ClientAssumption, Kinds
<1>2. /\ pc[j] = "accepted"
      /\ UNCHANGED <<case, file, asked, expected, starting, invalidated, spawned, command, out,
                     line, child>>
  BY DEF Hand
<1>3. CASE j \in invalidated
  <2>1. /\ pc' = [pc EXCEPT ![j] = "terminated"] /\ Finish(j, TRUE) /\ UNCHANGED handed
    BY <1>3 DEF Hand, StillMine, Goes
  <2> QED
    BY <1>2, <2>1, EndHolds DEF Reading, Holding
<1>4. CASE j \notin invalidated
  <2>1. /\ handed' = [handed EXCEPT ![j] = IF IsResult(line[j]) THEN @ \cup {line[j]} ELSE @]
        /\ pc' = [pc EXCEPT ![j] = IF Terminal(line[j]) THEN "done" ELSE "streaming"]
        /\ IF Terminal(line[j]) THEN Finish(j, FALSE)
           ELSE UNCHANGED <<active, process, info, alive>>
    BY <1>4 DEF Hand, StillMine, Goes, Terminal
  <2>2. active = j /\ process = child[j] /\ process \in Children /\ j # None /\ process # None
    BY <1>1, <1>2, <1>4 DEF Owned, Reading, Holding, Kinds
  <2>3. /\ active' = IF Terminal(line[j]) THEN None ELSE j
        /\ UNCHANGED <<process, info, alive>>
    BY <2>1, <2>2 DEF Finish
  <2>4. /\ pc'[j] = IF Terminal(line[j]) THEN "done" ELSE "streaming"
        /\ \A k \in Jobs : k # j => pc'[k] = pc[k]
    BY <1>1, <2>1 DEF Kinds
  <2>5. Kinds' /\ OneChild'
    BY <1>1, <1>2, <2>1, <2>3 DEF Kinds, PCs, OneChild
  <2>6. Files' /\ Sent' /\ Lines'
    <3>1. Files'
      BY <1>1, <1>2 DEF Files, Written
    <3>2. Sent'
      BY <1>1, <1>2 DEF Sent, CommandOf, Agreed, Operation, Inline, Announces
    <3>3. Lines'
      BY <1>1, <1>2 DEF Lines, Excused
    <3> QED
      BY <3>1, <3>2, <3>3
  <2>7. Known'
    <3>1. starting # j /\ starting = None
      BY <1>1, <2>2 DEF Known
    <3> QED
      BY <1>1, <1>2, <2>3, <3>1 DEF Known, Announces
  <2>8. Owned'
    <3>1. handed'[j] # {} => child[j] # None
      BY <2>2
    <3>2. \A k \in Jobs : k # j => handed'[k] = handed[k]
      BY <1>1, <2>1 DEF Kinds
    <3> QED
      BY <1>1, <1>2, <2>2, <2>3, <2>4, <3>1, <3>2 DEF Owned, Kinds, Waiting, Reading, Holding
  <2>9. Working'
    <3>1. command[process] = None
      BY <1>1, <1>2, <2>2 DEF Working
    <3>2. Terminal(line[j]) => out[process] = << >>
      BY <1>1, <1>2, <2>2 DEF Working, Holding
    <3>3. CASE Terminal(line[j])
      <4>1. process' = process /\ active' = None /\ command'[process] = None
            /\ out'[process] = << >>
        BY <1>2, <2>3, <3>1, <3>2, <3>3
      <4> QED
        BY <4>1 DEF Working
    <3>4. CASE ~Terminal(line[j])
      <4>1. active' = j /\ pc'[j] = "streaming" /\ process' = process
        BY <2>3, <2>4, <3>4
      <4> QED
        BY <1>1, <1>2, <2>2, <3>1, <4>1 DEF Working, Holding, True, Operation
    <3> QED
      BY <3>3, <3>4
  <2>10. InHand' /\ BlameIsRight'
    BY <1>1, <1>2, <2>4 DEF InHand, BlameIsRight, Holding, True, Operation, Announces
  <2>11. HandedAsAsked'
    <3>1. ASSUME IsResult(line[j])
          PROVE  /\ line[j].job = j /\ line[j].computed = Meaning(asked[j])
                 /\ Announces(child[j]).protocol # None =>
                       IF Operation(j) = "solve" THEN line[j].schema_version = SYSTEM_RESULT_VERSION
                       ELSE line[j].binary
      <4>1. /\ True(j, line[j])
            /\ Or(line[j].phasor_convention, "negative") = Convention(asked[j])
            /\ Announces(child[j]).protocol # None => ValidateWorkerEvent(line[j])
        BY <1>1, <1>2, <1>4, <3>1 DEF InHand, Holding
      <4>2. line[j].type = IF Operation(j) = "solve" THEN "result" ELSE "field_result"
        BY <3>1, <4>1 DEF True, IsResult
      <4>3. /\ line[j].job = j /\ line[j].computed = Meaning(asked[j])
        BY <4>1 DEF True
      <4> QED
        BY <4>1, <4>2, <4>3, Zenon DEF ValidateWorkerEvent
    <3>2. \A k \in Jobs : \A e \in handed'[k] :
             e \in handed[k] \/ (k = j /\ e = line[j] /\ IsResult(line[j]))
      BY <1>1, <2>1 DEF Kinds
    <3>3. ASSUME NEW k \in Jobs, NEW e \in handed'[k]
          PROVE  /\ e.job = k /\ e.computed = Meaning(asked[k])
                 /\ Announces(child[k]).protocol # None =>
                       IF Operation(k) = "solve" THEN e.schema_version = SYSTEM_RESULT_VERSION
                       ELSE e.binary
      <4>1. CASE e \in handed[k]
        BY <1>1, <4>1 DEF HandedAsAsked
      <4>2. CASE k = j /\ e = line[j] /\ IsResult(line[j])
        <5>1. IsResult(line[j])
          BY <4>2
        <5> QED
          BY <3>1, <4>2, <5>1, Zenon
      <4> QED
        BY <3>2, <4>1, <4>2
    <3> QED
      BY <1>2, <3>3 DEF HandedAsAsked, Announces, Operation
  <2> QED
    BY <2>5, <2>6, <2>7, <2>8, <2>9, <2>10, <2>11 DEF ClientInv
<1> QED
  BY <1>3, <1>4

\* What the negotiation answers is an agreement or a refusal.
LEMMA Answer ==
    ASSUME ClientAssumption, CasesAssumption, ClientInv, NEW j \in DOMAIN case.asks
    PROVE  Negotiate(j) \in {"ok", "refused"}
<1>1. Kinds /\ file[j] \in Written(j)
  BY DEF ClientInv, Files
<1>2. Operation(j) \in {"solve", "bem_field"} /\ (file[j].system # None => Asks(file[j]))
  BY <1>1, Requested
<1>3. NegotiateSubmission(info, file[j], Operation(j)) \in {"ok", "refused"}
  BY <1>2, Agreement
<1> QED
  BY <1>3 DEF Negotiate

LEMMA SubmitHolds ==
    ASSUME ClientAssumption, CasesAssumption, ClientInv, NEW j \in DOMAIN case.asks, Submit(j)
    PROVE  ClientInv'
<1>1. /\ Kinds /\ Files /\ OneChild /\ Known /\ Owned /\ Sent /\ Lines /\ Working /\ InHand
      /\ BlameIsRight /\ HandedAsAsked /\ j \in Jobs /\ None \notin Jobs \cup Children
  BY DEF ClientInv, ClientAssumption, Kinds
<1> DEFINE verdict == IF Transportable(j) THEN Negotiate(j) ELSE "refused"
<1>2. /\ pc[j] = "ready" /\ starting = j /\ starting' = None
      /\ expected' = IF Transportable(j) THEN Convention(file[j]) ELSE expected
      /\ asked' = [asked EXCEPT ![j] = file[j]]
      /\ UNCHANGED <<case, file, process, info, invalidated, alive, spawned, out, line, handed>>
  BY DEF Submit
<1>3. verdict \in {"ok", "refused"}
  BY Answer
<1>4. \/ /\ verdict = "ok" /\ process \in alive
         /\ command' = [command EXCEPT ![process] = CommandFor(j)]
         /\ child' = [child EXCEPT ![j] = process]
         /\ active' = j
         /\ pc' = [pc EXCEPT ![j] = "streaming"]
      \/ /\ ~(verdict = "ok" /\ process \in alive)
         /\ pc' = [pc EXCEPT ![j] = IF verdict = "ok" THEN "failed" ELSE verdict]
         /\ UNCHANGED <<command, child, active>>
  BY DEF Submit, Goes
<1>5. active = None /\ child[j] = None /\ j \notin invalidated /\ handed[j] = {}
  BY <1>1, <1>2 DEF Known, Owned, Waiting
<1>6. /\ asked'[j] = file[j] /\ \A k \in Jobs : k # j => asked'[k] = asked[k]
      /\ DOMAIN asked' = Jobs
  BY <1>1, <1>2 DEF Kinds
<1>8. Lines'
  <2>1. \A k \in DOMAIN case.asks : child[k] # None =>
          child'[k] = child[k] /\ asked'[k] = asked[k] /\ k # j
    BY <1>1, <1>4, <1>5, <1>6 DEF Kinds, ClientAssumption
  <2> QED
    BY <1>1, <1>2, <2>1 DEF Lines, Excused
<1>9. HandedAsAsked'
  <2>1. \A k \in Jobs : handed[k] # {} => child'[k] = child[k] /\ asked'[k] = asked[k]
    BY <1>1, <1>4, <1>5, <1>6 DEF Kinds
  <2> QED
    BY <1>1, <1>2, <2>1 DEF HandedAsAsked, Announces, Operation
<1>10. ASSUME verdict = "ok", process \in alive,
             command' = [command EXCEPT ![process] = CommandFor(j)],
             child' = [child EXCEPT ![j] = process], active' = j,
             pc' = [pc EXCEPT ![j] = "streaming"]
       PROVE ClientInv'
  <2>1. /\ process # None /\ process \in Children /\ j # None
        /\ info = Announces(process)
    <3>1. process # None /\ process \in Children /\ j # None
      BY <1>1, <1>10 DEF OneChild, Kinds
    <3>2. starting # None /\ pc[starting] = "ready"
      BY <1>2, <3>1
    <3>3. info = Announces(process)
      BY <1>1, <3>1, <3>2 DEF Known
    <3> QED
      BY <3>1, <3>3
  <2>2. Transportable(j) /\ Negotiate(j) = "ok" /\ expected' = Convention(file[j])
    BY <1>2, <1>10
  <2>3. /\ pc'[j] = "streaming" /\ \A k \in Jobs : k # j => pc'[k] = pc[k]
        /\ child'[j] = process /\ \A k \in Jobs : k # j => child'[k] = child[k]
        /\ command'[process] = CommandFor(j)
        /\ \A p \in Children : p # process => command'[p] = command[p]
    BY <1>1, <1>10, <2>1 DEF Kinds
  <2>4. Kinds'
    BY <1>1, <1>2, <1>10, <2>1 DEF Kinds, PCs
  <2>5. Files'
    BY <1>1, <1>2, <1>6, <2>3 DEF Files, Written, Kinds, ClientAssumption
  <2>6. OneChild'
    BY <1>1, <1>2, <2>1, <2>3 DEF OneChild
  <2>7. Known'
    BY <1>2, <2>1 DEF Known, Announces
  <2>8. Owned'
    BY <1>1, <1>2, <1>5, <1>6, <1>10, <2>1, <2>2, <2>3
    DEF Owned, Kinds, Waiting, Reading, Holding
  <2>9. Sent'
    <3>1. CommandFor(j) = CommandOf(Announces(process), j)'
      BY <1>2, <1>6, <2>1 DEF CommandFor, Command, CommandOf, Negotiated, Operation, Inline, Announces
    <3>2. Agreed(Announces(process), j)'
      BY <1>2, <1>6, <2>1, <2>2
      DEF Agreed, Negotiate, Transportable, Negotiated, Operation, Inline, Announces
    <3>3. ASSUME NEW p \in Children, command'[p] # None
          PROVE  (\E k \in DOMAIN case.asks :
                    child[k] = p /\ command[p] = CommandOf(Announces(p), k)
                    /\ Agreed(Announces(p), k))'
      <4>1. CASE p = process
        <5>1. /\ j \in DOMAIN case'.asks /\ child'[j] = process
              /\ command'[process] = CommandOf(Announces(process), j)'
          BY <1>2, <2>3, <3>1
        <5>2. Announces(process)' = Announces(p)'
          BY <1>2, <4>1 DEF Announces
        <5> QED
          BY <1>2, <3>2, <4>1, <5>1 DEF CommandOf, Agreed, Announces
      <4>2. CASE p # process
        <5>1. PICK k \in DOMAIN case.asks :
                child[k] = p /\ command[p] = CommandOf(Announces(p), k) /\ Agreed(Announces(p), k)
          BY <1>1, <2>3, <3>3, <4>2 DEF Sent
        <5>2. k # j /\ k \in Jobs
          BY <1>1, <1>5, <5>1, Announcing DEF Kinds, ClientAssumption
        <5>3. child'[k] = p /\ command'[p] = command[p] /\ asked'[k] = asked[k]
          BY <1>6, <2>3, <4>2, <5>1, <5>2
        <5> QED
          BY <1>2, <5>1, <5>3 DEF CommandOf, Agreed, Operation, Inline, Announces
      <4> QED
        BY <4>1, <4>2
    <3> QED
      BY <3>3 DEF Sent
  <2>10. Working'
    <3>1. out[process] = << >>
      BY <1>1, <1>5, <2>1 DEF Working
    <3>2. CommandFor(j).job = j
      BY DEF CommandFor, Command
    <3>3. process' = process /\ out'[process] = << >> /\ active' = j
      BY <1>2, <1>10, <3>1
    <3> QED
      BY <2>1, <2>3, <3>2, <3>3 DEF Working
  <2>11. InHand' /\ BlameIsRight'
    BY <1>1, <1>2, <1>6, <2>3 DEF InHand, BlameIsRight, Holding, True, Operation, Announces
  <2> QED
    BY <1>8, <1>9, <2>4, <2>5, <2>6, <2>7, <2>8, <2>9, <2>10, <2>11 DEF ClientInv
<1>11. ASSUME NEW w \in {"failed", "refused"}, pc' = [pc EXCEPT ![j] = w],
             UNCHANGED <<command, child, active>>
       PROVE ClientInv'
  <2>1. pc'[j] = w /\ \A k \in Jobs : k # j => pc'[k] = pc[k]
    BY <1>1, <1>11 DEF Kinds
  <2>2. Kinds'
    BY <1>1, <1>2, <1>11 DEF Kinds, PCs
  <2>3. Files' /\ OneChild'
    BY <1>1, <1>2, <1>5, <1>6, <1>11 DEF Files, Written, OneChild, Kinds, ClientAssumption
  <2>4. Known'
    BY <1>1, <1>2, <1>11 DEF Known, Announces
  <2>5. Owned'
    BY <1>1, <1>2, <1>5, <1>11, <2>1 DEF Owned, Kinds, Waiting, Reading, Holding
  <2>6. Sent'
    <3>1. \A k \in DOMAIN case.asks : \A p \in Children :
             child[k] = p => asked'[k] = asked[k]
      BY <1>1, <1>5, <1>6, Announcing
    <3>2. ASSUME NEW p \in Children, command'[p] # None
          PROVE  (\E k \in DOMAIN case.asks :
                    child[k] = p /\ command[p] = CommandOf(Announces(p), k)
                    /\ Agreed(Announces(p), k))'
      <4>1. PICK k \in DOMAIN case.asks :
              child[k] = p /\ command[p] = CommandOf(Announces(p), k) /\ Agreed(Announces(p), k)
        BY <1>1, <1>11, <3>2 DEF Sent
      <4>2. child'[k] = p /\ command'[p] = command[p] /\ asked'[k] = asked[k]
        BY <1>11, <3>1, <4>1
      <4> QED
        BY <1>2, <4>1, <4>2 DEF CommandOf, Agreed, Operation, Inline, Announces
    <3> QED
      BY <3>2 DEF Sent
  <2>7. Working'
    BY <1>1, <1>2, <1>5, <1>11 DEF Working
  <2>8. InHand' /\ BlameIsRight'
    BY <1>1, <1>2, <1>6, <1>11, <2>1 DEF InHand, BlameIsRight, Holding, True, Operation, Announces
  <2> QED
    BY <1>8, <1>9, <2>2, <2>3, <2>4, <2>5, <2>6, <2>7, <2>8 DEF ClientInv
<1> QED
  <2>1. CASE verdict = "ok" /\ process \in alive
    BY <1>4, <1>10, <2>1
  <2>2. CASE ~(verdict = "ok" /\ process \in alive)
    BY <1>3, <1>4, <1>11, <2>2
  <2> QED
    BY <2>1, <2>2


\* A child answers the active job, with what it was asked for or a reason.
LEMMA AnswersHolds ==
    ASSUME ClientAssumption, CasesAssumption, ClientInv, NEW p \in Children, Answers(p)
    PROVE  ClientInv'
<1>1. /\ Kinds /\ Files /\ OneChild /\ Known /\ Owned /\ Sent /\ Lines /\ Working /\ InHand
      /\ BlameIsRight /\ HandedAsAsked /\ None \notin Jobs \cup Children
  BY DEF ClientInv, ClientAssumption
<1>2. /\ p \in alive /\ command[p] # None
      /\ command' = [command EXCEPT ![p] = None]
      /\ UNCHANGED <<case, file, asked, process, info, expected, starting, active, invalidated,
                     alive, spawned, pc, line, child, handed>>
  BY DEF Answers, worker, jobs
<1>3. p = process /\ process # None
  BY <1>1, <1>2 DEF OneChild
<1>4. PICK j \in DOMAIN case.asks :
        child[j] = p /\ command[p] = CommandOf(Announces(p), j) /\ Agreed(Announces(p), j)
  BY <1>1, <1>2 DEF Sent
<1> DEFINE own == Announces(p)
           cmd == command[p]
           q == IF Inline(j) THEN asked[j] ELSE file[j]
<1>5. /\ cmd.job = j /\ cmd.operation = Operation(j) /\ cmd.inline = Inline(j)
      /\ Inline(j) => cmd.request = asked[j]
  BY <1>4 DEF CommandOf
<1>6. active = j /\ pc[j] = "streaming" /\ out[p] = << >> /\ j # None
  BY <1>1, <1>2, <1>3, <1>5 DEF Working
<1>7. child[j] # None /\ Announced(own) /\ file[j] \in Written(j) /\ asked[j] \in Written(j)
  <2>1. child[j] # None
    BY <1>1, <1>4
  <2>2. Announced(own)
    BY <1>1, Announcing
  <2>3. file[j] \in Written(j) /\ asked[j] \in Written(j)
    BY <1>1, <2>1 DEF Files, Written
  <2> QED
    BY <2>1, <2>2, <2>3
<1>8. q = IF cmd.inline THEN cmd.request ELSE file[cmd.job]
  BY <1>5
<1>9. \/ /\ own.protocol # None /\ ~Reads(own, cmd, q)
         /\ out' = [out EXCEPT ![p] = @ \o Failed("contract", j)]
      \/ out' = [out EXCEPT ![p] = @ \o Failed("driver", j)]
      \/ /\ own.protocol # None => Reads(own, cmd, q)
         /\ \E r \in Results(own, cmd, q) :
               out' = [out EXCEPT ![p] = @ \o <<r, Event("completed")>>]
  BY <1>5, <1>8 DEF Answers
<1>10. \A k \in Children : k # p => out'[k] = out[k] /\ command'[k] = command[k]
  BY <1>1, <1>2, <1>9 DEF Kinds
<1>11. command'[p] = None /\ DOMAIN out' = Children /\ DOMAIN command' = Children
  BY <1>1, <1>2, <1>9 DEF Kinds
<1>12. ASSUME NEW why \in {"contract", "driver"},
              out' = [out EXCEPT ![p] = @ \o Failed(why, j)]
       PROVE  \E e : /\ out'[p] = <<e>> /\ e.type = "failed" /\ e.computed = {why} /\ e.job = j
  <2> DEFINE e == [Event("failed") EXCEPT !.job = j, !.computed = {why}]
  <2>1. e.type = "failed" /\ e.computed = {why} /\ e.job = j
    BY DEF Event
  <2> HIDE DEF e
  <2>2. out'[p] = << >> \o <<e>>
    BY <1>1, <1>6, <1>12 DEF Kinds, Failed, e
  <2>3. << >> \o <<e>> = <<e>>
    OBVIOUS
  <2> QED
    BY <2>1, <2>2, <2>3
<1>13. /\ Printed(out'[p])
       /\ \A i \in DOMAIN out'[p] : /\ Excused(out'[p][i])
                                    /\ IsResult(out'[p][i]) => True(j, out'[p][i])
  <2>1. CASE /\ own.protocol # None /\ ~Reads(own, cmd, q)
             /\ out' = [out EXCEPT ![p] = @ \o Failed("contract", j)]
    <3>1. PICK e : out'[p] = <<e>> /\ e.type = "failed" /\ e.computed = {"contract"} /\ e.job = j
      BY <1>12, <2>1
    <3>2. Reads(own, cmd, asked[j])
      BY <1>1, <1>4, <1>7, <2>1, Compatible
    <3>3. file[j] # asked[j]
      BY <2>1, <3>2
    <3>4. Printed(out'[p])
      BY <3>1 DEF Printed, Terminal
    <3>5. Excused(e) /\ ~IsResult(e)
      BY <1>7, <3>1, <3>3 DEF Excused, IsResult
    <3> QED
      BY <3>1, <3>4, <3>5
  <2>2. CASE out' = [out EXCEPT ![p] = @ \o Failed("driver", j)]
    <3>1. PICK e : out'[p] = <<e>> /\ e.type = "failed" /\ e.computed = {"driver"} /\ e.job = j
      BY <1>12, <2>2
    <3>2. {"driver"} # {"contract"}
      OBVIOUS
    <3>3. Printed(out'[p]) /\ Excused(e) /\ ~IsResult(e)
      BY <3>1, <3>2 DEF Printed, Terminal, Excused, IsResult
    <3> QED
      BY <3>1, <3>3
  <2>3. ASSUME own.protocol # None => Reads(own, cmd, q), NEW r \in Results(own, cmd, q),
               out' = [out EXCEPT ![p] = @ \o <<r, Event("completed")>>]
        PROVE  /\ Printed(out'[p])
               /\ \A i \in DOMAIN out'[p] : /\ Excused(out'[p][i])
                                            /\ IsResult(out'[p][i]) => True(j, out'[p][i])
    <3> DEFINE f == Event("completed")
    <3>1. True(j, r) /\ r.type \in {"result", "field_result"}
      <4>1. /\ own.protocol # None => Reads(own, CommandOf(own, j), q)
            /\ r \in Results(own, CommandOf(own, j), q)
        BY <1>4, <2>3
      <4>2. Kinds /\ Files /\ Agreed(own, j) /\ child[j] # None /\ Announced(own)
        BY <1>1, <1>4, <1>7
      <4> HIDE DEF own, cmd
      <4> QED
        BY <4>1, <4>2, Computation
    <3>2. f.type = "completed"
      BY DEF Event
    <3> HIDE DEF f
    <3>3. out'[p] = << >> \o <<r, f>>
      BY <1>1, <1>6, <2>3 DEF Kinds, f
    <3>4. << >> \o <<r, f>> = <<r, f>>
      OBVIOUS
    <3>5. ~Terminal(r) /\ Terminal(f) /\ ~IsResult(f) /\ Excused(r) /\ Excused(f)
      BY <3>1, <3>2 DEF Terminal, IsResult, Excused
    <3>6. Printed(out'[p])
      BY <3>3, <3>4, <3>5 DEF Printed
    <3>7. \A i \in DOMAIN out'[p] : out'[p][i] \in {r, f}
      BY <3>3, <3>4
    <3> QED
      BY <3>1, <3>5, <3>6, <3>7
  <2> QED
    BY <1>9, <2>1, <2>2, <2>3
<1>14. Kinds' /\ Files' /\ OneChild' /\ Known' /\ Owned'
  <2>1. Kinds'
    BY <1>1, <1>2, <1>11 DEF Kinds, PCs
  <2>2. Files'
    BY <1>1, <1>2 DEF Files, Written
  <2>3. OneChild'
    BY <1>1, <1>2, <1>3, <1>10 DEF OneChild
  <2>4. Known' /\ Owned'
    BY <1>1, <1>2 DEF Known, Owned, Announces
  <2> QED
    BY <2>1, <2>2, <2>3, <2>4
<1>15. Sent'
  <2>1. ASSUME NEW c \in Children, command'[c] # None
        PROVE  (\E k \in DOMAIN case.asks :
                  child[k] = c /\ command[c] = CommandOf(Announces(c), k)
                  /\ Agreed(Announces(c), k))'
    <3>1. c # p /\ command'[c] = command[c]
      BY <1>10, <1>11, <2>1
    <3>2. PICK k \in DOMAIN case.asks :
            child[k] = c /\ command[c] = CommandOf(Announces(c), k) /\ Agreed(Announces(c), k)
      BY <1>1, <2>1, <3>1 DEF Sent
    <3> QED
      BY <1>2, <3>1, <3>2 DEF CommandOf, Agreed, Operation, Inline, Announces
  <2> QED
    BY <2>1 DEF Sent
<1>16. Lines'
  <2>1. \A c \in Children : Printed(out'[c]) /\ \A i \in DOMAIN out'[c] : Excused(out'[c][i])
    BY <1>1, <1>10, <1>13 DEF Lines
  <2> QED
    BY <1>2, <2>1 DEF Lines, Excused
<1>17. Working'
  <2>1. process' = p /\ active' = j /\ pc'[j] = "streaming" /\ command'[p] = None /\ j # None
    BY <1>2, <1>3, <1>6, <1>11
  <2>2. \A i \in DOMAIN out'[process'] :
          IsResult(out'[process'][i]) => True(j, out'[process'][i])
    BY <1>13, <2>1
  <2>3. \A i \in DOMAIN out'[process'] :
          IsResult(out'[process'][i]) => True(active, out[process][i])'
    BY <1>2, <2>1, <2>2 DEF True, Operation
  <2>4. pc'[active'] \notin Holding
    BY <2>1 DEF Holding
  <2> QED
    BY <2>1, <2>3, <2>4 DEF Working, IsResult
<1>18. InHand' /\ BlameIsRight' /\ HandedAsAsked'
  BY <1>1, <1>2 DEF InHand, BlameIsRight, HandedAsAsked, True, Operation, Announces
<1> QED
  BY <1>14, <1>15, <1>16, <1>17, <1>18 DEF ClientInv

LEMMA RestHolds ==
    ASSUME ClientInv, UNCHANGED vars
    PROVE  ClientInv'
<1>1. /\ Kinds /\ OneChild /\ Known /\ Owned /\ Working /\ InHand /\ BlameIsRight
      /\ UNCHANGED <<case, file, asked, process, info, expected, starting, active, invalidated,
                     alive, spawned, command, out, pc, line, child, handed>>
  BY DEF ClientInv, vars, worker, children, jobs
<1>2. Files' /\ Sent' /\ Lines' /\ HandedAsAsked'
  BY <1>1, Kept
<1>3. Kinds' /\ OneChild' /\ Known' /\ Owned'
  BY <1>1 DEF Kinds, OneChild, Known, Owned, Announces
<1>4. Working' /\ InHand' /\ BlameIsRight'
  BY <1>1 DEF Working, InHand, BlameIsRight, True, Operation, Announces
<1> QED
  BY <1>2, <1>3, <1>4 DEF ClientInv

LEMMA NextHolds ==
    ASSUME ClientAssumption, CasesAssumption, ClientInv, [Next]_vars
    PROVE  ClientInv'
<1>1. ASSUME NEW j \in DOMAIN case.asks, JobRuns(j)
      PROVE  ClientInv'
  BY <1>1, StartHolds, ReadyHolds, SubmitHolds, AbortedHolds, ReadLineHolds, AcceptHolds,
     HandHolds, RaiseHolds, LeaveHolds DEF JobRuns
<1>2. ASSUME NEW j \in DOMAIN case.asks, Edit(j)
      PROVE  ClientInv'
  BY <1>2, EditHolds
<1>3. ASSUME NEW p \in Children, Answers(p)
      PROVE  ClientInv'
  BY <1>3, AnswersHolds
<1>4. ASSUME NEW p \in Children, ChildDies(p)
      PROVE  ClientInv'
  BY <1>4, ChildDiesHolds
<1>5. CASE Terminate
  BY <1>5, TerminateHolds
<1>6. CASE UNCHANGED vars
  BY <1>6, RestHolds
<1> QED
  BY <1>1, <1>2, <1>3, <1>4, <1>5, <1>6 DEF Next, Rest

\* A command that is out was agreed on for the request as it was then.
LEMMA Demanded ==
    ASSUME ClientAssumption, CasesAssumption, ClientInv, NEW p \in Children,
           command[p] # None, command[p].operation = "solve",
           asked[command[p].job].system # None
    PROVE  LET q == asked[command[p].job] IN Asks(q) /\ ValidateSolveRequest(q) = "ok"
<1>1. Kinds /\ Files /\ Sent
  BY DEF ClientInv
<1>2. PICK j \in DOMAIN case.asks :
        child[j] = p /\ command[p] = CommandOf(Announces(p), j) /\ Agreed(Announces(p), j)
  BY <1>1 DEF Sent
<1>3. command[p].job = j /\ Operation(j) = "solve"
  BY <1>2 DEF CommandOf
<1>4. child[j] # None
  BY <1>1, <1>2, Announcing
<1>5. asked[j] \in Written(j)
  BY <1>1, <1>4 DEF Files, Written
<1>6. Asks(asked[j])
  BY <1>1, <1>3, <1>5, Requested
<1>7. NegotiateSubmission(Announces(p), asked[j], "solve") = "ok"
  BY <1>2, <1>3 DEF Agreed
<1> QED
  BY <1>3, <1>6, <1>7, Agreement

-----------------------------------------------------------------------------
(* What is proved. *)

\* The invariant holds, whatever is asked and announced, and whoever comes and
\* goes.
THEOREM Invariance == Spec => []ClientInv
<1>1. Init => ClientInv
  BY InitHolds, ClientAssumption, CasesAssumption
<1>2. ClientInv /\ [Next]_vars => ClientInv'
  BY NextHolds, ClientAssumption, CasesAssumption
<1> QED
  BY <1>1, <1>2, PTL DEF Spec

\* A caller is handed only what its request asked for when submit() read it, in
\* the representation submit() selected.
THEOREM Handing == Spec => []HandedAsAsked
<1>1. ClientInv => HandedAsAsked
  BY DEF ClientInv
<1> QED
  BY <1>1, Invariance, PTL

\* _accept_event() raises to a reader that was not terminated only for an event
\* of its own worker that is wrong.
THEOREM Blaming == Spec => []BlameIsRight
<1>1. ClientInv => BlameIsRight
  BY DEF ClientInv
<1> QED
  BY <1>1, Invariance, PTL

\* After negotiate_submission() a worker refuses nothing but a request file that
\* was written again.
THEOREM Refusing == Spec => []RefusedBeforehand
<1>1. ClientInv => RefusedBeforehand
  BY DEF ClientInv, Lines, Excused, RefusedBeforehand
<1> QED
  BY <1>1, Invariance, PTL

\* No lookup of the contract's looks finds nothing before a look has refused the
\* request.
THEOREM Wording == Spec => []RefusedInWords
<1>1. ClientInv => RefusedInWords
  BY DEF ClientInv, Kinds, PCs, RefusedInWords
<1> QED
  BY <1>1, Invariance, PTL

\* What goes out drives something: the looks of validate_solve_request() leave no
\* excited port without its one component, its walls and their mesh.
THEOREM Grounding == Spec => []CommandsAreGrounded
<1>1. ClientInv => CommandsAreGrounded
  <2>1. SUFFICES ASSUME ClientInv, NEW p \in Children, command[p] # None,
                        command[p].operation = "solve", asked[command[p].job].system # None
                 PROVE  LET q == asked[command[p].job]
                            s == q.system
                        IN  /\ \A id \in ToSet(q.excitation_port_ids) : Drives(s, id)
                            /\ \A c \in ToSet(s.components), b \in ToSet(s.boundaries) :
                                  b.id \in ToSet(c.boundary_ids) => ~LossyWall(b)
                            /\ ValidateCompiledSystem(s) = "ok"
    BY DEF CommandsAreGrounded
  <2> QED
    BY <2>1, Demanded, Grounded, ClientAssumption, CasesAssumption
<1> QED
  BY <1>1, Invariance, PTL

\* What goes out can be read: the looks of validate_mesh_data() leave no element
\* outside the bytes of its points, and none without a tag of a named group.
THEOREM Readability == Spec => []MeshesAreReadable
<1>1. ClientInv => MeshesAreReadable
  <2>1. ASSUME ClientInv, NEW p \in Children, command[p] # None,
               command[p].operation = "solve", asked[command[p].job].system # None
        PROVE  \A mesh \in ToSet(asked[command[p].job].system.meshes) :
                  mesh.mesh_data # None => Readable(mesh.mesh_data)
    BY <2>1, Demanded, Grounded, ClientAssumption, CasesAssumption
  <2> QED
    BY <2>1 DEF MeshesAreReadable, Readable
<1> QED
  BY <1>1, Invariance, PTL
=============================================================================
