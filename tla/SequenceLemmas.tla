--------------------------- MODULE SequenceLemmas ---------------------------
(***************************************************************************)
(* Induction and recursion on natural numbers with a set in the place of   *)
(* the predicate, what FlattenSeq computes, and what reads a sequence step *)
(* by step: facts that the proofs of several components need.              *)
(***************************************************************************)
EXTENDS Integers, SequencesExt, SequenceTheorems, WellFoundedInduction, TLAPS

----------------------------------------------------------------------------
(* Induction *)

\* A set of naturals has a least element.
LEMMA LeastNatural ==
    ASSUME NEW T \in SUBSET Nat, T # {}
    PROVE  \E n \in T : \A m \in T : n <= m
<1>1. PICK n \in T : \A m \in T : ~ (<<m, n>> \in OpToRel(<, Nat))
  BY NatLessThanWellFounded, WFMin
<1>2. \A m \in T : ~ (m < n)
  BY <1>1 DEF OpToRel
<1>3. QED
  BY <1>2

\* What holds at 0 and goes on from each number to the next holds up to N: a set
\* stands for the predicate.
LEMMA Induction ==
    ASSUME NEW N \in Nat, NEW P, 0 \in P,
           \A n \in 1 .. N : n - 1 \in P => n \in P
    PROVE  \A n \in 0 .. N : n \in P
<1> DEFINE T == {n \in 0 .. N : n \notin P}
<1>1. SUFFICES ASSUME T # {} PROVE FALSE
  OBVIOUS
<1>2. PICK n \in T : \A m \in T : n <= m
  <2>1. T \in SUBSET Nat
    OBVIOUS
  <2>2. QED
    BY <1>1, <2>1, LeastNatural
<1>3. n # 0 /\ n \in 1 .. N
  BY <1>2
<1>4. n - 1 \notin T
  BY <1>2, <1>3
<1>5. n - 1 \in P
  BY <1>3, <1>4
<1>6. QED
  BY <1>2, <1>3, <1>5

\* g is defined by recursion over 0 .. N, from a on.
Follows(g, a, step, N) == g = [n \in 0 .. N |-> IF n = 0 THEN a ELSE step[<<g[n - 1], n>>]]

\* Such a function exists, when each step stays in Y.
LEMMA Recursion ==
    ASSUME NEW N \in Nat, NEW Y, NEW a \in Y, NEW step \in [Y \X (1 .. N) -> Y]
    PROVE  \E g \in [0 .. N -> Y] : Follows(g, a, step, N)
<1> DEFINE Upto(k, g) == \A n \in 0 .. k : g[n] = IF n = 0 THEN a ELSE step[<<g[n - 1], n>>]
           P == {k \in 0 .. N : \E g \in [0 .. k -> Y] : Upto(k, g)}
<1>1. 0 \in P
  <2> DEFINE g == [n \in 0 .. 0 |-> a]
  <2>1. g \in [0 .. 0 -> Y]
    OBVIOUS
  <2>2. Upto(0, g)
    OBVIOUS
  <2> HIDE DEF Upto, g
  <2>3. QED
    BY <2>1, <2>2
<1>2. ASSUME NEW k \in 1 .. N, k - 1 \in P PROVE k \in P
  <2>1. PICK g \in [0 .. k - 1 -> Y] : Upto(k - 1, g)
    BY <1>2
  <2> DEFINE h == [n \in 0 .. k |-> IF n = k THEN step[<<g[k - 1], k>>] ELSE g[n]]
  <2>2. step[<<g[k - 1], k>>] \in Y
    <3>1. g[k - 1] \in Y
      OBVIOUS
    <3>2. QED
      BY <3>1
  <2>3. h \in [0 .. k -> Y]
    BY <2>2
  <2>4. ASSUME NEW n \in 0 .. k
        PROVE  h[n] = IF n = 0 THEN a ELSE step[<<h[n - 1], n>>]
    <3>1. CASE n = k
      <4>1. k # 0 /\ k - 1 \in 0 .. k /\ k - 1 # k
        OBVIOUS
      <4>2. h[k] = step[<<g[k - 1], k>>] /\ h[k - 1] = g[k - 1]
        BY <4>1
      <4>3. QED
        BY <3>1, <4>1, <4>2
    <3>2. CASE n # k
      <4>1. n \in 0 .. k - 1 /\ (n # 0 => n - 1 \in 0 .. k /\ n - 1 # k)
        BY <3>2
      <4>2. h[n] = g[n] /\ (n # 0 => h[n - 1] = g[n - 1])
        BY <3>2, <4>1
      <4>3. g[n] = IF n = 0 THEN a ELSE step[<<g[n - 1], n>>]
        BY <2>1, <4>1
      <4>4. QED
        BY <4>2, <4>3
    <3>3. QED
      BY <3>1, <3>2
  <2>5. Upto(k, h)
    BY <2>4
  <2> HIDE DEF Upto, h
  <2>6. QED
    BY <2>3, <2>5
<1>3. N \in P
  <2> HIDE DEF P
  <2>1. \A n \in 0 .. N : n \in P
    BY <1>1, <1>2, Induction
  <2>2. QED
    BY <2>1
<1>4. PICK g \in [0 .. N -> Y] : Upto(N, g)
  BY <1>3
<1>5. Follows(g, a, step, N)
  <2>1. g = [n \in 0 .. N |-> g[n]]
    OBVIOUS
  <2>2. QED
    BY <1>4, <2>1 DEF Follows
<1>6. QED
  BY <1>5

\* What holds at 0 and after each step holds of the values of a function.
LEMMA StaysIn ==
    ASSUME NEW N \in Nat, NEW Y, NEW f, f[0] \in Y,
           \A n \in 1 .. N : f[n - 1] \in Y => f[n] \in Y
    PROVE  \A n \in 0 .. N : f[n] \in Y
<1> DEFINE P == {n \in 0 .. N : f[n] \in Y}
<1>1. 0 \in P
  OBVIOUS
<1>2. \A n \in 1 .. N : n - 1 \in P => n \in P
  OBVIOUS
<1> HIDE DEF P
<1>3. \A n \in 0 .. N : n \in P
  BY <1>1, <1>2, Induction
<1>4. QED
  BY <1>3 DEF P

LEMMA Shifted ==
    ASSUME NEW N \in Nat, NEW M, M = N + 2, NEW n \in 0 .. N + 1, NEW k, k = n + 1
    PROVE  k \in 1 .. M /\ k \in 0 .. M /\ k # 0 /\ k - 1 = n /\ n \in 0 .. M
OBVIOUS

\* A step of a function looks at what the function is of things less deep.
Descends(step, depth, N, E, Y) ==
    /\ N \in Nat /\ step \in [[E -> Y] \X E -> Y] /\ depth \in [E -> 0 .. N]
    /\ \A f, g \in [E -> Y], e \in E :
          (\A x \in E : depth[x] < depth[e] => f[x] = g[x]) => step[<<f, e>>] = step[<<g, e>>]

\* f is defined by recursion over E.
Defines(step, f, E, Y) == f \in [E -> Y] /\ \A e \in E : f[e] = step[<<f, e>>]

\* A function of things that have a depth may be defined by such a step.
LEMMA DepthRecursion ==
    ASSUME NEW N, NEW E, NEW depth, NEW Y, NEW y \in Y, NEW step,
           Descends(step, depth, N, E, Y)
    PROVE  \E f : Defines(step, f, E, Y)
<1> DEFINE F == [E -> Y]
           a == [e \in E |-> y]
           M == N + 2
           Again(f) == [e \in E |-> step[<<f, e>>]]
           again == [x \in F \X (1 .. M) |-> Again(x[1])]
<1> N \in Nat
  BY DEF Descends
<1>1. step \in [[E -> Y] \X E -> Y] /\ depth \in [E -> 0 .. N]
  BY DEF Descends
<1>2. a \in F /\ M \in Nat /\ again \in [F \X (1 .. M) -> F]
  BY <1>1
<1>3. \A f \in F, n \in 1 .. M : again[<<f, n>>] = Again(f)
  OBVIOUS
<1> HIDE DEF a, again, M
<1>4. PICK g \in [0 .. M -> F] : Follows(g, a, again, M)
  BY <1>2, Recursion
<1>5. \A n \in 0 .. M : g[n] \in F
  OBVIOUS
<1> HIDE DEF F
<1>6. ASSUME NEW n \in 0 .. N + 1, NEW k, k = n + 1, NEW e \in E PROVE g[k][e] = step[<<g[n], e>>]
  <2>1. k \in 1 .. M /\ k \in 0 .. M /\ k # 0 /\ k - 1 = n /\ n \in 0 .. M
    BY <1>6, Shifted DEF M
  <2>2. g[k] = again[<<g[n], k>>]
    BY <1>4, <2>1 DEF Follows
  <2>3. g[k] = Again(g[n])
    BY <1>3, <1>5, <2>1, <2>2
  <2>4. QED
    BY <2>3
<1> DEFINE P == {n \in 0 .. N + 1 : \A k, e : k = n + 1 /\ e \in E /\ depth[e] < n => g[k][e] = g[n][e]}
<1>7. 0 \in P
  <2>1. \A x \in E : depth[x] \in 0 .. N
    BY <1>1
  <2>2. QED
    BY <2>1
<1>8. ASSUME NEW n \in 1 .. N + 1, n - 1 \in P PROVE n \in P
  <2>1. \A x \in E : depth[x] \in 0 .. N
    BY <1>1
  <2>2. SUFFICES ASSUME NEW k, k = n + 1, NEW e \in E, depth[e] < n PROVE g[k][e] = g[n][e]
    OBVIOUS
  <2> DEFINE m == n - 1
  <2>3. m \in 0 .. N + 1 /\ m + 1 = n /\ m \in 0 .. M /\ n \in 0 .. M /\ n \in 0 .. N + 1
    BY DEF M
  <2>4. \A x \in E : depth[x] < m => g[n][x] = g[m][x]
    BY <1>8, <2>3
  <2>5. \A x \in E : depth[x] < depth[e] => depth[x] < m
    BY <2>1, <2>2
  <2> HIDE DEF m
  <2>6. step[<<g[n], e>>] = step[<<g[m], e>>]
    BY <1>5, <2>3, <2>4, <2>5 DEF F, Descends
  <2>7. QED
    BY <1>6, <2>2, <2>3, <2>6
<1> HIDE DEF P
<1>9. N + 1 \in P
  <2>1. \A n \in 0 .. N + 1 : n \in P
    BY <1>7, <1>8, Induction
  <2>2. QED
    BY <2>1
<1>10. \A e \in E : step[<<g[N + 1], e>>] = g[N + 1][e]
  <2>1. \A e \in E : depth[e] < N + 1
    BY <1>1
  <2> DEFINE n == N + 1
  <2>2. n \in 0 .. N + 1 /\ n \in P
    BY <1>9
  <2> HIDE DEF n
  <2>3. \A e \in E : \A k : k = n + 1 => step[<<g[n], e>>] = g[k][e]
    BY <1>6, <2>2
  <2>4. \A e \in E : \A k : k = n + 1 => g[k][e] = g[n][e]
    BY <2>1, <2>2 DEF P, n
  <2>5. QED
    BY <2>3, <2>4 DEF n
<1>11. g[N + 1] \in F
  BY <1>5 DEF M
<1>12. QED
  BY <1>10, <1>11 DEF F, Defines

----------------------------------------------------------------------------
(* FlattenSeq *)

\* What FlattenSeq computes: the parts, joined one after the other.
Joins(f, parts) == \A i \in DOMAIN parts : f[i] = IF i = 1 THEN parts[i] ELSE f[i - 1] \o parts[i]

LEMMA FlattenIs ==
    ASSUME NEW S, NEW parts \in Seq(Seq(S)), parts # <<>>
    PROVE  \E f \in [DOMAIN parts -> Seq(S)] :
              Joins(f, parts) /\ FlattenSeq(parts) = f[Len(parts)]
<1> DEFINE N == Len(parts)
           Y == Seq(S)
           flatten[i \in 1 .. N] == IF i = 1 THEN parts[i] ELSE flatten[i - 1] \o parts[i]
           Step(v, i) == IF i = 1 THEN parts[i] ELSE v \o parts[i]
           a == <<>>
<1>1. N \in Nat \ {0} /\ DOMAIN parts = 1 .. N
  BY EmptySeq, LenProperties
<1>2. FlattenSeq(parts) = flatten[N]
  <2>1. Len(parts) # 0
    BY <1>1
  <2>2. QED
    BY <2>1, Zenon DEF FlattenSeq
<1> HIDE DEF N
<1>3. ASSUME NEW v \in Y, NEW i \in 1 .. N PROVE Step(v, i) \in Y
  <2>1. parts[i] \in Y
    BY <1>1, ElementOfSeq DEF N
  <2>2. v \o parts[i] \in Y
    BY <2>1, ConcatProperties
  <2>3. QED
    BY <2>1, <2>2
<1>4. a \in Y
  OBVIOUS
<1>5. \E g \in [1 .. N -> Y] : g = [i \in 1 .. N |-> IF i = 1 THEN parts[i] ELSE g[i - 1] \o parts[i]]
  <2> DEFINE step == [x \in Y \X (1 .. N) |-> Step(x[1], x[2])]
  <2>1. step \in [Y \X (1 .. N) -> Y]
    <3> HIDE DEF Y, Step
    <3>1. QED
      BY <1>3
  <2>2. \A v \in Y, i \in 1 .. N : step[<<v, i>>] = Step(v, i)
    <3> HIDE DEF Y, Step
    <3>1. QED
      OBVIOUS
  <2> HIDE DEF step, Y, a
  <2>3. PICK h \in [0 .. N -> Y] : Follows(h, a, step, N)
    BY <1>1, <1>4, <2>1, Recursion
  <2> DEFINE g == [i \in 1 .. N |-> h[i]]
  <2>4. h = [n \in 0 .. N |-> IF n = 0 THEN a ELSE step[<<h[n - 1], n>>]]
    BY <2>3, Zenon DEF Follows
  <2>5. ASSUME NEW i \in 1 .. N PROVE h[i] = Step(h[i - 1], i)
    <3>1. i \in 0 .. N /\ i - 1 \in 0 .. N /\ i # 0
      BY <1>1
    <3>2. h[i] = step[<<h[i - 1], i>>]
      <4>1. h[i] = IF i = 0 THEN a ELSE step[<<h[i - 1], i>>]
        BY <2>4, <3>1, Zenon
      <4>2. QED
        BY <3>1, <4>1
    <3>3. QED
      BY <2>2, <3>1, <3>2
  <2>6. ASSUME NEW i \in 1 .. N
        PROVE  g[i] = IF i = 1 THEN parts[i] ELSE g[i - 1] \o parts[i]
    <3>1. i # 1 => i - 1 \in 1 .. N
      BY <1>1
    <3>2. QED
      BY <2>5, <3>1
  <2>7. g \in [1 .. N -> Y]
    <3>1. \A i \in 1 .. N : h[i] \in Y
      BY <1>1
    <3>2. QED
      BY <3>1
  <2>8. g = [i \in 1 .. N |-> g[i]]
    OBVIOUS
  <2> HIDE DEF g
  <2>9. QED
    BY <2>6, <2>7, <2>8
<1>6. flatten = [i \in 1 .. N |-> IF i = 1 THEN parts[i] ELSE flatten[i - 1] \o parts[i]]
  BY <1>5, Zenon
<1> HIDE DEF flatten, Y, a
<1>7. Joins(flatten, parts)
  <2> HIDE DEF Step
  <2>1. QED
    BY <1>1, <1>6 DEF Joins
<1>8. \A i \in 1 .. N : flatten[i] \in Y
  <2> DEFINE h == [i \in 0 .. N |-> IF i = 0 THEN a ELSE flatten[i]]
  <2>1. h[0] \in Y
    BY <1>1, <1>4
  <2>2. \A i \in 1 .. N : h[i] = flatten[i]
    BY <1>1
  <2>3. ASSUME NEW i \in 1 .. N, h[i - 1] \in Y PROVE h[i] \in Y
    <3>1. CASE i = 1
      <4>1. flatten[i] = Step(a, i)
        BY <1>6, <3>1
      <4>2. QED
        BY <1>3, <1>4, <2>2, <4>1
    <3>2. CASE i # 1
      <4>1. i - 1 \in 1 .. N
        BY <1>1, <3>2
      <4>2. flatten[i] = Step(flatten[i - 1], i) /\ h[i - 1] = flatten[i - 1]
        BY <1>6, <2>2, <3>2, <4>1
      <4>3. QED
        BY <1>3, <2>2, <2>3, <4>2
    <3>3. QED
      BY <3>1, <3>2
  <2> HIDE DEF h
  <2>4. \A i \in 0 .. N : h[i] \in Y
    BY <1>1, <2>1, <2>3, StaysIn, Zenon
  <2>5. \A i \in 1 .. N : i \in 0 .. N
    OBVIOUS
  <2>6. QED
    BY <2>2, <2>4, <2>5, Zenon
<1>9. flatten \in [1 .. N -> Y]
  BY <1>6, <1>8
<1>10. QED
  BY <1>1, <1>2, <1>7, <1>9 DEF N, Y

LEMMA FlattenIsSequence ==
    ASSUME NEW S, NEW parts \in Seq(Seq(S))
    PROVE  FlattenSeq(parts) \in Seq(S)
<1>1. CASE parts = <<>>
  BY <1>1 DEF FlattenSeq
<1>2. CASE parts # <<>>
  <2>1. PICK f \in [DOMAIN parts -> Seq(S)] : FlattenSeq(parts) = f[Len(parts)]
    BY <1>2, FlattenIs
  <2>2. Len(parts) \in DOMAIN parts
    BY <1>2, EmptySeq, LenProperties
  <2>3. QED
    BY <2>1, <2>2
<1>3. QED
  BY <1>1, <1>2

\* One part more is joined behind the others.
LEMMA FlattenAppend ==
    ASSUME NEW S, NEW parts \in Seq(Seq(S)), NEW part \in Seq(S)
    PROVE  FlattenSeq(Append(parts, part)) = FlattenSeq(parts) \o part
<1> DEFINE N == Len(parts)
           all == Append(parts, part)
<1>1. N \in Nat /\ DOMAIN parts = 1 .. N
  BY LenProperties
<1>2. /\ all \in Seq(Seq(S)) /\ Len(all) = N + 1 /\ all[N + 1] = part
      /\ \A i \in 1 .. N : all[i] = parts[i]
  BY AppendProperties
<1>3. DOMAIN all = 1 .. N + 1 /\ all # <<>>
  BY <1>1, <1>2, EmptySeq, LenProperties
<1> HIDE DEF all, N
<1>4. PICK g \in [DOMAIN all -> Seq(S)] : Joins(g, all) /\ FlattenSeq(all) = g[Len(all)]
  BY <1>2, <1>3, FlattenIs
<1>5. \A i \in 1 .. N + 1 : g[i] = IF i = 1 THEN all[i] ELSE g[i - 1] \o all[i]
  BY <1>3, <1>4 DEF Joins
<1>6. CASE N = 0
  <2>1. parts = <<>>
    BY <1>6, EmptySeq DEF N
  <2>2. FlattenSeq(parts) = <<>>
    BY <2>1 DEF FlattenSeq
  <2>3. g[1] = part
    BY <1>2, <1>5, <1>6
  <2>4. <<>> \o part = part
    OBVIOUS
  <2> QED
    BY <1>2, <1>4, <1>6, <2>2, <2>3, <2>4 DEF all
<1>7. CASE N # 0
  <2>1. parts # <<>>
    BY <1>7, EmptySeq DEF N
  <2>2. PICK f \in [DOMAIN parts -> Seq(S)] : Joins(f, parts) /\ FlattenSeq(parts) = f[N]
    BY <2>1, FlattenIs DEF N
  <2>3. \A i \in 1 .. N : f[i] = IF i = 1 THEN parts[i] ELSE f[i - 1] \o parts[i]
    BY <1>1, <2>2 DEF Joins
  <2> DEFINE P == {i \in 0 .. N : i = 0 \/ f[i] = g[i]}
  <2>4. 0 \in P
    BY <1>1
  <2>5. ASSUME NEW i \in 1 .. N, i - 1 \in P
        PROVE  i \in P
    <3>1. i \in 1 .. N + 1 /\ i \in 0 .. N /\ all[i] = parts[i]
      BY <1>1, <1>2
    <3>2. i # 1 => f[i - 1] = g[i - 1]
      BY <1>1, <2>5
    <3>3. f[i] = IF i = 1 THEN parts[i] ELSE f[i - 1] \o parts[i]
      BY <2>3
    <3>4. g[i] = IF i = 1 THEN parts[i] ELSE g[i - 1] \o parts[i]
      BY <1>5, <3>1
    <3>5. f[i] = g[i]
      BY <3>2, <3>3, <3>4, Zenon
    <3> QED
      BY <3>1, <3>5
  <2>6. N \in P
    <3> HIDE DEF P
    <3>1. \A i \in 0 .. N : i \in P
      BY <1>1, <2>4, <2>5, Induction
    <3> QED
      BY <1>1, <3>1
  <2>7. g[N + 1] = g[N] \o part
    <3>1. N + 1 \in 1 .. N + 1 /\ N + 1 # 1 /\ (N + 1) - 1 = N
      BY <1>1, <1>7
    <3> QED
      BY <1>2, <1>5, <3>1
  <2>8. f[N] = g[N]
    BY <1>7, <2>6
  <2> QED
    BY <1>2, <1>4, <2>2, <2>7, <2>8 DEF all
<1> QED
  BY <1>6, <1>7

----------------------------------------------------------------------------
(* Reading a sequence by steps *)

\* The steps of f read the sequence t.
ReadBy(step, f, t) == \A k \in 1 .. Len(t) : f[k] = step[<<f[k - 1], t[k]>>]

\* The steps that read the sequence t lead from y to z.
Leads(step, y, t, z) == \E f : f[0] = y /\ f[Len(t)] = z /\ ReadBy(step, f, t)

LEMMA LeadsNowhere ==
    ASSUME NEW step, NEW y
    PROVE  Leads(step, y, <<>>, y)
<1> DEFINE f == [k \in {0} |-> y]
<1>1. f[0] = y /\ Len(<<>>) = 0
  OBVIOUS
<1> HIDE DEF f
<1>2. QED
  BY <1>1 DEF Leads, ReadBy

LEMMA LeadsOn ==
    ASSUME NEW step, NEW y, NEW a
    PROVE  Leads(step, y, <<a>>, step[<<y, a>>])
<1> DEFINE z == step[<<y, a>>]
           f == [k \in {0, 1} |-> IF k = 0 THEN y ELSE z]
<1>1. f[0] = y /\ f[1] = z /\ Len(<<a>>) = 1 /\ <<a>>[1] = a
  OBVIOUS
<1> HIDE DEF f
<1>2. \A k \in 1 .. Len(<<a>>) : k = 1 /\ k - 1 = 0
  BY <1>1
<1>3. ReadBy(step, f, <<a>>)
  BY <1>1, <1>2 DEF ReadBy
<1>4. QED
  BY <1>1, <1>3 DEF Leads

LEMMA LeadsJoin ==
    ASSUME NEW step, NEW x, NEW y, NEW z, NEW A, NEW s \in Seq(A), NEW t \in Seq(A),
           Leads(step, x, s, y), Leads(step, y, t, z)
    PROVE  Leads(step, x, s \o t, z)
<1> DEFINE m == Len(s)
           n == Len(t)
           all == s \o t
<1>1. PICK f : f[0] = x /\ f[m] = y /\ ReadBy(step, f, s)
  BY DEF Leads
<1>2. PICK g : g[0] = y /\ g[n] = z /\ ReadBy(step, g, t)
  BY DEF Leads
<1>3. /\ m \in Nat /\ n \in Nat /\ Len(all) = m + n
      /\ \A k \in 1 .. m + n : all[k] = IF k <= m THEN s[k] ELSE t[k - m]
  BY LenProperties, ConcatProperties
<1> DEFINE h == [k \in 0 .. m + n |-> IF k <= m THEN f[k] ELSE g[k - m]]
<1> HIDE DEF m, n, all
<1>4. \A k \in 0 .. m + n : h[k] = IF k <= m THEN f[k] ELSE g[k - m]
  OBVIOUS
<1>5. 0 \in 0 .. m + n /\ m + n \in 0 .. m + n /\ 0 <= m
  BY <1>3
<1>6. h[0] = x
  BY <1>1, <1>4, <1>5
<1>7. h[m + n] = z
  <2>1. CASE m + n <= m
    <3>1. n = 0 /\ m + n = m
      BY <1>3, <2>1
    <3>2. h[m + n] = f[m]
      BY <1>4, <1>5, <2>1, <3>1
    <3>3. QED
      BY <1>1, <1>2, <3>1, <3>2
  <2>2. CASE ~(m + n <= m)
    <3>1. (m + n) - m = n
      BY <1>3
    <3>2. h[m + n] = g[(m + n) - m]
      BY <1>4, <1>5, <2>2
    <3>3. QED
      BY <1>2, <3>1, <3>2
  <2>3. QED
    BY <2>1, <2>2
<1>8. ASSUME NEW k \in 1 .. m + n PROVE h[k] = step[<<h[k - 1], all[k]>>]
  <2>1. CASE k <= m
    <3>1. k \in 1 .. m /\ k - 1 <= m /\ k \in 0 .. m + n /\ k - 1 \in 0 .. m + n
      BY <1>3, <2>1
    <3>2. h[k] = f[k] /\ h[k - 1] = f[k - 1] /\ all[k] = s[k]
      BY <1>3, <1>4, <2>1, <3>1
    <3>3. f[k] = step[<<f[k - 1], s[k]>>]
      BY <1>1, <3>1 DEF ReadBy, m
    <3>4. QED
      BY <3>2, <3>3
  <2>2. CASE ~(k <= m)
    <3>1. PICK i \in 1 .. n : k = m + i
      <4>1. k - m \in 1 .. n /\ k = m + (k - m)
        BY <1>3, <2>2
      <4>2. QED
        BY <4>1
    <3>2. k \in 0 .. m + n /\ k - m = i /\ k - 1 \in 0 .. m + n /\ (k - 1) - m = i - 1
      <4>1. m \in Nat /\ n \in Nat
        BY <1>3
      <4>2. QED
        BY <3>1, <4>1
    <3>3. h[k] = g[i] /\ all[k] = t[i]
      BY <1>3, <1>4, <2>2, <3>2
    <3>4. h[k - 1] = g[i - 1]
      <4>1. CASE k - 1 <= m
        <5>1. k - 1 = m /\ i - 1 = 0
          BY <1>3, <2>2, <3>1, <4>1
        <5>2. h[k - 1] = f[m] /\ g[i - 1] = y
          BY <1>2, <1>4, <3>2, <4>1, <5>1
        <5>3. QED
          BY <1>1, <5>2
      <4>2. CASE ~(k - 1 <= m)
        <5>1. h[k - 1] = g[(k - 1) - m]
          BY <1>4, <3>2, <4>2
        <5>2. QED
          BY <3>2, <5>1
      <4>3. QED
        BY <4>1, <4>2
    <3>5. g[i] = step[<<g[i - 1], t[i]>>]
      BY <1>2, <3>1 DEF ReadBy, n
    <3>6. QED
      BY <3>3, <3>4, <3>5
  <2>3. QED
    BY <2>1, <2>2
<1> HIDE DEF h
<1>9. ReadBy(step, h, all)
  BY <1>3, <1>8 DEF ReadBy
<1>10. h[0] = x /\ h[Len(all)] = z
  BY <1>3, <1>6, <1>7
<1>11. Leads(step, x, all, z)
  BY <1>9, <1>10 DEF Leads
<1>12. QED
  BY <1>11 DEF all

\* There is one way to read a sequence.
LEMMA LeadsThere ==
    ASSUME NEW step, NEW y, NEW z, NEW A, NEW t \in Seq(A), NEW f,
           Leads(step, y, t, z), f[0] = y, ReadBy(step, f, t)
    PROVE  f[Len(t)] = z
<1> DEFINE n == Len(t)
<1>1. PICK g : g[0] = y /\ g[n] = z /\ ReadBy(step, g, t)
  BY DEF Leads
<1>2. n \in Nat
  BY LenProperties
<1> DEFINE P == {k \in 0 .. n : f[k] = g[k]}
<1>3. 0 \in P
  BY <1>1, <1>2
<1>4. \A k \in 1 .. n : f[k] = step[<<f[k - 1], t[k]>>] /\ g[k] = step[<<g[k - 1], t[k]>>]
  BY <1>1 DEF ReadBy
<1> HIDE DEF n
<1>5. \A k \in 1 .. n : k - 1 \in P => k \in P
  <2>1. ASSUME NEW k \in 1 .. n, k - 1 \in P PROVE k \in P
    <3>1. f[k - 1] = g[k - 1]
      BY <2>1
    <3>2. f[k] = g[k]
      BY <1>4, <3>1
    <3>3. k \in 0 .. n
      BY <1>2
    <3>4. QED
      BY <3>2, <3>3
  <2>2. QED
    BY <2>1
<1> HIDE DEF P
<1>6. n \in P
  <2>1. \A k \in 0 .. n : k \in P
    BY <1>2, <1>3, <1>5, Induction
  <2>2. QED
    BY <1>2, <2>1
<1>7. QED
  BY <1>1, <1>6 DEF P, n
=============================================================================
