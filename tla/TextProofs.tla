------------------------------ MODULE TextProofs ------------------------------
(***************************************************************************)
(* What holds of the text index for any words, files and queries, and any  *)
(* sizes of the batches.                                                   *)
(***************************************************************************)
EXTENDS TextInvariant, QueryMeaning, SequenceLemmas, FiniteSetTheorems

----------------------------------------------------------------------------
(* The constants *)

LEMMA ConstantTypes ==
    /\ Stem \in [Forms -> Words]
    /\ MaxBatchUpdate \in Nat \ {0} /\ MaxBatchSearch \in Nat \ {0} /\ Threshold \in Nat \ {0}
    /\ MaxDocs \in Nat /\ MaxFrequency \in Nat
    /\ IsFiniteSet(Words)
    /\ None \notin Values /\ None \notin Docs \X (1 .. MaxFrequency)
    /\ Earlier \subseteq [Labels -> Values \cup {None}]
BY TextAssumption, Zenon

----------------------------------------------------------------------------
(* The operators of the queries *)

\* The vector that documents are read into, after each of the n.
ReadsOff(vector, marked, room, n) ==
    /\ Evaluator!ReadOff(marked, room, n) = vector[n]
    /\ vector[0] = <<>> /\ \A k \in 0 .. n : vector[k] \in Seq(0 .. n - 1)
    /\ \A k \in 1 .. n : vector[k] = IF k - 1 \in marked
                                  THEN Evaluator!vi_push_back(vector[k - 1], k - 1, room)
                                  ELSE vector[k - 1]

LEMMA ReadOffSteps ==
    ASSUME NEW marked, NEW room, NEW n \in Nat
    PROVE  \E vector : ReadsOff(vector, marked, room, n)
<1> DEFINE Y == Seq(0 .. n - 1)
           Step(v, k) == IF k - 1 \in marked THEN Evaluator!vi_push_back(v, k - 1, room) ELSE v
           vector[k \in 0 .. n] == IF k = 0 THEN <<>>
              ELSE IF k - 1 \in marked THEN Evaluator!vi_push_back(vector[k - 1], k - 1, room)
              ELSE vector[k - 1]
<1>1. Evaluator!ReadOff(marked, room, n) = vector[n]
  BY DEF Evaluator!ReadOff
<1>2. ASSUME NEW v \in Y, NEW k \in 1 .. n PROVE Step(v, k) \in Y
  <2>1. k - 1 \in 0 .. n - 1
    OBVIOUS
  <2>2. Append(v, k - 1) \in Y
    BY <2>1
  <2>3. QED
    BY <2>2 DEF Evaluator!vi_push_back
<1>3. \E g \in [0 .. n -> Y] : g = [k \in 0 .. n |-> IF k = 0 THEN <<>> ELSE Step(g[k - 1], k)]
  <2> DEFINE step == [x \in Y \X (1 .. n) |-> Step(x[1], x[2])]
             a == <<>>
  <2>1. step \in [Y \X (1 .. n) -> Y]
    <3> HIDE DEF Y, Step
    <3>1. QED
      BY <1>2
  <2>2. a \in Y
    OBVIOUS
  <2>3. \A v \in Y, k \in 1 .. n : step[<<v, k>>] = Step(v, k)
    <3> HIDE DEF Y, Step
    <3>1. QED
      OBVIOUS
  <2> HIDE DEF step, Step, Y, a
  <2>4. PICK g \in [0 .. n -> Y] : Follows(g, a, step, n)
    BY <2>1, <2>2, Recursion
  <2>5. ASSUME NEW k \in 0 .. n, k # 0 PROVE step[<<g[k - 1], k>>] = Step(g[k - 1], k)
    <3>1. k \in 1 .. n /\ k - 1 \in 0 .. n
      BY <2>5
    <3>2. QED
      BY <2>3, <3>1
  <2>6. g = [k \in 0 .. n |-> IF k = 0 THEN a ELSE step[<<g[k - 1], k>>]]
    BY <2>4, Zenon DEF Follows
  <2>7. g = [k \in 0 .. n |-> IF k = 0 THEN <<>> ELSE Step(g[k - 1], k)]
    BY <2>5, <2>6 DEF a
  <2>8. QED
    BY <2>7
<1>4. vector = [k \in 0 .. n |-> IF k = 0 THEN <<>> ELSE Step(vector[k - 1], k)]
  BY <1>3, Zenon
<1>5. \A k \in 0 .. n : vector[k] \in Y
  <2> HIDE DEF vector
  <2> DEFINE P == {k \in 0 .. n : vector[k] \in Y}
  <2>1. 0 \in P
    BY <1>4
  <2>2. ASSUME NEW k \in 1 .. n, k - 1 \in P PROVE k \in P
    <3>1. vector[k] = Step(vector[k - 1], k)
      <4> HIDE DEF Step
      <4>1. QED
        BY <1>4
    <3> HIDE DEF Step, Y
    <3>2. vector[k] \in Y
      BY <1>2, <2>2, <3>1
    <3>3. QED
      BY <3>2
  <2> HIDE DEF P
  <2>3. \A k \in 0 .. n : k \in P
    BY <2>1, <2>2, Induction
  <2>4. QED
    BY <2>3 DEF P
<1>6. vector[0] = <<>> /\ \A k \in 1 .. n : vector[k] = Step(vector[k - 1], k)
  <2> HIDE DEF Step
  <2>1. 0 \in 0 .. n /\ \A k \in 1 .. n : k \in 0 .. n /\ k # 0
    OBVIOUS
  <2> HIDE DEF vector
  <2>2. QED
    BY <1>4, <2>1
<1>7. QED
  <2> HIDE DEF vector
  <2>1. QED
    BY <1>1, <1>5, <1>6 DEF ReadsOff

\* Each of some documents is in a vector once.
Once(vector, S) == ToSet(vector) = S /\ IsInjective(vector)

\* The documents read off the buffer are documents.
LEMMA ReadOffIs ==
    ASSUME NEW marked, NEW room, NEW n \in Nat
    PROVE  Evaluator!ReadOff(marked, room, n) \in Seq(0 .. n - 1)
<1>1. n \in 0 .. n
  OBVIOUS
<1>2. PICK vector : ReadsOff(vector, marked, room, n)
  BY ReadOffSteps
<1>3. QED
  BY <1>1, <1>2 DEF ReadsOff

\* Marked documents that the vector has room for are read off, each once.
LEMMA ReadOffExact ==
    ASSUME NEW n \in Nat, NEW marked \in SUBSET (0 .. n - 1), NEW room \in Nat,
           Cardinality(marked) <= room
    PROVE  Once(Evaluator!ReadOff(marked, room, n), marked)
<1>1. PICK vector : ReadsOff(vector, marked, room, n)
  BY ReadOffSteps
<1> DEFINE Upto(k) == marked \cap (0 .. k - 1)
           Exact(k) == Once(vector[k], Upto(k)) /\ Len(vector[k]) = Cardinality(Upto(k))
           P == {k \in 0 .. n : Exact(k)}
<1>2. ASSUME NEW k \in 0 .. n
      PROVE  /\ IsFiniteSet(Upto(k)) /\ Cardinality(Upto(k)) \in Nat
             /\ Cardinality(Upto(k)) <= room
  <2>1. IsFiniteSet(0 .. n - 1)
    BY FS_Interval
  <2>2. IsFiniteSet(marked)
    BY <2>1, FS_Subset
  <2>3. Upto(k) \in SUBSET marked
    OBVIOUS
  <2>4. Cardinality(Upto(k)) <= Cardinality(marked) /\ IsFiniteSet(Upto(k))
    BY <2>2, <2>3, FS_Subset
  <2>5. Cardinality(Upto(k)) \in Nat /\ Cardinality(marked) \in Nat
    BY <2>2, <2>4, FS_CardinalityType
  <2> HIDE DEF Upto
  <2>6. QED
    BY <2>4, <2>5
<1>3. 0 \in P
  <2>1. Upto(0) = {}
    OBVIOUS
  <2>2. vector[0] = <<>> /\ Cardinality({}) = 0
    BY <1>1, FS_EmptySet DEF ReadsOff
  <2>3. ToSet(<<>>) = {} /\ IsInjective(<<>>) /\ Len(<<>>) = 0
    BY DEF ToSet, IsInjective
  <2>4. 0 \in 0 .. n
    OBVIOUS
  <2> HIDE DEF Upto
  <2>5. Exact(0)
    BY <2>1, <2>2, <2>3, Zenon DEF Once
  <2>6. QED
    BY <2>4, <2>5, Zenon
<1>4. ASSUME NEW k \in 1 .. n, k - 1 \in P PROVE k \in P
  <2>1. k - 1 \in 0 .. n /\ k \in 0 .. n
    OBVIOUS
  <2> DEFINE v == vector[k - 1]
  <2>2. v \in Seq(0 .. n - 1) /\ Once(v, Upto(k - 1)) /\ Len(v) = Cardinality(Upto(k - 1))
    BY <1>1, <1>4, <2>1 DEF ReadsOff
  <2>3. vector[k] = IF k - 1 \in marked THEN Evaluator!vi_push_back(v, k - 1, room) ELSE v
    BY <1>1 DEF ReadsOff
  <2>4. CASE k - 1 \in marked
    <3>1. Upto(k) = Upto(k - 1) \cup {k - 1} /\ k - 1 \notin Upto(k - 1)
      BY <2>4
    <3> HIDE DEF Upto, v
    <3>2. Cardinality(Upto(k)) = Cardinality(Upto(k - 1)) + 1
      BY <1>2, <2>1, <3>1, FS_AddElement
    <3>3. Len(v) < room
      BY <1>2, <2>1, <2>2, <3>2
    <3>4. vector[k] = Append(v, k - 1)
      BY <2>3, <2>4, <3>3 DEF Evaluator!vi_push_back
    <3>5. Len(v) \in Nat /\ DOMAIN v = 1 .. Len(v) /\ k - 1 \in 0 .. n - 1
      BY <2>2, LenProperties
    <3>6. /\ Len(vector[k]) = Len(v) + 1 /\ DOMAIN vector[k] = 1 .. Len(v) + 1
          /\ vector[k][Len(v) + 1] = k - 1 /\ \A i \in 1 .. Len(v) : vector[k][i] = v[i]
      BY <2>2, <3>4, <3>5, AppendProperties, LenProperties
    <3>7. ToSet(vector[k]) = Upto(k)
      <4>1. \A i : i \in 1 .. Len(v) + 1 <=> i \in 1 .. Len(v) \/ i = Len(v) + 1
        BY <3>5
      <4>2. Upto(k - 1) = {v[i] : i \in 1 .. Len(v)}
        BY <2>2, <3>5 DEF Once, ToSet
      <4>3. QED
        BY <3>1, <3>6, <4>1, <4>2 DEF ToSet
    <3>8. IsInjective(vector[k])
      <4>1. ASSUME NEW i \in 1 .. Len(v) + 1, NEW j \in 1 .. Len(v) + 1, vector[k][i] = vector[k][j]
            PROVE  i = j
        <5>1. \A h \in 1 .. Len(v) : v[h] \in Upto(k - 1)
          BY <2>2, <3>5 DEF Once, ToSet
        <5>2. \A h \in 1 .. Len(v) + 1 : h \in 1 .. Len(v) \/ h = Len(v) + 1
          BY <3>5
        <5>3. IsInjective(v)
          BY <2>2 DEF Once
        <5>4. QED
          BY <3>1, <3>5, <3>6, <4>1, <5>1, <5>2, <5>3 DEF IsInjective
      <4>2. QED
        BY <3>6, <4>1 DEF IsInjective
    <3>9. QED
      BY <2>1, <2>2, <3>2, <3>6, <3>7, <3>8 DEF Once
  <2>5. CASE k - 1 \notin marked
    <3>1. Upto(k) = Upto(k - 1)
      BY <2>5
    <3> HIDE DEF Upto
    <3>2. QED
      BY <2>1, <2>2, <2>3, <2>5, <3>1
  <2>6. QED
    BY <2>4, <2>5
<1>5. \A k \in 0 .. n : k \in P
  <2> HIDE DEF P
  <2>1. QED
    BY <1>3, <1>4, Induction
<1>6. n \in 0 .. n /\ Upto(n) = marked
  <2>1. Upto(n) = marked
    BY Zenon
  <2>2. QED
    BY <2>1
<1>7. QED
  BY <1>1, <1>5, <1>6 DEF ReadsOff

\* What separates the words of a query.
Space == " "

\* The length of the run of equal lexemes that ends at the i-th, and the token of one.
RunTo(q, i) == i - Parser!SelectLastInSubSeq(q, 1, i, LAMBDA x : x # q[i])
TokenOf(c) == IF c \in Forms THEN Stem[c] ELSE c
Second(q, k) == RunTo(q, k) % 2 = 0
Skipped(q, k) == q[k] = Space \/ (q[k] \in {"&", "|"} /\ Second(q, k))

\* The tokens of the first lexemes of a query.
Tokenizes(tokens, q) ==
    /\ Parser!tokenize(q) = tokens[Len(q)]
    /\ tokens[0] = <<>> /\ \A k \in 0 .. Len(q) : tokens[k] \in Seq(Tokens)
    /\ \A k \in 1 .. Len(q) :
          tokens[k] = IF Skipped(q, k) THEN tokens[k - 1] ELSE Append(tokens[k - 1], TokenOf(q[k]))

LEMMA TokenizeSteps ==
    ASSUME NEW q \in Seq(Parser!Lexemes)
    PROVE  \E tokens : Tokenizes(tokens, q)
<1> DEFINE n == Len(q)
           Y == Seq(Tokens)
           Token(k) == TokenOf(q[k])
           Skip(k) == Skipped(q, k)
           Step(v, k) == IF Skip(k) THEN v ELSE Append(v, Token(k))
           tokens[k \in 0 .. n] ==
              IF k = 0 THEN <<>>
              ELSE IF Skip(k) THEN tokens[k - 1]
              ELSE Append(tokens[k - 1], Token(k))
<1>1. Parser!tokenize(q) = tokens[n]
  BY DEF Parser!tokenize, Space, Skipped, Second, RunTo, TokenOf
<1>2. n \in Nat /\ \A k \in 1 .. n : Token(k) \in Tokens
  <2>1. n \in Nat
    BY LenProperties
  <2>2. ASSUME NEW k \in 1 .. n PROVE Token(k) \in Tokens
    <3>1. q[k] \in Parser!Lexemes
      BY ElementOfSeq
    <3>2. q[k] \in Forms => Stem[q[k]] \in Words
      BY ConstantTypes
    <3>3. QED
      BY <3>1, <3>2 DEF Tokens, TokenOf
  <2>3. QED
    BY <2>1, <2>2
<1> HIDE DEF Skip, Token, n
<1>3. ASSUME NEW v \in Y, NEW k \in 1 .. n PROVE Step(v, k) \in Y
  <2>1. Append(v, Token(k)) \in Y
    BY <1>2, AppendProperties
  <2>2. QED
    BY <2>1
<1>4. \E g \in [0 .. n -> Y] : g = [k \in 0 .. n |-> IF k = 0 THEN <<>> ELSE Step(g[k - 1], k)]
  <2> DEFINE step == [x \in Y \X (1 .. n) |-> Step(x[1], x[2])]
             a == <<>>
  <2>1. step \in [Y \X (1 .. n) -> Y]
    <3> HIDE DEF Y, Step
    <3>1. QED
      BY <1>3
  <2>2. a \in Y
    OBVIOUS
  <2>3. \A v \in Y, k \in 1 .. n : step[<<v, k>>] = Step(v, k)
    <3> HIDE DEF Y, Step
    <3>1. QED
      OBVIOUS
  <2> HIDE DEF step, Step, Y, a
  <2>4. PICK g \in [0 .. n -> Y] : Follows(g, a, step, n)
    BY <1>2, <2>1, <2>2, Recursion
  <2>5. ASSUME NEW k \in 0 .. n, k # 0 PROVE step[<<g[k - 1], k>>] = Step(g[k - 1], k)
    <3>1. k \in 1 .. n /\ k - 1 \in 0 .. n
      BY <1>2, <2>5
    <3>2. QED
      BY <2>3, <3>1
  <2>6. g = [k \in 0 .. n |-> IF k = 0 THEN a ELSE step[<<g[k - 1], k>>]]
    BY <2>4, Zenon DEF Follows
  <2>7. g = [k \in 0 .. n |-> IF k = 0 THEN <<>> ELSE Step(g[k - 1], k)]
    BY <2>5, <2>6 DEF a
  <2>8. QED
    BY <2>7
<1>5. tokens = [k \in 0 .. n |-> IF k = 0 THEN <<>> ELSE Step(tokens[k - 1], k)]
  BY <1>4, Zenon
<1> HIDE DEF tokens
<1>6. tokens[0] = <<>> /\ <<>> \in Y
  <2>1. tokens[0] = <<>>
    BY <1>2, <1>5
  <2>2. QED
    BY <2>1
<1>7. \A k \in 1 .. n : tokens[k] = Step(tokens[k - 1], k)
  <2> HIDE DEF Step
  <2>1. QED
    BY <1>2, <1>5
<1>8. \A k \in 0 .. n : tokens[k] \in Y
  <2> HIDE DEF Step, Y
  <2>1. \A k \in 1 .. n : tokens[k - 1] \in Y => tokens[k] \in Y
    BY <1>3, <1>7
  <2>2. QED
    BY <1>2, <1>6, <2>1, StaysIn, Zenon
<1>9. QED
  BY <1>1, <1>6, <1>7, <1>8, Zenon DEF Tokenizes, n, Y, Step, Skip, Token

\* The tokens of a query.
LEMMA TokenizeIs ==
    ASSUME NEW q \in Seq(Parser!Lexemes)
    PROVE  Parser!tokenize(q) \in Seq(Tokens)
<1>1. PICK tokens : Tokenizes(tokens, q)
  BY TokenizeSteps
<1>2. Len(q) \in 0 .. Len(q)
  BY LenProperties
<1>3. QED
  BY <1>1, <1>2 DEF Tokenizes

\* A part of a sequence.
LEMMA PartIs ==
    ASSUME NEW S, NEW s \in Seq(S), NEW i \in 1 .. Len(s) + 1, NEW j \in 0 .. Len(s)
    PROVE  /\ SubSeq(s, i, j) \in Seq(S)
           /\ Len(SubSeq(s, i, j)) = IF i <= j THEN j - i + 1 ELSE 0
           /\ \A k \in 1 .. j - i + 1 : SubSeq(s, i, j)[k] = s[i + k - 1]
<1>1. Len(s) \in Nat /\ \A k \in 1 .. Len(s) : s[k] \in S
  BY LenProperties, ElementOfSeq
<1>2. i \in Int /\ j \in Int /\ \A k \in i .. j : s[k] \in S
  BY <1>1
<1>3. QED
  BY <1>2, SubSeqProperties

\* The last place with a property is a place of the sequence, or 0.
LEMMA LastPlaceIs ==
    ASSUME NEW N \in Nat, NEW K \in SUBSET (1 .. N)
    PROVE  (IF K # {} THEN Parser!Max(K) ELSE 0) \in 0 .. N
<1>1. CASE K # {}
  <2> DEFINE T == {N - k : k \in K}
  <2>1. T \in SUBSET Nat /\ T # {}
    <3>1. \A k \in K : N - k \in Nat
      OBVIOUS
    <3>2. QED
      BY <1>1, <3>1
  <2> HIDE DEF T
  <2>2. PICK t \in T : \A u \in T : t <= u
    BY <2>1, LeastNatural
  <2>3. PICK k \in K : t = N - k
    BY <2>2 DEF T
  <2>4. \A h \in K : N - h \in T
    BY DEF T
  <2>5. \A h \in K : k >= h
    BY <2>2, <2>3, <2>4
  <2>6. Parser!Max(K) \in K
    BY <2>3, <2>5 DEF Parser!Max
  <2>7. Parser!Max(K) \in 0 .. N
    <3>1. \A h \in K : h \in 0 .. N
      OBVIOUS
    <3>2. QED
      BY <2>6, <3>1, Zenon
  <2>8. QED
    BY <1>1, <2>7
<1>2. QED
  BY <1>1

Yards == [operators : Seq(Tokens), output : Seq(Tokens)]

LEMMA PopDownToIs ==
    ASSUME NEW yard \in Yards, NEW k \in 0 .. Len(yard.operators)
    PROVE  Parser!PopDownTo(yard, k) \in Yards
<1> DEFINE ops == yard.operators
           rest == SubSeq(ops, k + 1, Len(ops))
<1>1. ops \in Seq(Tokens) /\ yard.output \in Seq(Tokens) /\ Len(ops) \in Nat
  BY DEF Yards
<1> HIDE DEF ops
<1>2. SubSeq(ops, 1, k) \in Seq(Tokens) /\ rest \in Seq(Tokens)
  <2>1. k \in 0 .. Len(ops)
    BY DEF ops
  <2>2. 1 \in 1 .. Len(ops) + 1 /\ k + 1 \in 1 .. Len(ops) + 1 /\ Len(ops) \in 0 .. Len(ops)
    BY <1>1, <2>1
  <2>3. QED
    BY <1>1, <2>1, <2>2, PartIs
<1> HIDE DEF rest
<1>3. Parser!Reverse(rest) \in Seq(Tokens)
  <2>1. Len(rest) \in Nat /\ \A i \in 1 .. Len(rest) : rest[i] \in Tokens
    BY <1>2, ElementOfSeq, LenProperties
  <2>2. ASSUME NEW i \in 1 .. Len(rest) PROVE rest[(Len(rest) - i) + 1] \in Tokens
    <3>1. (Len(rest) - i) + 1 \in 1 .. Len(rest)
      BY <2>1
    <3>2. QED
      BY <2>1, <3>1
  <2>3. QED
    BY <2>1, <2>2 DEF Parser!Reverse
<1>4. yard.output \o Parser!Reverse(rest) \in Seq(Tokens)
  BY <1>1, <1>3, ConcatProperties
<1>5. Parser!PopDownTo(yard, k) =
          [operators |-> SubSeq(ops, 1, k), output |-> yard.output \o Parser!Reverse(rest)]
  BY DEF Parser!PopDownTo, ops, rest
<1>6. QED
  BY <1>2, <1>4, <1>5 DEF Yards

LEMMA PushOperatorIs ==
    ASSUME NEW yard \in Yards, NEW op \in Tokens
    PROVE  Parser!PushOperator(yard, op) \in Yards
<1> DEFINE ops == yard.operators
           K == {i \in 1 .. Len(ops) : Parser!precedence(ops[i]) < Parser!precedence(op)}
           k == IF K # {} THEN Parser!Max(K) ELSE 0
           popped == Parser!PopDownTo(yard, k)
<1>1. Len(ops) \in Nat
  BY DEF Yards
<1>2. k \in 0 .. Len(ops)
  BY <1>1, LastPlaceIs
<1>3. Parser!PushOperator(yard, op) = [popped EXCEPT !.operators = Append(@, op)]
  BY DEF Parser!PushOperator, Parser!Topmost, Parser!SelectLastInSeq
<1> HIDE DEF k
<1>4. popped \in Yards
  BY <1>2, PopDownToIs
<1> HIDE DEF popped
<1>5. Append(popped.operators, op) \in Seq(Tokens)
  BY <1>4, AppendProperties DEF Yards
<1>6. QED
  BY <1>3, <1>4, <1>5 DEF Yards

LEMMA CloseParenthesisIs ==
    ASSUME NEW yard \in Yards
    PROVE  Parser!CloseParenthesis(yard) \in {None} \cup Yards
<1> DEFINE ops == yard.operators
           K == {i \in 1 .. Len(ops) : ops[i] = "("}
           k == IF K # {} THEN Parser!Max(K) ELSE 0
           popped == Parser!PopDownTo(yard, k)
<1>1. Len(ops) \in Nat
  BY DEF Yards
<1>2. K \in SUBSET (1 .. Len(ops))
  BY Zenon
<1>3. Parser!CloseParenthesis(yard) =
          IF k = 0 THEN None ELSE [popped EXCEPT !.operators = Parser!Front(@)]
  BY Zenon DEF Parser!CloseParenthesis, Parser!Topmost, Parser!SelectLastInSeq
<1> HIDE DEF K
<1>4. k \in 0 .. Len(ops)
  BY <1>1, <1>2, LastPlaceIs
<1> HIDE DEF k
<1>5. popped \in Yards /\ (k # 0 => popped.operators # <<>>)
  <2>1. popped \in Yards
    BY <1>4, PopDownToIs
  <2>2. popped.operators = SubSeq(ops, 1, k)
    BY DEF Parser!PopDownTo
  <2>3. k # 0 => Len(SubSeq(ops, 1, k)) = k
    <3>1. ops \in Seq(Tokens) /\ 1 \in 1 .. Len(ops) + 1
      BY <1>1 DEF Yards
    <3>2. QED
      BY <1>4, <3>1, PartIs
  <2>4. QED
    BY <1>4, <2>1, <2>2, <2>3
<1> HIDE DEF popped
<1>6. k # 0 => Parser!Front(popped.operators) \in Seq(Tokens)
  <2>1. SUFFICES ASSUME k # 0 PROVE Parser!Front(popped.operators) \in Seq(Tokens)
    OBVIOUS
  <2>2. popped.operators \in Seq(Tokens) /\ popped.operators # <<>>
    BY <1>5, <2>1 DEF Yards
  <2>3. /\ 1 \in 1 .. Len(popped.operators) + 1
        /\ Len(popped.operators) - 1 \in 0 .. Len(popped.operators)
    BY <2>2, EmptySeq, LenProperties
  <2>4. QED
    BY <2>2, <2>3, PartIs DEF Parser!Front
<1>7. QED
  BY <1>3, <1>5, <1>6 DEF Yards

LEMMA ShuntingStepIs ==
    ASSUME NEW yard \in {None} \cup Yards, NEW token \in Tokens
    PROVE  Parser!ShuntingStep(yard, token) \in {None} \cup Yards
<1> DEFINE Waits == [yard EXCEPT !.operators = Append(@, token)]
           Out == [yard EXCEPT !.output = Append(@, token)]
<1>1. yard # None => Parser!ShuntingStep(yard, token) \in
          {Parser!PushOperator(yard, token), Waits, Parser!CloseParenthesis(yard), Out}
  BY Zenon DEF Parser!ShuntingStep
<1>2. yard = None => Parser!ShuntingStep(yard, token) = None
  BY Zenon DEF Parser!ShuntingStep
<1>3. CASE yard = None
  BY <1>2, <1>3
<1>4. CASE yard # None
  <2>1. yard \in Yards
    BY <1>4
  <2>2. Waits \in Yards /\ Out \in Yards
    BY <2>1, AppendProperties DEF Yards
  <2>3. QED
    BY <1>1, <1>4, <2>1, <2>2, PushOperatorIs, CloseParenthesisIs, Zenon
<1>5. QED
  BY <1>3, <1>4

\* The yards after each token.
Shunts(yards, infix) ==
    /\ Parser!shunting_yard(infix) =
           IF yards[Len(infix)] = None \/ Parser!Contains(yards[Len(infix)].operators, "(") THEN None
           ELSE Parser!PopDownTo(yards[Len(infix)], 0).output
    /\ yards[0] = [operators |-> <<>>, output |-> <<>>]
    /\ \A k \in 0 .. Len(infix) : yards[k] \in {None} \cup Yards
    /\ \A k \in 1 .. Len(infix) : yards[k] = Parser!ShuntingStep(yards[k - 1], infix[k])

LEMMA ShuntingSteps ==
    ASSUME NEW infix \in Seq(Tokens)
    PROVE  \E yards : Shunts(yards, infix)
<1> DEFINE n == Len(infix)
           Y == {None} \cup Yards
           Step(v, k) == Parser!ShuntingStep(v, infix[k])
           a == [operators |-> <<>>, output |-> <<>>]
           yards[k \in 0 .. n] ==
              IF k = 0 THEN [operators |-> <<>>, output |-> <<>>]
              ELSE Parser!ShuntingStep(yards[k - 1], infix[k])
           Open(yard) == Parser!Contains(yard.operators, "(")
<1>1. Parser!shunting_yard(infix) =
          IF yards[n] = None \/ Open(yards[n]) THEN None ELSE Parser!PopDownTo(yards[n], 0).output
  BY Zenon DEF Parser!shunting_yard
<1> HIDE DEF Open
<1>2. n \in Nat /\ \A k \in 1 .. n : infix[k] \in Tokens
  BY LenProperties, ElementOfSeq
<1> HIDE DEF n
<1>3. ASSUME NEW v \in Y, NEW k \in 1 .. n PROVE Step(v, k) \in Y
  BY <1>2, ShuntingStepIs
<1>4. a \in Y
  BY DEF Yards
<1>5. \E g \in [0 .. n -> Y] : g = [k \in 0 .. n |-> IF k = 0 THEN a ELSE Step(g[k - 1], k)]
  <2> DEFINE step == [x \in Y \X (1 .. n) |-> Step(x[1], x[2])]
  <2>1. step \in [Y \X (1 .. n) -> Y]
    <3> HIDE DEF Y, Step
    <3>1. QED
      BY <1>3
  <2>2. \A v \in Y, k \in 1 .. n : step[<<v, k>>] = Step(v, k)
    <3> HIDE DEF Y, Step
    <3>1. QED
      OBVIOUS
  <2> HIDE DEF step, Step, Y, a
  <2>3. PICK g \in [0 .. n -> Y] : Follows(g, a, step, n)
    BY <1>2, <1>4, <2>1, Recursion
  <2>4. ASSUME NEW k \in 0 .. n, k # 0 PROVE step[<<g[k - 1], k>>] = Step(g[k - 1], k)
    <3>1. k \in 1 .. n /\ k - 1 \in 0 .. n
      BY <1>2, <2>4
    <3>2. QED
      BY <2>2, <3>1
  <2>5. g = [k \in 0 .. n |-> IF k = 0 THEN a ELSE step[<<g[k - 1], k>>]]
    BY <2>3, Zenon DEF Follows
  <2>6. g = [k \in 0 .. n |-> IF k = 0 THEN a ELSE Step(g[k - 1], k)]
    BY <2>4, <2>5
  <2>7. QED
    BY <2>6
<1>6. yards = [k \in 0 .. n |-> IF k = 0 THEN a ELSE Step(yards[k - 1], k)]
  BY <1>5, Zenon
<1> HIDE DEF yards, Step, Y, a
<1>7. yards[0] = a
  BY <1>2, <1>6
<1>8. \A k \in 1 .. n : yards[k] = Step(yards[k - 1], k)
  BY <1>2, <1>6
<1>9. \A k \in 0 .. n : yards[k] \in Y
  <2>1. \A k \in 1 .. n : yards[k - 1] \in Y => yards[k] \in Y
    BY <1>3, <1>8
  <2>2. QED
    BY <1>2, <1>4, <1>7, <2>1, StaysIn, Zenon
<1>10. QED
  BY <1>1, <1>7, <1>8, <1>9, Zenon DEF Shunts, Open, Step, Y, a, n

\* The notation of a query is a sequence of tokens.
LEMMA ShuntingYardIs ==
    ASSUME NEW infix \in Seq(Tokens)
    PROVE  Parser!shunting_yard(infix) \in {None} \cup Seq(Tokens)
<1>1. PICK yards : Shunts(yards, infix)
  BY ShuntingSteps
<1> DEFINE yard == yards[Len(infix)]
<1>2. yard \in {None} \cup Yards
  BY <1>1, LenProperties DEF Shunts
<1>3. Parser!shunting_yard(infix) \in {None, Parser!PopDownTo(yard, 0).output}
  BY <1>1, Zenon DEF Shunts
<1>4. Parser!shunting_yard(infix) # None => yard # None
  BY <1>1, Zenon DEF Shunts
<1> HIDE DEF yard
<1>5. ASSUME yard \in Yards PROVE Parser!PopDownTo(yard, 0).output \in Seq(Tokens)
  <2>1. 0 \in 0 .. Len(yard.operators)
    BY <1>5, LenProperties DEF Yards
  <2>2. Parser!PopDownTo(yard, 0) \in Yards
    BY <1>5, <2>1, PopDownToIs
  <2>3. QED
    BY <2>2 DEF Yards
<1>6. QED
  BY <1>2, <1>3, <1>4, <1>5

LEMMA ParseIs ==
    ASSUME NEW q \in Seq(Parser!Lexemes)
    PROVE  Parser!parse(q) \in {None} \cup Seq(Tokens)
BY TokenizeIs, ShuntingYardIs DEF Parser!parse

LEMMA EvaluateStepIs ==
    ASSUME NEW n \in Nat, NEW stack \in {None} \cup Seq(Seq(0 .. n - 1)), NEW token,
           NEW postings \in Seq(0 .. n - 1)
    PROVE  Evaluator!EvaluateStep(stack, token, postings, n) \in {None} \cup Seq(Seq(0 .. n - 1))
<1> DEFINE V == Seq(0 .. n - 1)
           k == Len(stack)
           below == SubSeq(stack, 1, k - 2)
           both == Append(below, Evaluator!vi_vec_intersection(stack[k], stack[k - 1], n))
           either == Append(below, Evaluator!vi_vec_union(stack[k], stack[k - 1], n))
           none == Append(Evaluator!Front(stack), Evaluator!get_not_docs(stack[k], n))
           pushed == Append(stack, postings)
<1>1. stack = None => Evaluator!EvaluateStep(stack, token, postings, n) = None
  BY Zenon DEF Evaluator!EvaluateStep
<1>2. stack # None => \/ k < 1 /\ Evaluator!EvaluateStep(stack, token, postings, n) \in {None, pushed}
                      \/ ~(k < 1) /\ k < 2 /\ Evaluator!EvaluateStep(stack, token, postings, n) \in
                                {None, none, pushed}
                      \/ ~(k < 1) /\ ~(k < 2) /\ Evaluator!EvaluateStep(stack, token, postings, n) \in
                                {both, either, none, pushed}
                      \/ k < 1 /\ ~(k < 2)
  BY Zenon DEF Evaluator!EvaluateStep
<1>3. SUFFICES ASSUME stack # None, stack \in Seq(V)
               PROVE  Evaluator!EvaluateStep(stack, token, postings, n) \in {None} \cup Seq(V)
  BY <1>1
<1>4. k \in Nat
  BY <1>3, LenProperties
<1>5. /\ Evaluator!vi_vec_intersection(stack[k], stack[k - 1], n) \in V
      /\ Evaluator!vi_vec_union(stack[k], stack[k - 1], n) \in V
      /\ Evaluator!get_not_docs(stack[k], n) \in V
  BY ReadOffIs DEF Evaluator!vi_vec_intersection, Evaluator!vi_vec_union, Evaluator!get_not_docs
<1>6. pushed \in Seq(V)
  BY <1>3, AppendProperties
<1>7. k >= 1 => none \in Seq(V)
  <2>1. k >= 1 => 1 \in 1 .. k + 1 /\ k - 1 \in 0 .. k
    BY <1>4
  <2>2. k >= 1 => Evaluator!Front(stack) \in Seq(V)
    <3> HIDE DEF V
    <3>1. QED
      BY <1>3, <2>1, PartIs DEF Evaluator!Front
  <2> HIDE DEF V
  <2>3. QED
    BY <1>5, <2>2, AppendProperties
<1>8. k >= 2 => both \in Seq(V) /\ either \in Seq(V)
  <2>1. k >= 2 => 1 \in 1 .. k + 1 /\ k - 2 \in 0 .. k
    BY <1>4
  <2> HIDE DEF V
  <2>2. k >= 2 => below \in Seq(V)
    BY <1>3, <2>1, PartIs
  <2> HIDE DEF below
  <2>3. QED
    BY <1>5, <2>2, AppendProperties
<1>9. (k < 1 \/ k >= 1) /\ (k < 2 \/ k >= 2) /\ (k < 1 => k < 2) /\ (~(k < 1) => k >= 1) /\ (~(k < 2) => k >= 2)
  BY <1>4
<1> HIDE DEF V, both, either, none, pushed, k
<1>10. QED
  BY <1>2, <1>3, <1>6, <1>7, <1>8, <1>9, Zenon

\* The stack of evaluate, after each of the tokens.
Evaluates(stacks, notation, postings, n) ==
    /\ Evaluator!evaluate(notation, postings, n) =
          IF stacks[Len(notation)] # None /\ Len(stacks[Len(notation)]) = 1
          THEN stacks[Len(notation)][1] ELSE None
    /\ stacks[0] = <<>> /\ \A k \in 0 .. Len(notation) : stacks[k] \in {None} \cup Seq(Seq(0 .. n - 1))
    /\ \A k \in 1 .. Len(notation) :
          stacks[k] = Evaluator!EvaluateStep(stacks[k - 1], notation[k], postings[k], n)

LEMMA EvaluateSteps ==
    ASSUME NEW n \in Nat, NEW notation \in Seq(Tokens),
           NEW postings \in [DOMAIN notation -> Seq(0 .. n - 1)]
    PROVE  \E stacks : Evaluates(stacks, notation, postings, n)
<1> DEFINE N == Len(notation)
           Y == {None} \cup Seq(Seq(0 .. n - 1))
           Step(v, k) == Evaluator!EvaluateStep(v, notation[k], postings[k], n)
           a == <<>>
           stacks[k \in 0 .. N] ==
              IF k = 0 THEN <<>>
              ELSE Evaluator!EvaluateStep(stacks[k - 1], notation[k], postings[k], n)
           stack == stacks[N]
<1>1. Evaluator!evaluate(notation, postings, n) =
          IF stack # None /\ Len(stack) = 1 THEN stack[1] ELSE None
  BY Zenon DEF Evaluator!evaluate
<1>2. N \in Nat /\ DOMAIN notation = 1 .. N /\ \A k \in 1 .. N : postings[k] \in Seq(0 .. n - 1)
  BY LenProperties
<1> HIDE DEF N
<1>3. ASSUME NEW v \in Y, NEW k \in 1 .. N PROVE Step(v, k) \in Y
  BY <1>2, EvaluateStepIs
<1>4. a \in Y
  OBVIOUS
<1>5. \E g \in [0 .. N -> Y] : g = [k \in 0 .. N |-> IF k = 0 THEN a ELSE Step(g[k - 1], k)]
  <2> DEFINE step == [x \in Y \X (1 .. N) |-> Step(x[1], x[2])]
  <2>1. step \in [Y \X (1 .. N) -> Y]
    <3> HIDE DEF Y, Step
    <3>1. QED
      BY <1>3
  <2>2. \A v \in Y, k \in 1 .. N : step[<<v, k>>] = Step(v, k)
    <3> HIDE DEF Y, Step
    <3>1. QED
      OBVIOUS
  <2> HIDE DEF step, Step, Y, a
  <2>3. PICK g \in [0 .. N -> Y] : Follows(g, a, step, N)
    BY <1>2, <1>4, <2>1, Recursion
  <2>4. ASSUME NEW k \in 0 .. N, k # 0 PROVE step[<<g[k - 1], k>>] = Step(g[k - 1], k)
    <3>1. k \in 1 .. N /\ k - 1 \in 0 .. N
      BY <1>2, <2>4
    <3>2. QED
      BY <2>2, <3>1
  <2>5. g = [k \in 0 .. N |-> IF k = 0 THEN a ELSE step[<<g[k - 1], k>>]]
    BY <2>3, Zenon DEF Follows
  <2>6. g = [k \in 0 .. N |-> IF k = 0 THEN a ELSE Step(g[k - 1], k)]
    BY <2>4, <2>5
  <2>7. QED
    BY <2>6
<1>6. stacks = [k \in 0 .. N |-> IF k = 0 THEN a ELSE Step(stacks[k - 1], k)]
  BY <1>5, Zenon
<1> HIDE DEF stacks, Step, Y, a
<1>7. stacks[0] = a /\ stacks[0] \in Y
  <2>1. stacks[0] = a
    BY <1>2, <1>6
  <2>2. QED
    BY <1>4, <2>1
<1>8. \A k \in 1 .. N : stacks[k] = Step(stacks[k - 1], k)
  BY <1>2, <1>6
<1>9. \A k \in 0 .. N : stacks[k] \in Y
  <2>1. \A k \in 1 .. N : stacks[k - 1] \in Y => stacks[k] \in Y
    BY <1>3, <1>8
  <2>2. QED
    BY <1>2, <1>7, <2>1, StaysIn, Zenon
<1>10. QED
  BY <1>1, <1>7, <1>8, <1>9 DEF Evaluates, N, Y, a, Step

\* A query's result is a sequence of documents; that of one word is the word's postings.
LEMMA EvaluateIs ==
    ASSUME NEW n \in Nat, NEW notation \in Seq(Tokens),
           NEW postings \in [DOMAIN notation -> Seq(0 .. n - 1)]
    PROVE  /\ Evaluator!evaluate(notation, postings, n) \in {None} \cup Seq(0 .. n - 1)
           /\ Len(notation) = 1 => Evaluator!evaluate(notation, postings, n) \in {None, postings[1]}
<1>1. PICK stacks : Evaluates(stacks, notation, postings, n)
  BY EvaluateSteps
<1> DEFINE N == Len(notation)
           stack == stacks[N]
<1>2. N \in Nat /\ N \in 0 .. N
  BY LenProperties
<1>3. /\ Evaluator!evaluate(notation, postings, n) = IF stack # None /\ Len(stack) = 1 THEN stack[1] ELSE None
      /\ stack \in {None} \cup Seq(Seq(0 .. n - 1))
      /\ stacks[0] = <<>> /\ \A k \in 1 .. N :
            stacks[k] = Evaluator!EvaluateStep(stacks[k - 1], notation[k], postings[k], n)
  BY <1>1, <1>2 DEF Evaluates
<1>4. Evaluator!evaluate(notation, postings, n) \in {None} \cup Seq(0 .. n - 1)
  <2>1. SUFFICES ASSUME stack # None, Len(stack) = 1 PROVE stack[1] \in Seq(0 .. n - 1)
    BY <1>3
  <2>2. stack \in Seq(Seq(0 .. n - 1))
    BY <1>3, <2>1
  <2> DEFINE V == Seq(0 .. n - 1)
  <2> HIDE DEF stack, V
  <2>3. stack \in Seq(V)
    BY <2>2 DEF V
  <2>4. 1 \in 1 .. Len(stack)
    BY <2>1
  <2>5. stack[1] \in V
    BY <2>3, <2>4, ElementOfSeq
  <2>6. QED
    BY <2>5 DEF V
<1>5. ASSUME N = 1 PROVE Evaluator!evaluate(notation, postings, n) \in {None, postings[1]}
  <2>1. stack = Evaluator!EvaluateStep(<<>>, notation[1], postings[1], n)
    <3>1. 1 \in 1 .. N /\ 1 - 1 = 0
      BY <1>5
    <3> HIDE DEF N
    <3>2. QED
      BY <1>3, <1>5, <3>1
  <2>2. Len(<<>>) < 1 /\ Len(<<>>) < 2
    OBVIOUS
  <2>3. stack \in {None, Append(<<>>, postings[1])}
    BY <2>1, <2>2, Zenon DEF Evaluator!EvaluateStep
  <2>4. Append(<<>>, postings[1])[1] = postings[1]
    OBVIOUS
  <2>5. QED
    BY <1>3, <2>3, <2>4
<1>6. QED
  BY <1>4, <1>5 DEF N

----------------------------------------------------------------------------
(* What a notation is true of *)

\* The evaluator's operators of sets and sequences are those of this module.
LEMMA SameOperators ==
    /\ \A S : Evaluator!Cardinality(S) = Cardinality(S)
    /\ \A v : Evaluator!ToSet(v) = ToSet(v)
<1>1. \A S : Evaluator!Cardinality(S) = Cardinality(S)
  BY Zenon DEF Evaluator!Cardinality, Cardinality, Evaluator!IsFiniteSet, IsFiniteSet
<1>2. \A v : Evaluator!ToSet(v) = ToSet(v)
  BY Zenon DEF Evaluator!ToSet, ToSet
<1>3. QED
  BY <1>1, <1>2

\* A vector with each of some documents once is as long as they are many.
LEMMA OnceIs ==
    ASSUME NEW D, NEW v \in Seq(D), NEW S, Once(v, S)
    PROVE  /\ IsFiniteSet(S) /\ Cardinality(S) = Len(v) /\ Len(v) \in Nat
           /\ S \in SUBSET D
<1>1. Len(v) \in Nat /\ DOMAIN v = 1 .. Len(v) /\ \A i \in 1 .. Len(v) : v[i] \in D
  BY LenProperties, ElementOfSeq
<1>2. S = {v[i] : i \in 1 .. Len(v)}
  BY <1>1 DEF Once, ToSet
<1>3. v \in Bijection(1 .. Len(v), S)
  <2>1. v \in [1 .. Len(v) -> S] /\ \A x \in S : \E i \in 1 .. Len(v) : v[i] = x
    BY <1>1, <1>2
  <2>2. \A i, j \in 1 .. Len(v) : v[i] = v[j] => i = j
    BY <1>1 DEF Once, IsInjective
  <2>3. QED
    BY <2>1, <2>2 DEF Bijection, Injection, Surjection, IsInjective
<1>4. ExistsBijection(1 .. Len(v), S)
  BY <1>3 DEF ExistsBijection
<1>5. Cardinality(S) = Len(v)
  BY <1>1, <1>4, FS_CountingElements
<1>6. IsFiniteSet(S)
  <2>1. IsFiniteSet(1 .. Len(v))
    BY <1>1, FS_Interval
  <2>2. QED
    BY <1>4, <2>1, FS_Bijection
<1>7. QED
  BY <1>1, <1>2, <1>5, <1>6

\* A document is marked by each of the operands that has it.
LEMMA MarkBothIs ==
    ASSUME NEW D, NEW a \in Seq(D), NEW b \in Seq(D), NEW A, NEW B, Once(a, A), Once(b, B), NEW d
    PROVE  Evaluator!MarkBoth(a, b, d) = (IF d \in A THEN 1 ELSE 0) + (IF d \in B THEN 1 ELSE 0)
<1> DEFINE At == {i \in DOMAIN b : b[i] = d}
<1>1. DOMAIN a = 1 .. Len(a) /\ DOMAIN b = 1 .. Len(b)
  BY LenProperties
<1>2. Evaluator!Contains(a, d) <=> d \in A
  BY <1>1 DEF Evaluator!Contains, Once, ToSet
<1>3. Cardinality(At) = IF d \in B THEN 1 ELSE 0
  <2>1. CASE d \in B
    <3>1. PICK i \in DOMAIN b : b[i] = d
      BY <2>1 DEF Once, ToSet
    <3>2. At = {i}
      BY <3>1 DEF Once, IsInjective
    <3>3. QED
      BY <2>1, <3>2, FS_Singleton
  <2>2. CASE d \notin B
    <3>1. At = {}
      BY <2>2 DEF Once, ToSet
    <3>2. QED
      BY <2>2, <3>1, FS_EmptySet
  <2>3. QED
    BY <2>1, <2>2
<1>4. QED
  BY <1>2, <1>3, SameOperators DEF Evaluator!MarkBoth

\* The operations on vectors that have their documents once are those on sets.
LEMMA UnionIs ==
    ASSUME NEW n \in Nat, NEW a \in Seq(0 .. n - 1), NEW b \in Seq(0 .. n - 1), NEW A, NEW B,
           Once(a, A), Once(b, B)
    PROVE  Once(Evaluator!vi_vec_union(a, b, n), A \cup B)
<1> DEFINE D == 0 .. n - 1
           marked == {d \in D : Evaluator!MarkBoth(a, b, d) > 0}
           room == Len(a) + Cardinality(B \ A)
<1>1. a \in Seq(D) /\ b \in Seq(D)
  OBVIOUS
<1> HIDE DEF D
<1>2. /\ IsFiniteSet(A) /\ Cardinality(A) = Len(a) /\ Len(a) \in Nat /\ A \in SUBSET D
      /\ IsFiniteSet(B) /\ B \in SUBSET D
  BY <1>1, OnceIs
<1>3. marked = A \cup B
  BY <1>1, <1>2, MarkBothIs
<1>4. IsFiniteSet(B \ A) /\ Cardinality(B \ A) \in Nat
  BY <1>2, FS_Difference, FS_CardinalityType
<1>5. Cardinality(marked) = room
  <2>1. A \cup B = A \cup (B \ A) /\ A \cap (B \ A) = {}
    OBVIOUS
  <2>2. Cardinality(A \cup (B \ A)) = Cardinality(A) + Cardinality(B \ A) - Cardinality(A \cap (B \ A))
    BY <1>2, <1>4, FS_Union
  <2>3. Cardinality(A \cap (B \ A)) = 0
    BY <2>1, FS_EmptySet
  <2>4. marked = A \cup (B \ A)
    BY <1>3, <2>1
  <2> HIDE DEF marked
  <2>5. QED
    BY <1>2, <1>4, <2>2, <2>3, <2>4
<1>6. Evaluator!vi_vec_union(a, b, n) = Evaluator!ReadOff(marked, room, n)
  BY SameOperators DEF Evaluator!vi_vec_union, Once, D
<1>7. marked \in SUBSET D /\ room \in Nat
  BY <1>2, <1>4
<1> HIDE DEF marked, room
<1>8. Once(Evaluator!ReadOff(marked, room, n), marked)
  <2>1. marked \in SUBSET (0 .. n - 1) /\ Cardinality(marked) <= room
    BY <1>5, <1>7 DEF D
  <2>2. QED
    BY <1>7, <2>1, ReadOffExact
<1>9. QED
  BY <1>3, <1>6, <1>8

LEMMA IntersectionIs ==
    ASSUME NEW n \in Nat, NEW a \in Seq(0 .. n - 1), NEW b \in Seq(0 .. n - 1), NEW A, NEW B,
           Once(a, A), Once(b, B)
    PROVE  Once(Evaluator!vi_vec_intersection(a, b, n), A \cap B)
<1> DEFINE D == 0 .. n - 1
           marked == {d \in D : Evaluator!MarkBoth(a, b, d) = 2}
           room == Cardinality({d \in B : Evaluator!MarkBoth(a, b, d) >= 2})
<1>1. a \in Seq(D) /\ b \in Seq(D)
  OBVIOUS
<1> HIDE DEF D
<1>2. IsFiniteSet(A) /\ A \in SUBSET D /\ B \in SUBSET D
  BY <1>1, OnceIs
<1>3. marked = A \cap B /\ {d \in B : Evaluator!MarkBoth(a, b, d) >= 2} = A \cap B
  BY <1>1, <1>2, MarkBothIs
<1>4. IsFiniteSet(A \cap B) /\ Cardinality(A \cap B) \in Nat
  <2>1. A \cap B \in SUBSET A
    OBVIOUS
  <2>2. QED
    BY <1>2, <2>1, FS_Subset, FS_CardinalityType
<1>5. Evaluator!vi_vec_intersection(a, b, n) = Evaluator!ReadOff(marked, room, n)
  BY SameOperators DEF Evaluator!vi_vec_intersection, Once, D
<1>6. marked \in SUBSET D /\ room \in Nat /\ Cardinality(marked) <= room
  <2>1. marked \in SUBSET D
    OBVIOUS
  <2>2. room = Cardinality(A \cap B) /\ Cardinality(marked) = Cardinality(A \cap B)
    BY <1>3, Zenon
  <2> HIDE DEF marked, room
  <2>3. QED
    BY <1>4, <2>1, <2>2
<1> HIDE DEF marked, room
<1>7. Once(Evaluator!ReadOff(marked, room, n), marked)
  BY <1>6, ReadOffExact DEF D
<1>8. QED
  BY <1>3, <1>5, <1>7

LEMMA ComplementIs ==
    ASSUME NEW n \in Nat, NEW a \in Seq(0 .. n - 1), NEW A, Once(a, A)
    PROVE  Once(Evaluator!get_not_docs(a, n), 0 .. n - 1 \ A)
<1> DEFINE D == 0 .. n - 1
           marked == D \ A
           room == n - Len(a)
<1>1. a \in Seq(D)
  OBVIOUS
<1>2. IsFiniteSet(D) /\ Cardinality(D) = n
  <2>1. 0 \in Int /\ n - 1 \in Int /\ (IF 0 > n - 1 THEN 0 ELSE n - 1 - 0 + 1) = n
    OBVIOUS
  <2>2. QED
    BY <2>1, FS_Interval
<1> HIDE DEF D
<1>3. Cardinality(A) = Len(a) /\ Len(a) \in Nat /\ A \in SUBSET D /\ IsFiniteSet(A)
  BY <1>1, OnceIs
<1>4. Cardinality(marked) = room
  <2>1. D \cap A = A
    BY <1>3
  <2>2. Cardinality(marked) = Cardinality(D) - Cardinality(D \cap A)
    BY <1>2, FS_Difference
  <2> HIDE DEF marked
  <2>3. QED
    BY <1>2, <1>3, <2>1, <2>2
<1>5. room \in Nat
  <2>1. Cardinality(A) <= n
    BY <1>2, <1>3, FS_Subset
  <2>2. QED
    BY <1>3, <2>1
<1>6. Evaluator!get_not_docs(a, n) = Evaluator!ReadOff(marked, room, n)
  BY SameOperators DEF Evaluator!get_not_docs, Once, D
<1>7. marked \in SUBSET D
  OBVIOUS
<1> HIDE DEF marked, room
<1>8. Once(Evaluator!ReadOff(marked, room, n), marked)
  BY <1>4, <1>5, <1>7, ReadOffExact DEF D
<1>9. QED
  BY <1>6, <1>8 DEF marked, D

\* The first k of a stack, and one more on top.
LEMMA OnTop ==
    ASSUME NEW V, NEW stack \in Seq(V), NEW k \in 0 .. Len(stack), NEW x \in V
    PROVE  LET new == Append(SubSeq(stack, 1, k), x)
           IN  /\ new \in Seq(V) /\ Len(new) = k + 1 /\ new[k + 1] = x
               /\ \A i \in 1 .. k : new[i] = stack[i]
<1> DEFINE below == SubSeq(stack, 1, k)
           new == Append(below, x)
<1>1. Len(stack) \in Nat /\ k \in Nat /\ 1 \in 1 .. Len(stack) + 1
  BY LenProperties
<1>2. below \in Seq(V) /\ Len(below) = k /\ \A i \in 1 .. k : below[i] = stack[i]
  <2>1. /\ below \in Seq(V) /\ Len(below) = IF 1 <= k THEN k - 1 + 1 ELSE 0
        /\ \A i \in 1 .. k - 1 + 1 : below[i] = stack[1 + i - 1]
    BY <1>1, PartIs
  <2> HIDE DEF below
  <2>2. k - 1 + 1 = k /\ (1 <= k \/ k = 0) /\ \A i \in 1 .. k : 1 + i - 1 = i
    BY <1>1
  <2>3. QED
    BY <2>1, <2>2
<1> HIDE DEF below
<1>3. /\ new \in Seq(V) /\ Len(new) = Len(below) + 1 /\ new[Len(below) + 1] = x
      /\ \A i \in 1 .. Len(below) : new[i] = below[i]
  BY <1>2, AppendProperties
<1> HIDE DEF new
<1>4. new \in Seq(V) /\ Len(new) = k + 1 /\ new[k + 1] = x /\ \A i \in 1 .. k : new[i] = stack[i]
  BY <1>2, <1>3
<1>5. QED
  BY <1>4 DEF new, below

Sets == SUBSET (0 .. nDocs - 1)

\* A step of the evaluation, by its token.
LEMMA TruthCases ==
    ASSUME NEW stack, NEW token
    PROVE  LET n == Len(stack)
               below == SubSeq(stack, 1, n - 2)
           IN  /\ token = "&" => TruthStep(stack, token) =
                      IF n < 2 THEN <<>> ELSE Append(below, stack[n - 1] \cap stack[n])
               /\ token = "|" => TruthStep(stack, token) =
                      IF n < 2 THEN <<>> ELSE Append(below, stack[n - 1] \cup stack[n])
               /\ token = "!" => TruthStep(stack, token) =
                      IF n < 1 THEN <<>> ELSE Append(Front(stack), 0 .. nDocs - 1 \ stack[n])
               /\ token \in Words => TruthStep(stack, token) = Append(stack, Having(token, nDocs))
               /\ token \notin Words \cup {"&", "|", "!"} => TruthStep(stack, token) = Append(stack, {})
<1> DEFINE n == Len(stack)
           below == SubSeq(stack, 1, n - 2)
           both == IF n < 2 THEN <<>> ELSE Append(below, stack[n - 1] \cap stack[n])
           either == IF n < 2 THEN <<>> ELSE Append(below, stack[n - 1] \cup stack[n])
           neither == IF n < 1 THEN <<>> ELSE Append(Front(stack), 0 .. nDocs - 1 \ stack[n])
           having == Append(stack, Having(token, nDocs))
           none == Append(stack, {})
<1>1. TruthStep(stack, token) = CASE token = "&" -> both [] token = "|" -> either
                                  [] token = "!" -> neither [] token \in Words -> having
                                  [] OTHER -> none
  BY DEF TruthStep
<1>2. "&" \notin Words /\ "|" \notin Words /\ "!" \notin Words
  BY TextAssumption, Zenon
<1> HIDE DEF both, either, neither, having, none
<1>3. /\ token = "&" => TruthStep(stack, token) = both
      /\ token = "|" => TruthStep(stack, token) = either
      /\ token = "!" => TruthStep(stack, token) = neither
      /\ token \in Words => TruthStep(stack, token) = having
      /\ token \notin Words \cup {"&", "|", "!"} => TruthStep(stack, token) = none
  BY <1>1, <1>2
<1>4. QED
  BY <1>3 DEF both, either, neither, having, none

\* What a step of the evaluation does to a stack of sets.
LEMMA TruthStepIs ==
    ASSUME nDocs \in Nat, NEW stack \in Seq(Sets), NEW token
    PROVE  TruthStep(stack, token) \in Seq(Sets)
<1> DEFINE n == Len(stack)
           new == TruthStep(stack, token)
<1>1. n \in Nat /\ <<>> \in Seq(Sets) /\ n \in 0 .. n /\ SubSeq(stack, 1, n) = stack
  BY LenProperties, EmptySeq, SubSeqFull
<1>2. \A i \in 1 .. n : stack[i] \in Sets
  BY ElementOfSeq
<1>3. (\A w : Having(w, nDocs) \in Sets) /\ {} \in Sets
  BY DEF Having, Sets
<1>4. ASSUME NEW k \in 0 .. n, NEW x \in Sets PROVE Append(SubSeq(stack, 1, k), x) \in Seq(Sets)
  BY OnTop
<1>5. \A x \in Sets : Append(stack, x) \in Seq(Sets)
  BY <1>1, <1>4
<1>6. ASSUME n >= 2
      PROVE  /\ Append(SubSeq(stack, 1, n - 2), stack[n - 1] \cap stack[n]) \in Seq(Sets)
             /\ Append(SubSeq(stack, 1, n - 2), stack[n - 1] \cup stack[n]) \in Seq(Sets)
  <2>1. stack[n - 1] \cap stack[n] \in Sets /\ stack[n - 1] \cup stack[n] \in Sets /\ n - 2 \in 0 .. n
    BY <1>1, <1>2, <1>6 DEF Sets
  <2>2. QED
    BY <1>4, <2>1
<1>7. ASSUME n >= 1 PROVE Append(Front(stack), 0 .. nDocs - 1 \ stack[n]) \in Seq(Sets)
  <2>1. 0 .. nDocs - 1 \ stack[n] \in Sets /\ n - 1 \in 0 .. n
    BY <1>1, <1>7 DEF Sets
  <2>2. QED
    BY <1>4, <2>1 DEF Front
<1>8. (n < 2 \/ n >= 2) /\ (n < 1 \/ n >= 1)
  BY <1>1
<1>9. \/ new = <<>>
      \/ ~(n < 2) /\ new = Append(SubSeq(stack, 1, n - 2), stack[n - 1] \cap stack[n])
      \/ ~(n < 2) /\ new = Append(SubSeq(stack, 1, n - 2), stack[n - 1] \cup stack[n])
      \/ ~(n < 1) /\ new = Append(Front(stack), 0 .. nDocs - 1 \ stack[n])
      \/ new = Append(stack, Having(token, nDocs))
      \/ new = Append(stack, {})
  BY TruthCases, Zenon
<1> HIDE DEF new, n
<1>10. new \in Seq(Sets)
  BY <1>1, <1>3, <1>5, <1>6, <1>7, <1>8, <1>9, Zenon
<1>11. QED
  BY <1>10 DEF new

\* The sets that a notation makes, after each of its tokens.
TrueOf(sets, notation) ==
    /\ Truth(notation) = sets[Len(notation)][1]
    /\ sets[0] = <<>> /\ \A k \in 0 .. Len(notation) : sets[k] \in Seq(Sets)
    /\ \A k \in 1 .. Len(notation) : sets[k] = TruthStep(sets[k - 1], notation[k])

LEMMA TruthSteps ==
    ASSUME nDocs \in Nat, NEW S, NEW notation \in Seq(S)
    PROVE  \E sets : TrueOf(sets, notation)
<1> DEFINE N == Len(notation)
           Y == Seq(Sets)
           Step(v, k) == TruthStep(v, notation[k])
           a == <<>>
           stacks[k \in 0 .. N] == IF k = 0 THEN <<>> ELSE TruthStep(stacks[k - 1], notation[k])
<1>1. Truth(notation) = stacks[N][1]
  BY Zenon DEF Truth
<1>2. N \in Nat
  BY LenProperties
<1> HIDE DEF N
<1>3. ASSUME NEW v \in Y, NEW k \in 1 .. N PROVE Step(v, k) \in Y
  BY TruthStepIs
<1>4. a \in Y
  OBVIOUS
<1>5. \E g \in [0 .. N -> Y] : g = [k \in 0 .. N |-> IF k = 0 THEN a ELSE Step(g[k - 1], k)]
  <2> DEFINE step == [x \in Y \X (1 .. N) |-> Step(x[1], x[2])]
  <2>1. step \in [Y \X (1 .. N) -> Y]
    <3> HIDE DEF Y, Step
    <3>1. QED
      BY <1>3
  <2>2. \A v \in Y, k \in 1 .. N : step[<<v, k>>] = Step(v, k)
    <3> HIDE DEF Y, Step
    <3>1. QED
      OBVIOUS
  <2> HIDE DEF step, Step, Y, a
  <2>3. PICK g \in [0 .. N -> Y] : Follows(g, a, step, N)
    BY <1>2, <1>4, <2>1, Recursion
  <2>4. ASSUME NEW k \in 0 .. N, k # 0 PROVE step[<<g[k - 1], k>>] = Step(g[k - 1], k)
    <3>1. k \in 1 .. N /\ k - 1 \in 0 .. N
      BY <1>2, <2>4
    <3>2. QED
      BY <2>2, <3>1
  <2>5. g = [k \in 0 .. N |-> IF k = 0 THEN a ELSE step[<<g[k - 1], k>>]]
    BY <2>3, Zenon DEF Follows
  <2>6. g = [k \in 0 .. N |-> IF k = 0 THEN a ELSE Step(g[k - 1], k)]
    BY <2>4, <2>5
  <2>7. QED
    BY <2>6
<1>6. stacks = [k \in 0 .. N |-> IF k = 0 THEN a ELSE Step(stacks[k - 1], k)]
  BY <1>5, Zenon
<1> HIDE DEF stacks, Step, Y, a
<1>7. stacks[0] = a
  BY <1>2, <1>6
<1>8. \A k \in 1 .. N : stacks[k] = Step(stacks[k - 1], k)
  BY <1>2, <1>6
<1>9. \A k \in 0 .. N : stacks[k] \in Y
  <2>1. \A k \in 1 .. N : stacks[k - 1] \in Y => stacks[k] \in Y
    BY <1>3, <1>8
  <2>2. QED
    BY <1>2, <1>4, <1>7, <2>1, StaysIn, Zenon
<1>10. QED
  BY <1>1, <1>7, <1>8, <1>9 DEF TrueOf, N, Y, a, Step

\* A step of the enclave's evaluation, by its token.
LEMMA EvaluateCases ==
    ASSUME NEW stack, stack # None, NEW token, NEW postings
    PROVE  LET n == Len(stack)
               below == SubSeq(stack, 1, n - 2)
               new == Evaluator!EvaluateStep(stack, token, postings, nDocs)
           IN  /\ token = "&" => new = IF n < 2 THEN None ELSE
                      Append(below, Evaluator!vi_vec_intersection(stack[n], stack[n - 1], nDocs))
               /\ token = "|" => new = IF n < 2 THEN None ELSE
                      Append(below, Evaluator!vi_vec_union(stack[n], stack[n - 1], nDocs))
               /\ token = "!" => new = IF n < 1 THEN None ELSE
                      Append(Front(stack), Evaluator!get_not_docs(stack[n], nDocs))
               /\ token \notin {"&", "|", "!"} => new = Append(stack, postings)
<1> DEFINE n == Len(stack)
           below == SubSeq(stack, 1, n - 2)
           new == Evaluator!EvaluateStep(stack, token, postings, nDocs)
           both == IF n < 2 THEN None ELSE
               Append(below, Evaluator!vi_vec_intersection(stack[n], stack[n - 1], nDocs))
           either == IF n < 2 THEN None ELSE
               Append(below, Evaluator!vi_vec_union(stack[n], stack[n - 1], nDocs))
           neither == IF n < 1 THEN None ELSE
               Append(Evaluator!Front(stack), Evaluator!get_not_docs(stack[n], nDocs))
           pushed == Append(stack, postings)
<1>1. new = IF stack = None THEN None ELSE
               CASE token = "&" -> both [] token = "|" -> either [] token = "!" -> neither
                 [] OTHER -> pushed
  BY DEF Evaluator!EvaluateStep
<1>2. Evaluator!Front(stack) = Front(stack)
  BY DEF Evaluator!Front, Front
<1> HIDE DEF both, either, neither, pushed, new
<1>3. /\ token = "&" => new = both
      /\ token = "|" => new = either
      /\ token = "!" => new = neither
      /\ token \notin {"&", "|", "!"} => new = pushed
  BY <1>1
<1>4. QED
  BY <1>2, <1>3 DEF both, either, neither, pushed, new

\* The vectors of a stack have the documents of the sets, each once.
Represents(stack, sets) ==
    /\ stack \in Seq(Seq(0 .. nDocs - 1)) /\ sets \in Seq(Sets) /\ Len(stack) = Len(sets)
    /\ \A i \in 1 .. Len(sets) : Once(stack[i], sets[i])

LEMMA RepresentsOnTop ==
    ASSUME NEW stack, NEW sets, Represents(stack, sets), NEW k \in 0 .. Len(sets),
           NEW v \in Seq(0 .. nDocs - 1), NEW S \in Sets, Once(v, S)
    PROVE  Represents(Append(SubSeq(stack, 1, k), v), Append(SubSeq(sets, 1, k), S))
<1> DEFINE V == Seq(0 .. nDocs - 1)
           vectors == Append(SubSeq(stack, 1, k), v)
           new == Append(SubSeq(sets, 1, k), S)
<1>1. v \in V /\ stack \in Seq(V) /\ sets \in Seq(Sets) /\ Len(stack) = Len(sets) /\ Len(sets) \in Nat
  BY LenProperties DEF Represents
<1> HIDE DEF V
<1>2. /\ vectors \in Seq(V) /\ Len(vectors) = k + 1 /\ vectors[k + 1] = v
      /\ \A i \in 1 .. k : vectors[i] = stack[i]
  BY <1>1, OnTop
<1>3. /\ new \in Seq(Sets) /\ Len(new) = k + 1 /\ new[k + 1] = S
      /\ \A i \in 1 .. k : new[i] = sets[i]
  BY <1>1, OnTop
<1> HIDE DEF vectors, new
<1>4. \A i \in 1 .. k + 1 : (i \in 1 .. k /\ i \in 1 .. Len(sets)) \/ i = k + 1
  BY <1>1
<1>5. \A i \in 1 .. k + 1 : Once(vectors[i], new[i])
  BY <1>2, <1>3, <1>4 DEF Represents
<1>6. Represents(vectors, new)
  BY <1>2, <1>3, <1>5 DEF Represents, V
<1>7. QED
  BY <1>6 DEF vectors, new

\* The documents of a token: those that have the word, if it is one.
TokenDocs(token) == IF token \in Words THEN Having(token, nDocs) ELSE {}

LEMMA StepMeans ==
    ASSUME nDocs \in Nat, NEW stack, stack # None, NEW sets, Represents(stack, sets), NEW token,
           NEW postings \in Seq(0 .. nDocs - 1), Once(postings, TokenDocs(token)),
           Evaluator!EvaluateStep(stack, token, postings, nDocs) # None
    PROVE  Represents(Evaluator!EvaluateStep(stack, token, postings, nDocs), TruthStep(sets, token))
<1> DEFINE n == Len(sets)
           V == Seq(0 .. nDocs - 1)
           new == Evaluator!EvaluateStep(stack, token, postings, nDocs)
<1>1. /\ n \in Nat /\ Len(stack) = n /\ sets \in Seq(Sets) /\ stack \in Seq(V)
      /\ \A i \in 1 .. n : Once(stack[i], sets[i])
  BY LenProperties DEF Represents
<1>2. \A i \in 1 .. n : stack[i] \in V /\ sets[i] \in Sets
  <2> HIDE DEF V
  <2>1. QED
    BY <1>1, ElementOfSeq
<1> HIDE DEF n
<1>3. CASE token = "&"
  <2>1. new = IF n < 2 THEN None ELSE
            Append(SubSeq(stack, 1, n - 2), Evaluator!vi_vec_intersection(stack[n], stack[n - 1], nDocs))
    BY <1>1, <1>3, EvaluateCases
  <2>2. n >= 2 /\ n \in 1 .. n /\ n - 1 \in 1 .. n /\ n - 2 \in 0 .. n
    <3>1. ~(n < 2)
      BY <2>1, Zenon
    <3>2. QED
      BY <1>1, <3>1
  <2>3. Once(Evaluator!vi_vec_intersection(stack[n], stack[n - 1], nDocs), sets[n] \cap sets[n - 1])
    BY <1>1, <1>2, <2>2, IntersectionIs
  <2>4. Evaluator!vi_vec_intersection(stack[n], stack[n - 1], nDocs) \in V
    BY ReadOffIs DEF Evaluator!vi_vec_intersection
  <2>5. sets[n] \cap sets[n - 1] \in Sets /\ sets[n] \cap sets[n - 1] = sets[n - 1] \cap sets[n]
    BY <1>2, <2>2 DEF Sets
  <2>6. TruthStep(sets, token) = Append(SubSeq(sets, 1, n - 2), sets[n - 1] \cap sets[n])
    <3>1. TruthStep(sets, token) = IF n < 2 THEN <<>> ELSE
              Append(SubSeq(sets, 1, n - 2), sets[n - 1] \cap sets[n])
      BY <1>3, TruthCases, Zenon DEF n
    <3>2. ~(n < 2)
      BY <1>1, <2>2
    <3>3. QED
      BY <3>1, <3>2, Zenon
  <2> HIDE DEF new
  <2>7. new = Append(SubSeq(stack, 1, n - 2), Evaluator!vi_vec_intersection(stack[n], stack[n - 1], nDocs))
    BY <1>1, <2>1, <2>2
  <2>8. Represents(new, TruthStep(sets, token))
    <3> DEFINE k == n - 2
               v == Evaluator!vi_vec_intersection(stack[n], stack[n - 1], nDocs)
               S == sets[n - 1] \cap sets[n]
    <3>1. k \in 0 .. Len(sets) /\ v \in Seq(0 .. nDocs - 1) /\ S \in Sets /\ Once(v, S)
      BY <2>2, <2>3, <2>4, <2>5 DEF n
    <3>2. new = Append(SubSeq(stack, 1, k), v) /\ TruthStep(sets, token) = Append(SubSeq(sets, 1, k), S)
      BY <2>6, <2>7
    <3> HIDE DEF k, v, S
    <3>3. QED
      BY <3>1, <3>2, RepresentsOnTop
  <2>9. QED
    BY <2>8 DEF new
<1>4. CASE token = "|"
  <2>1. new = IF n < 2 THEN None ELSE
            Append(SubSeq(stack, 1, n - 2), Evaluator!vi_vec_union(stack[n], stack[n - 1], nDocs))
    BY <1>1, <1>4, EvaluateCases
  <2>2. n >= 2 /\ n \in 1 .. n /\ n - 1 \in 1 .. n /\ n - 2 \in 0 .. n
    <3>1. ~(n < 2)
      BY <2>1, Zenon
    <3>2. QED
      BY <1>1, <3>1
  <2>3. Once(Evaluator!vi_vec_union(stack[n], stack[n - 1], nDocs), sets[n] \cup sets[n - 1])
    BY <1>1, <1>2, <2>2, UnionIs
  <2>4. Evaluator!vi_vec_union(stack[n], stack[n - 1], nDocs) \in V
    BY ReadOffIs DEF Evaluator!vi_vec_union
  <2>5. sets[n] \cup sets[n - 1] \in Sets /\ sets[n] \cup sets[n - 1] = sets[n - 1] \cup sets[n]
    BY <1>2, <2>2 DEF Sets
  <2>6. TruthStep(sets, token) = Append(SubSeq(sets, 1, n - 2), sets[n - 1] \cup sets[n])
    <3>1. TruthStep(sets, token) = IF n < 2 THEN <<>> ELSE
              Append(SubSeq(sets, 1, n - 2), sets[n - 1] \cup sets[n])
      BY <1>4, TruthCases, Zenon DEF n
    <3>2. ~(n < 2)
      BY <1>1, <2>2
    <3>3. QED
      BY <3>1, <3>2, Zenon
  <2> HIDE DEF new
  <2>7. new = Append(SubSeq(stack, 1, n - 2), Evaluator!vi_vec_union(stack[n], stack[n - 1], nDocs))
    BY <1>1, <2>1, <2>2
  <2>8. Represents(new, TruthStep(sets, token))
    <3> DEFINE k == n - 2
               v == Evaluator!vi_vec_union(stack[n], stack[n - 1], nDocs)
               S == sets[n - 1] \cup sets[n]
    <3>1. k \in 0 .. Len(sets) /\ v \in Seq(0 .. nDocs - 1) /\ S \in Sets /\ Once(v, S)
      BY <2>2, <2>3, <2>4, <2>5 DEF n
    <3>2. new = Append(SubSeq(stack, 1, k), v) /\ TruthStep(sets, token) = Append(SubSeq(sets, 1, k), S)
      BY <2>6, <2>7
    <3> HIDE DEF k, v, S
    <3>3. QED
      BY <3>1, <3>2, RepresentsOnTop
  <2>9. QED
    BY <2>8 DEF new
<1>5. CASE token = "!"
  <2>1. new = IF n < 1 THEN None ELSE
            Append(Front(stack), Evaluator!get_not_docs(stack[n], nDocs))
    BY <1>1, <1>5, EvaluateCases
  <2>2. n >= 1 /\ n \in 1 .. n /\ n - 1 \in 0 .. n
    <3>1. ~(n < 1)
      BY <2>1, Zenon
    <3>2. QED
      BY <1>1, <3>1
  <2>3. Once(Evaluator!get_not_docs(stack[n], nDocs), 0 .. nDocs - 1 \ sets[n])
    BY <1>1, <1>2, <2>2, ComplementIs
  <2>4. Evaluator!get_not_docs(stack[n], nDocs) \in V
    BY ReadOffIs DEF Evaluator!get_not_docs
  <2>5. 0 .. nDocs - 1 \ sets[n] \in Sets
    BY DEF Sets
  <2>6. TruthStep(sets, token) = Append(SubSeq(sets, 1, n - 1), 0 .. nDocs - 1 \ sets[n])
    BY <1>1, <1>5, <2>2, TruthCases DEF n, Front
  <2> HIDE DEF new
  <2>7. new = Append(SubSeq(stack, 1, n - 1), Evaluator!get_not_docs(stack[n], nDocs))
    BY <1>1, <2>1, <2>2 DEF Front
  <2>8. Represents(new, TruthStep(sets, token))
    <3> DEFINE k == n - 1
               v == Evaluator!get_not_docs(stack[n], nDocs)
               S == 0 .. nDocs - 1 \ sets[n]
    <3>1. k \in 0 .. Len(sets) /\ v \in Seq(0 .. nDocs - 1) /\ S \in Sets /\ Once(v, S)
      BY <2>2, <2>3, <2>4, <2>5 DEF n
    <3>2. new = Append(SubSeq(stack, 1, k), v) /\ TruthStep(sets, token) = Append(SubSeq(sets, 1, k), S)
      BY <2>6, <2>7
    <3> HIDE DEF k, v, S
    <3>3. QED
      BY <3>1, <3>2, RepresentsOnTop
  <2>9. QED
    BY <2>8 DEF new
<1>6. CASE token \notin {"&", "|", "!"}
  <2>1. new = Append(stack, postings)
    BY <1>6, EvaluateCases
  <2>2. TruthStep(sets, token) = Append(sets, TokenDocs(token))
    BY <1>6, TruthCases DEF TokenDocs
  <2>3. SubSeq(stack, 1, n) = stack /\ SubSeq(sets, 1, n) = sets /\ n \in 0 .. n
    <3> HIDE DEF V
    <3>1. QED
      BY <1>1, SubSeqFull DEF n
  <2>4. TokenDocs(token) \in Sets
    BY DEF TokenDocs, Having, Sets
  <2> HIDE DEF new
  <2>5. Represents(new, TruthStep(sets, token))
    BY <2>1, <2>2, <2>3, <2>4, RepresentsOnTop DEF n
  <2>6. QED
    BY <2>5 DEF new
<1>7. QED
  BY <1>3, <1>4, <1>5, <1>6

\* The result of a query is what its notation is true of.
LEMMA EvaluateMeans ==
    ASSUME nDocs \in Nat, NEW notation \in Seq(Tokens),
           NEW postings \in [DOMAIN notation -> Seq(0 .. nDocs - 1)],
           \A i \in DOMAIN notation : Once(postings[i], TokenDocs(notation[i])),
           Evaluator!evaluate(notation, postings, nDocs) # None
    PROVE  Once(Evaluator!evaluate(notation, postings, nDocs), Truth(notation))
<1> DEFINE N == Len(notation)
<1>1. N \in Nat /\ DOMAIN notation = 1 .. N
  BY LenProperties
<1>2. PICK stacks : Evaluates(stacks, notation, postings, nDocs)
  BY EvaluateSteps
<1>3. PICK sets : TrueOf(sets, notation)
  BY TruthSteps
<1> DEFINE P == {k \in 0 .. N : stacks[k] # None => Represents(stacks[k], sets[k])}
<1> HIDE DEF N
<1>4. 0 \in P
  <2>1. stacks[0] = <<>> /\ sets[0] = <<>>
    BY <1>2, <1>3 DEF Evaluates, TrueOf
  <2>2. Represents(<<>>, <<>>)
    BY EmptySeq DEF Represents
  <2>3. QED
    BY <1>1, <2>1, <2>2
<1>5. ASSUME NEW k \in 1 .. N, k - 1 \in P PROVE k \in P
  <2>1. SUFFICES ASSUME stacks[k] # None PROVE Represents(stacks[k], sets[k])
    BY <1>1
  <2>2. /\ stacks[k] = Evaluator!EvaluateStep(stacks[k - 1], notation[k], postings[k], nDocs)
        /\ sets[k] = TruthStep(sets[k - 1], notation[k])
    BY <1>2, <1>3 DEF Evaluates, TrueOf, N
  <2>3. stacks[k - 1] # None
    BY <2>1, <2>2, Zenon DEF Evaluator!EvaluateStep
  <2>4. Represents(stacks[k - 1], sets[k - 1])
    BY <1>5, <2>3
  <2>5. postings[k] \in Seq(0 .. nDocs - 1) /\ Once(postings[k], TokenDocs(notation[k]))
    BY <1>1
  <2>6. QED
    BY <2>1, <2>2, <2>3, <2>4, <2>5, StepMeans
<1>6. \A k \in 0 .. N : k \in P
  <2> HIDE DEF P
  <2>1. QED
    BY <1>1, <1>4, <1>5, Induction
<1>7. stacks[N] # None /\ Len(stacks[N]) = 1
      /\ Evaluator!evaluate(notation, postings, nDocs) = stacks[N][1]
  BY <1>2, Zenon DEF Evaluates, N
<1>8. Represents(stacks[N], sets[N])
  <2>1. N \in 0 .. N
    BY <1>1
  <2>2. QED
    BY <1>6, <1>7, <2>1
<1>9. Once(stacks[N][1], sets[N][1])
  <2>1. 1 \in 1 .. 1
    OBVIOUS
  <2>2. QED
    BY <1>7, <1>8, <2>1 DEF Represents
<1>10. QED
  BY <1>3, <1>7, <1>9 DEF TrueOf, N

----------------------------------------------------------------------------
(* The articles of a file *)

Counts == [Words -> Nat]

\* An article has every word of a line that another character follows.
Kept(document, line) ==
    \A k \in DOMAIN line.forms :
        \/ line.forms[k] \in StopWords
        \/ k = Len(line.forms) /\ ~line.followed
        \/ document[Stem[line.forms[k]]] > 0

\* Those of the first m lines that close an article.
Closing(lines, m) == {j \in 1 .. m : lines[j] = Analyzer!CloseArticle}

LEMMA ClosingIs ==
    ASSUME NEW lines, NEW m \in Nat
    PROVE  /\ IsFiniteSet(Closing(lines, m)) /\ Cardinality(Closing(lines, m)) \in Nat
           /\ \A k \in 0 .. m : Cardinality(Closing(lines, k)) <= Cardinality(Closing(lines, m))
<1>1. \A k \in Nat : IsFiniteSet(Closing(lines, k))
  <2>1. ASSUME NEW k \in Nat PROVE IsFiniteSet(Closing(lines, k))
    <3>1. IsFiniteSet(1 .. k) /\ Closing(lines, k) \subseteq 1 .. k
      BY FS_Interval DEF Closing
    <3>2. QED
      BY <3>1, FS_Subset
  <2>2. QED
    BY <2>1
<1>2. \A k \in 0 .. m : Closing(lines, k) \subseteq Closing(lines, m)
  BY DEF Closing
<1>3. QED
  BY <1>1, <1>2, FS_CardinalityType, FS_Subset

LEMMA ClosingNext ==
    ASSUME NEW lines, NEW m \in Nat \ {0}
    PROVE  \A k : k = m - 1 =>
               Cardinality(Closing(lines, m)) =
                   Cardinality(Closing(lines, k)) + IF lines[m] = Analyzer!CloseArticle THEN 1 ELSE 0
<1>1. SUFFICES ASSUME NEW k \in Nat, k = m - 1
               PROVE  Cardinality(Closing(lines, m)) =
                   Cardinality(Closing(lines, k)) + IF lines[m] = Analyzer!CloseArticle THEN 1 ELSE 0
  OBVIOUS
<1>2. IsFiniteSet(Closing(lines, k)) /\ Cardinality(Closing(lines, k)) \in Nat
  BY ClosingIs
<1>3. CASE lines[m] = Analyzer!CloseArticle
  <2>1. Closing(lines, m) = Closing(lines, k) \cup {m} /\ m \notin Closing(lines, k)
    BY <1>1, <1>3 DEF Closing
  <2>2. QED
    BY <1>2, <1>3, <2>1, FS_AddElement
<1>4. CASE lines[m] # Analyzer!CloseArticle
  <2>1. Closing(lines, m) = Closing(lines, k)
    BY <1>1, <1>4 DEF Closing
  <2>2. QED
    BY <1>2, <1>4, <2>1
<1>5. QED
  BY <1>3, <1>4

\* Forms that are counted are in the document, and nothing of it is lost.
LEMMA CountFormsIs ==
    ASSUME NEW document \in Counts, NEW forms \in Seq(Forms)
    PROVE  LET new == Analyzer!CountForms(document, forms) IN
           /\ new \in Counts /\ \A w \in Words : document[w] <= new[w]
           /\ \A k \in DOMAIN forms : forms[k] \in StopWords \/ new[Stem[forms[k]]] > 0
<1> DEFINE new == Analyzer!CountForms(document, forms)
           Of(w) == {i \in DOMAIN forms : forms[i] \notin StopWords /\ Stem[forms[i]] = w}
<1>1. Len(forms) \in Nat /\ DOMAIN forms = 1 .. Len(forms) /\ \A k \in DOMAIN forms : forms[k] \in Forms
  BY LenProperties, ElementOfSeq
<1>2. new = [w \in Words |-> document[w] + Cardinality(Of(w))]
  <2>1. \A S : Analyzer!Cardinality(S) = Cardinality(S)
    BY Zenon DEF Analyzer!Cardinality, Cardinality, Analyzer!IsFiniteSet, IsFiniteSet
  <2>2. QED
    BY <2>1 DEF Analyzer!CountForms
<1>3. ASSUME NEW w PROVE IsFiniteSet(Of(w)) /\ Cardinality(Of(w)) \in Nat /\ (Of(w) # {} => Cardinality(Of(w)) > 0)
  <2>1. IsFiniteSet(DOMAIN forms) /\ Of(w) \subseteq DOMAIN forms
    BY <1>1, FS_Interval
  <2> HIDE DEF Of
  <2>2. IsFiniteSet(Of(w)) /\ Cardinality(Of(w)) \in Nat
    BY <2>1, FS_Subset, FS_CardinalityType
  <2>3. QED
    BY <2>2, FS_EmptySet
<1>4. \A k \in DOMAIN forms : forms[k] \in StopWords \/ Of(Stem[forms[k]]) # {}
  OBVIOUS
<1>5. \A k \in DOMAIN forms : Stem[forms[k]] \in Words
  BY <1>1, ConstantTypes
<1> HIDE DEF new, Of
<1>6. \A w \in Words : document[w] \in Nat /\ new[w] = document[w] + Cardinality(Of(w)) /\ Cardinality(Of(w)) \in Nat
  BY <1>2, <1>3 DEF Counts
<1>7. new \in Counts
  <2>1. \A w \in Words : new[w] \in Nat
    BY <1>6
  <2>2. QED
    BY <1>2, <2>1 DEF Counts
<1>8. \A w \in Words : document[w] <= new[w]
  BY <1>6
<1>9. \A k \in DOMAIN forms : forms[k] \in StopWords \/ new[Stem[forms[k]]] > 0
  BY <1>3, <1>4, <1>5, <1>6
<1>10. QED
  BY <1>7, <1>8, <1>9 DEF new

\* A line closes an article and opens the next, or adds to the last.
LEMMA ReadLineIs ==
    ASSUME NEW articles \in Seq(Counts), Len(articles) >= 1, NEW line \in Analyzer!Line
    PROVE  LET new == Analyzer!ReadLine(articles, line)
               n == Len(articles)
           IN  /\ new \in Seq(Counts)
               /\ Len(new) = n + IF line = Analyzer!CloseArticle THEN 1 ELSE 0
               /\ \A a \in 1 .. n, w \in Words : articles[a][w] <= new[a][w]
               /\ line.kind = "text" => Kept(new[n], line)
<1> DEFINE new == Analyzer!ReadLine(articles, line)
           n == Len(articles)
           last == Analyzer!CountForms(articles[n], Analyzer!Counted(line))
<1>1. n \in Nat \ {0} /\ DOMAIN articles = 1 .. n /\ \A a \in 1 .. n : articles[a] \in Counts
  BY LenProperties, ElementOfSeq
<1>2. \A a \in 1 .. n, w \in Words : articles[a][w] \in Nat
  BY <1>1 DEF Counts
<1>3. CASE line = Analyzer!OpenArticle
  <2>1. line # Analyzer!CloseArticle /\ line.kind # "text"
    BY <1>3 DEF Analyzer!OpenArticle, Analyzer!CloseArticle
  <2>2. new = articles
    BY <1>3, <2>1 DEF Analyzer!ReadLine
  <2> HIDE DEF new, n
  <2>3. QED
    BY <1>1, <1>2, <2>1, <2>2 DEF new, n
<1>4. CASE line = Analyzer!CloseArticle
  <2>1. line # Analyzer!OpenArticle /\ line.kind # "text"
    BY <1>4 DEF Analyzer!OpenArticle, Analyzer!CloseArticle
  <2>2. new = Append(articles, Analyzer!NoText)
    BY <1>4, <2>1 DEF Analyzer!ReadLine
  <2>3. Analyzer!NoText \in Counts
    BY DEF Analyzer!NoText, Counts
  <2>4. new \in Seq(Counts) /\ Len(new) = n + 1 /\ \A a \in 1 .. n : new[a] = articles[a]
    BY <1>1, <2>2, <2>3, AppendProperties
  <2> HIDE DEF new, n
  <2>5. QED
    BY <1>1, <1>2, <1>4, <2>1, <2>4 DEF new, n
<1>5. CASE line # Analyzer!OpenArticle /\ line # Analyzer!CloseArticle
  <2>1. line \in [kind : {"text"}, forms : Seq(Forms), followed : BOOLEAN]
    BY <1>5 DEF Analyzer!Line
  <2>2. new = [articles EXCEPT ![n] = last]
    BY <1>5 DEF Analyzer!ReadLine
  <2>3. /\ Analyzer!Counted(line) \in Seq(Forms)
        /\ \A k \in DOMAIN line.forms : \/ k = Len(line.forms) /\ ~line.followed
                                        \/ /\ k \in DOMAIN Analyzer!Counted(line)
                                           /\ Analyzer!Counted(line)[k] = line.forms[k]
    <3>1. CASE line.followed
      BY <2>1, <3>1 DEF Analyzer!Counted
    <3>2. CASE ~line.followed
      <4> DEFINE m == Len(line.forms)
      <4>1. Analyzer!Counted(line) = SubSeq(line.forms, 1, m - 1)
        BY <3>2 DEF Analyzer!Counted, Analyzer!Front
      <4>2. line.forms \in Seq(Forms) /\ m \in Nat /\ DOMAIN line.forms = 1 .. m
            /\ \A k \in 1 .. m : line.forms[k] \in Forms
        BY <2>1, LenProperties, ElementOfSeq
      <4> HIDE DEF m
      <4>3. \A k \in 1 .. m - 1 : line.forms[k] \in Forms
        BY <4>2
      <4>4. /\ SubSeq(line.forms, 1, m - 1) \in Seq(Forms)
            /\ \A k \in 1 .. m - 1 : /\ k \in DOMAIN SubSeq(line.forms, 1, m - 1)
                                     /\ SubSeq(line.forms, 1, m - 1)[k] = line.forms[k]
        BY <4>2, <4>3
      <4>5. \A k \in 1 .. m : k = m \/ k \in 1 .. m - 1
        BY <4>2
      <4>6. QED
        BY <3>2, <4>1, <4>2, <4>4, <4>5 DEF m
    <3>3. QED
      BY <3>1, <3>2
  <2>4. /\ last \in Counts /\ \A w \in Words : articles[n][w] <= last[w]
        /\ \A k \in DOMAIN Analyzer!Counted(line) :
              Analyzer!Counted(line)[k] \in StopWords \/ last[Stem[Analyzer!Counted(line)[k]]] > 0
    BY <1>1, <2>3, CountFormsIs
  <2> HIDE DEF new, n, last
  <2>5. new \in [1 .. n -> Counts] /\ new[n] = last /\ \A a \in 1 .. n : a # n => new[a] = articles[a]
    BY <1>1, <2>2, <2>4
  <2>6. new \in Seq(Counts) /\ Len(new) = n
    BY <1>1, <2>5, IsASeq, LenProperties
  <2>7. Kept(new[n], line)
    BY <2>3, <2>4, <2>5 DEF Kept
  <2>8. \A a \in 1 .. n, w \in Words : articles[a][w] <= new[a][w]
    BY <1>1, <1>2, <2>4, <2>5
  <2>9. QED
    BY <1>1, <1>5, <2>6, <2>7, <2>8 DEF new, n
<1>6. QED
  BY <1>3, <1>4, <1>5

\* The articles that the lines make, after each of them.
Reads(articles, lines, file) ==
    /\ Analyzer!extractUniqueKeywords_wiki(file) = articles[Len(lines)]
    /\ articles[0] = <<Analyzer!NoText>>
    /\ \A m \in 1 .. Len(lines) : articles[m] = Analyzer!ReadLine(articles[m - 1], lines[m])

\* Each article has been read with its lines, when m have been read.
Reading(articles, lines, m) ==
    /\ articles \in Seq(Counts) /\ Len(articles) = 1 + Cardinality(Closing(lines, m))
    /\ \A i \in 1 .. m : lines[i].kind = "text" =>
           \A h, a : h = i - 1 /\ a = 1 + Cardinality(Closing(lines, h)) => Kept(articles[a], lines[i])

LEMMA ReadSteps ==
    ASSUME NEW file \in Analyzer!File
    PROVE  \E articles, lines :
               /\ Reads(articles, lines, file) /\ lines \in Seq(Analyzer!Line)
               /\ Len(file.lines) <= Len(lines)
               /\ \A i \in 1 .. Len(file.lines) : lines[i] = file.lines[i]
<1> DEFINE n == Len(file.lines)
           Again == IF file.closed \/ n = 0 THEN <<>> ELSE <<file.lines[n]>>
           lines == file.lines \o Again
           N == Len(lines)
           Y == {v \in Seq(Counts) : Len(v) >= 1}
           L == Analyzer!Line
           Step(v, m) == Analyzer!ReadLine(v, lines[m])
           a == <<Analyzer!NoText>>
           articles[m \in 0 .. N] == IF m = 0 THEN <<Analyzer!NoText>>
                                     ELSE Analyzer!ReadLine(articles[m - 1], lines[m])
<1>1. Analyzer!extractUniqueKeywords_wiki(file) = articles[N]
  BY Zenon DEF Analyzer!extractUniqueKeywords_wiki
<1>2. file.lines \in Seq(L) /\ n \in Nat /\ \A i \in 1 .. n : file.lines[i] \in L
  BY LenProperties, ElementOfSeq DEF Analyzer!File
<1>3. /\ lines \in Seq(L) /\ n <= N /\ N \in Nat
      /\ \A i \in 1 .. n : lines[i] = file.lines[i]
  <2>1. Again \in Seq(L)
    BY <1>2
  <2> HIDE DEF Again, L
  <2>2. QED
    BY <1>2, <2>1, ConcatProperties, LenProperties
<1> HIDE DEF n, N, lines
<1>4. ASSUME NEW v \in Y, NEW m \in 1 .. N PROVE Step(v, m) \in Y
  <2>1. v \in Seq(Counts) /\ Len(v) >= 1 /\ lines[m] \in Analyzer!Line
    BY <1>3, ElementOfSeq DEF N
  <2>2. Len(v) \in Nat
    BY <2>1, LenProperties
  <2>3. Step(v, m) \in Seq(Counts) /\ (Len(Step(v, m)) = Len(v) \/ Len(Step(v, m)) = Len(v) + 1)
    BY <2>1, <2>2, ReadLineIs
  <2> HIDE DEF Step
  <2>4. QED
    BY <2>1, <2>2, <2>3
<1>5. a \in Y
  <2>1. Analyzer!NoText \in Counts
    BY DEF Analyzer!NoText, Counts
  <2>2. QED
    BY <2>1
<1>6. \E g \in [0 .. N -> Y] : g = [m \in 0 .. N |-> IF m = 0 THEN a ELSE Step(g[m - 1], m)]
  <2> DEFINE step == [x \in Y \X (1 .. N) |-> Step(x[1], x[2])]
  <2>1. step \in [Y \X (1 .. N) -> Y]
    <3> HIDE DEF Y, Step
    <3>1. QED
      BY <1>4
  <2>2. \A v \in Y, m \in 1 .. N : step[<<v, m>>] = Step(v, m)
    <3> HIDE DEF Y, Step
    <3>1. QED
      OBVIOUS
  <2> HIDE DEF step, Step, Y, a
  <2>3. PICK g \in [0 .. N -> Y] : Follows(g, a, step, N)
    BY <1>3, <1>5, <2>1, Recursion
  <2>4. ASSUME NEW m \in 0 .. N, m # 0 PROVE step[<<g[m - 1], m>>] = Step(g[m - 1], m)
    <3>1. m \in 1 .. N /\ m - 1 \in 0 .. N
      BY <1>3, <2>4
    <3>2. QED
      BY <2>2, <3>1
  <2>5. g = [m \in 0 .. N |-> IF m = 0 THEN a ELSE step[<<g[m - 1], m>>]]
    BY <2>3, Zenon DEF Follows
  <2>6. g = [m \in 0 .. N |-> IF m = 0 THEN a ELSE Step(g[m - 1], m)]
    BY <2>4, <2>5
  <2>7. QED
    BY <2>6
<1>7. articles = [m \in 0 .. N |-> IF m = 0 THEN a ELSE Step(articles[m - 1], m)]
  BY <1>6, Zenon
<1> HIDE DEF articles, Step, a
<1>8. articles[0] = a /\ \A m \in 1 .. N : articles[m] = Step(articles[m - 1], m)
  BY <1>3, <1>7
<1>9. Reads(articles, lines, file)
  BY <1>1, <1>8 DEF Reads, N, a, Step
<1>10. QED
  BY <1>3, <1>9 DEF n, N

LEMMA ReadingSteps ==
    ASSUME NEW file \in Analyzer!File, NEW articles, NEW lines \in Seq(Analyzer!Line),
           Reads(articles, lines, file)
    PROVE  \A m \in 0 .. Len(lines) : Reading(articles[m], lines, m)
<1> DEFINE N == Len(lines)
           P == {m \in 0 .. N : Reading(articles[m], lines, m)}
           C(m) == Cardinality(Closing(lines, m))
<1>1. N \in Nat /\ \A m \in 1 .. N : lines[m] \in Analyzer!Line
  BY LenProperties, ElementOfSeq
<1>2. \A m \in Nat : C(m) \in Nat /\ \A k \in 0 .. m : C(k) <= C(m)
  BY ClosingIs
<1>3. articles[0] = <<Analyzer!NoText>> /\ \A m \in 1 .. N : articles[m] = Analyzer!ReadLine(articles[m - 1], lines[m])
  BY DEF Reads
<1>4. Reading(articles[0], lines, 0)
  <2>1. Closing(lines, 0) = {} /\ Cardinality(Closing(lines, 0)) = 0
    BY FS_EmptySet DEF Closing
  <2>2. Analyzer!NoText \in Counts
    BY DEF Analyzer!NoText, Counts
  <2>3. articles[0] \in Seq(Counts) /\ Len(articles[0]) = 1
    BY <1>3, <2>2
  <2>4. QED
    BY <2>1, <2>3 DEF Reading
<1>5. ASSUME NEW m \in 1 .. N, NEW k, k = m - 1, Reading(articles[k], lines, k)
      PROVE  Reading(articles[m], lines, m)
  <2> DEFINE old == articles[k]
             new == articles[m]
             n == Len(old)
  <2>1. m \in Nat \ {0} /\ k \in Nat /\ m - 1 = k /\ lines[m] \in Analyzer!Line
    BY <1>1, <1>5
  <2>2. old \in Seq(Counts) /\ n = 1 + C(k) /\ n \in Nat /\ n >= 1
    <3>1. old \in Seq(Counts) /\ n = 1 + C(k)
      BY <1>5, Zenon DEF Reading
    <3>2. C(k) \in Nat
      BY <1>2, <2>1
    <3> HIDE DEF C, old
    <3>3. QED
      BY <3>1, <3>2
  <2>3. new = Analyzer!ReadLine(old, lines[m])
    BY <1>3, <2>1
  <2> HIDE DEF n, old, new
  <2>4. /\ new \in Seq(Counts) /\ Len(new) = n + IF lines[m] = Analyzer!CloseArticle THEN 1 ELSE 0
        /\ \A b \in 1 .. n, w \in Words : old[b][w] <= new[b][w]
        /\ lines[m].kind = "text" => Kept(new[n], lines[m])
    BY <2>1, <2>2, <2>3, ReadLineIs DEF n
  <2>5. C(m) = C(k) + IF lines[m] = Analyzer!CloseArticle THEN 1 ELSE 0
    BY <1>5, <2>1, ClosingNext
  <2>6. C(k) \in Nat /\ C(m) \in Nat
    BY <1>2, <2>1
  <2> HIDE DEF C
  <2>7. Len(new) = 1 + C(m) /\ Len(new) \in Nat /\ n <= Len(new)
    <3>1. Len(new) = n + IF lines[m] = Analyzer!CloseArticle THEN 1 ELSE 0
      BY <2>4
    <3>2. QED
      BY <2>2, <2>5, <2>6, <3>1
  <2>8. ASSUME NEW i \in 1 .. m, lines[i].kind = "text", NEW g, g = i - 1, NEW b, b = 1 + C(g)
        PROVE  Kept(new[b], lines[i])
    <3>1. CASE i = m
      BY <2>1, <2>2, <2>4, <2>8, <3>1
    <3>2. CASE i # m
      <4>1. i \in 1 .. k /\ g \in 0 .. k
        BY <2>1, <2>8, <3>2
      <4>2. Kept(old[b], lines[i])
        BY <1>5, <2>8, <4>1, Zenon DEF Reading, old, C
      <4>3. C(g) \in Nat /\ C(g) <= C(k)
        BY <1>2, <2>1, <4>1
      <4>4. b \in 1 .. n
        <5>1. b = 1 + C(g) /\ n = 1 + C(k)
          BY <2>2, <2>8
        <5>2. QED
          BY <2>6, <4>3, <5>1
      <4>5. \A w \in Words : old[b][w] \in Nat /\ new[b][w] \in Nat /\ old[b][w] <= new[b][w]
        <5>1. old[b] \in Counts /\ new[b] \in Counts
          <6>1. b \in 1 .. Len(old) /\ b \in 1 .. Len(new)
            BY <2>2, <2>7, <4>4 DEF n
          <6>2. QED
            BY <2>2, <2>4, <6>1, ElementOfSeq
        <5>2. QED
          BY <2>4, <4>4, <5>1 DEF Counts
      <4>6. \A h \in DOMAIN lines[i].forms : Stem[lines[i].forms[h]] \in Words
        <5>1. lines[i] \in Analyzer!Line /\ lines[i].kind = "text"
          BY <1>1, <2>8
        <5>2. lines[i].forms \in Seq(Forms)
          BY <5>1 DEF Analyzer!Line, Analyzer!OpenArticle, Analyzer!CloseArticle
        <5>3. QED
          BY <5>2, ElementOfSeq, LenProperties, ConstantTypes
      <4>7. QED
        BY <4>2, <4>5, <4>6 DEF Kept
    <3>3. QED
      BY <3>1, <3>2
  <2>9. QED
    BY <2>4, <2>7, <2>8 DEF Reading, new, C
<1>6. \A m \in 1 .. N : m - 1 \in P => m \in P
  <2>1. ASSUME NEW m \in 1 .. N, m - 1 \in P PROVE m \in P
    <3>1. Reading(articles[m - 1], lines, m - 1)
      BY <2>1
    <3>2. Reading(articles[m], lines, m)
      BY <1>5, <3>1
    <3>3. m \in 0 .. N
      BY <1>1
    <3>4. QED
      BY <3>2, <3>3
  <2>2. QED
    BY <2>1
<1>7. 0 \in P
  BY <1>1, <1>4
<1> HIDE DEF P
<1>8. \A m \in 0 .. N : m \in P
  BY <1>1, <1>6, <1>7, Induction
<1>9. QED
  BY <1>8 DEF P

\* A file's k-th article has every word, that another character follows, of the lines
\* after k - 1 closed ones.
LEMMA ArticleIs ==
    ASSUME NEW file \in Analyzer!File, NEW i \in 1 .. Len(file.lines), file.lines[i].kind = "text"
    PROVE  LET documents == Analyzer!extractUniqueKeywords_wiki(file)
               a == 1 + Cardinality(Closing(file.lines, i - 1))
           IN  a \in 1 .. Len(documents) /\ Kept(documents[a], file.lines[i])
<1>1. PICK articles, lines :
          /\ Reads(articles, lines, file) /\ lines \in Seq(Analyzer!Line)
          /\ Len(file.lines) <= Len(lines)
          /\ \A k \in 1 .. Len(file.lines) : lines[k] = file.lines[k]
  BY ReadSteps
<1> DEFINE n == Len(file.lines)
           N == Len(lines)
           documents == Analyzer!extractUniqueKeywords_wiki(file)
<1>2. n \in Nat /\ N \in Nat /\ n <= N
  <2>1. file.lines \in Seq(Analyzer!Line)
    BY DEF Analyzer!File
  <2>2. QED
    BY <1>1, <2>1, LenProperties
<1> HIDE DEF n, N
<1>3. Reading(documents, lines, N)
  <2>1. Reading(articles[N], lines, N)
    BY <1>1, <1>2, ReadingSteps DEF N
  <2>2. QED
    BY <1>1, <2>1 DEF Reads, N
<1>4. i \in 1 .. n /\ i \in 1 .. N /\ lines[i] = file.lines[i]
  BY <1>1, <1>2 DEF n
<1> DEFINE h == i - 1
<1>5. Closing(lines, h) = Closing(file.lines, h)
  <2>1. \A j \in 1 .. i - 1 : lines[j] = file.lines[j]
    BY <1>1, <1>2, <1>4 DEF n
  <2>2. QED
    BY <2>1 DEF Closing
<1>6. Cardinality(Closing(lines, h)) \in Nat /\ Cardinality(Closing(lines, N)) \in Nat
      /\ Cardinality(Closing(lines, h)) <= Cardinality(Closing(lines, N))
  <2>1. h \in Nat /\ h \in 0 .. N
    BY <1>2, <1>4
  <2>2. QED
    BY <1>2, <2>1, ClosingIs
<1>7. Len(documents) = 1 + Cardinality(Closing(lines, N))
  BY <1>3 DEF Reading
<1>8. \A k, b : k = i - 1 /\ b = 1 + Cardinality(Closing(lines, k)) => Kept(documents[b], lines[i])
  BY <1>3, <1>4 DEF Reading
<1>9. \A b : b = 1 + Cardinality(Closing(lines, h)) => Kept(documents[b], lines[i])
  BY <1>8
<1> HIDE DEF documents, h
<1> DEFINE a == 1 + Cardinality(Closing(file.lines, h))
<1>10. a \in 1 .. Len(documents) /\ Kept(documents[a], file.lines[i])
  <2>1. a = 1 + Cardinality(Closing(lines, h))
    BY <1>5
  <2>2. a \in 1 .. Len(documents)
    BY <1>6, <1>7, <2>1
  <2>3. Kept(documents[a], lines[i])
    BY <1>9, <2>1
  <2>4. QED
    BY <1>4, <2>2, <2>3
<1>11. QED
  BY <1>10 DEF documents, h

----------------------------------------------------------------------------
(* Sequences without repetition *)

\* s has every element of A, each once.
Arranges(s, A) == s \in Seq(A) /\ IsInjective(s) /\ ToSet(s) = A

LEMMA SetToSeqIs ==
    ASSUME NEW A, IsFiniteSet(A)
    PROVE  Arranges(SetToSeq(A), A)
<1> DEFINE n == Cardinality(A)
<1>1. n \in Nat /\ ExistsBijection(1 .. n, A)
  BY FS_CardinalityType
<1>2. PICK f : f \in Bijection(1 .. n, A)
  BY <1>1 DEF ExistsBijection
<1>3. f \in Surjection(1 .. n, A) /\ f \in Injection(1 .. n, A)
  BY <1>2 DEF Bijection
<1>4. f \in [1 .. n -> A] /\ IsInjective(f)
  BY <1>3 DEF Injection
<1>5. SetToSeq(A) \in [1 .. n -> A] /\ IsInjective(SetToSeq(A))
  BY <1>4 DEF SetToSeq
<1> DEFINE s == SetToSeq(A)
<1> HIDE DEF s
<1>6. s \in Injection(1 .. n, A)
  BY <1>5 DEF Injection, s
<1>7. IsFiniteSet(1 .. n) /\ Cardinality(1 .. n) = n
  BY <1>1, FS_Interval
<1>8. s \in Surjection(1 .. n, A)
  BY <1>6, <1>7, FS_Injection
<1>9. s \in Seq(A)
  BY <1>1, <1>5, IsASeq DEF s
<1>10. ToSet(s) = A
  BY <1>5, <1>8 DEF Surjection, ToSet, s
<1>11. QED
  BY <1>5, <1>9, <1>10 DEF Arranges, s

LEMMA ConcatArranges ==
    ASSUME NEW A, NEW B, A \cap B = {}, NEW s, NEW t, Arranges(s, A), Arranges(t, B)
    PROVE  Arranges(s \o t, A \cup B)
<1>1. s \in Seq(A \cup B) /\ t \in Seq(A \cup B) /\ s \in Seq(A) /\ t \in Seq(B)
  BY SeqMonotonic DEF Arranges
<1>2. /\ s \o t \in Seq(A \cup B)
      /\ Len(s) \in Nat /\ Len(t) \in Nat /\ Len(s \o t) = Len(s) + Len(t)
      /\ \A i \in 1 .. Len(s) + Len(t) :
            (s \o t)[i] = IF i <= Len(s) THEN s[i] ELSE t[i - Len(s)]
  BY <1>1, ConcatProperties, LenProperties
<1>3. DOMAIN s = 1 .. Len(s) /\ DOMAIN t = 1 .. Len(t) /\ DOMAIN (s \o t) = 1 .. Len(s) + Len(t)
  BY <1>1, <1>2, LenProperties
<1>4. (\A i \in 1 .. Len(s) : s[i] \in A) /\ (\A i \in 1 .. Len(t) : t[i] \in B)
  BY <1>1, ElementOfSeq
<1> DEFINE c == s \o t
<1> HIDE DEF c
<1>5. /\ \A i \in 1 .. Len(s) : i \in DOMAIN c /\ c[i] = s[i]
      /\ \A i \in 1 .. Len(t) : Len(s) + i \in DOMAIN c /\ c[Len(s) + i] = t[i]
      /\ \A i \in DOMAIN c : (i \in 1 .. Len(s) /\ c[i] = s[i])
                             \/ (i - Len(s) \in 1 .. Len(t) /\ c[i] = t[i - Len(s)])
  BY <1>2, <1>3 DEF c
<1>6. ToSet(c) = A \cup B
  <2>1. A = {s[i] : i \in 1 .. Len(s)} /\ B = {t[i] : i \in 1 .. Len(t)}
    BY <1>3 DEF Arranges, ToSet
  <2>2. QED
    BY <1>5, <2>1 DEF ToSet
<1>7. IsInjective(c)
  <2>1. SUFFICES ASSUME NEW i \in DOMAIN c, NEW j \in DOMAIN c, c[i] = c[j] PROVE i = j
    BY DEF IsInjective
  <2>2. /\ \A x, y \in 1 .. Len(s) : s[x] = s[y] => x = y
        /\ \A x, y \in 1 .. Len(t) : t[x] = t[y] => x = y
    BY <1>3 DEF Arranges, IsInjective
  <2>3. CASE i \in 1 .. Len(s) /\ j \in 1 .. Len(s)
    BY <1>5, <2>1, <2>2, <2>3
  <2>4. CASE i \notin 1 .. Len(s) /\ j \notin 1 .. Len(s)
    <3>1. /\ i - Len(s) \in 1 .. Len(t) /\ c[i] = t[i - Len(s)]
          /\ j - Len(s) \in 1 .. Len(t) /\ c[j] = t[j - Len(s)]
      BY <1>5, <2>4
    <3>2. i - Len(s) = j - Len(s)
      BY <2>1, <2>2, <3>1
    <3>3. i \in Int /\ j \in Int
      BY <1>2, <1>3 DEF c
    <3>4. QED
      BY <1>2, <3>2, <3>3
  <2>5. CASE i \in 1 .. Len(s) /\ j \notin 1 .. Len(s)
    <3>1. c[i] \in A /\ c[j] \in B
      BY <1>4, <1>5, <2>5
    <3>2. QED
      BY <2>1, <3>1
  <2>6. CASE i \notin 1 .. Len(s) /\ j \in 1 .. Len(s)
    <3>1. c[i] \in B /\ c[j] \in A
      BY <1>4, <1>5, <2>6
    <3>2. QED
      BY <2>1, <3>1
  <2>7. QED
    BY <2>3, <2>4, <2>5, <2>6
<1>8. QED
  BY <1>2, <1>6, <1>7 DEF Arranges, c

LEMMA ShuffledArranges ==
    ASSUME NEW A, NEW s, Arranges(s, A)
    PROVE  Arranges(Shuffled(s), A)
<1>1. CASE s = <<>>
  BY <1>1 DEF Shuffled
<1>2. CASE s # <<>>
  <2> DEFINE n == Len(s)
             last == s[n]
             front == SubSeq(s, 1, n - 1)
             c == <<last>> \o front
             At(i) == IF i = 1 THEN n ELSE i - 1
  <2>1. /\ s \in Seq(A) /\ n \in Nat \ {0} /\ DOMAIN s = 1 .. n
        /\ \A i \in 1 .. n : s[i] \in A
    BY <1>2, EmptySeq, LenProperties, ElementOfSeq DEF Arranges
  <2>2. Shuffled(s) = c
    BY <1>2 DEF Shuffled, Last, Front
  <2>3. 1 \in 1 .. Len(s) + 1 /\ n - 1 \in 0 .. Len(s) /\ n \in 1 .. n
    BY <2>1
  <2>4. /\ front \in Seq(A) /\ Len(front) = n - 1
        /\ \A k \in 1 .. n - 1 : front[k] = s[k]
    BY <2>1, <2>3, PartIs
  <2>5. <<last>> \in Seq(A) /\ Len(<<last>>) = 1 /\ <<last>>[1] = last
    BY <2>1, <2>3
  <2> HIDE DEF front, last
  <2>6. /\ c \in Seq(A) /\ Len(c) = n
        /\ \A i \in 1 .. n : c[i] = IF i <= 1 THEN <<last>>[i] ELSE front[i - 1]
    <3> DEFINE first == <<last>>
    <3>1. first \in Seq(A) /\ Len(first) = 1
      BY <2>5
    <3> HIDE DEF first
    <3>2. /\ first \o front \in Seq(A) /\ Len(first \o front) = Len(first) + Len(front)
          /\ \A i \in 1 .. Len(first) + Len(front) :
                (first \o front)[i] = IF i <= Len(first) THEN first[i] ELSE front[i - Len(first)]
      BY <2>4, <3>1, ConcatProperties
    <3>3. Len(first) + Len(front) = n
      BY <2>1, <2>4, <3>1
    <3>4. QED
      BY <3>1, <3>2, <3>3 DEF first
  <2>7. DOMAIN c = 1 .. n
    BY <2>6, LenProperties
  <2> HIDE DEF c
  <2>8. \A i \in 1 .. n : At(i) \in 1 .. n /\ c[i] = s[At(i)]
    <3>1. SUFFICES ASSUME NEW i \in 1 .. n PROVE At(i) \in 1 .. n /\ c[i] = s[At(i)]
      OBVIOUS
    <3>2. CASE i = 1
      BY <2>3, <2>5, <2>6, <3>2 DEF last
    <3>3. CASE i # 1
      <4>1. i - 1 \in 1 .. n - 1 /\ ~(i <= 1) /\ i - 1 \in 1 .. n
        BY <2>1, <3>3
      <4>2. c[i] = front[i - 1]
        BY <2>6, <4>1
      <4>3. QED
        BY <2>4, <3>3, <4>1, <4>2
    <3>4. QED
      BY <3>2, <3>3
  <2>9. \A i, j \in 1 .. n : At(i) = At(j) => i = j
    BY <2>1
  <2>10. \A j \in 1 .. n : \E i \in 1 .. n : At(i) = j
    <3>1. SUFFICES ASSUME NEW j \in 1 .. n PROVE \E i \in 1 .. n : At(i) = j
      OBVIOUS
    <3>2. CASE j = n
      <4>1. At(1) = j /\ 1 \in 1 .. n
        BY <2>1, <3>2
      <4>2. QED
        BY <4>1
    <3>3. CASE j # n
      <4>1. j + 1 \in 1 .. n /\ j + 1 # 1 /\ (j + 1) - 1 = j
        <5> HIDE DEF n
        <5>1. QED
          BY <2>1, <3>3
      <4>2. At(j + 1) = j
        BY <4>1
      <4>3. QED
        BY <4>1, <4>2
    <3>4. QED
      BY <3>2, <3>3
  <2> HIDE DEF At, n
  <2>11. IsInjective(c)
    <3>1. \A i, j \in 1 .. n : s[i] = s[j] => i = j
      BY <2>1 DEF Arranges, IsInjective
    <3>2. QED
      BY <2>7, <2>8, <2>9, <3>1 DEF IsInjective
  <2>12. ToSet(c) = A
    <3>1. A = {s[i] : i \in 1 .. n}
      BY <2>1 DEF Arranges, ToSet
    <3>2. \A x \in {s[i] : i \in 1 .. n} : \E i \in 1 .. n : x = c[i]
      BY <2>8, <2>10
    <3>3. \A i \in 1 .. n : c[i] \in {s[j] : j \in 1 .. n}
      BY <2>8
    <3>4. ToSet(c) = {c[i] : i \in 1 .. n}
      BY <2>7 DEF ToSet
    <3>5. QED
      BY <3>1, <3>2, <3>3, <3>4
  <2>13. QED
    BY <2>2, <2>6, <2>11, <2>12 DEF Arranges
<1>3. QED
  BY <1>1, <1>2

\* The labels of the first i of the tokens, of which token i has count[i].
AskedUpto(count, i) == {x \in (1 .. i) \X Docs : x[2] < count[x[1]]}

LEMMA LabelsArranged ==
    ASSUME NEW N \in Nat, NEW count \in [1 .. N -> 0 .. MaxDocs]
    PROVE  Arranges(FlattenSeq([i \in 1 .. N |-> [n \in 1 .. count[i] |-> <<i, n - 1>>]]),
                    AskedUpto(count, N))
<1> DEFINE parts == [i \in 1 .. N |-> [n \in 1 .. count[i] |-> <<i, n - 1>>]]
           S == (1 .. N) \X Docs
           At(i) == {<<i, n - 1>> : n \in 1 .. count[i]}
<1>1. \A i \in 1 .. N : count[i] \in Nat /\ count[i] <= MaxDocs
  BY ConstantTypes
<1>2. ASSUME NEW i \in 1 .. N PROVE parts[i] \in Seq(S) /\ Arranges(parts[i], At(i))
  <2> DEFINE s == [n \in 1 .. count[i] |-> <<i, n - 1>>]
  <2>1. parts[i] = s
    OBVIOUS
  <2>2. \A n \in 1 .. count[i] : n - 1 \in Docs
    BY <1>1, ConstantTypes DEF Docs
  <2>3. s \in [1 .. count[i] -> S] /\ s \in [1 .. count[i] -> At(i)]
    BY <2>2
  <2>4. s \in Seq(S) /\ s \in Seq(At(i))
    <3> HIDE DEF s, At, S
    <3>1. QED
      BY <1>1, <2>3, IsASeq
  <2>5. IsInjective(s)
    BY <1>1 DEF IsInjective
  <2>6. ToSet(s) = At(i)
    BY DEF ToSet
  <2>7. QED
    BY <2>1, <2>4, <2>5, <2>6 DEF Arranges
<1>3. CASE N = 0
  <2>1. parts = <<>> /\ AskedUpto(count, N) = {}
    BY <1>3 DEF AskedUpto
  <2>2. FlattenSeq(parts) = <<>>
    <3> HIDE DEF parts
    <3>1. QED
      BY <2>1 DEF FlattenSeq
  <2>3. Arranges(<<>>, {})
    BY DEF Arranges, IsInjective, ToSet
  <2>4. QED
    BY <2>1, <2>2, <2>3
<1>4. CASE N # 0
  <2>1. parts \in Seq(Seq(S)) /\ DOMAIN parts = 1 .. N /\ Len(parts) = N /\ parts # <<>>
    <3>1. parts \in [1 .. N -> Seq(S)]
      BY <1>2
    <3>2. DOMAIN parts = 1 .. N
      OBVIOUS
    <3> HIDE DEF parts, S
    <3>3. parts \in Seq(Seq(S))
      BY <3>1, IsASeq
    <3>4. Len(parts) = N
      BY <3>2, <3>3, LenProperties
    <3>5. QED
      BY <1>4, <3>2, <3>3, <3>4, EmptySeq
  <2>2. PICK f \in [1 .. N -> Seq(S)] : Joins(f, parts) /\ FlattenSeq(parts) = f[N]
    <3> HIDE DEF parts, S
    <3>1. QED
      BY <2>1, FlattenIs
  <2> DEFINE P == {i \in 0 .. N : i = 0 \/ Arranges(f[i], AskedUpto(count, i))}
  <2>3. 0 \in P
    OBVIOUS
  <2>4. ASSUME NEW i \in 1 .. N, i - 1 \in P PROVE i \in P
    <3>1. f[i] = IF i = 1 THEN parts[i] ELSE f[i - 1] \o parts[i]
      <4> HIDE DEF parts
      <4>1. QED
        BY <2>1, <2>2 DEF Joins
    <3>2. Arranges(parts[i], At(i))
      BY <1>2
    <3>3. AskedUpto(count, i) = AskedUpto(count, i - 1) \cup At(i)
      <4>1. \A x \in At(i) : x[1] = i /\ x[2] \in Docs /\ x[2] < count[i] /\ x = <<x[1], x[2]>>
        BY <1>1, ConstantTypes DEF Docs
      <4>2. \A d \in Docs : d < count[i] => <<i, d>> \in At(i)
        <5>1. SUFFICES ASSUME NEW d \in Docs, d < count[i] PROVE <<i, d>> \in At(i)
          OBVIOUS
        <5>2. d \in Nat /\ count[i] \in Nat
          BY <1>1 DEF Docs
        <5>3. d + 1 \in 1 .. count[i] /\ (d + 1) - 1 = d
          BY <5>1, <5>2
        <5>4. QED
          BY <5>3
      <4>3. 1 .. i = (1 .. i - 1) \cup {i}
        OBVIOUS
      <4> HIDE DEF At
      <4>4. QED
        BY <4>1, <4>2, <4>3 DEF AskedUpto
    <3>4. AskedUpto(count, i - 1) \cap At(i) = {}
      BY DEF AskedUpto
    <3>5. CASE i = 1
      <4>1. AskedUpto(count, i - 1) = {}
        BY <3>5 DEF AskedUpto
      <4>2. f[i] = parts[i]
        <5> HIDE DEF parts
        <5>1. QED
          BY <3>1, <3>5
      <4> HIDE DEF parts, At
      <4>3. AskedUpto(count, i) = At(i)
        BY <3>3, <4>1
      <4>4. Arranges(f[i], AskedUpto(count, i))
        BY <3>2, <4>2, <4>3
      <4>5. QED
        BY <4>4
    <3>6. CASE i # 1
      <4>1. Arranges(f[i - 1], AskedUpto(count, i - 1))
        BY <2>4, <3>6
      <4> HIDE DEF parts, At
      <4>2. f[i] = f[i - 1] \o parts[i]
        BY <3>1, <3>6
      <4>3. Arranges(f[i - 1] \o parts[i], AskedUpto(count, i - 1) \cup At(i))
        BY <3>2, <3>4, <4>1, ConcatArranges
      <4>4. Arranges(f[i], AskedUpto(count, i))
        BY <3>3, <4>2, <4>3
      <4>5. QED
        BY <4>4
    <3>7. QED
      BY <3>5, <3>6
  <2> HIDE DEF P
  <2>5. \A i \in 0 .. N : i \in P
    BY <2>3, <2>4, Induction
  <2>6. QED
    BY <1>4, <2>2, <2>5 DEF P
<1>5. QED
  BY <1>3, <1>4

----------------------------------------------------------------------------
(* The pairs of an update *)

\* The members of a set of positions are numbered by how many are before them.
LEMMA RankIs ==
    ASSUME NEW N \in Nat, NEW S \in SUBSET (1 .. N)
    PROVE  /\ Cardinality(S) \in 0 .. N
           /\ \A k \in S : /\ Cardinality(S \cap (1 .. k - 1)) \in 0 .. Cardinality(S) - 1
                           /\ Cardinality(S \cap (1 .. k - 1)) <= k - 1
           /\ \A m \in 0 .. Cardinality(S) - 1 : \E k \in S : Cardinality(S \cap (1 .. k - 1)) = m
<1> DEFINE Upto(j) == S \cap (1 .. j)
           Rank(k) == Cardinality(S \cap (1 .. k - 1))
<1>1. ASSUME NEW j \in 0 .. N
      PROVE  IsFiniteSet(Upto(j)) /\ Cardinality(Upto(j)) \in Nat /\ Cardinality(Upto(j)) <= j
  <2>1. IsFiniteSet(1 .. j) /\ Cardinality(1 .. j) = j
    BY FS_Interval
  <2>2. Upto(j) \in SUBSET (1 .. j)
    OBVIOUS
  <2>3. QED
    BY <2>1, <2>2, FS_Subset, FS_CardinalityType
<1>2. ASSUME NEW j \in 1 .. N
      PROVE  Cardinality(Upto(j)) = IF j \in S THEN Cardinality(Upto(j - 1)) + 1
                                    ELSE Cardinality(Upto(j - 1))
  <2>1. CASE j \in S
    <3>1. Upto(j) = Upto(j - 1) \cup {j} /\ j \notin Upto(j - 1)
      BY <2>1
    <3>2. IsFiniteSet(Upto(j - 1))
      <4>1. j - 1 \in 0 .. N
        OBVIOUS
      <4>2. QED
        BY <1>1, <4>1
    <3> HIDE DEF Upto
    <3>3. QED
      BY <2>1, <3>1, <3>2, FS_AddElement
  <2>2. CASE j \notin S
    <3>1. Upto(j) = Upto(j - 1)
      BY <2>2
    <3>2. QED
      BY <2>2, <3>1
  <2>3. QED
    BY <2>1, <2>2
<1>3. \A k \in 1 .. N : Rank(k) = Cardinality(Upto(k - 1))
  OBVIOUS
<1>4. Upto(N) = S /\ Upto(0) = {}
  <2>1. 1 .. 0 = {}
    OBVIOUS
  <2>2. QED
    BY <2>1, Zenon
<1> DEFINE P == {j \in 0 .. N : \A m \in 0 .. Cardinality(Upto(j)) - 1 : \E k \in S : Rank(k) = m}
           Q == {j \in 0 .. N : \A k \in S : k <= j => Rank(k) < Cardinality(Upto(j))}
<1> HIDE DEF Upto, Rank
<1>5. 0 \in P
  BY <1>4, FS_EmptySet
<1>6. ASSUME NEW j \in 1 .. N, j - 1 \in P PROVE j \in P
  <2>1. j - 1 \in 0 .. N /\ j \in 0 .. N
    OBVIOUS
  <2>2. Cardinality(Upto(j - 1)) \in Nat
    BY <1>1, <2>1
  <2>3. ASSUME NEW m \in 0 .. Cardinality(Upto(j)) - 1 PROVE \E k \in S : Rank(k) = m
    <3>1. m \in 0 .. Cardinality(Upto(j - 1)) - 1 \/ (j \in S /\ m = Cardinality(Upto(j - 1)))
      BY <1>2, <2>2
    <3>2. QED
      BY <1>3, <1>6, <3>1
  <2>4. QED
    BY <2>1, <2>3
<1>7. \A j \in 0 .. N : j \in P
  <2> HIDE DEF P
  <2>1. QED
    BY <1>5, <1>6, Induction
<1>8. 0 \in Q
  OBVIOUS
<1>9. ASSUME NEW j \in 1 .. N, j - 1 \in Q PROVE j \in Q
  <2>1. j - 1 \in 0 .. N /\ j \in 0 .. N
    OBVIOUS
  <2>2. Cardinality(Upto(j - 1)) \in Nat
    BY <1>1, <2>1
  <2>3. ASSUME NEW k \in S, k <= j PROVE Rank(k) < Cardinality(Upto(j))
    <3>1. CASE k = j
      BY <1>2, <1>3, <2>2, <3>1
    <3>2. CASE k # j
      <4>1. k \in 1 .. N /\ k <= j - 1
        BY <2>3, <3>2
      <4>2. Rank(k) < Cardinality(Upto(j - 1))
        BY <1>9, <4>1
      <4>3. Rank(k) \in Nat
        <5>1. k - 1 \in 0 .. N
          BY <4>1
        <5>2. QED
          BY <1>1, <1>3, <4>1, <5>1
      <4>4. QED
        BY <1>2, <2>2, <4>2, <4>3
    <3>3. QED
      BY <3>1, <3>2
  <2>4. QED
    BY <2>1, <2>3
<1>10. \A j \in 0 .. N : j \in Q
  <2> HIDE DEF Q
  <2>1. QED
    BY <1>8, <1>9, Induction
<1>11. N \in 0 .. N
  OBVIOUS
<1>12. Cardinality(S) \in 0 .. N
  BY <1>1, <1>4, <1>11
<1>13. ASSUME NEW k \in S PROVE Rank(k) \in 0 .. Cardinality(S) - 1 /\ Rank(k) <= k - 1
  <2>1. k \in 1 .. N /\ k - 1 \in 0 .. N /\ k <= N
    OBVIOUS
  <2>2. Rank(k) < Cardinality(S)
    BY <1>4, <1>10, <1>11, <2>1
  <2>3. Rank(k) \in Nat /\ Rank(k) <= k - 1
    BY <1>1, <1>3, <2>1
  <2>4. QED
    BY <1>12, <2>2, <2>3
<1>14. \A m \in 0 .. Cardinality(S) - 1 : \E k \in S : Rank(k) = m
  BY <1>4, <1>7, <1>11
<1>15. QED
  BY <1>12, <1>13, <1>14 DEF Rank

\* Of the first k of some documents, those with word w.
HavingOf(t, w, k) == {d \in 0 .. k - 1 : t[d + 1][w] > 0}

\* Of the N documents that follow n others, S is those with word w.
Follow(t, n, documents, N, w, S) ==
    /\ \A k \in 1 .. N : t[n + k] = documents[k]
    /\ S \in SUBSET (1 .. N) /\ \A k \in 1 .. N : k \in S <=> documents[k][w] > 0

\* Up to the j-th document after n others, those in S up to j more have word w.
CountsOn(t, w, n, S, j) ==
    \A m : m = n + j => Cardinality(HavingOf(t, w, m))
                           = Cardinality(HavingOf(t, w, n)) + Cardinality(S \cap (1 .. j))

\* Of documents that follow n others, each with word w adds one to those that have it.
LEMMA HavingMore ==
    ASSUME NEW t, NEW documents, NEW n \in Nat, NEW N \in Nat, NEW w, NEW S,
           Follow(t, n, documents, N, w, S),
           Cardinality(HavingOf(t, w, n)) \in Nat
    PROVE  \A j \in 0 .. N : CountsOn(t, w, n, S, j)
<1> DEFINE H(m) == HavingOf(t, w, m)
           Upto(j) == S \cap (1 .. j)
           h == Cardinality(H(n))
           P == {j \in 0 .. N : Cardinality(H(n + j)) = h + Cardinality(Upto(j))}
<1> USE DEF HavingOf, Follow
<1>1. ASSUME NEW j \in 0 .. N
      PROVE  /\ IsFiniteSet(Upto(j)) /\ Cardinality(Upto(j)) \in Nat
             /\ IsFiniteSet(H(n + j)) /\ Cardinality(H(n + j)) \in Nat
  <2>1. IsFiniteSet(1 .. j) /\ IsFiniteSet(0 .. n + j - 1)
    <3>1. 0 \in Int /\ 1 \in Int /\ j \in Int /\ n + j - 1 \in Int
      OBVIOUS
    <3>2. QED
      BY ONLY <3>1, FS_Interval
  <2>2. Upto(j) \in SUBSET (1 .. j) /\ H(n + j) \in SUBSET (0 .. n + j - 1)
    OBVIOUS
  <2> HIDE DEF Upto, H
  <2>3. QED
    BY <2>1, <2>2, FS_Subset, FS_CardinalityType
<1>2. 0 \in P
  <2>1. Upto(0) = {} /\ n + 0 = n
    OBVIOUS
  <2>2. Cardinality(Upto(0)) = 0
    BY <2>1, FS_EmptySet
  <2>3. Cardinality(H(n + 0)) = h
    BY <2>1
  <2>4. QED
    BY <2>2, <2>3
<1>3. ASSUME NEW j \in 1 .. N, j - 1 \in P PROVE j \in P
  <2>1. j - 1 \in 0 .. N /\ j \in 0 .. N /\ n + (j - 1) \in Nat
    OBVIOUS
  <2>2. Cardinality(H(n + (j - 1))) = h + Cardinality(Upto(j - 1))
    BY <1>3
  <2>3. t[(n + (j - 1)) + 1] = documents[j]
    <3>1. (n + (j - 1)) + 1 = n + j
      OBVIOUS
    <3>2. QED
      BY <3>1
  <2>4. CASE j \in S
    <3>1. /\ Upto(j) = Upto(j - 1) \cup {j} /\ j \notin Upto(j - 1)
      BY <2>4
    <3>2. H(n + j) = H(n + (j - 1)) \cup {n + (j - 1)} /\ n + (j - 1) \notin H(n + (j - 1))
      BY <2>3, <2>4
    <3> HIDE DEF H, Upto
    <3>3. Cardinality(Upto(j)) = Cardinality(Upto(j - 1)) + 1
      BY <1>1, <2>1, <3>1, FS_AddElement
    <3>4. Cardinality(H(n + j)) = Cardinality(H(n + (j - 1))) + 1
      BY <1>1, <2>1, <3>2, FS_AddElement
    <3>5. Cardinality(H(n + j)) = h + Cardinality(Upto(j))
      BY <1>1, <2>1, <2>2, <3>3, <3>4
    <3>6. QED
      BY <2>1, <3>5
  <2>5. CASE j \notin S
    <3>1. Upto(j) = Upto(j - 1)
      BY <2>5
    <3>2. ~(documents[j][w] > 0)
      BY <2>5
    <3>3. H(n + j) = H(n + (j - 1))
      BY <2>3, <3>2
    <3> HIDE DEF H, Upto
    <3>4. QED
      BY <2>1, <2>2, <3>1, <3>3
  <2>6. QED
    BY <2>4, <2>5
<1>4. \A j \in 0 .. N : j \in P
  <2> HIDE DEF P
  <2>1. QED
    BY <1>2, <1>3, Induction
<1>5. QED
  BY <1>4 DEF CountsOn

\* The documents of an update with a word, and the pair of the word in one of them.
With(documents, w) == {k \in DOMAIN documents : documents[k][w] > 0}
NewLabel(documents, w, k) == <<w, W[w] + Cardinality(With(documents, w) \cap (1 .. k - 1))>>
NewPair(documents, w, k) ==
    [label |-> NewLabel(documents, w, k),
     value |-> <<NewLabel(documents, w, k), nDocs + k - 1, documents[k][w]>>]

LEMMA NewLabelIs ==
    ASSUME TypeOK, PostingInv, NEW documents \in Seq(Document), nDocs + Len(documents) <= MaxDocs,
           NEW w \in Words, NEW k \in With(documents, w)
    PROVE  /\ NewLabel(documents, w, k) \in Labels
           /\ NewPair(documents, w, k) \in Storage!Pairs
<1> DEFINE N == Len(documents)
           rank == Cardinality(With(documents, w) \cap (1 .. k - 1))
<1>1. N \in Nat /\ DOMAIN documents = 1 .. N /\ k \in 1 .. N
  BY LenProperties DEF With
<1>2. With(documents, w) \in SUBSET (1 .. N)
  BY <1>1 DEF With
<1> HIDE DEF N
<1>3. rank \in Nat /\ rank <= k - 1
  BY <1>1, <1>2, RankIs
<1> HIDE DEF rank
<1>4. W[w] \in Nat /\ W[w] <= nDocs /\ nDocs \in Nat
  BY ConstantTypes DEF TypeOK, PostingInv
<1>5. W[w] + rank \in Docs /\ nDocs + k - 1 \in Docs
  BY <1>1, <1>3, <1>4, ConstantTypes DEF Docs, N
<1>6. NewLabel(documents, w, k) \in Labels
  BY <1>5 DEF NewLabel, Labels, rank
<1>7. documents[k] \in [Words -> 0 .. MaxFrequency]
  BY <1>1, ElementOfSeq DEF Document, N
<1>8. documents[k][w] \in 1 .. MaxFrequency
  <2>1. documents[k][w] \in 0 .. MaxFrequency /\ documents[k][w] > 0
    BY <1>7 DEF With
  <2>2. QED
    BY <2>1, ConstantTypes
<1>9. QED
  BY <1>5, <1>6, <1>8 DEF NewPair, Storage!Pairs, Values

LEMMA PairsOfIs ==
    ASSUME TypeOK, PostingInv, NEW documents \in Seq(Document), nDocs + Len(documents) <= MaxDocs,
           NEW k \in DOMAIN documents
    PROVE  /\ PairsOf(documents, k) \in Seq(Storage!Pairs)
           /\ ToSet(PairsOf(documents, k)) =
                 {NewPair(documents, w, k) : w \in {v \in Words : documents[k][v] > 0}}
<1> DEFINE H == {w \in Words : documents[k][w] > 0}
           s == SetToSeq(H)
<1>1. IsFiniteSet(H)
  BY ConstantTypes, FS_Subset
<1>2. s \in Seq(H) /\ ToSet(s) = H
  BY <1>1, SetToSeqIs DEF Arranges
<1> HIDE DEF s
<1>3. DOMAIN s = 1 .. Len(s) /\ Len(s) \in Nat /\ \A i \in DOMAIN s : s[i] \in H
  BY <1>2, LenProperties, ElementOfSeq
<1>4. k \in 1 .. Len(documents) /\ Len(documents) \in Nat /\ DOMAIN documents = 1 .. Len(documents)
  BY LenProperties
<1>5. \A w : {h \in 1 .. k - 1 : documents[h][w] > 0} = With(documents, w) \cap (1 .. k - 1)
  BY <1>4 DEF With
<1>6. PairsOf(documents, k) = [i \in DOMAIN s |-> NewPair(documents, s[i], k)]
  BY <1>5 DEF PairsOf, NewPair, NewLabel, s
<1>7. \A w \in H : k \in With(documents, w)
  BY DEF With
<1>8. \A i \in DOMAIN s : NewPair(documents, s[i], k) \in Storage!Pairs
  BY <1>3, <1>7, NewLabelIs
<1> DEFINE c == PairsOf(documents, k)
<1>9. c \in [1 .. Len(s) -> Storage!Pairs]
  BY <1>3, <1>6, <1>8
<1> HIDE DEF c
<1>10. c \in Seq(Storage!Pairs)
  BY <1>3, <1>9, IsASeq
<1>11. ToSet(c) = {NewPair(documents, w, k) : w \in H}
  <2>1. H = {s[i] : i \in DOMAIN s}
    BY <1>2 DEF ToSet
  <2>2. DOMAIN c = DOMAIN s /\ \A i \in DOMAIN s : c[i] = NewPair(documents, s[i], k)
    BY <1>6 DEF c
  <2> HIDE DEF H
  <2>3. QED
    BY <2>1, <2>2 DEF ToSet
<1>12. QED
  BY <1>10, <1>11 DEF c

----------------------------------------------------------------------------
(* What a request does to the queue *)

\* The kinds of requests and what they carry.
LEMMA RequestIs ==
    /\ \A q \in Storage!Request :
          /\ q.op = "add" => q.pairs \in Seq(Storage!Pairs)
          /\ q.op = "search" => q.labels \in Seq(Labels)
    /\ Storage!InitRequest \in Storage!Request /\ Storage!InitRequest.op = "init"
    /\ Storage!StartSearchRequest \in Storage!Request
    /\ Storage!StartSearchRequest.op = "start_search"
    /\ \A b \in BOOLEAN :
          /\ Storage!DumpRequest(b) \in Storage!Request
          /\ Storage!DumpRequest(b).op = "dump_bench" /\ Storage!DumpRequest(b).aggregate = b
    /\ \A b \in Seq(Storage!Pairs) :
          /\ Storage!AddRequest(b) \in Storage!Request
          /\ Storage!AddRequest(b).op = "add" /\ Storage!AddRequest(b).pairs = b
    /\ \A b \in Seq(Labels) :
          /\ Storage!SearchRequest(b) \in Storage!Request
          /\ Storage!SearchRequest(b).op = "search" /\ Storage!SearchRequest(b).labels = b
BY DEF Storage!Request, Storage!InitRequest, Storage!StartSearchRequest,
       Storage!DumpRequest, Storage!AddRequest, Storage!SearchRequest

LEMMA QueueIs ==
    ASSUME Storage!TypeOK
    PROVE  /\ Queue \in Seq(Storage!Request) /\ Len(Queue) \in Nat /\ DOMAIN Queue = 1 .. Len(Queue)
           /\ \A m \in 1 .. Len(Queue) : Queue[m] \in Storage!Request
           /\ Replies \in Seq(Seq(Values))
           /\ \A l \in Labels : I[l] \in Values \cup {None}
<1>1. Queue \in Seq(Storage!Request) /\ Replies \in Seq(Seq(Values))
  BY DEF Storage!TypeOK, Queue, Replies, Connections
<1>2. \A l \in Labels : I[l] \in Values \cup {None}
  BY DEF Storage!TypeOK
<1>3. QED
  BY <1>1, <1>2, LenProperties, ElementOfSeq

\* What is sent is the last request.
LEMMA SendIs ==
    ASSUME Storage!TypeOK, NEW q \in Storage!Request, Storage!Send("client", q)
    PROVE  /\ Storage!TypeOK' /\ running
           /\ UNCHANGED <<replies, I, recorded, running>>
           /\ Len(Queue') = Len(Queue) + 1 /\ DOMAIN Queue' = 1 .. Len(Queue) + 1
           /\ \A m \in 1 .. Len(Queue) : Queue'[m] = Queue[m]
           /\ Queue'[Len(Queue) + 1] = q
<1>1. Queue \in Seq(Storage!Request) /\ Len(Queue) \in Nat
  BY QueueIs
<1>2. /\ Queue' = Append(Queue, q)
      /\ UNCHANGED <<replies, I, recorded, running>> /\ running
  BY DEF Storage!Send, Storage!TypeOK, Queue, Connections
<1>3. /\ Queue' \in Seq(Storage!Request) /\ Len(Queue') = Len(Queue) + 1
      /\ \A m \in 1 .. Len(Queue) : Queue'[m] = Queue[m]
      /\ Queue'[Len(Queue) + 1] = q
  BY <1>1, <1>2, AppendProperties
<1>4. DOMAIN Queue' = 1 .. Len(Queue) + 1
  BY <1>3, LenProperties
<1>5. requests' \in [Connections -> Seq(Storage!Request)]
  BY <1>3 DEF Storage!Send, Storage!TypeOK, Queue, Connections
<1>6. Storage!TypeOK'
  BY <1>2, <1>5 DEF Storage!TypeOK
<1>7. QED
  BY <1>2, <1>3, <1>4, <1>6

\* What is served is the first request; the others move up.
LEMMA ServeIs ==
    ASSUME Storage!TypeOK, NEW op, Storage!Serve("client", op)
    PROVE  /\ requests' \in [Connections -> Seq(Storage!Request)]
           /\ running /\ Len(Queue) \in Nat \ {0} /\ DOMAIN Queue = 1 .. Len(Queue)
           /\ Head(Queue) = Queue[1] /\ Queue[1].op = op /\ Queue[1] \in Storage!Request
           /\ Len(Queue') = Len(Queue) - 1 /\ DOMAIN Queue' = 1 .. Len(Queue) - 1
           /\ \A m \in 1 .. Len(Queue) - 1 : Queue'[m] = Queue[m + 1]
<1>1. Queue \in Seq(Storage!Request) /\ Queue # <<>>
  BY QueueIs DEF Storage!Serve, Queue
<1>2. Queue' = Tail(Queue) /\ running /\ Head(Queue).op = op
  BY DEF Storage!Serve, Storage!TypeOK, Queue, Connections
<1>3. Len(Queue) \in Nat \ {0} /\ DOMAIN Queue = 1 .. Len(Queue)
  BY <1>1, EmptySeq, LenProperties
<1>4. Head(Queue) = Queue[1] /\ Queue[1] \in Storage!Request
  BY <1>1, <1>3, ElementOfSeq
<1>5. /\ Queue' \in Seq(Storage!Request) /\ Len(Queue') = Len(Queue) - 1
      /\ \A m \in 1 .. Len(Queue) - 1 : Queue'[m] = Queue[m + 1]
  BY <1>1, <1>2, HeadTailProperties
<1>6. DOMAIN Queue' = 1 .. Len(Queue) - 1
  BY <1>5, LenProperties
<1>7. requests' \in [Connections -> Seq(Storage!Request)]
  BY <1>5 DEF Storage!Serve, Storage!TypeOK, Queue, Connections
<1>8. QED
  BY <1>2, <1>3, <1>4, <1>5, <1>6, <1>7

\* What is ahead of a request does not change when another is sent.
LEMMA SendAhead ==
    ASSUME Storage!TypeOK, NEW q \in Storage!Request, Storage!Send("client", q),
           NEW m \in 1 .. Len(Queue) + 1
    PROVE  /\ RecordedAt(m)' <=> RecordedAt(m)
           /\ \A l : FoundAt(l, m)' <=> FoundAt(l, m)
           /\ \A r : Servable(r, m)' <=> Servable(r, m)
<1>1. /\ \A j \in 1 .. m - 1 : Queue'[j] = Queue[j]
      /\ UNCHANGED <<I, recorded>>
  <2>1. Len(Queue) \in Nat
    BY QueueIs
  <2>2. QED
    BY <2>1, SendIs
<1>2. /\ RecordedAt(m)' <=> RecordedAt(m)
      /\ \A l : FoundAt(l, m)' <=> FoundAt(l, m)
  BY <1>1 DEF RecordedAt, FoundAt, NoDump
<1>3. QED
  BY <1>2 DEF Servable

\* That all can be served, of the next state.
LEMMA ServableNext ==
    ASSUME running', \A m \in DOMAIN Queue' : \A r : r = Queue'[m] => Servable(r, m)'
    PROVE  ServableInv'
BY DEF ServableInv, Servable, RecordedAt, FoundAt, NoDump

\* A request that the storage can serve after those before it.
LEMMA SendServable ==
    ASSUME Storage!TypeOK, ServableInv, NEW q \in Storage!Request, Storage!Send("client", q),
           Servable(q, Len(Queue) + 1)
    PROVE  ServableInv'
<1>1. Len(Queue) \in Nat /\ DOMAIN Queue = 1 .. Len(Queue)
  BY QueueIs
<1>2. running'
  BY SendIs DEF ServableInv
<1>3. ASSUME NEW m \in DOMAIN Queue', NEW r, r = Queue'[m] PROVE Servable(r, m)'
  <2>1. m \in 1 .. Len(Queue) + 1
    BY <1>3, SendIs
  <2>2. Servable(r, m)' <=> Servable(r, m)
    BY <2>1, SendAhead
  <2>3. CASE m = Len(Queue) + 1
    <3>1. r = q
      BY <1>3, <2>3, SendIs
    <3>2. QED
      BY <2>2, <2>3, <3>1
  <2>4. CASE m # Len(Queue) + 1
    <3>1. m \in 1 .. Len(Queue)
      BY <1>1, <2>1, <2>4
    <3>2. r = Queue[m]
      BY <1>3, <3>1, SendIs
    <3>3. Servable(r, m)
      BY <1>1, <3>1, <3>2 DEF ServableInv
    <3>4. QED
      BY <2>2, <3>3
  <2>5. QED
    BY <2>3, <2>4
<1>4. QED
  BY <1>2, <1>3, ServableNext

\* A pair under label l is among those of request q.
Adds(q, l) == q.op = "add" /\ \E k \in DOMAIN q.pairs : q.pairs[k].label = l

\* Under a label of the pairs it serves, ADD leaves the value of one of them.
LEMMA ServeAddIs ==
    ASSUME Storage!TypeOK, Storage!ServeAdd("client"), NEW l \in Labels
    PROVE  /\ ~Adds(Queue[1], l) => I'[l] = I[l]
           /\ Adds(Queue[1], l) => \E p \in ToSet(Queue[1].pairs) : p.label = l /\ I'[l] = p.value
           /\ I'[l] \in Values \cup {None}
<1> DEFINE pairs == Queue[1].pairs
           At == {k \in DOMAIN pairs : pairs[k].label = l}
<1>1. Storage!Serve("client", "add")
  BY DEF Storage!ServeAdd
<1>2. Head(Queue) = Queue[1] /\ Queue[1].op = "add" /\ Queue[1] \in Storage!Request
  BY <1>1, ServeIs
<1>3. pairs \in Seq(Storage!Pairs) /\ DOMAIN pairs = 1 .. Len(pairs) /\ Len(pairs) \in Nat
  BY <1>2, RequestIs, LenProperties
<1>4. I'[l] = IF At = {} THEN I[l]
              ELSE pairs[CHOOSE k \in At : \A h \in At : h <= k].value
  BY <1>2 DEF Storage!ServeAdd, Queue
<1>5. Adds(Queue[1], l) <=> At # {}
  BY <1>2 DEF Adds
<1> HIDE DEF pairs
<1>6. I[l] \in Values \cup {None}
  BY QueueIs
<1>7. ASSUME At # {} PROVE \E p \in ToSet(pairs) : p.label = l /\ I'[l] = p.value /\ p.value \in Values
  <2>1. At \in SUBSET (1 .. Len(pairs))
    BY <1>3
  <2>2. \E k \in At : \A h \in At : h <= k
    <3> DEFINE T == {Len(pairs) - k : k \in At}
    <3>1. T \in SUBSET Nat /\ T # {}
      <4> HIDE DEF At
      <4>1. \A k \in At : Len(pairs) - k \in Nat
        BY <1>3, <2>1
      <4>2. QED
        BY <1>7, <4>1
    <3>2. PICK t \in T : \A y \in T : t <= y
      BY <3>1, LeastNatural
    <3>3. PICK k \in At : t = Len(pairs) - k
      BY <3>2
    <3>4. \A h \in At : Len(pairs) - h \in T
      OBVIOUS
    <3>5. ASSUME NEW h \in At PROVE h <= k
      <4>1. t <= Len(pairs) - h
        BY <3>2, <3>4
      <4>2. h \in Nat /\ k \in Nat
        BY <2>1
      <4>3. QED
        BY <1>3, <3>3, <4>1, <4>2
    <3>6. QED
      BY <3>5
  <2> DEFINE k == CHOOSE k \in At : \A h \in At : h <= k
  <2>3. k \in At
    BY <2>2
  <2> HIDE DEF k
  <2>4. I'[l] = pairs[k].value
    BY <1>4, <1>7 DEF k
  <2>5. pairs[k] \in Storage!Pairs /\ k \in DOMAIN pairs
    BY <1>3, <2>3, ElementOfSeq
  <2>6. pairs[k].value \in Values
    BY <2>5 DEF Storage!Pairs
  <2>7. pairs[k] \in ToSet(pairs) /\ pairs[k].label = l
    BY <2>3, <2>5 DEF ToSet
  <2>8. QED
    BY <2>4, <2>6, <2>7
<1> HIDE DEF At
<1>8. QED
  BY <1>4, <1>5, <1>6, <1>7 DEF pairs

\* The storage never finds a request that it cannot serve: what it serves.
Served(op) ==
    /\ Storage!Serve("client", op)
    /\ running' /\ Storage!TypeOK'
    /\ recorded' <=> op = "start_search" \/ (op # "dump_bench" /\ recorded)
    /\ \A l \in Labels :
          /\ ~Adds(Queue[1], l) => I'[l] = I[l]
          /\ Adds(Queue[1], l) => \E p \in ToSet(Queue[1].pairs) : p.label = l /\ I'[l] = p.value
    /\ op = "search" =>
          Replies' = Append(Replies, [k \in DOMAIN Queue[1].labels |-> I[Queue[1].labels[k]]])
    /\ op # "search" => replies' = replies

LEMMA ServeRequestIs ==
    ASSUME Storage!TypeOK, ServableInv, Storage!ServeRequest("client")
    PROVE  \E op : Served(op)
<1>1. \A l \in Labels : I[l] \in Values \cup {None}
  BY QueueIs
<1>2. ASSUME NEW op, Storage!Serve("client", op)
      PROVE  /\ requests' \in [Connections -> Seq(Storage!Request)]
             /\ Queue[1].op = op /\ Head(Queue) = Queue[1] /\ Servable(Queue[1], 1)
             /\ running /\ Queue[1] \in Storage!Request
             /\ op # "add" => \A l : ~Adds(Queue[1], l)
  <2>1. 1 \in DOMAIN Queue
    BY <1>2, ServeIs
  <2>2. QED
    BY <1>2, <2>1, ServeIs DEF ServableInv, Adds
<1>3. CASE Storage!ServeInit("client")
  <2>1. Storage!Serve("client", "init") /\ UNCHANGED <<replies, I, recorded, running>>
    BY <1>3 DEF Storage!ServeInit
  <2>2. Served("init")
    BY <1>2, <2>1 DEF Served, Storage!TypeOK
  <2>3. QED
    BY <2>2
<1>4. CASE Storage!ServeStartSearch("client")
  <2>1. Storage!Serve("client", "start_search") /\ UNCHANGED <<replies, I, running>> /\ recorded' = TRUE
    BY <1>4 DEF Storage!ServeStartSearch
  <2>2. Served("start_search")
    BY <1>2, <2>1 DEF Served, Storage!TypeOK
  <2>3. QED
    BY <2>2
<1>5. CASE Storage!ServeDump("client")
  <2>1. Storage!Serve("client", "dump_bench") /\ UNCHANGED <<replies, I, running>> /\ recorded' = FALSE
    BY <1>5 DEF Storage!ServeDump
  <2>2. Storage!TypeOK' /\ running'
    BY <1>2, <2>1 DEF Storage!TypeOK
  <2>3. \A l : ~Adds(Queue[1], l)
    BY <1>2, <2>1
  <2>4. Served("dump_bench")
    BY <2>1, <2>2, <2>3 DEF Served
  <2>5. QED
    BY <2>4
<1>6. CASE Storage!ServeAdd("client")
  <2>1. Storage!Serve("client", "add") /\ UNCHANGED <<replies, recorded, running>>
    BY <1>6 DEF Storage!ServeAdd
  <2>2. I' \in [Labels -> Values \cup {None}]
    <3>1. \A l \in Labels : I'[l] \in Values \cup {None}
      BY <1>6, ServeAddIs
    <3>2. I' = [l \in Labels |-> I'[l]]
      BY <1>6 DEF Storage!ServeAdd
    <3>3. QED
      BY <3>1, <3>2
  <2>3. Storage!TypeOK'
    BY <1>2, <2>1, <2>2 DEF Storage!TypeOK
  <2>4. Served("add")
    BY <1>2, <1>6, <2>1, <2>3, ServeAddIs DEF Served
  <2>5. QED
    BY <2>4
<1>7. CASE Storage!ServeSearch("client")
  <2> DEFINE found == [k \in DOMAIN Queue[1].labels |-> I[Queue[1].labels[k]]]
  <2>1. Storage!Serve("client", "search") /\ Storage!Found("client") /\ UNCHANGED <<I, recorded, running>>
    BY <1>7 DEF Storage!ServeSearch
  <2>2. Head(requests["client"]) = Queue[1]
    BY <1>2, <2>1 DEF Queue
  <2>3. replies' = [replies EXCEPT !["client"] = Append(@, found)]
    <3> HIDE DEF Queue
    <3>1. QED
      BY <1>7, <2>2 DEF Storage!ServeSearch
  <2>4. found \in Seq(Values)
    <3>1. Queue[1].labels \in Seq(Labels)
      BY <1>2, <2>1, RequestIs
    <3>2. /\ DOMAIN Queue[1].labels = 1 .. Len(Queue[1].labels) /\ Len(Queue[1].labels) \in Nat
          /\ \A k \in DOMAIN Queue[1].labels : Queue[1].labels[k] \in Labels
      BY <3>1, LenProperties, ElementOfSeq
    <3>3. \A k \in DOMAIN Queue[1].labels : I[Queue[1].labels[k]] # None
      <4> HIDE DEF Queue
      <4>1. QED
        BY <2>1, <2>2 DEF Storage!Found
    <3>4. \A k \in DOMAIN Queue[1].labels : found[k] \in Values
      BY <1>1, <3>2, <3>3
    <3> DEFINE n == Len(Queue[1].labels)
    <3>5. found \in [1 .. n -> Values]
      BY <3>2, <3>4
    <3>6. n \in Nat
      BY <3>2
    <3> HIDE DEF n, found
    <3>7. QED
      BY <3>5, <3>6, IsASeq
  <2> HIDE DEF found
  <2>5. Replies' = Append(Replies, found) /\ Replies' \in Seq(Seq(Values))
    BY <2>3, <2>4, QueueIs, AppendProperties DEF Replies, Storage!TypeOK, Connections
  <2>6. replies' \in [Connections -> Seq(Seq(Values))]
    BY <2>3, <2>5 DEF Replies, Storage!TypeOK, Connections
  <2>7. Storage!TypeOK'
    BY <1>2, <2>1, <2>6 DEF Storage!TypeOK
  <2>8. \A l : ~Adds(Queue[1], l)
    BY <1>2, <2>1
  <2>9. running'
    BY <1>2, <2>1
  <2>10. Served("search")
    BY <2>1, <2>5, <2>7, <2>8, <2>9 DEF Served, found
  <2>11. QED
    BY <2>10
<1>8. CASE Storage!ServeAndExit("client")
  <2>1. ASSUME Storage!Serve("client", "search"), ~Storage!Found("client") \/ ~recorded PROVE FALSE
    <3>1. Queue[1].op = "search" /\ Servable(Queue[1], 1) /\ Head(requests["client"]) = Queue[1]
      BY <1>2, <2>1 DEF Queue
    <3>2. RecordedAt(1) /\ \A k \in DOMAIN Queue[1].labels : FoundAt(Queue[1].labels[k], 1)
      BY <3>1 DEF Servable
    <3>3. recorded /\ \A k \in DOMAIN Queue[1].labels : I[Queue[1].labels[k]] # None
      BY <3>2 DEF RecordedAt, FoundAt
    <3>4. Storage!Found("client")
      <4> HIDE DEF Queue
      <4>1. QED
        BY <3>1, <3>3 DEF Storage!Found
    <3>5. QED
      BY <2>1, <3>3, <3>4
  <2>2. ASSUME Storage!Serve("client", "dump_bench"), Head(requests["client"]).aggregate, ~recorded
        PROVE  FALSE
    <3>1. Queue[1].op = "dump_bench" /\ Servable(Queue[1], 1) /\ Queue[1].aggregate
      BY <1>2, <2>2 DEF Queue
    <3>2. RecordedAt(1)
      BY <3>1 DEF Servable
    <3>3. QED
      BY <2>2, <3>2 DEF RecordedAt
  <2>3. QED
    BY <1>8, <2>1, <2>2 DEF Storage!ServeAndExit
<1>9. QED
  BY <1>3, <1>4, <1>5, <1>6, <1>7, <1>8 DEF Storage!ServeRequest

\* The record and the values that a request needs are still there when the first is served.
LEMMA ServeAhead ==
    ASSUME Storage!TypeOK, NEW op, Served(op), NEW m \in 1 .. Len(Queue)
    PROVE  /\ RecordedAt(m + 1) => RecordedAt(m)'
           /\ \A l \in Labels : FoundAt(l, m + 1) => FoundAt(l, m)'
           /\ \A r \in Storage!Request : Servable(r, m + 1) => Servable(r, m)'
<1>1. /\ Len(Queue) \in Nat \ {0} /\ Queue[1].op = op /\ Queue[1] \in Storage!Request
      /\ \A j \in 1 .. Len(Queue) - 1 : Queue'[j] = Queue[j + 1]
  BY ServeIs DEF Served
<1>2. /\ recorded' <=> op = "start_search" \/ (op # "dump_bench" /\ recorded)
      /\ \A l \in Labels : /\ ~Adds(Queue[1], l) => I'[l] = I[l]
                           /\ Adds(Queue[1], l) => \E p \in ToSet(Queue[1].pairs) : I'[l] = p.value
  BY DEF Served
<1>3. (m + 1) - 1 = m /\ m \in Nat \ {0}
  OBVIOUS
<1>4. ASSUME RecordedAt(m + 1) PROVE RecordedAt(m)'
  <2>1. CASE recorded /\ \A j \in 1 .. m : Queue[j].op # "dump_bench"
    <3>1. recorded'
      <4>1. 1 \in 1 .. m
        BY <1>3
      <4>2. op # "dump_bench"
        BY <1>1, <2>1, <4>1
      <4>3. QED
        BY <1>2, <2>1, <4>2
    <3>2. ASSUME NEW j \in 1 .. m - 1 PROVE Queue'[j].op # "dump_bench"
      <4>1. j \in 1 .. Len(Queue) - 1 /\ j + 1 \in 1 .. m
        BY <1>1
      <4>2. QED
        BY <1>1, <2>1, <4>1
    <3>3. QED
      BY <3>1, <3>2 DEF RecordedAt, NoDump
  <2>2. CASE \E k \in 1 .. m : /\ Queue[k].op = "start_search"
                               /\ \A j \in k + 1 .. m : Queue[j].op # "dump_bench"
    <3>1. PICK k \in 1 .. m : /\ Queue[k].op = "start_search"
                              /\ \A j \in k + 1 .. m : Queue[j].op # "dump_bench"
      BY <2>2
    <3>2. ASSUME NEW j \in k .. m - 1 PROVE Queue'[j].op # "dump_bench"
      <4>1. j \in 1 .. Len(Queue) - 1 /\ j + 1 \in k + 1 .. m
        BY <1>1
      <4>2. QED
        BY <1>1, <3>1, <4>1
    <3>3. CASE k = 1
      <4>1. recorded'
        BY <1>1, <1>2, <3>1, <3>3
      <4>2. QED
        BY <3>2, <3>3, <4>1 DEF RecordedAt, NoDump
    <3>4. CASE k # 1
      <4>1. k - 1 \in 1 .. Len(Queue) - 1 /\ (k - 1) + 1 = k /\ k - 1 \in 1 .. m - 1
        BY <1>1, <3>4
      <4>2. Queue'[k - 1].op = "start_search"
        BY <1>1, <3>1, <4>1
      <4>3. QED
        BY <3>2, <4>1, <4>2 DEF RecordedAt, NoDump
    <3>5. QED
      BY <3>3, <3>4
  <2>3. QED
    BY <1>3, <1>4, <2>1, <2>2 DEF RecordedAt, NoDump
<1>5. ASSUME NEW l \in Labels, FoundAt(l, m + 1) PROVE FoundAt(l, m)'
  <2>1. I[l] # None \/ \E j \in 1 .. m : Adds(Queue[j], l)
    BY <1>3, <1>5 DEF FoundAt, Adds
  <2>2. CASE Adds(Queue[1], l)
    <3>1. PICK p \in ToSet(Queue[1].pairs) : I'[l] = p.value
      BY <1>2, <2>2
    <3>2. Queue[1].pairs \in Seq(Storage!Pairs)
      BY <1>1, <2>2, RequestIs DEF Adds
    <3>3. p \in Storage!Pairs
      <4> DEFINE s == Queue[1].pairs
      <4>1. DOMAIN s = 1 .. Len(s) /\ \A k \in 1 .. Len(s) : s[k] \in Storage!Pairs
        BY <3>2, LenProperties, ElementOfSeq
      <4>2. QED
        BY <4>1 DEF ToSet
    <3>4. I'[l] # None
      BY <3>1, <3>3, ConstantTypes DEF Storage!Pairs
    <3>5. QED
      BY <3>4 DEF FoundAt
  <2>3. CASE ~Adds(Queue[1], l) /\ I[l] # None
    BY <1>2, <2>3 DEF FoundAt
  <2>4. CASE ~Adds(Queue[1], l) /\ \E j \in 1 .. m : Adds(Queue[j], l)
    <3>1. PICK j \in 1 .. m : Adds(Queue[j], l)
      BY <2>4
    <3>2. j # 1
      BY <2>4, <3>1
    <3>3. j - 1 \in 1 .. Len(Queue) - 1 /\ (j - 1) + 1 = j /\ j - 1 \in 1 .. m - 1
      BY <1>1, <3>2
    <3>4. Queue'[j - 1] = Queue[j]
      BY <1>1, <3>3
    <3>5. QED
      BY <3>1, <3>3, <3>4 DEF FoundAt, Adds
  <2>5. QED
    BY <2>1, <2>2, <2>3, <2>4
<1>6. ASSUME NEW r \in Storage!Request, Servable(r, m + 1) PROVE Servable(r, m)'
  <2>1. ASSUME r.op = "search", NEW k \in DOMAIN r.labels PROVE r.labels[k] \in Labels
    <3>1. r.labels \in Seq(Labels)
      BY <2>1, RequestIs
    <3>2. QED
      BY <2>1, <3>1, LenProperties, ElementOfSeq
  <2>2. QED
    BY <1>4, <1>5, <1>6, <2>1 DEF Servable
<1>7. QED
  BY <1>4, <1>5, <1>6

LEMMA ServeServable ==
    ASSUME Storage!TypeOK, ServableInv, NEW op, Served(op)
    PROVE  ServableInv'
<1>1. /\ Len(Queue) \in Nat \ {0} /\ DOMAIN Queue = 1 .. Len(Queue)
      /\ DOMAIN Queue' = 1 .. Len(Queue) - 1
      /\ \A m \in 1 .. Len(Queue) - 1 : Queue'[m] = Queue[m + 1]
  BY ServeIs DEF Served
<1>2. ASSUME NEW m \in DOMAIN Queue', NEW r, r = Queue'[m] PROVE Servable(r, m)'
  <2>1. m \in 1 .. Len(Queue) /\ m + 1 \in 1 .. Len(Queue) /\ r = Queue[m + 1]
    BY <1>1, <1>2
  <2>2. Servable(r, m + 1)
    BY <1>1, <2>1 DEF ServableInv
  <2>3. r \in Storage!Request
    BY <2>1, QueueIs
  <2>4. QED
    BY <2>1, <2>2, <2>3, ServeAhead
<1>3. running'
  BY DEF Served
<1>4. QED
  BY <1>2, <1>3, ServableNext

----------------------------------------------------------------------------
(* Where the postings are *)

InQueue(p) == \E m \in DOMAIN Queue : Queue[m].op = "add" /\ p \in ToSet(Queue[m].pairs)
InMessages(p) == \E m \in DOMAIN messages : p \in ToSet(messages[m])

LEMMA PendingIs ==
    /\ \A p : p \in PendingPairs <=> InQueue(p) \/ InMessages(p)
    /\ \A p : p \in PendingPairs' <=> InQueue(p)' \/ InMessages(p)'
<1>1. ASSUME NEW p PROVE p \in PendingPairs <=> InQueue(p) \/ InMessages(p)
  <2> DEFINE adds == {n \in DOMAIN Queue : Queue[n].op = "add"}
             A == {ToSet(Queue[m].pairs) : m \in adds}
             B == {ToSet(messages[m]) : m \in DOMAIN messages}
  <2>1. PendingPairs = (UNION A) \cup (UNION B)
    BY DEF PendingPairs
  <2>2. p \in (UNION A) <=> \E m \in adds : p \in ToSet(Queue[m].pairs)
    <3> HIDE DEF adds
    <3>1. QED
      OBVIOUS
  <2>3. p \in (UNION B) <=> \E m \in DOMAIN messages : p \in ToSet(messages[m])
    OBVIOUS
  <2>4. (\E m \in adds : p \in ToSet(Queue[m].pairs)) <=> InQueue(p)
    BY DEF InQueue
  <2>5. (\E m \in DOMAIN messages : p \in ToSet(messages[m])) <=> InMessages(p)
    BY DEF InMessages
  <2> HIDE DEF A, B
  <2>6. p \in PendingPairs <=> p \in (UNION A) \/ p \in (UNION B)
    <3>1. \A U, V : PendingPairs = U \cup V => (p \in PendingPairs <=> p \in U \/ p \in V)
      OBVIOUS
    <3>2. QED
      BY <2>1, <3>1, Zenon
  <2>7. QED
    BY <2>2, <2>3, <2>4, <2>5, <2>6
<1>2. ASSUME NEW p PROVE p \in PendingPairs' <=> InQueue(p)' \/ InMessages(p)'
  <2> DEFINE adds == {n \in DOMAIN Queue' : Queue'[n].op = "add"}
             A == {ToSet(Queue'[m].pairs) : m \in adds}
             B == {ToSet(messages'[m]) : m \in DOMAIN messages'}
  <2>1. PendingPairs' = (UNION A) \cup (UNION B)
    BY DEF PendingPairs
  <2>2. p \in (UNION A) <=> \E m \in adds : p \in ToSet(Queue'[m].pairs)
    <3> HIDE DEF adds
    <3>1. QED
      OBVIOUS
  <2>3. p \in (UNION B) <=> \E m \in DOMAIN messages' : p \in ToSet(messages'[m])
    OBVIOUS
  <2>4. (\E m \in adds : p \in ToSet(Queue'[m].pairs)) <=> InQueue(p)'
    BY DEF InQueue
  <2>5. (\E m \in DOMAIN messages' : p \in ToSet(messages'[m])) <=> InMessages(p)'
    BY DEF InMessages
  <2> HIDE DEF A, B
  <2>6. p \in PendingPairs' <=> p \in (UNION A) \/ p \in (UNION B)
    <3>1. \A U, V : PendingPairs' = U \cup V => (p \in PendingPairs' <=> p \in U \/ p \in V)
      OBVIOUS
    <3>2. QED
      BY <2>1, <3>1, Zenon
  <2>7. QED
    BY <2>2, <2>3, <2>4, <2>5, <2>6
<1>3. QED
  BY <1>1, <1>2

LEMMA SendPending ==
    ASSUME Storage!TypeOK, NEW q \in Storage!Request, Storage!Send("client", q), NEW p
    PROVE  InQueue(p)' <=> InQueue(p) \/ (q.op = "add" /\ p \in ToSet(q.pairs))
<1>1. Len(Queue) \in Nat /\ DOMAIN Queue = 1 .. Len(Queue)
  BY QueueIs
<1>2. /\ DOMAIN Queue' = 1 .. Len(Queue) + 1
      /\ \A m \in 1 .. Len(Queue) : Queue'[m] = Queue[m]
      /\ Queue'[Len(Queue) + 1] = q
  BY SendIs
<1>3. /\ \A m \in DOMAIN Queue' : m \in DOMAIN Queue \/ m = Len(Queue) + 1
      /\ DOMAIN Queue \subseteq DOMAIN Queue' /\ Len(Queue) + 1 \in DOMAIN Queue'
  BY <1>1, <1>2
<1>4. QED
  BY <1>1, <1>2, <1>3 DEF InQueue

LEMMA ServePending ==
    ASSUME Storage!TypeOK, NEW op, Served(op), NEW p
    PROVE  InQueue(p) <=> InQueue(p)' \/ (op = "add" /\ p \in ToSet(Queue[1].pairs))
<1>1. /\ Len(Queue) \in Nat \ {0} /\ DOMAIN Queue = 1 .. Len(Queue) /\ Queue[1].op = op
      /\ DOMAIN Queue' = 1 .. Len(Queue) - 1
      /\ \A m \in 1 .. Len(Queue) - 1 : Queue'[m] = Queue[m + 1]
  BY ServeIs DEF Served
<1>2. \A m \in DOMAIN Queue' : m + 1 \in DOMAIN Queue /\ Queue'[m] = Queue[m + 1]
  BY <1>1
<1>3. ASSUME NEW m \in DOMAIN Queue
      PROVE  m = 1 \/ (m - 1 \in DOMAIN Queue' /\ Queue'[m - 1] = Queue[m])
  <2>1. CASE m # 1
    <3>1. m - 1 \in 1 .. Len(Queue) - 1 /\ (m - 1) + 1 = m
      BY <1>1, <2>1
    <3>2. QED
      BY <1>1, <3>1
  <2>2. QED
    BY <2>1
<1>4. 1 \in DOMAIN Queue
  BY <1>1
<1>5. QED
  BY <1>1, <1>2, <1>3, <1>4 DEF InQueue

----------------------------------------------------------------------------
(* Parts of the invariant that several actions keep *)

\* Without a search.
LEMMA IdleLoop ==
    ASSUME LoopInv, UNCHANGED search, pc \notin {"search", "await", "answer"},
           pc' \notin {"search", "await", "answer"}, pc' # "update" => messages' = <<>>
    PROVE  LoopInv' /\ ResultInv'
<1>1. ~Searching /\ ~Searching' /\ pc # "answer" /\ pc' # "answer" /\ pc' # "await"
  BY DEF Searching
<1>2. UNCHANGED <<rpn, labels, label_pos, answer>>
  BY DEF search
<1>3. LoopInv'
  BY <1>1, <1>2 DEF LoopInv
<1>4. ResultInv'
  BY <1>1 DEF ResultInv
<1>5. QED
  BY <1>3, <1>4

\* Of the same documents and counters.
LEMMA SameRight ==
    ASSUME UNCHANGED <<W, nDocs, texts>>
    PROVE  CountedLabels' = CountedLabels /\ \A l, v : Right(l, v)' <=> Right(l, v)
BY DEF CountedLabels, Right, Having

\* The postings of the next state.
LEMMA PostingNext ==
    ASSUME nDocs' = Len(texts'),
           \A w \in Words : W'[w] <= nDocs' /\ W'[w] = Cardinality(Having(w, nDocs))',
           pc' # "off" => \A p \in PendingPairs' : p.label \in CountedLabels' /\ Right(p.label, p.value)',
           pc' # "off" => \A l \in CountedLabels' :
               (\E p \in PendingPairs' : p.label = l) \/ \A v : v = I'[l] => Right(l, v)'
    PROVE  PostingInv'
BY DEF PostingInv, Right, Having

LEMMA SamePostings ==
    ASSUME PostingInv, UNCHANGED <<W, nDocs, texts, I>>, pc = "off" => pc' = "off",
           \A p : p \in PendingPairs' <=> p \in PendingPairs
    PROVE  PostingInv'
<1>1. nDocs' = Len(texts') /\ \A w \in Words : W'[w] <= nDocs' /\ W'[w] = Cardinality(Having(w, nDocs))'
  BY DEF PostingInv, Having
<1>2. pc' # "off" => \A p \in PendingPairs' : p.label \in CountedLabels' /\ Right(p.label, p.value)'
  BY SameRight DEF PostingInv
<1>3. ASSUME pc' # "off", NEW l \in CountedLabels', NEW v, v = I'[l]
      PROVE  (\E p \in PendingPairs' : p.label = l) \/ Right(l, v)'
  <2>1. (\E p \in PendingPairs : p.label = l) \/ Right(l, I[l])
    BY <1>3, SameRight DEF PostingInv
  <2>2. Right(l, v)' <=> Right(l, v)
    BY SameRight
  <2>3. QED
    BY <1>3, <2>1, <2>2
<1>4. QED
  BY <1>1, <1>2, <1>3, PostingNext

\* The postings and the answer of the next state.
LEMMA ResultNext ==
    ASSUME pc' \in {"search", "await", "answer"} =>
               \A i \in DOMAIN rpn' : \A n \in 1 .. counter'[i] :
                   docs'[i][n] # None => \A l, v : l = <<rpn'[i], n - 1>> /\ v = <<l, docs'[i][n][1], docs'[i][n][2]>>
                                             => Right(l, v)',
           pc' = "answer" => /\ result' # None /\ answer' \in Best(result)'
                             /\ (Len(rpn') = 1 => result' = DocumentsOf(docs[1])')
                             /\ Once(result', Truth(rpn)')
    PROVE  ResultInv'
<1>1. ASSUME pc' \in {"search", "await", "answer"}, NEW i \in DOMAIN rpn', NEW n \in 1 .. counter'[i], docs'[i][n] # None
      PROVE  Right(<<rpn[i], n - 1>>, <<<<rpn[i], n - 1>>, docs[i][n][1], docs[i][n][2]>>)'
  <2>1. \A l, v : l = <<rpn'[i], n - 1>> /\ v = <<l, docs'[i][n][1], docs'[i][n][2]>> => Right(l, v)'
    BY <1>1
  <2>2. QED
    BY <2>1 DEF Right
<1>2. QED
  BY <1>1 DEF ResultInv, Searching, Once

\* Of the same search, documents and postings.
LEMMA SameResult ==
    ASSUME ResultInv, UNCHANGED <<pc, W, nDocs, texts, rpn, counter, docs, result, answer>>
    PROVE  ResultInv'
<1>1. Best(result)' = Best(result) /\ DocumentsOf(docs[1])' = DocumentsOf(docs[1])
  BY DEF Best, First, MayPrecede, Score, DocumentsOf
<1>2. \A l, v : Right(l, v) => Right(l, v)'
  BY SameRight
<1>3. Truth(rpn)' = Truth(rpn)
  BY DEF Truth, TruthStep, Having
<1>4. pc' \in {"search", "await", "answer"} =>
          \A i \in DOMAIN rpn' : \A n \in 1 .. counter'[i] :
              docs'[i][n] # None => \A l, v : l = <<rpn'[i], n - 1>> /\ v = <<l, docs'[i][n][1], docs'[i][n][2]>>
                                            => Right(l, v)'
  BY <1>2 DEF ResultInv, Searching
<1>5. pc' = "answer" => /\ result' # None /\ answer' \in Best(result)'
                        /\ (Len(rpn') = 1 => result' = DocumentsOf(docs[1])')
                        /\ Once(result', Truth(rpn)')
  BY <1>1, <1>3 DEF ResultInv, Once
<1>6. QED
  BY <1>4, <1>5, ResultNext

\* The documents of an update that is not over.
LEMMA SameSource ==
    ASSUME SourceInv, pc' # "update" \/ UNCHANGED <<pc, source, texts>>
    PROVE  SourceInv'
BY DEF SourceInv

\* A request that is not a search, while no search is at a batch.
LEMMA SendAnswer ==
    ASSUME Storage!TypeOK, AnswerInv, NEW q \in Storage!Request, Storage!Send("client", q),
           q.op # "search", pc \notin {"await", "off"}, pc' \notin {"await", "off"},
           pc' = "search" => q.op = "start_search"
    PROVE  AnswerInv'
<1>1. Replies = <<>> /\ NoSearch(Len(Queue)) /\ Len(Queue) \in Nat
  BY QueueIs DEF AnswerInv
<1>2. Replies' = <<>>
  BY <1>1, SendIs DEF Replies
<1>3. \A m \in 1 .. Len(Queue) + 1 : Queue'[m].op # "search"
  <2>1. SUFFICES ASSUME NEW m \in 1 .. Len(Queue) + 1 PROVE Queue'[m].op # "search"
    OBVIOUS
  <2>2. m \in 1 .. Len(Queue) \/ m = Len(Queue) + 1
    BY <1>1
  <2>3. QED
    BY <1>1, <2>2, SendIs DEF NoSearch
<1>4. Len(Queue') = Len(Queue) + 1
  BY SendIs
<1>5. NoSearch(Len(Queue))'
  BY <1>3, <1>4 DEF NoSearch
<1>6. ASSUME pc' = "search" PROVE RecordedAt(Len(Queue) + 1)'
  <2>1. (Len(Queue') + 1) - 1 = Len(Queue) + 1 /\ Len(Queue) + 1 \in 1 .. Len(Queue) + 1
    BY <1>1, <1>4
  <2>2. Queue'[Len(Queue) + 1].op = "start_search"
    BY <1>6, SendIs
  <2>3. \A m \in Len(Queue) + 1 + 1 .. Len(Queue) + 1 : FALSE
    BY <1>1
  <2>4. QED
    BY <2>1, <2>2, <2>3 DEF RecordedAt, NoDump
<1>7. QED
  BY <1>2, <1>5, <1>6 DEF AnswerInv

\* A request without pairs.
LEMMA SendPostings ==
    ASSUME Storage!TypeOK, PostingInv, NEW q \in Storage!Request, Storage!Send("client", q),
           q.op # "add", UNCHANGED <<W, nDocs, texts, messages>>, pc # "off"
    PROVE  PostingInv'
<1>1. \A p : InQueue(p)' <=> InQueue(p)
  BY SendPending
<1>2. \A p : InMessages(p)' <=> InMessages(p)
  BY DEF InMessages
<1>3. \A p : p \in PendingPairs' <=> p \in PendingPairs
  BY <1>1, <1>2, PendingIs
<1>4. UNCHANGED I
  BY SendIs
<1>5. QED
  BY <1>3, <1>4, SamePostings

----------------------------------------------------------------------------
(* The invariant, initially and after each action *)

\* Of no documents none has a word.
LEMMA NoneHave ==
    /\ \A w : nDocs = 0 => Cardinality(Having(w, nDocs)) = 0
    /\ \A w : nDocs' = 0 => Cardinality(Having(w, nDocs))' = 0
<1>1. 0 .. 0 - 1 = {}
  OBVIOUS
<1>2. \A w : nDocs = 0 => Having(w, nDocs) = {}
  BY <1>1 DEF Having
<1>3. \A w : nDocs' = 0 => Having(w, nDocs)' = {}
  BY <1>1 DEF Having
<1>4. QED
  BY <1>2, <1>3, FS_EmptySet

LEMMA InitIInv == Init => IInv
<1> SUFFICES ASSUME Init PROVE IInv
  OBVIOUS
<1> USE DEF Init
<1>1. PICK map \in Earlier : Storage!InitWith(map)
  OBVIOUS
<1>2. Storage!TypeOK /\ Queue = <<>> /\ Replies = <<>> /\ running
  BY <1>1, ConstantTypes, EmptySeq DEF Storage!InitWith, Storage!TypeOK, Queue, Replies, Connections
<1>3. TypeOK
  <2>1. W \in [Words -> 0 .. MaxDocs] /\ nDocs \in 0 .. MaxDocs
    BY ConstantTypes DEF NoWords
  <2>2. /\ messages \in Seq(Seq(Storage!Pairs)) /\ query \in Seq(Parser!Lexemes)
        /\ labels \in Seq((DOMAIN rpn) \X Docs) /\ answer \in Seq(Docs) /\ texts \in Seq(Document)
    BY EmptySeq
  <2>3. /\ counter \in [DOMAIN rpn -> 0 .. MaxDocs]
        /\ docs \in [DOMAIN rpn -> Seq((Docs \X (1 .. MaxFrequency)) \cup {None})]
    OBVIOUS
  <2>4. label_pos \in 0 .. Len(labels)
    OBVIOUS
  <2>5. QED
    BY <1>2, <2>1, <2>2, <2>3, <2>4 DEF TypeOK
<1>4. ServableInv /\ AnswerInv
  BY <1>2 DEF ServableInv, AnswerInv, NoSearch
<1>5. PostingInv
  <2>1. CountedLabels = {}
    BY DEF CountedLabels, NoWords, Labels, Docs
  <2>2. \A p : ~InQueue(p) /\ ~InMessages(p)
    BY <1>2 DEF InQueue, InMessages
  <2>3. \A p : p \notin PendingPairs
    BY <2>2, PendingIs
  <2>4. nDocs = Len(texts) /\ \A w \in Words : W[w] <= nDocs /\ W[w] = Cardinality(Having(w, nDocs))
    BY NoneHave DEF NoWords
  <2>5. QED
    BY <2>1, <2>3, <2>4 DEF PostingInv
<1>6. LoopInv /\ SourceInv /\ ResultInv
  BY EmptySeq DEF LoopInv, SourceInv, ResultInv, Searching
<1>7. QED
  BY <1>3, <1>4, <1>5, <1>6 DEF IInv

\* However a client ends.
LEMMA EndIInv ==
    ASSUME IInv, End
    PROVE  IInv'
<1>1. /\ pc' = "off" /\ W' = NoWords /\ nDocs' = 0 /\ texts' = <<>>
      /\ source' = None /\ messages' = <<>>
      /\ query' = <<>> /\ rpn' = <<>> /\ counter' = <<>>
      /\ labels' = <<>> /\ label_pos' = 0 /\ docs' = <<>>
      /\ result' = None /\ answer' = <<>>
  BY DEF End, UpdateOver, SearchOver
<1>2. UNCHANGED <<requests, replies, I, recorded, running>>
  BY DEF End, service
<1>3. Storage!TypeOK'
  BY <1>2 DEF IInv, TypeOK, Storage!TypeOK
<1>4. TypeOK'
  <2>1. W' \in [Words -> 0 .. MaxDocs] /\ nDocs' \in 0 .. MaxDocs
    BY <1>1, ConstantTypes DEF NoWords
  <2>2. /\ messages' \in Seq(Seq(Storage!Pairs)) /\ query' \in Seq(Parser!Lexemes)
        /\ labels' \in Seq((DOMAIN rpn') \X Docs) /\ answer' \in Seq(Docs) /\ texts' \in Seq(Document)
    BY <1>1, EmptySeq
  <2>3. /\ counter' \in [DOMAIN rpn' -> 0 .. MaxDocs]
        /\ docs' \in [DOMAIN rpn' -> Seq((Docs \X (1 .. MaxFrequency)) \cup {None})]
    BY <1>1
  <2>4. label_pos' \in 0 .. Len(labels')
    BY <1>1
  <2>5. QED
    BY <1>1, <1>3, <2>1, <2>2, <2>3, <2>4 DEF TypeOK
<1>5. ServableInv'
  BY <1>2 DEF IInv, ServableInv, Servable, RecordedAt, FoundAt, NoDump, Queue
<1>6. AnswerInv'
  BY <1>1 DEF AnswerInv
<1>7. PostingInv'
  BY <1>1, NoneHave DEF PostingInv, NoWords
<1>8. LoopInv' /\ SourceInv' /\ ResultInv'
  BY <1>1, EmptySeq DEF LoopInv, SourceInv, ResultInv, Searching
<1>9. QED
  BY <1>4, <1>5, <1>6, <1>7, <1>8 DEF IInv

\* Types of what a request at the storage does not change.
LEMMA LocalTypes ==
    ASSUME TypeOK, UNCHANGED <<client, update, search, texts>>, Storage!TypeOK',
           pc' \in {"new", "idle", "update", "search", "await", "answer", "off"}
    PROVE  TypeOK'
BY DEF TypeOK, client, update, search

LEMMA SetupIInv ==
    ASSUME IInv, Setup
    PROVE  IInv'
<1> DEFINE q == Storage!InitRequest
<1>1. /\ pc = "new" /\ pc' = "idle" /\ Storage!Send("client", q)
      /\ UNCHANGED <<client, update, search, texts>>
  BY DEF Setup
<1>2. q \in Storage!Request /\ q.op = "init"
  BY RequestIs
<1>3. Storage!TypeOK
  BY DEF IInv, TypeOK
<1> HIDE DEF q
<1>4. TypeOK'
  BY <1>1, <1>2, <1>3, SendIs, LocalTypes DEF IInv
<1>5. ServableInv'
  <2>1. Servable(q, Len(Queue) + 1)
    BY <1>2 DEF Servable
  <2>2. QED
    BY <1>1, <1>2, <1>3, <2>1, SendServable DEF IInv
<1>6. AnswerInv'
  BY <1>1, <1>2, <1>3, SendAnswer DEF IInv
<1>7. PostingInv'
  BY <1>1, <1>2, <1>3, SendPostings DEF IInv, client, update
<1>8. LoopInv' /\ ResultInv'
  BY <1>1, IdleLoop DEF IInv, update, LoopInv
<1>9. QED
  BY <1>1, <1>4, <1>5, <1>6, <1>7, <1>8, SameSource DEF IInv

\* The enclave aggregates only when the storage has a record, and nothing is under way
\* that could drop it.
LEMMA DumpBenchIInv ==
    ASSUME IInv, NEW aggregate \in BOOLEAN, DumpBench(aggregate)
    PROVE  IInv'
<1>1. CASE aggregate /\ ~recorded
  BY <1>1, EndIInv DEF DumpBench
<1>2. CASE ~(aggregate /\ ~recorded)
  <2> DEFINE q == Storage!DumpRequest(aggregate)
  <2>1. /\ pc = "idle" /\ ~Waiting /\ Storage!Send("client", q)
        /\ UNCHANGED <<client, pc, update, search, texts>>
    BY <1>2 DEF DumpBench
  <2>2. q \in Storage!Request /\ q.op = "dump_bench" /\ q.aggregate = aggregate
    BY RequestIs
  <2>3. Storage!TypeOK
    BY DEF IInv, TypeOK
  <2> HIDE DEF q
  <2>4. TypeOK'
    BY <2>1, <2>2, <2>3, SendIs, LocalTypes DEF IInv
  <2>5. ServableInv'
    <3>1. aggregate => RecordedAt(Len(Queue) + 1)
      <4>1. Len(Queue) \in Nat /\ DOMAIN Queue = 1 .. Len(Queue) /\ (Len(Queue) + 1) - 1 = Len(Queue)
        BY <2>3, QueueIs
      <4>2. \A m \in 1 .. Len(Queue) : Queue[m].op # "dump_bench"
        BY <2>1, <4>1 DEF Waiting, Queue
      <4>3. QED
        BY <1>2, <4>1, <4>2 DEF RecordedAt, NoDump
    <3>2. Servable(q, Len(Queue) + 1)
      BY <2>2, <3>1 DEF Servable
    <3>3. QED
      BY <2>1, <2>2, <2>3, <3>2, SendServable DEF IInv
  <2>6. AnswerInv'
    BY <2>1, <2>2, <2>3, SendAnswer DEF IInv
  <2>7. PostingInv'
    BY <2>1, <2>2, <2>3, SendPostings DEF IInv, client, update
  <2>8. LoopInv' /\ ResultInv'
    BY <2>1, IdleLoop DEF IInv, update, LoopInv
  <2>9. QED
    BY <2>1, <2>4, <2>5, <2>6, <2>7, <2>8, SameSource DEF IInv
<1>3. QED
  BY <1>1, <1>2

\* Without a request.
LEMMA SameService ==
    ASSUME ServableInv, AnswerInv, UNCHANGED service, Batch' = Batch,
           pc = pc' \/ (pc \notin {"await", "off"} /\ pc' \notin {"search", "await"}),
           UNCHANGED rpn \/ pc' # "await"
    PROVE  ServableInv' /\ AnswerInv'
<1>1. UNCHANGED <<requests, replies, I, recorded, running>>
  BY DEF service
<1>2. \A m : RecordedAt(m)' <=> RecordedAt(m)
  BY <1>1 DEF RecordedAt, NoDump, Queue
<1>3. ServableInv'
  BY <1>1 DEF ServableInv, Servable, RecordedAt, FoundAt, NoDump, Queue
<1>4. QED
  BY <1>1, <1>2, <1>3 DEF AnswerInv, NoSearch, RecordedAt, NoDump, Queue, Replies, RequestedLabels, LabelOf

LEMMA UpdatedIInv ==
    ASSUME IInv, Updated
    PROVE  IInv'
<1>1. /\ pc = "update" /\ pc' = "idle" /\ messages = <<>> /\ messages' = <<>> /\ source' = None
      /\ UNCHANGED <<service, client, search, texts>>
  BY DEF Updated, UpdateOver
<1>2. Storage!TypeOK'
  BY <1>1 DEF IInv, TypeOK, Storage!TypeOK, service
<1>3. TypeOK'
  BY <1>1, <1>2, EmptySeq DEF IInv, TypeOK, client, search
<1>4. Batch' = Batch
  BY <1>1 DEF Batch, search
<1>5. ServableInv' /\ AnswerInv'
  BY <1>1, <1>4, SameService DEF IInv
<1>6. \A p : p \in PendingPairs' <=> p \in PendingPairs
  <2>1. \A p : (InQueue(p)' <=> InQueue(p)) /\ (InMessages(p)' <=> InMessages(p))
    BY <1>1 DEF InQueue, InMessages, service, Queue
  <2>2. QED
    BY <2>1, PendingIs
<1>7. PostingInv'
  BY <1>1, <1>6, SamePostings DEF IInv, client, service
<1>8. LoopInv' /\ ResultInv'
  BY <1>1, IdleLoop DEF IInv
<1>9. QED
  BY <1>1, <1>3, <1>5, <1>7, <1>8, SameSource DEF IInv

\* The pairs of the documents left.
LEMMA MessagesIs ==
    ASSUME TypeOK, messages # <<>>
    PROVE  /\ messages \in Seq(Seq(Storage!Pairs)) /\ Len(messages) \in Nat \ {0}
           /\ DOMAIN messages = 1 .. Len(messages) /\ Head(messages) = messages[1]
           /\ \A m \in 1 .. Len(messages) : messages[m] \in Seq(Storage!Pairs)
<1>1. messages \in Seq(Seq(Storage!Pairs))
  BY DEF TypeOK
<1> DEFINE P == Seq(Storage!Pairs)
<1> HIDE DEF P
<1>2. messages \in Seq(P)
  BY <1>1 DEF P
<1>3. /\ Len(messages) \in Nat \ {0} /\ DOMAIN messages = 1 .. Len(messages)
      /\ Head(messages) = messages[1] /\ \A m \in 1 .. Len(messages) : messages[m] \in P
  BY <1>2, EmptySeq, LenProperties, ElementOfSeq
<1>4. QED
  BY <1>1, <1>3 DEF P

LEMMA NextDocumentIInv ==
    ASSUME IInv, NextDocument
    PROVE  IInv'
<1>1. /\ pc = "update" /\ pc' = pc /\ messages # <<>> /\ Head(messages) = <<>>
      /\ messages' = Tail(messages) /\ source' = source
      /\ UNCHANGED <<service, client, search, texts>>
  BY DEF NextDocument
<1>2. Storage!TypeOK'
  BY <1>1 DEF IInv, TypeOK, Storage!TypeOK, service
<1>3. /\ Len(messages) \in Nat \ {0} /\ DOMAIN messages = 1 .. Len(messages) /\ messages[1] = <<>>
      /\ messages' \in Seq(Seq(Storage!Pairs))
      /\ DOMAIN messages' = 1 .. Len(messages) - 1
      /\ \A m \in 1 .. Len(messages) - 1 : messages'[m] = messages[m + 1]
  <2> DEFINE P == Seq(Storage!Pairs)
  <2> HIDE DEF P
  <2>1. messages \in Seq(P)
    BY <1>1, MessagesIs DEF IInv, P
  <2>2. /\ messages' \in Seq(P) /\ Len(messages') = Len(messages) - 1
        /\ \A m \in 1 .. Len(messages) - 1 : messages'[m] = messages[m + 1]
    BY <1>1, <2>1, HeadTailProperties
  <2>3. DOMAIN messages' = 1 .. Len(messages) - 1
    BY <2>2, LenProperties
  <2>4. QED
    BY <1>1, <2>2, <2>3, MessagesIs DEF IInv, P
<1>4. TypeOK'
  BY <1>1, <1>2, <1>3 DEF IInv, TypeOK, client, search
<1>5. Batch' = Batch
  BY <1>1 DEF Batch, search
<1>6. ServableInv' /\ AnswerInv'
  BY <1>1, <1>5, SameService DEF IInv
<1>7. \A p : p \in PendingPairs' <=> p \in PendingPairs
  <2>1. \A p : InQueue(p)' <=> InQueue(p)
    BY <1>1 DEF InQueue, service, Queue
  <2>2. \A p : p \notin ToSet(messages[1])
    BY <1>3 DEF ToSet
  <2>3. ASSUME NEW m \in DOMAIN messages
        PROVE  m = 1 \/ (m - 1 \in DOMAIN messages' /\ messages'[m - 1] = messages[m])
    <3>1. CASE m # 1
      <4>1. m - 1 \in 1 .. Len(messages) - 1 /\ (m - 1) + 1 = m
        BY <1>3, <3>1
      <4>2. QED
        BY <1>3, <4>1
    <3>2. QED
      BY <3>1
  <2>4. \A m \in DOMAIN messages' : m + 1 \in DOMAIN messages /\ messages'[m] = messages[m + 1]
    BY <1>3
  <2>5. \A p : InMessages(p)' <=> InMessages(p)
    BY <2>2, <2>3, <2>4 DEF InMessages
  <2>6. QED
    BY <2>1, <2>5, PendingIs
<1>8. PostingInv'
  BY <1>1, <1>7, SamePostings DEF IInv, client, service
<1>9. LoopInv' /\ ResultInv'
  BY <1>1, IdleLoop DEF IInv
<1>10. QED
  BY <1>1, <1>4, <1>6, <1>8, <1>9, SameSource DEF IInv

\* A batch and what is left of the pairs are the pairs.
LEMMA SendBatchIInv ==
    ASSUME IInv, SendBatch
    PROVE  IInv'
<1> DEFINE pairs == Head(messages)
           n == Len(pairs)
           size == IF n < MaxBatchUpdate THEN n ELSE MaxBatchUpdate
           batch == SubSeq(pairs, 1, size)
           left == SubSeq(pairs, size + 1, n)
           q == Storage!AddRequest(batch)
<1>1. /\ pc = "update" /\ pc' = pc /\ messages # <<>> /\ source' = source
      /\ Storage!Send("client", q) /\ messages' = [messages EXCEPT ![1] = left]
      /\ UNCHANGED <<client, search, texts>>
  BY DEF SendBatch
<1>2. /\ messages \in Seq(Seq(Storage!Pairs)) /\ Len(messages) \in Nat \ {0}
      /\ DOMAIN messages = 1 .. Len(messages) /\ pairs = messages[1]
      /\ \A m \in 1 .. Len(messages) : messages[m] \in Seq(Storage!Pairs)
  BY <1>1, MessagesIs DEF IInv
<1>3. 1 \in DOMAIN messages /\ pairs \in Seq(Storage!Pairs) /\ n \in Nat /\ DOMAIN pairs = 1 .. n
  BY <1>2, LenProperties
<1> HIDE DEF pairs
<1>4. size \in 0 .. n
  BY <1>3, ConstantTypes
<1> HIDE DEF size
<1>5. 1 \in 1 .. n + 1 /\ size + 1 \in 1 .. n + 1 /\ n \in 0 .. n
  BY <1>3, <1>4
<1>6. /\ batch \in Seq(Storage!Pairs) /\ Len(batch) = size
      /\ \A k \in 1 .. size : batch[k] = pairs[k]
  BY <1>3, <1>4, <1>5, PartIs
<1>7. /\ left \in Seq(Storage!Pairs) /\ Len(left) = n - size
      /\ \A k \in 1 .. n - size : left[k] = pairs[size + k]
  <2>1. /\ left \in Seq(Storage!Pairs) /\ Len(left) = IF size + 1 <= n THEN n - (size + 1) + 1 ELSE 0
        /\ \A k \in 1 .. n - (size + 1) + 1 : left[k] = pairs[size + 1 + k - 1]
    BY <1>3, <1>5, PartIs
  <2> HIDE DEF left, n
  <2>2. n - (size + 1) + 1 = n - size /\ \A k \in Nat : size + 1 + k - 1 = size + k
    BY <1>3, <1>4
  <2>3. QED
    BY <1>3, <1>4, <2>1, <2>2
<1> HIDE DEF batch, left, n
<1>8. DOMAIN batch = 1 .. size /\ DOMAIN left = 1 .. n - size
  BY <1>6, <1>7, LenProperties
<1>9. \A p : p \in ToSet(pairs) <=> p \in ToSet(batch) \/ p \in ToSet(left)
  <2>1. \A k \in 1 .. n : k \in 1 .. size \/ (k - size \in 1 .. n - size /\ size + (k - size) = k)
    BY <1>3, <1>4
  <2>2. \A k \in 1 .. size : k \in 1 .. n
    BY <1>3, <1>4
  <2>3. \A k \in 1 .. n - size : size + k \in 1 .. n
    BY <1>3, <1>4
  <2>4. \A k \in 1 .. n : pairs[k] \in ToSet(batch) \/ pairs[k] \in ToSet(left)
    <3>1. SUFFICES ASSUME NEW k \in 1 .. n, k \notin 1 .. size PROVE pairs[k] \in ToSet(left)
      BY <1>6, <1>8 DEF ToSet
    <3>2. k - size \in DOMAIN left /\ left[k - size] = pairs[k]
      BY <1>7, <1>8, <2>1, <3>1
    <3>3. QED
      BY <3>2 DEF ToSet
  <2>5. (\A k \in 1 .. size : batch[k] \in ToSet(pairs)) /\ \A k \in 1 .. n - size : left[k] \in ToSet(pairs)
    BY <1>3, <1>6, <1>7, <2>2, <2>3 DEF ToSet, n
  <2>6. QED
    BY <1>3, <1>8, <2>4, <2>5 DEF ToSet
<1>10. q \in Storage!Request /\ q.op = "add" /\ q.pairs = batch
  BY <1>6, RequestIs
<1> HIDE DEF q
<1>11. Storage!TypeOK
  BY DEF IInv, TypeOK
<1>12. Storage!TypeOK'
  BY <1>1, <1>10, <1>11, SendIs
<1>13. /\ messages' \in Seq(Seq(Storage!Pairs)) /\ DOMAIN messages' = DOMAIN messages
       /\ messages'[1] = left /\ \A m \in DOMAIN messages : m # 1 => messages'[m] = messages[m]
  <2> DEFINE P == Seq(Storage!Pairs)
  <2>1. left \in P /\ messages \in Seq(P) /\ 1 \in 1 .. Len(messages)
    BY <1>2, <1>7
  <2> HIDE DEF P
  <2>2. messages' \in Seq(P)
    BY <1>1, <2>1, ExceptSeq
  <2>3. QED
    BY <1>1, <1>3, <2>2 DEF P
<1>14. TypeOK'
  BY <1>1, <1>12, <1>13 DEF IInv, TypeOK, client, search
<1>15. ServableInv'
  <2>1. Servable(q, Len(Queue) + 1)
    BY <1>10 DEF Servable
  <2>2. QED
    BY <1>1, <1>10, <1>11, <2>1, SendServable DEF IInv
<1>16. AnswerInv'
  BY <1>1, <1>10, <1>11, SendAnswer DEF IInv
<1>17. \A p : p \in PendingPairs' <=> p \in PendingPairs
  <2>1. \A p : InQueue(p)' <=> InQueue(p) \/ p \in ToSet(batch)
    BY <1>1, <1>10, <1>11, SendPending
  <2>2. \A p : InMessages(p)' \/ p \in ToSet(batch) <=> InMessages(p)
    BY <1>2, <1>3, <1>9, <1>13 DEF InMessages
  <2>3. QED
    BY <2>1, <2>2, PendingIs
<1>18. PostingInv'
  <2>1. UNCHANGED I
    BY <1>1, <1>10, <1>11, SendIs
  <2>2. QED
    BY <1>1, <1>17, <2>1, SamePostings DEF IInv, client
<1>19. LoopInv' /\ ResultInv'
  BY <1>1, IdleLoop DEF IInv
<1>20. QED
  BY <1>1, <1>14, <1>15, <1>16, <1>18, <1>19, SameSource DEF IInv

\* A new document has its posting for each of its words in a message, under a label that
\* is counted from now on.
LEMMA UpdateIInv ==
    ASSUME IInv, NEW file \in Files, NEW documents \in Seq(Document), Update(file, documents),
           documents \in {<<Analyzer!extractUniqueKeywords(file)>>, Analyzer!extractUniqueKeywords_wiki(file)}
    PROVE  IInv'
<1> DEFINE N == Len(documents)
<1>1. /\ pc = "idle" /\ pc' = "update" /\ nDocs + N <= MaxDocs
      /\ source' = [file |-> file, first |-> nDocs]
      /\ messages' = [k \in DOMAIN documents |-> PairsOf(documents, k)]
      /\ W' = [w \in Words |-> W[w] + Cardinality(With(documents, w))]
      /\ nDocs' = nDocs + N /\ texts' = texts \o documents
      /\ UNCHANGED <<service, search>>
  BY DEF Update, With
<1>2. N \in Nat /\ DOMAIN documents = 1 .. N /\ \A k \in 1 .. N : documents[k] \in Document
  BY LenProperties, ElementOfSeq
<1>3. TypeOK /\ PostingInv /\ nDocs \in Nat /\ nDocs = Len(texts) /\ texts \in Seq(Document)
      /\ \A w \in Words : W[w] \in Nat /\ W[w] <= nDocs
  BY ConstantTypes DEF IInv, TypeOK, PostingInv
<1>4. ASSUME NEW k \in 1 .. N
      PROVE  /\ PairsOf(documents, k) \in Seq(Storage!Pairs)
             /\ ToSet(PairsOf(documents, k)) =
                   {NewPair(documents, w, k) : w \in {v \in Words : documents[k][v] > 0}}
  BY <1>1, <1>2, <1>3, PairsOfIs
<1>5. ASSUME NEW w \in Words
      PROVE  /\ With(documents, w) \in SUBSET (1 .. N)
             /\ Cardinality(With(documents, w)) \in 0 .. N
             /\ \A k \in With(documents, w) :
                   Cardinality(With(documents, w) \cap (1 .. k - 1))
                       \in 0 .. Cardinality(With(documents, w)) - 1
             /\ \A m \in 0 .. Cardinality(With(documents, w)) - 1 : \E k \in With(documents, w) :
                   Cardinality(With(documents, w) \cap (1 .. k - 1)) = m
  <2>1. With(documents, w) \in SUBSET (1 .. N)
    BY <1>2 DEF With
  <2> HIDE DEF N
  <2>2. QED
    BY <1>2, <2>1, RankIs
<1> HIDE DEF N
<1>6. \A w \in Words : W'[w] = W[w] + Cardinality(With(documents, w)) /\ W'[w] \in Nat
                       /\ W[w] <= W'[w] /\ W'[w] <= nDocs'
  BY <1>1, <1>2, <1>3, <1>5
<1>7. TypeOK'
  <2>1. Storage!TypeOK'
    BY <1>1, <1>3 DEF TypeOK, Storage!TypeOK, service
  <2>2. nDocs' \in 0 .. MaxDocs /\ nDocs \in 0 .. MaxDocs
    BY <1>1, <1>2, <1>3, ConstantTypes
  <2>3. W' \in [Words -> 0 .. MaxDocs]
    <3>1. \A w \in Words : W'[w] \in 0 .. MaxDocs
      BY <1>6, <2>2, ConstantTypes
    <3>2. W' = [w \in Words |-> W'[w]]
      BY <1>1
    <3>3. QED
      BY <3>1, <3>2
  <2>4. messages' \in Seq(Seq(Storage!Pairs))
    <3> DEFINE P == Seq(Storage!Pairs)
    <3>1. messages' \in [1 .. N -> P]
      BY <1>1, <1>2, <1>4
    <3> HIDE DEF P
    <3>2. messages' \in Seq(P)
      BY <1>2, <3>1, IsASeq
    <3>3. QED
      BY <3>2 DEF P
  <2>5. texts' \in Seq(Document)
    BY <1>1, <1>3, ConcatProperties
  <2>6. source' \in [file : Files, first : 0 .. MaxDocs]
    BY <1>1, <2>2
  <2>7. QED
    BY <1>1, <1>3, <2>1, <2>2, <2>3, <2>4, <2>5, <2>6 DEF TypeOK, search
<1>8. Batch' = Batch
  BY <1>1 DEF Batch, search
<1>9. ServableInv' /\ AnswerInv'
  BY <1>1, <1>8, SameService DEF IInv
<1>10. /\ nDocs' = Len(texts')
       /\ \A d \in 0 .. nDocs - 1 : texts'[d + 1] = texts[d + 1]
       /\ \A k \in 1 .. N : texts'[nDocs + k] = documents[k]
  <2>1. /\ Len(texts') = nDocs + N
        /\ \A i \in 1 .. nDocs + N : texts'[i] = IF i <= nDocs THEN texts[i] ELSE documents[i - nDocs]
    BY <1>1, <1>3, ConcatProperties DEF N
  <2>2. \A d \in 0 .. nDocs - 1 : d + 1 \in 1 .. nDocs + N /\ d + 1 <= nDocs
    BY <1>2, <1>3
  <2>3. \A k \in 1 .. N : nDocs + k \in 1 .. nDocs + N /\ ~(nDocs + k <= nDocs) /\ (nDocs + k) - nDocs = k
    BY <1>2, <1>3
  <2>4. QED
    BY <1>1, <2>1, <2>2, <2>3
<1>11. ASSUME NEW l, NEW v, Right(l, v) PROVE Right(l, v)'
  <2>1. PICK d \in 0 .. nDocs - 1 : /\ texts[d + 1][l[1]] > 0 /\ v = <<l, d, texts[d + 1][l[1]]>>
                                    /\ Cardinality(Having(l[1], d)) = l[2]
    BY <1>11 DEF Right, Having
  <2>2. d \in 0 .. nDocs' - 1 /\ texts'[d + 1] = texts[d + 1]
    BY <1>1, <1>2, <1>3, <1>10
  <2>3. Having(l[1], d)' = Having(l[1], d)
    <3>1. \A e \in 0 .. d - 1 : e \in 0 .. nDocs - 1
      BY <1>3
    <3>2. QED
      BY <1>10, <3>1 DEF Having
  <2>4. QED
    BY <2>1, <2>2, <2>3 DEF Right, Having
<1>12. CountedLabels \subseteq CountedLabels'
  <2>1. \A l \in Labels : l[1] \in Words /\ l[2] \in Nat
    BY DEF Labels, Docs
  <2>2. QED
    BY <1>3, <1>6, <2>1 DEF CountedLabels
<1>13. \A p : (InQueue(p)' <=> InQueue(p)) /\ ~InMessages(p)
  BY <1>1 DEF InQueue, InMessages, service, Queue, IInv, LoopInv
<1>14. ASSUME NEW w \in Words, NEW j \in 0 .. N, NEW m, m = nDocs + j
       PROVE  Cardinality(Having(w, m))' = W[w] + Cardinality(With(documents, w) \cap (1 .. j))
  <2> DEFINE S == With(documents, w)
  <2>1. PICK t, n : t = texts' /\ n = nDocs
    OBVIOUS
  <2>2. Having(w, n) = HavingOf(t, w, n) /\ Having(w, m)' = HavingOf(t, w, m)
    BY <1>10, <2>1 DEF Having, HavingOf
  <2>3. W[w] = Cardinality(HavingOf(t, w, n)) /\ W[w] \in Nat /\ n \in Nat
    BY <1>3, <2>2, <2>1 DEF PostingInv
  <2>4. \A k \in 1 .. N : t[n + k] = documents[k]
    BY <1>10, <2>1
  <2>5. Follow(t, n, documents, N, w, S)
    BY <1>2, <2>4 DEF With, Follow
  <2>6. N \in Nat /\ m = n + j
    BY <1>2, <1>14, <2>1
  <2> HIDE DEF S
  <2>7. Cardinality(HavingOf(t, w, m)) = Cardinality(HavingOf(t, w, n)) + Cardinality(S \cap (1 .. j))
    <3>1. Cardinality(HavingOf(t, w, n)) \in Nat
      BY <2>3
    <3>2. CountsOn(t, w, n, S, j)
      BY <2>3, <2>5, <2>6, <3>1, HavingMore
    <3>3. QED
      BY <2>6, <3>2 DEF CountsOn
  <2>8. QED
    BY <2>2, <2>3, <2>7 DEF S
<1>15. ASSUME NEW w \in Words, NEW k \in With(documents, w)
       PROVE  /\ NewLabel(documents, w, k) \in CountedLabels'
              /\ NewPair(documents, w, k).label = NewLabel(documents, w, k)
              /\ \A p : p = NewPair(documents, w, k) => Right(p.label, p.value)'
  <2>1. NewLabel(documents, w, k) \in Labels
    BY <1>1, <1>3, NewLabelIs DEF N
  <2>2. k \in 1 .. N /\ documents[k][w] > 0
    BY <1>2 DEF With
  <2> DEFINE rank == Cardinality(With(documents, w) \cap (1 .. k - 1))
  <2>3. rank \in 0 .. Cardinality(With(documents, w)) - 1 /\ Cardinality(With(documents, w)) \in Nat
    BY <1>2, <1>5
  <2>4. NewLabel(documents, w, k) = <<w, W[w] + rank>>
    BY DEF NewLabel
  <2>5. ASSUME NEW m, m = nDocs + k - 1 PROVE Cardinality(Having(w, m))' = W[w] + rank
    <3>1. k - 1 \in 0 .. N /\ m = nDocs + (k - 1)
      BY <1>2, <1>3, <2>2, <2>5
    <3>2. QED
      BY <1>14, <3>1
  <2> HIDE DEF rank
  <2>6. W[w] + rank < W'[w]
    BY <1>3, <1>6, <2>3
  <2>7. NewLabel(documents, w, k) \in CountedLabels'
    BY <2>1, <2>4, <2>6 DEF CountedLabels
  <2>8. NewPair(documents, w, k).value = <<NewLabel(documents, w, k), nDocs + k - 1, documents[k][w]>>
    BY DEF NewPair
  <2>9. nDocs + k - 1 \in 0 .. nDocs' - 1 /\ (nDocs + k - 1) + 1 = nDocs + k
    <3>1. nDocs' = nDocs + N /\ nDocs \in Nat /\ N \in Nat /\ k \in 1 .. N
      BY <1>1, <1>2, <1>3, <2>2
    <3>2. QED
      BY ONLY <3>1
  <2>10. texts'[(nDocs + k - 1) + 1] = documents[k]
    BY <1>10, <2>2, <2>9
  <2>11. NewPair(documents, w, k).label = NewLabel(documents, w, k)
    BY DEF NewPair
  <2>12. ASSUME NEW p, p = NewPair(documents, w, k)
         PROVE  Right(p.label, p.value)'
    <3>1. PICK d \in 0 .. nDocs' - 1 : d = nDocs + k - 1 /\ texts'[d + 1] = documents[k]
      BY <2>9, <2>10
    <3>2. p.label = <<w, W[w] + rank>> /\ p.value = <<p.label, d, documents[k][w]>>
      BY <2>4, <2>8, <2>11, <2>12, <3>1
    <3>3. Cardinality(Having(w, d))' = W[w] + rank
      BY <2>5, <3>1
    <3>4. p.label[1] = w /\ p.label[2] = W[w] + rank
      BY <3>2
    <3>5. d \in Having(w, nDocs)'
      BY <2>2, <3>1 DEF Having
    <3>6. QED
      BY <3>1, <3>2, <3>3, <3>4, <3>5 DEF Right
  <2>13. QED
    BY <2>7, <2>11, <2>12
<1>16. ASSUME NEW p
       PROVE  InMessages(p)' <=> \E w \in Words : \E k \in With(documents, w) : p = NewPair(documents, w, k)
  <2>1. InMessages(p)' <=> \E k \in 1 .. N : p \in ToSet(PairsOf(documents, k))
    BY <1>1, <1>2 DEF InMessages
  <2>2. \A k \in 1 .. N : p \in ToSet(PairsOf(documents, k)) <=>
            \E w \in Words : documents[k][w] > 0 /\ p = NewPair(documents, w, k)
    BY <1>4
  <2>3. QED
    BY <1>2, <2>1, <2>2 DEF With
<1>17. PostingInv'
  <2>1. ASSUME NEW p \in PendingPairs'
        PROVE  p.label \in CountedLabels' /\ Right(p.label, p.value)'
    <3>1. CASE InQueue(p)
      <4>1. p \in PendingPairs
        BY <3>1, PendingIs
      <4>2. p.label \in CountedLabels /\ Right(p.label, p.value)
        BY <1>1, <1>3, <4>1 DEF PostingInv
      <4>3. QED
        BY <1>11, <1>12, <4>2
    <3>2. CASE InMessages(p)'
      <4>1. PICK w \in Words : \E k \in With(documents, w) : p = NewPair(documents, w, k)
        BY <1>16, <3>2
      <4>2. PICK k \in With(documents, w) : p = NewPair(documents, w, k)
        BY <4>1
      <4>3. p.label = NewLabel(documents, w, k) /\ p.label \in CountedLabels'
        BY <1>15, <4>2
      <4>4. Right(p.label, p.value)'
        BY <1>15, <4>2
      <4>5. QED
        BY <4>3, <4>4
    <3>3. QED
      BY <1>13, <3>1, <3>2, PendingIs
  <2>2. ASSUME NEW l \in CountedLabels', NEW v, v = I'[l]
        PROVE  (\E p \in PendingPairs' : p.label = l) \/ Right(l, v)'
    <3>1. l \in Labels /\ l[1] \in Words /\ l[2] \in Nat /\ l = <<l[1], l[2]>>
      BY DEF CountedLabels, Labels, Docs
    <3>2. CASE l[2] < W[l[1]]
      <4>1. l \in CountedLabels
        BY <3>1, <3>2 DEF CountedLabels
      <4>2. CASE \E p \in PendingPairs : p.label = l
        <5>1. PICK p \in PendingPairs : p.label = l
          BY <4>2
        <5>2. InQueue(p)'
          BY <1>13, PendingIs
        <5>3. QED
          BY <5>1, <5>2, PendingIs
      <4>3. CASE Right(l, I[l])
        <5>1. v = I[l]
          BY <1>1, <2>2 DEF service
        <5>2. QED
          BY <1>11, <4>3, <5>1
      <4>4. QED
        BY <1>1, <1>3, <4>1, <4>2, <4>3 DEF PostingInv
    <3>3. CASE ~(l[2] < W[l[1]])
      <4> DEFINE w == l[1]
      <4>1. w \in Words /\ W[w] \in Nat /\ l[2] < W'[w] /\ Cardinality(With(documents, w)) \in Nat
        BY <1>2, <1>3, <1>5, <3>1 DEF CountedLabels
      <4>2. l[2] - W[w] \in 0 .. Cardinality(With(documents, w)) - 1
        BY <1>6, <3>1, <3>3, <4>1
      <4>3. PICK k \in With(documents, w) :
                Cardinality(With(documents, w) \cap (1 .. k - 1)) = l[2] - W[w]
        BY <1>5, <4>1, <4>2
      <4>4. NewLabel(documents, w, k) = <<w, W[w] + (l[2] - W[w])>>
        BY <4>3 DEF NewLabel
      <4>5. W[w] + (l[2] - W[w]) = l[2]
        BY <3>1, <4>1
      <4>6. NewLabel(documents, w, k) = l
        BY <3>1, <4>4, <4>5
      <4>7. \E p : p.label = l /\ InMessages(p)'
        <5>1. \A p : p = NewPair(documents, w, k) => InMessages(p)'
          BY <1>16, <4>1
        <5>2. NewPair(documents, w, k).label = l
          BY <1>15, <4>1, <4>6
        <5>3. QED
          BY <5>1, <5>2
      <4>8. QED
        BY <4>7, PendingIs
    <3>4. QED
      BY <3>2, <3>3
  <2>3. \A w \in Words : W'[w] <= nDocs' /\ W'[w] = Cardinality(Having(w, nDocs))'
    <3>1. \A w \in Words : With(documents, w) \cap (1 .. N) = With(documents, w)
      BY <1>5
    <3>2. N \in 0 .. N
      BY <1>2
    <3>3. \A w \in Words : \A m : m = nDocs + N => Cardinality(Having(w, m))' = W'[w]
      BY <1>6, <1>14, <3>1, <3>2
    <3>4. \A w \in Words : \A m : m = nDocs' => Cardinality(Having(w, m))' = W'[w]
      BY <1>1, <3>3
    <3>5. QED
      BY <1>6, <3>4 DEF Having
  <2>4. QED
    BY <1>10, <2>1, <2>2, <2>3, PostingNext
<1>18. LoopInv' /\ ResultInv'
  BY <1>1, IdleLoop DEF IInv
<1>19. SourceInv'
  <2>1. source'.first = nDocs /\ source'.file = file
    BY <1>1
  <2>2. \A k \in DOMAIN documents : texts'[source'.first + k] = documents[k]
    BY <1>2, <1>10, <2>1
  <2>3. source'.first + Len(documents) = Len(texts')
    BY <1>1, <1>10, <2>1 DEF N
  <2> DEFINE D == {<<Analyzer!extractUniqueKeywords(file)>>, Analyzer!extractUniqueKeywords_wiki(file)}
  <2>4. documents \in D
    OBVIOUS
  <2>5. D = {<<Analyzer!extractUniqueKeywords(source.file)>>,
             Analyzer!extractUniqueKeywords_wiki(source.file)}'
    BY <2>1
  <2> HIDE DEF D
  <2>6. source' \in [file : Files, first : 0 .. MaxDocs]
    <3>1. nDocs \in 0 .. MaxDocs
      BY <1>3 DEF TypeOK
    <3>2. QED
      BY <1>1, <3>1
  <2>7. QED
    BY <2>2, <2>3, <2>4, <2>5, <2>6 DEF SourceInv
<1>20. QED
  BY <1>7, <1>9, <1>17, <1>18, <1>19 DEF IInv

----------------------------------------------------------------------------
(* The steps of a search *)

LEMMA BatchIs ==
    ASSUME TypeOK
    PROVE  /\ Batch \in Seq((DOMAIN rpn) \X Docs) /\ Len(Batch) \in Nat
           /\ DOMAIN Batch = 1 .. Len(Batch)
           /\ label_pos + Len(Batch) \in 0 .. Len(labels)
           /\ label_pos < Len(labels) => Len(Batch) > 0
           /\ \A k \in 1 .. Len(Batch) : /\ Batch[k] = labels[label_pos + k]
                                         /\ Batch[k] \in ToSet(labels)
<1> DEFINE size == IF Len(labels) - label_pos < MaxBatchSearch THEN Len(labels) - label_pos ELSE MaxBatchSearch
<1> DEFINE S == (DOMAIN rpn) \X Docs
<1>1. labels \in Seq(S) /\ Len(labels) \in Nat /\ label_pos \in 0 .. Len(labels)
      /\ DOMAIN labels = 1 .. Len(labels) /\ MaxBatchSearch \in Nat \ {0}
  BY LenProperties, ConstantTypes DEF TypeOK
<1>2. size \in Nat /\ label_pos + size \in 0 .. Len(labels) /\ label_pos + 1 \in 1 .. Len(labels) + 1
      /\ (label_pos < Len(labels) => size > 0)
  BY <1>1
<1>3. Batch = SubSeq(labels, label_pos + 1, label_pos + size)
  BY DEF Batch
<1> HIDE DEF size, S
<1>4. /\ Batch \in Seq(S)
      /\ Len(Batch) = IF label_pos + 1 <= label_pos + size THEN label_pos + size - (label_pos + 1) + 1 ELSE 0
      /\ \A k \in 1 .. label_pos + size - (label_pos + 1) + 1 : Batch[k] = labels[label_pos + 1 + k - 1]
  BY <1>1, <1>2, <1>3, PartIs
<1>5. /\ (IF label_pos + 1 <= label_pos + size THEN label_pos + size - (label_pos + 1) + 1 ELSE 0) = size
      /\ label_pos + size - (label_pos + 1) + 1 = size
  BY <1>1, <1>2
<1>6. Len(Batch) = size
  BY <1>4, <1>5
<1>7. DOMAIN Batch = 1 .. size
  BY <1>4, <1>6, LenProperties
<1>8. \A k \in 1 .. size : /\ label_pos + 1 + k - 1 = label_pos + k
                            /\ label_pos + k \in DOMAIN labels
  BY <1>1, <1>2
<1>9. \A k \in 1 .. size : Batch[k] = labels[label_pos + k]
  BY <1>4, <1>5, <1>8
<1>10. \A k \in 1 .. size : Batch[k] \in ToSet(labels)
  BY <1>8, <1>9 DEF ToSet
<1>11. QED
  BY <1>2, <1>4, <1>6, <1>7, <1>9, <1>10 DEF S

\* A search begins with the counters of its words and with all their labels to ask for.
LEMMA SearchIIInv ==
    ASSUME IInv, NEW Q \in SUBSET Seq(Parser!Lexemes), Search(Q)
    PROVE  IInv'
<1>1. PICK text \in Q : \E notation \in {Parser!parse(text)} :
           LET count == [i \in DOMAIN notation |->
                            IF notation[i] \in Words THEN W[notation[i]] ELSE 0]
           IN  IF notation = None THEN End
               ELSE /\ pc' = "search"
                    /\ query' = text /\ rpn' = notation /\ counter' = count
                    /\ labels' = Shuffled(FlattenSeq(
                           [i \in DOMAIN notation |-> [n \in 1 .. count[i] |-> <<i, n - 1>>]]))
                    /\ docs' = [i \in DOMAIN notation |-> [n \in 1 .. count[i] |-> None]]
                    /\ Storage!Send("client", Storage!StartSearchRequest)
                    /\ UNCHANGED <<client, update, label_pos, result, answer, texts>>
  BY DEF Search
<1>2. PICK notation \in {Parser!parse(text)} :
           LET count == [i \in DOMAIN notation |->
                            IF notation[i] \in Words THEN W[notation[i]] ELSE 0]
           IN  IF notation = None THEN End
               ELSE /\ pc' = "search"
                    /\ query' = text /\ rpn' = notation /\ counter' = count
                    /\ labels' = Shuffled(FlattenSeq(
                           [i \in DOMAIN notation |-> [n \in 1 .. count[i] |-> <<i, n - 1>>]]))
                    /\ docs' = [i \in DOMAIN notation |-> [n \in 1 .. count[i] |-> None]]
                    /\ Storage!Send("client", Storage!StartSearchRequest)
                    /\ UNCHANGED <<client, update, label_pos, result, answer, texts>>
  BY <1>1
<1>3. notation \in {None} \cup Seq(Tokens) /\ text \in Seq(Parser!Lexemes)
  BY ParseIs
<1>4. pc = "idle"
  BY DEF Search
<1>5. CASE notation = None
  BY <1>2, <1>5, EndIInv
<1>6. CASE notation # None
  <2> DEFINE N == Len(notation)
             count == [i \in 1 .. N |-> IF notation[i] \in Words THEN W[notation[i]] ELSE 0]
             fresh == FlattenSeq([i \in 1 .. N |-> [n \in 1 .. count[i] |-> <<i, n - 1>>]])
  <2>1. notation \in Seq(Tokens) /\ N \in Nat /\ DOMAIN notation = 1 .. N
    BY <1>3, <1>6, LenProperties
  <2>2. /\ pc' = "search"
        /\ query' = text /\ rpn' = notation /\ counter' = count /\ labels' = Shuffled(fresh)
        /\ docs' = [i \in 1 .. N |-> [n \in 1 .. count[i] |-> None]]
        /\ Storage!Send("client", Storage!StartSearchRequest)
        /\ UNCHANGED <<client, update, label_pos, result, answer, texts>>
    BY <1>2, <1>6, <2>1
  <2>3. count \in [1 .. N -> 0 .. MaxDocs]
    <3>1. \A i \in 1 .. N : notation[i] \in Words => W[notation[i]] \in 0 .. MaxDocs
      BY DEF IInv, TypeOK
    <3>2. QED
      BY <3>1, ConstantTypes
  <2>4. Arranges(labels', AskedUpto(count, N))
    <3>1. Arranges(fresh, AskedUpto(count, N))
      BY <2>1, <2>3, LabelsArranged
    <3> HIDE DEF fresh, count
    <3>2. QED
      BY <2>2, <3>1, ShuffledArranges
  <2> HIDE DEF N, fresh
  <2>5. AskedUpto(count, N) \in SUBSET ((DOMAIN rpn') \X Docs) /\ Asked' = AskedUpto(count, N)
    BY <2>1, <2>2 DEF AskedUpto, Asked
  <2>6. /\ labels' \in Seq((DOMAIN rpn') \X Docs) /\ IsInjective(labels') /\ ToSet(labels') = Asked'
        /\ DOMAIN labels' = 1 .. Len(labels') /\ Len(labels') \in Nat
    <3> DEFINE A == AskedUpto(count, N)
               B == (DOMAIN rpn') \X Docs
    <3> HIDE DEF A, B
    <3>1. A \in SUBSET B /\ Asked' = A /\ Arranges(labels', A)
      BY <2>4, <2>5 DEF A, B
    <3>2. labels' \in Seq(A) /\ IsInjective(labels') /\ ToSet(labels') = Asked'
      BY <3>1 DEF Arranges
    <3>3. labels' \in Seq(B)
      BY <3>1, <3>2
    <3>4. QED
      BY <3>2, <3>3, LenProperties DEF B
  <2>7. label_pos' = 0 /\ answer' = <<>> /\ result' = result /\ messages' = <<>> /\ messages = <<>>
        /\ UNCHANGED <<W, nDocs, source, texts>> /\ label_pos = 0
    BY <1>4, <2>2 DEF IInv, LoopInv, Searching, client, update
  <2>8. Storage!StartSearchRequest \in Storage!Request /\ Storage!StartSearchRequest.op = "start_search"
    BY RequestIs
  <2>9. Storage!TypeOK /\ Storage!TypeOK'
    BY <2>2, <2>8, SendIs DEF IInv, TypeOK
  <2>10. docs' \in [DOMAIN rpn' -> Seq((Docs \X (1 .. MaxFrequency)) \cup {None})]
    <3> DEFINE V == (Docs \X (1 .. MaxFrequency)) \cup {None}
    <3>1. \A i \in 1 .. N : [n \in 1 .. count[i] |-> None] \in Seq(V)
      <4>1. ASSUME NEW i \in 1 .. N PROVE count[i] \in Nat
        BY <2>3, ConstantTypes
      <4>2. \A i \in 1 .. N : [n \in 1 .. count[i] |-> None] \in [1 .. count[i] -> V]
        OBVIOUS
      <4> HIDE DEF V, count
      <4>3. QED
        BY <4>1, <4>2, IsASeq
    <3> HIDE DEF V, count
    <3>2. QED
      BY <2>1, <2>2, <3>1 DEF V
  <2>11. TypeOK'
    <3>1. counter' \in [DOMAIN rpn' -> 0 .. MaxDocs]
      BY <2>1, <2>2, <2>3
    <3>2. label_pos' \in 0 .. Len(labels')
      BY <2>6, <2>7
    <3>3. answer' \in Seq(Docs)
      BY <2>7, EmptySeq
    <3> HIDE DEF count
    <3>4. QED
      BY <1>3, <2>2, <2>6, <2>7, <2>9, <2>10, <3>1, <3>2, <3>3 DEF IInv, TypeOK
  <2>12. ServableInv'
    <3>1. Servable(Storage!StartSearchRequest, Len(Queue) + 1)
      BY <2>8 DEF Servable
    <3>2. QED
      BY <2>2, <2>8, <2>9, <3>1, SendServable DEF IInv
  <2>13. AnswerInv'
    BY <1>4, <2>2, <2>8, <2>9, SendAnswer DEF IInv
  <2>14. PostingInv'
    BY <1>4, <2>2, <2>7, <2>8, <2>9, SendPostings DEF IInv
  <2>15. LoopInv'
    <3>1. \A i \in 1 .. N : docs'[i] = [n \in 1 .. count[i] |-> None]
      BY <2>2
    <3>2. \A i \in DOMAIN rpn' : DOMAIN docs'[i] = 1 .. counter'[i]
      BY <2>1, <2>2, <3>1
    <3>3. ASSUME NEW x \in Asked'
          PROVE  /\ docs'[x[1]][x[2] + 1] = None
                 /\ \E k \in label_pos' + 1 .. Len(labels') : labels'[k] = x
      <4>1. x[1] \in 1 .. N /\ x[2] \in Nat /\ count[x[1]] \in Nat /\ x[2] < count[x[1]]
        BY <2>3, <2>5, <3>3, ConstantTypes DEF AskedUpto, Docs
      <4>2. x[2] + 1 \in 1 .. count[x[1]]
        BY <4>1
      <4>3. \E k \in 1 .. Len(labels') : labels'[k] = x
        BY <2>6, <3>3 DEF ToSet
      <4>4. label_pos' + 1 = 1
        BY <2>7
      <4>5. docs'[x[1]] = [n \in 1 .. count[x[1]] |-> None]
        BY <3>1, <4>1
      <4>6. docs'[x[1]][x[2] + 1] = None
        BY <4>2, <4>5
      <4>7. QED
        BY <4>3, <4>4, <4>6
    <3>4. counter' = [i \in DOMAIN rpn' |-> IF rpn'[i] \in Words THEN W'[rpn'[i]] ELSE 0]
      BY <2>1, <2>2, <2>7
    <3>5. rpn' \in Seq(Tokens)
      BY <2>1, <2>2
    <3> HIDE DEF count
    <3>6. QED
      BY <2>2, <2>6, <2>7, <3>2, <3>3, <3>4, <3>5 DEF LoopInv, Searching
  <2>16. ResultInv'
    <3>1. \A i \in DOMAIN rpn' : \A n \in 1 .. counter'[i] : docs'[i][n] = None
      BY <2>1, <2>2
    <3>2. QED
      BY <2>2, <3>1 DEF ResultInv
  <2>17. QED
    BY <2>2, <2>11, <2>12, <2>13, <2>14, <2>15, <2>16, SameSource DEF IInv
<1>7. QED
  BY <1>5, <1>6
\* The posting of a label in a document that was sent is a value, and not None.
LEMMA RightIs ==
    ASSUME TypeOK, PostingInv, NEW l \in Labels, NEW v, Right(l, v)
    PROVE  /\ v \in Values /\ v # None /\ v[1] = l
           /\ v[2] \in Docs /\ v[3] \in 1 .. MaxFrequency
<1>1. PICK d \in 0 .. nDocs - 1 : texts[d + 1][l[1]] > 0 /\ v = <<l, d, texts[d + 1][l[1]]>>
  BY DEF Right, Having
<1>2. nDocs \in 0 .. MaxDocs /\ nDocs = Len(texts) /\ texts \in Seq(Document) /\ l[1] \in Words
      /\ MaxDocs \in Nat
  BY ConstantTypes DEF TypeOK, PostingInv, Labels
<1>3. d \in Docs /\ d + 1 \in 1 .. Len(texts)
  BY <1>2 DEF Docs
<1>4. texts[d + 1] \in Document
  BY <1>2, <1>3, ElementOfSeq
<1>5. texts[d + 1][l[1]] \in 1 .. MaxFrequency
  BY <1>1, <1>2, <1>4, ConstantTypes DEF Document
<1>6. QED
  BY <1>1, <1>3, <1>5, ConstantTypes DEF Values

\* Between two updates, a counted label has a value when all requests are served.
LEMMA CountedFound ==
    ASSUME TypeOK, PostingInv, pc # "off", messages = <<>>, NEW l \in CountedLabels
    PROVE  FoundAt(l, Len(Queue) + 1)
<1>1. l \in Labels
  BY DEF CountedLabels
<1>2. DOMAIN Queue = 1 .. Len(Queue) /\ Len(Queue) \in Nat /\ (Len(Queue) + 1) - 1 = Len(Queue)
  BY QueueIs DEF TypeOK
<1>3. CASE \E p \in PendingPairs : p.label = l
  <2>1. PICK p \in PendingPairs : p.label = l
    BY <1>3
  <2>2. ~InMessages(p)
    BY DEF InMessages
  <2>3. InQueue(p)
    BY <2>1, <2>2, PendingIs
  <2>4. QED
    BY <1>2, <2>1, <2>3 DEF InQueue, FoundAt, ToSet
<1>4. CASE Right(l, I[l])
  BY <1>1, <1>4, RightIs DEF FoundAt
<1>5. QED
  BY <1>3, <1>4 DEF PostingInv

\* A label that a search asks for is a counted one.
LEMMA AskedIs ==
    ASSUME TypeOK, LoopInv, Searching, NEW x \in Asked
    PROVE  /\ x[1] \in DOMAIN rpn /\ x[2] \in Nat /\ x = <<x[1], x[2]>>
           /\ x[2] + 1 \in 1 .. counter[x[1]] /\ counter[x[1]] \in Nat
           /\ LabelOf(x) \in CountedLabels /\ LabelOf(x) \in Labels
<1>1. x[1] \in DOMAIN rpn /\ x[2] \in Docs /\ x[2] \in Nat /\ x = <<x[1], x[2]>> /\ x[2] < counter[x[1]]
  BY DEF Asked, Docs
<1>2. counter[x[1]] \in Nat /\ \A w \in Words : W[w] \in Nat
  BY <1>1, ConstantTypes DEF TypeOK
<1>3. rpn[x[1]] \in Words /\ counter[x[1]] = W[rpn[x[1]]]
  BY <1>1, <1>2 DEF LoopInv
<1>4. QED
  BY <1>1, <1>2, <1>3 DEF LabelOf, CountedLabels, Labels

\* The labels of a batch, in the storage's terms.
LEMMA RequestedIs ==
    ASSUME TypeOK, LoopInv, Searching
    PROVE  /\ RequestedLabels \in Seq(Labels) /\ DOMAIN RequestedLabels = 1 .. Len(Batch)
           /\ \A k \in 1 .. Len(Batch) : /\ Batch[k] \in Asked
                                         /\ RequestedLabels[k] = LabelOf(Batch[k])
                                         /\ RequestedLabels[k] \in CountedLabels
<1>1. Len(Batch) \in Nat /\ DOMAIN Batch = 1 .. Len(Batch)
      /\ \A k \in 1 .. Len(Batch) : Batch[k] \in Asked
  BY BatchIs DEF LoopInv
<1>2. \A k \in 1 .. Len(Batch) : LabelOf(Batch[k]) \in CountedLabels /\ LabelOf(Batch[k]) \in Labels
  BY <1>1, AskedIs
<1>3. RequestedLabels \in [1 .. Len(Batch) -> Labels]
  BY <1>1, <1>2 DEF RequestedLabels
<1>4. RequestedLabels \in Seq(Labels)
  BY <1>1, <1>3, IsASeq
<1>5. QED
  BY <1>1, <1>2, <1>3, <1>4 DEF RequestedLabels

\* A batch is asked for: the storage will have all its labels.
LEMMA RequestBatchIInv ==
    ASSUME IInv, RequestBatch
    PROVE  IInv'
<1> DEFINE q == Storage!SearchRequest(RequestedLabels)
<1>1. /\ pc = "search" /\ pc' = "await" /\ label_pos < Len(labels)
      /\ Storage!Send("client", q)
      /\ UNCHANGED <<client, update, search, texts>>
  BY DEF RequestBatch, RequestedLabels
<1>2. Searching /\ Searching' /\ messages = <<>> /\ messages' = <<>>
  BY <1>1 DEF Searching, IInv, LoopInv, update
<1>3. /\ RequestedLabels \in Seq(Labels) /\ DOMAIN RequestedLabels = 1 .. Len(Batch)
      /\ \A k \in 1 .. Len(Batch) : RequestedLabels[k] \in CountedLabels
  BY <1>2, RequestedIs DEF IInv
<1>4. q \in Storage!Request /\ q.op = "search" /\ q.labels = RequestedLabels
  BY <1>3, RequestIs
<1> HIDE DEF q
<1>5. Storage!TypeOK /\ Storage!TypeOK'
  BY <1>1, <1>4, SendIs DEF IInv, TypeOK
<1>6. TypeOK'
  BY <1>1, <1>5, LocalTypes DEF IInv
<1>7. RecordedAt(Len(Queue) + 1) /\ Replies = <<>> /\ NoSearch(Len(Queue)) /\ Len(Queue) \in Nat
  BY <1>1, <1>5, QueueIs DEF IInv, AnswerInv
<1>8. ServableInv'
  <2>1. \A k \in DOMAIN q.labels : FoundAt(q.labels[k], Len(Queue) + 1)
    BY <1>1, <1>2, <1>3, <1>4, CountedFound DEF IInv
  <2>2. Servable(q, Len(Queue) + 1)
    BY <1>4, <1>7, <2>1 DEF Servable
  <2>3. QED
    BY <1>1, <1>4, <1>5, <2>2, SendServable DEF IInv
<1>9. RequestedLabels' = RequestedLabels
  BY <1>1 DEF RequestedLabels, Batch, LabelOf, search
<1>10. AnswerInv'
  <2>1. /\ Len(Queue') = Len(Queue) + 1 /\ Queue'[Len(Queue) + 1] = q
        /\ \A m \in 1 .. Len(Queue) : Queue'[m] = Queue[m]
        /\ Replies' = <<>> /\ DOMAIN Queue' = 1 .. Len(Queue) + 1
    BY <1>1, <1>4, <1>5, <1>7, SendIs DEF Replies
  <2>2. NoSearch(Len(Queue) - 1)'
    BY <1>7, <2>1 DEF NoSearch
  <2>3. Queue' # <<>> /\ Queue'[Len(Queue')] = Storage!SearchRequest(RequestedLabels')
    BY <1>7, <1>9, <2>1 DEF q
  <2>4. RecordedAt(Len(Queue) + 1)'
    <3>1. Len(Queue) + 1 \in 1 .. Len(Queue) + 1
      BY <1>7
    <3>2. \A m : m = Len(Queue) + 1 => (RecordedAt(m)' <=> RecordedAt(m))
      BY <1>1, <1>4, <1>5, <3>1, SendAhead
    <3>3. \A m : m = Len(Queue) + 1 => RecordedAt(m)'
      BY <1>7, <3>2
    <3>4. \A m : m = Len(Queue) + 1 => RecordedAt(m + 1)'
      <4>1. SUFFICES ASSUME NEW m, m = Len(Queue) + 1 PROVE RecordedAt(m + 1)'
        OBVIOUS
      <4>2. Queue'[m].op # "dump_bench" /\ m \in Nat /\ (m + 1) - 1 = m
        BY <1>4, <1>7, <2>1, <4>1
      <4>3. \A j : NoDump(j, m - 1)' => NoDump(j, m)'
        <5>1. ASSUME NEW j, NoDump(j, m - 1)', NEW i \in j .. m PROVE Queue'[i].op # "dump_bench"
          <6>1. CASE i = m
            BY <4>2, <6>1
          <6>2. CASE i # m
            BY <4>2, <5>1, <6>2 DEF NoDump
          <6>3. QED
            BY <6>1, <6>2
        <5>2. QED
          BY <5>1 DEF NoDump
      <4>4. RecordedAt(m)'
        BY <3>3, <4>1
      <4>5. \A j \in 1 .. m - 1 : j \in 1 .. m
        BY <4>2
      <4>6. QED
        BY <4>2, <4>3, <4>4, <4>5 DEF RecordedAt
    <3>5. QED
      BY <2>1, <3>4 DEF RecordedAt, NoDump
  <2>5. QED
    BY <1>1, <2>1, <2>2, <2>3, <2>4 DEF AnswerInv
<1>11. PostingInv'
  BY <1>1, <1>4, <1>5, SendPostings DEF IInv, client, update
<1>12. LoopInv'
  BY <1>1, <1>2 DEF IInv, LoopInv, Searching, search, client, update, Asked
<1>13. ResultInv'
  <2>1. \A l, v : Right(l, v) => Right(l, v)'
    BY <1>1, SameRight DEF client
  <2>2. pc' # "answer" /\ UNCHANGED <<rpn, counter, docs>>
    BY <1>1 DEF search
  <2>3. QED
    BY <1>2, <2>1, <2>2, ResultNext DEF IInv, ResultInv
<1>14. QED
  BY <1>1, <1>6, <1>8, <1>10, <1>11, <1>12, <1>13, SameSource DEF IInv

\* The answer to a batch: the k-th value is a right posting of the k-th label, and what is
\* left to be asked for is what has not been answered.
LEMMA ReceiveBatchIInv ==
    ASSUME IInv, ReceiveBatch
    PROVE  IInv'
<1> DEFINE values == Head(Replies)
           At(i, n) == {k \in DOMAIN Batch : Batch[k] = <<i, n - 1>>}
           Posting(i, n) == LET v == values[CHOOSE k \in At(i, n) : TRUE] IN <<v[2], v[3]>>
           V == Docs \X (1 .. MaxFrequency)
<1>1. /\ pc = "await" /\ pc' = "search" /\ Replies # <<>>
      /\ replies' = [replies EXCEPT !["client"] = Tail(@)]
      /\ UNCHANGED <<requests, I, recorded, running>>
      /\ UNCHANGED <<client, update, query, rpn, counter, labels, result, answer, texts>>
      /\ label_pos' = label_pos + Len(Batch)
  BY DEF ReceiveBatch, Storage!Receive, Replies
<1>2. docs' = [i \in DOMAIN docs |-> [n \in DOMAIN docs[i] |->
                  IF At(i, n) = {} THEN docs[i][n] ELSE Posting(i, n)]]
  BY DEF ReceiveBatch, Replies
<1>3. Searching /\ Searching' /\ messages = <<>> /\ messages' = <<>>
  BY <1>1 DEF Searching, IInv, LoopInv, update
<1>4. /\ Queue = <<>>
      /\ Replies = <<[k \in DOMAIN Batch |-> I[LabelOf(Batch[k])]]>>
  BY <1>1 DEF IInv, AnswerInv
<1>5. values = [k \in DOMAIN Batch |-> I[LabelOf(Batch[k])]]
  BY <1>4
<1>6. /\ Len(Batch) \in Nat /\ DOMAIN Batch = 1 .. Len(Batch)
      /\ label_pos \in Nat /\ Len(labels) \in Nat /\ DOMAIN labels = 1 .. Len(labels)
      /\ label_pos + Len(Batch) \in 0 .. Len(labels)
      /\ \A k \in 1 .. Len(Batch) : Batch[k] = labels[label_pos + k]
  BY BatchIs, LenProperties DEF IInv, TypeOK
<1>7. \A p : p \notin PendingPairs
  <2>1. \A p : ~InQueue(p) /\ ~InMessages(p)
    BY <1>3, <1>4 DEF InQueue, InMessages
  <2>2. QED
    BY <2>1, PendingIs
<1>8. \A l \in CountedLabels : l \in Labels /\ Right(l, I[l])
  BY <1>1, <1>7 DEF IInv, PostingInv, CountedLabels
<1>9. ASSUME NEW i, NEW n, At(i, n) # {}
      PROVE  /\ Posting(i, n) \in V /\ Posting(i, n) # None
             /\ Right(<<rpn[i], n - 1>>, <<<<rpn[i], n - 1>>, Posting(i, n)[1], Posting(i, n)[2]>>)
             /\ \E j \in 1 .. Len(Batch) : labels[label_pos + j] = <<i, n - 1>>
  <2>1. PICK k \in 1 .. Len(Batch) : k = (CHOOSE h \in At(i, n) : TRUE) /\ Batch[k] = <<i, n - 1>>
    BY <1>6, <1>9
  <2>2. LabelOf(Batch[k]) \in CountedLabels
    BY <1>3, RequestedIs DEF IInv
  <2>3. LabelOf(Batch[k]) = <<rpn[i], n - 1>>
    BY <2>1 DEF LabelOf
  <2> DEFINE l == <<rpn[i], n - 1>>
             v == I[l]
  <2>4. values[k] = v
    BY <1>5, <1>6, <2>3
  <2>5. l \in Labels /\ Right(l, v)
    BY <1>8, <2>2, <2>3
  <2>6. Posting(i, n) = <<v[2], v[3]>>
    BY <2>1, <2>4
  <2>7. \E d, f : v = <<l, d, f>>
    BY <2>5 DEF Right
  <2> HIDE DEF l, v, values, At, Posting
  <2>8. v[2] \in Docs /\ v[3] \in 1 .. MaxFrequency
    BY <2>5, RightIs DEF IInv
  <2>9. v = <<l, Posting(i, n)[1], Posting(i, n)[2]>>
    BY <2>6, <2>7
  <2>10. Posting(i, n) \in V /\ Posting(i, n) # None
    BY <2>6, <2>8, ConstantTypes
  <2>11. Right(<<rpn[i], n - 1>>, <<<<rpn[i], n - 1>>, Posting(i, n)[1], Posting(i, n)[2]>>)
    BY <2>5, <2>9 DEF l
  <2>12. QED
    BY <1>6, <2>1, <2>10, <2>11
<1> HIDE DEF values, Posting
<1>10. /\ DOMAIN docs = DOMAIN rpn /\ DOMAIN docs' = DOMAIN rpn
       /\ \A i \in DOMAIN rpn : /\ DOMAIN docs[i] = 1 .. counter[i] /\ DOMAIN docs'[i] = 1 .. counter[i]
                                /\ counter[i] \in Nat /\ docs[i] \in Seq(V \cup {None})
  <2>1. docs \in [DOMAIN rpn -> Seq(V \cup {None})] /\ counter \in [DOMAIN rpn -> 0 .. MaxDocs]
    BY DEF IInv, TypeOK
  <2>2. \A i \in DOMAIN rpn : DOMAIN docs[i] = 1 .. counter[i] /\ counter[i] \in Nat
    BY <1>3, <2>1, ConstantTypes DEF IInv, LoopInv
  <2> HIDE DEF V
  <2>3. QED
    BY <1>2, <2>1, <2>2
<1>11. \A i \in DOMAIN rpn : \A n \in 1 .. counter[i] :
           docs'[i][n] = IF At(i, n) = {} THEN docs[i][n] ELSE Posting(i, n)
  BY <1>2, <1>10
<1>12. Storage!TypeOK /\ Storage!TypeOK' /\ Replies' = <<>>
  <2>1. Storage!TypeOK /\ replies \in [Connections -> Seq(Seq(Values))]
    BY DEF IInv, TypeOK, Storage!TypeOK
  <2>2. Tail(Replies) = <<>>
    <3> DEFINE A == Seq(Values)
    <3> HIDE DEF A
    <3>1. Replies \in Seq(A) /\ Replies # <<>> /\ Len(Replies) = 1
      BY <1>4, <2>1 DEF A, Replies, Connections
    <3>2. Tail(Replies) \in Seq(A) /\ Len(Tail(Replies)) = 0
      BY <3>1, HeadTailProperties
    <3>3. QED
      BY <3>2, EmptySeq
  <2>3. replies' = [replies EXCEPT !["client"] = <<>>] /\ "client" \in Connections
    BY <1>1, <2>2 DEF Replies, Connections
  <2> DEFINE A == Seq(Seq(Values))
  <2>4. <<>> \in A
    BY EmptySeq
  <2> HIDE DEF A
  <2>5. replies' \in [Connections -> A] /\ Replies' = <<>>
    BY <2>1, <2>3, <2>4 DEF A, Replies
  <2>6. QED
    BY <1>1, <2>1, <2>5 DEF Storage!TypeOK, A
<1>13. TypeOK'
  <2>1. docs' \in [DOMAIN rpn -> Seq(V \cup {None})]
    <3>1. ASSUME NEW i \in DOMAIN rpn PROVE docs'[i] \in Seq(V \cup {None})
      <4>1. \A n \in 1 .. counter[i] : docs[i][n] \in V \cup {None}
        BY <1>10, ElementOfSeq, LenProperties
      <4>2. \A n \in 1 .. counter[i] : docs'[i][n] \in V \cup {None}
        <5>1. \A n : At(i, n) # {} => Posting(i, n) \in V
          BY <1>9
        <5> HIDE DEF V, At
        <5>2. QED
          BY <1>11, <4>1, <5>1
      <4>3. docs'[i] = [n \in 1 .. counter[i] |-> docs'[i][n]]
        BY <1>2, <1>10
      <4> HIDE DEF V, At
      <4>4. docs'[i] \in [1 .. counter[i] -> V \cup {None}]
        BY <4>2, <4>3
      <4>5. QED
        BY <1>10, <4>4, IsASeq
    <3> HIDE DEF V
    <3>2. QED
      BY <1>2, <1>10, <3>1
  <2>2. label_pos' \in 0 .. Len(labels')
    BY <1>1, <1>6
  <2> HIDE DEF At
  <2>3. QED
    BY <1>1, <1>12, <2>1, <2>2 DEF IInv, TypeOK, client, update
<1>14. ServableInv'
  BY <1>1 DEF IInv, ServableInv, Servable, RecordedAt, FoundAt, NoDump, Queue
<1>15. AnswerInv'
  <2>1. Queue' = <<>> /\ Len(Queue') = 0
    BY <1>1, <1>4 DEF Queue
  <2>2. NoSearch(Len(Queue))'
    BY <2>1 DEF NoSearch
  <2>3. RecordedAt(Len(Queue) + 1)'
    BY <1>1 DEF IInv, AnswerInv, RecordedAt, NoDump, Queue
  <2>4. QED
    BY <1>1, <1>12, <2>2, <2>3 DEF AnswerInv
<1>16. PostingInv'
  <2>1. \A p : p \notin PendingPairs'
    <3>1. \A p : ~InQueue(p)' /\ ~InMessages(p)'
      BY <1>1, <1>3, <1>4 DEF InQueue, InMessages, Queue
    <3>2. QED
      BY <3>1, PendingIs
  <2>2. QED
    BY <1>1, <1>7, <2>1, SamePostings DEF IInv, client
<1>17. LoopInv'
  <2>1. ASSUME NEW x \in Asked
        PROVE  docs'[x[1]][x[2] + 1] = None <=> \E k \in label_pos' + 1 .. Len(labels') : labels'[k] = x
    <3>1. x[1] \in DOMAIN rpn /\ x[2] \in Nat /\ x = <<x[1], x[2]>> /\ x[2] + 1 \in 1 .. counter[x[1]]
      BY <1>3, AskedIs DEF IInv
    <3>2. docs[x[1]][x[2] + 1] = None <=> \E k \in label_pos + 1 .. Len(labels) : labels[k] = x
      BY <1>3 DEF IInv, LoopInv
    <3> DEFINE n == x[2] + 1
    <3>3. <<x[1], n - 1>> = x
      BY <3>1
    <3>4. docs'[x[1]][n] = IF At(x[1], n) = {} THEN docs[x[1]][n] ELSE Posting(x[1], n)
      BY <1>11, <3>1
    <3>5. At(x[1], n) = {} <=> \A j \in 1 .. Len(Batch) : labels[label_pos + j] # x
      BY <1>6, <3>3
    <3> HIDE DEF n, At
    <3>6. CASE At(x[1], n) = {}
      <4>1. ASSUME NEW k \in label_pos + 1 .. Len(labels), labels[k] = x
            PROVE  k \in label_pos' + 1 .. Len(labels')
        <5>1. CASE k <= label_pos + Len(Batch)
          <6>1. k - label_pos \in 1 .. Len(Batch) /\ label_pos + (k - label_pos) = k
            BY <1>6, <5>1
          <6>2. QED
            BY <3>5, <3>6, <4>1, <6>1
        <5>2. CASE ~(k <= label_pos + Len(Batch))
          BY <1>1, <1>6, <5>2
        <5>3. QED
          BY <5>1, <5>2
      <4>2. label_pos' + 1 .. Len(labels') \subseteq label_pos + 1 .. Len(labels) /\ labels' = labels
        BY <1>1, <1>6
      <4>3. docs'[x[1]][n] = docs[x[1]][n]
        BY <3>4, <3>6
      <4>4. QED
        BY <3>2, <4>1, <4>2, <4>3 DEF n
    <3>7. CASE At(x[1], n) # {}
      <4>1. docs'[x[1]][n] # None
        BY <1>9, <3>4, <3>7
      <4>2. PICK j \in 1 .. Len(Batch) : labels[label_pos + j] = x
        BY <3>5, <3>7
      <4>3. ASSUME NEW k \in label_pos' + 1 .. Len(labels'), labels'[k] = x PROVE FALSE
        <5>1. k \in DOMAIN labels /\ label_pos + j \in DOMAIN labels /\ k # label_pos + j
          BY <1>1, <1>6
        <5>2. labels[k] = labels[label_pos + j]
          BY <1>1, <4>2, <4>3
        <5>3. IsInjective(labels)
          BY <1>3 DEF IInv, LoopInv
        <5>4. QED
          BY <5>1, <5>2, <5>3 DEF IsInjective
      <4>4. QED
        BY <4>1, <4>3 DEF n
    <3>8. QED
      BY <3>6, <3>7
  <2>2. Asked' = Asked
    BY <1>1 DEF Asked
  <2>3. UNCHANGED <<rpn, counter, labels, answer, W>>
    BY <1>1 DEF client
  <2> HIDE DEF At
  <2>4. /\ LoopInv /\ rpn \in Seq(Tokens) /\ answer = <<>>
        /\ counter = [i \in DOMAIN rpn |-> IF rpn[i] \in Words THEN W[rpn[i]] ELSE 0]
        /\ ToSet(labels) = Asked /\ IsInjective(labels)
    BY <1>1, <1>3 DEF IInv, LoopInv
  <2>5. QED
    BY <1>1, <1>3, <1>10, <2>1, <2>2, <2>3, <2>4 DEF LoopInv
<1>18. ResultInv'
  <2>1. ASSUME NEW i \in DOMAIN rpn, NEW n \in 1 .. counter[i], docs'[i][n] # None, NEW l, NEW v,
               l = <<rpn[i], n - 1>>, v = <<l, docs'[i][n][1], docs'[i][n][2]>>
        PROVE  Right(l, v)'
    <3>1. Right(l, v)
      <4>1. CASE At(i, n) = {}
        <5>1. docs'[i][n] = docs[i][n]
          BY <1>11, <4>1
        <5> HIDE DEF At
        <5>2. QED
          BY <1>3, <2>1, <5>1 DEF IInv, ResultInv
      <4>2. CASE At(i, n) # {}
        <5>1. docs'[i][n] = Posting(i, n)
          BY <1>11, <4>2
        <5>2. QED
          BY <1>9, <2>1, <4>2, <5>1
      <4>3. QED
        BY <4>1, <4>2
    <3>2. UNCHANGED <<W, nDocs, texts>>
      BY <1>1 DEF client
    <3>3. QED
      BY <3>1, <3>2, SameRight
  <2>2. pc' # "answer" /\ UNCHANGED <<rpn, counter>>
    BY <1>1
  <2> HIDE DEF At
  <2>3. QED
    BY <2>1, <2>2, ResultNext
<1>19. QED
  BY <1>1, <1>13, <1>14, <1>15, <1>16, <1>17, <1>18, SameSource DEF IInv
\* The best of some documents are among them, and no more than the threshold.
LEMMA BestIs ==
    ASSUME NEW S, NEW found \in Seq(S), NEW best \in Best(found)
    PROVE  /\ best \in Seq(S) /\ Len(best) \in 0 .. Threshold
           /\ ToSet(best) \subseteq ToSet(found) /\ IsInjective(best)
<1> DEFINE n == IF Len(found) < Threshold THEN Len(found) ELSE Threshold
<1>1. n \in Nat /\ n <= Threshold
  BY LenProperties, ConstantTypes
<1>2. best \in [1 .. n -> ToSet(found)] /\ IsInjective(best)
  BY DEF Best, First
<1>3. \A x \in ToSet(found) : x \in S
  BY ElementOfSeq DEF ToSet
<1> HIDE DEF n
<1>4. best \in Seq(S) /\ Len(best) = n
  <2>1. best \in [1 .. n -> S]
    BY <1>2, <1>3
  <2>2. best \in Seq(S)
    BY <1>1, <2>1, IsASeq
  <2>3. QED
    BY <1>1, <2>1, <2>2, LenProperties
<1>5. ToSet(best) \subseteq ToSet(found)
  BY <1>2 DEF ToSet
<1>6. QED
  BY <1>1, <1>2, <1>4, <1>5, ConstantTypes

\* What has been read when all labels have been asked for.
LEMMA AllRead ==
    ASSUME IInv, pc = "search" \/ pc = "answer", label_pos = Len(labels), NEW i \in DOMAIN rpn
    PROVE  /\ DOMAIN docs[i] = 1 .. counter[i] /\ counter[i] \in Nat
           /\ \A n \in 1 .. counter[i] :
                 /\ docs[i][n] \in Docs \X (1 .. MaxFrequency)
                 /\ Right(<<rpn[i], n - 1>>, <<<<rpn[i], n - 1>>, docs[i][n][1], docs[i][n][2]>>)
           /\ DocumentsOf(docs[i]) \in Seq(0 .. nDocs - 1)
<1>1. Searching /\ docs[i] \in Seq((Docs \X (1 .. MaxFrequency)) \cup {None}) /\ counter[i] \in 0 .. MaxDocs
  BY DEF IInv, TypeOK, Searching
<1>2. DOMAIN docs[i] = 1 .. counter[i] /\ counter[i] \in Nat
  BY <1>1, ConstantTypes DEF IInv, LoopInv
<1>3. ASSUME NEW n \in 1 .. counter[i]
      PROVE  /\ docs[i][n] \in Docs \X (1 .. MaxFrequency)
             /\ Right(<<rpn[i], n - 1>>, <<<<rpn[i], n - 1>>, docs[i][n][1], docs[i][n][2]>>)
             /\ docs[i][n][1] \in 0 .. nDocs - 1
  <2> DEFINE x == <<i, n - 1>>
  <2>1. x \in Asked
    <3>1. n - 1 \in Docs /\ n - 1 < counter[i]
      BY <1>1, <1>2, ConstantTypes DEF Docs
    <3>2. QED
      BY <3>1 DEF Asked
  <2>2. \A k \in label_pos + 1 .. Len(labels) : FALSE
    BY LenProperties DEF IInv, TypeOK
  <2>3. docs[x[1]][x[2] + 1] # None
    <3> HIDE DEF x
    <3>1. QED
      BY <1>1, <2>1, <2>2 DEF IInv, LoopInv
  <2>4. docs[i][n] # None
    <3>1. x[1] = i /\ x[2] + 1 = n
      BY <1>2
    <3> HIDE DEF x
    <3>2. QED
      BY <2>3, <3>1
  <2>5. docs[i][n] \in (Docs \X (1 .. MaxFrequency)) \cup {None}
    BY <1>1, <1>2, ElementOfSeq, LenProperties
  <2>6. Right(<<rpn[i], n - 1>>, <<<<rpn[i], n - 1>>, docs[i][n][1], docs[i][n][2]>>)
    BY <1>1, <2>4 DEF IInv, ResultInv
  <2>7. docs[i][n][1] \in 0 .. nDocs - 1
    <3> DEFINE l == <<rpn[i], n - 1>>
               v == <<l, docs[i][n][1], docs[i][n][2]>>
    <3>1. \E d \in 0 .. nDocs - 1 : \E f : v = <<l, d, f>>
      BY <2>6 DEF Right, Having
    <3>2. v[2] = docs[i][n][1]
      OBVIOUS
    <3> HIDE DEF v
    <3>3. v[2] \in 0 .. nDocs - 1
      BY <3>1
    <3>4. QED
      BY <3>2, <3>3
  <2>8. QED
    BY <2>4, <2>5, <2>6, <2>7
<1>4. DocumentsOf(docs[i]) \in [1 .. counter[i] -> 0 .. nDocs - 1]
  BY <1>2, <1>3 DEF DocumentsOf
<1>5. DocumentsOf(docs[i]) \in Seq(0 .. nDocs - 1)
  <2> DEFINE D == 0 .. nDocs - 1
  <2>1. DocumentsOf(docs[i]) \in [1 .. counter[i] -> D]
    BY <1>4
  <2> HIDE DEF D
  <2>2. DocumentsOf(docs[i]) \in Seq(D)
    BY <1>2, <2>1, IsASeq
  <2>3. QED
    BY <2>2 DEF D
<1>6. QED
  BY <1>2, <1>3, <1>5

\* Every document that has a word of the query is in the word's vector, once: its rank is
\* the counter of the label that it was read under.
LEMMA AllFound ==
    ASSUME IInv, pc = "search", label_pos = Len(labels), NEW i \in DOMAIN rpn
    PROVE  Once(DocumentsOf(docs[i]), TokenDocs(rpn[i]))
<1> DEFINE v == DocumentsOf(docs[i])
           c == counter[i]
           w == rpn[i]
           H == Having(w, nDocs)
<1>1. /\ DOMAIN docs[i] = 1 .. c /\ c \in Nat
      /\ \A n \in 1 .. c : Right(<<w, n - 1>>, <<<<w, n - 1>>, docs[i][n][1], docs[i][n][2]>>)
  BY AllRead
<1>2. c = IF w \in Words THEN W[w] ELSE 0
  BY DEF IInv, LoopInv, Searching
<1>3. DOMAIN v = 1 .. c /\ \A n \in 1 .. c : v[n] = docs[i][n][1]
  BY <1>1 DEF DocumentsOf
<1> HIDE DEF v, c, w
<1>4. CASE w \notin Words
  <2>1. 1 .. c = {}
    BY <1>2, <1>4
  <2>2. ToSet(v) = {} /\ IsInjective(v)
    BY <1>3, <2>1 DEF ToSet, IsInjective
  <2>3. QED
    BY <1>4, <2>2 DEF Once, TokenDocs, v, w
<1>5. CASE w \in Words
  <2>1. c = Cardinality(H) /\ nDocs \in Nat
    BY <1>2, <1>5, ConstantTypes DEF IInv, PostingInv, TypeOK
  <2>2. IsFiniteSet(H)
    <3>1. IsFiniteSet(0 .. nDocs - 1)
      BY <2>1, FS_Interval
    <3>2. H \in SUBSET (0 .. nDocs - 1)
      BY DEF Having
    <3>3. QED
      BY <3>1, <3>2, FS_Subset
  <2>3. ASSUME NEW n \in 1 .. c PROVE v[n] \in H /\ Cardinality(Having(w, v[n])) = n - 1
    <3> DEFINE l == <<w, n - 1>>
               posting == <<l, docs[i][n][1], docs[i][n][2]>>
    <3>1. l[1] = w /\ l[2] = n - 1 /\ posting[2] = v[n]
      BY <1>3
    <3>2. Right(l, posting)
      BY <1>1
    <3> HIDE DEF l, posting
    <3>3. PICK d \in Having(l[1], nDocs) :
              Cardinality(Having(l[1], d)) = l[2] /\ posting = <<l, d, texts[d + 1][l[1]]>>
      BY <3>2 DEF Right
    <3>4. d = v[n]
      BY <3>1, <3>3
    <3>5. QED
      BY <3>1, <3>3, <3>4
  <2> HIDE DEF H
  <2>4. v \in Injection(1 .. c, H)
    <3>1. v \in [1 .. c -> H]
      <4>1. v = [n \in 1 .. c |-> v[n]]
        BY <1>3 DEF v, DocumentsOf
      <4>2. QED
        BY <2>3, <4>1
    <3>2. \A m, n \in 1 .. c : v[m] = v[n] => m = n
      <4>1. SUFFICES ASSUME NEW m \in 1 .. c, NEW n \in 1 .. c, v[m] = v[n] PROVE m = n
        OBVIOUS
      <4>2. m - 1 = n - 1
        BY <2>3, <4>1
      <4>3. QED
        BY <1>1, <4>2
    <3>3. QED
      BY <3>1, <3>2 DEF Injection, IsInjective
  <2>5. Cardinality(1 .. c) = c
    <3>1. 1 \in Int /\ c \in Int /\ (IF 1 > c THEN 0 ELSE c - 1 + 1) = c
      BY <1>1
    <3>2. QED
      BY <3>1, FS_Interval
  <2>6. v \in Surjection(1 .. c, H)
    BY <2>1, <2>2, <2>4, <2>5, FS_Injection
  <2>7. ToSet(v) = H
    BY <1>3, <2>4, <2>6 DEF Injection, Surjection, ToSet
  <2>8. IsInjective(v)
    BY <2>4 DEF Injection
  <2>9. QED
    BY <1>5, <2>7, <2>8 DEF Once, TokenDocs, v, w, H
<1>6. QED
  BY <1>4, <1>5

\* The same notation of the same documents.
LEMMA SameTruth ==
    ASSUME UNCHANGED <<nDocs, texts>>
    PROVE  \A notation : Truth(notation)' = Truth(notation)
BY DEF Truth, TruthStep, Having

\* The query is evaluated on the documents that were read.
LEMMA EvaluateIInv ==
    ASSUME IInv, Evaluate
    PROVE  IInv'
<1> DEFINE postings == [i \in DOMAIN docs |-> DocumentsOf(docs[i])]
           found == Evaluator!evaluate(rpn, postings, nDocs)
<1>1. pc = "search" /\ label_pos = Len(labels)
  BY DEF Evaluate
<1>2. CASE found = None
  BY <1>2, EndIInv DEF Evaluate
<1>3. CASE found # None
  <2>1. /\ pc' = "answer" /\ result' = found /\ answer' \in Best(found)
        /\ UNCHANGED <<service, client, update, query, rpn, counter, labels, label_pos, docs, texts>>
    BY <1>3 DEF Evaluate
  <2>2. rpn \in Seq(Tokens) /\ DOMAIN docs = DOMAIN rpn /\ nDocs \in 0 .. MaxDocs /\ nDocs \in Nat
    BY ConstantTypes DEF IInv, LoopInv, TypeOK
  <2>3. postings \in [DOMAIN rpn -> Seq(0 .. nDocs - 1)]
    BY <1>1, <2>2, AllRead
  <2>4. /\ found \in Seq(0 .. nDocs - 1)
        /\ Len(rpn) = 1 => found = postings[1]
    <3> HIDE DEF postings
    <3>1. /\ found \in {None} \cup Seq(0 .. nDocs - 1)
          /\ Len(rpn) = 1 => found \in {None, postings[1]}
      BY <2>2, <2>3, EvaluateIs
    <3> HIDE DEF found
    <3>2. QED
      BY <1>3, <3>1
  <2>5. Len(rpn) = 1 => found = DocumentsOf(docs[1])
    <3>1. Len(rpn) = 1 => 1 \in DOMAIN docs
      BY <2>2, LenProperties
    <3> HIDE DEF found
    <3>2. QED
      BY <2>4, <3>1
  <2>6. Once(found, Truth(rpn))
    <3>1. \A k \in DOMAIN rpn : Once(postings[k], TokenDocs(rpn[k]))
      BY <1>1, <2>2, AllFound
    <3> HIDE DEF postings
    <3>2. QED
      BY <1>3, <2>2, <2>3, <3>1, EvaluateMeans
  <2> HIDE DEF found, postings
  <2>7. found \in Seq(Docs)
    <3> DEFINE D == 0 .. nDocs - 1
    <3>1. D \subseteq Docs /\ found \in Seq(D)
      BY <2>2, <2>4, ConstantTypes DEF Docs
    <3> HIDE DEF D
    <3>2. QED
      BY <3>1
  <2>8. answer' \in Seq(Docs)
    BY <2>1, <2>7, BestIs
  <2>9. Searching /\ Searching' /\ messages = <<>> /\ messages' = <<>>
        /\ UNCHANGED <<requests, replies, I, recorded, running, W, nDocs>>
    BY <1>1, <2>1 DEF Searching, IInv, LoopInv, update, service, client
  <2>10. TypeOK'
    BY <2>1, <2>7, <2>8, <2>9 DEF IInv, TypeOK, Storage!TypeOK, update
  <2>11. Batch' = Batch
    BY <2>1 DEF Batch
  <2>12. ServableInv' /\ AnswerInv'
    BY <1>1, <2>1, <2>11, SameService DEF IInv
  <2>13. PostingInv'
    <3>1. \A p : p \in PendingPairs' <=> p \in PendingPairs
      BY <2>9 DEF PendingPairs, Queue
    <3>2. QED
      BY <1>1, <2>1, <2>9, <3>1, SamePostings DEF IInv
  <2>14. LoopInv'
    BY <1>1, <2>1, <2>9 DEF IInv, LoopInv, Asked
  <2>15. ResultInv'
    <3>1. Best(result)' = Best(result')
      BY <2>1, <2>9 DEF Best, First, MayPrecede, Score
    <3>2. DocumentsOf(docs[1])' = DocumentsOf(docs[1])
      BY <2>1 DEF DocumentsOf
    <3>3. \A l, v : Right(l, v) => Right(l, v)'
      BY <2>1, <2>9, SameRight
    <3>4. result' # None
      BY <1>3, <2>1 DEF found
    <3>5. Once(result', Truth(rpn)')
      <4>1. Truth(rpn)' = Truth(rpn)
        BY <2>1, <2>9 DEF Truth, TruthStep, Having
      <4>2. QED
        BY <2>1, <2>6, <4>1
    <3>6. QED
      BY <1>1, <2>1, <2>5, <2>9, <3>1, <3>2, <3>3, <3>4, <3>5, ResultNext DEF IInv, ResultInv
  <2>16. QED
    BY <2>1, <2>10, <2>12, <2>13, <2>14, <2>15, SameSource DEF IInv
<1>4. QED
  BY <1>2, <1>3

LEMMA AnsweredIInv ==
    ASSUME IInv, Answered
    PROVE  IInv'
<1>1. /\ pc = "answer" /\ pc' = "idle" /\ SearchOver
      /\ UNCHANGED <<service, client, update, texts>>
  BY DEF Answered
<1>2. /\ messages' = <<>> /\ UNCHANGED <<requests, replies, I, recorded, running, W, nDocs, source, messages>>
      /\ ~Searching'
  BY <1>1 DEF IInv, LoopInv, update, service, client, Searching
<1>3. TypeOK'
  BY <1>1, <1>2, EmptySeq DEF IInv, TypeOK, Storage!TypeOK, SearchOver
<1>4. AnswerInv' /\ ServableInv'
  BY <1>1, <1>2 DEF IInv, AnswerInv, ServableInv, Servable, RecordedAt, FoundAt, NoDump, NoSearch, Queue, Replies
<1>5. PostingInv'
  <2>1. \A p : p \in PendingPairs' <=> p \in PendingPairs
    BY <1>2 DEF PendingPairs, Queue
  <2>2. QED
    BY <1>1, <1>2, <2>1, SamePostings DEF IInv
<1>6. LoopInv'
  BY <1>1, <1>2, EmptySeq DEF LoopInv, SearchOver
<1>7. ResultInv'
  BY <1>1, <1>2 DEF ResultInv
<1>8. QED
  BY <1>1, <1>3, <1>4, <1>5, <1>6, <1>7, SameSource DEF IInv
\* The storage serves a request of the client: an update's pairs reach the map, and the
\* request of the search at a batch, the last one, gets its answer.
LEMMA ServeIInv ==
    ASSUME IInv, Serve
    PROVE  IInv'
<1>1. Storage!ServeRequest("client") /\ pc' = pc /\ UNCHANGED <<client, update, search, texts>>
      /\ UNCHANGED <<W, nDocs, messages, query, rpn, counter, labels, label_pos, docs, result, answer>>
  BY DEF Serve, client, update, search
<1>2. Storage!TypeOK
  BY DEF IInv, TypeOK
<1>3. PICK op : Served(op)
  BY <1>1, <1>2, ServeRequestIs DEF IInv
<1>4. /\ Len(Queue) \in Nat \ {0} /\ DOMAIN Queue = 1 .. Len(Queue) /\ Queue[1].op = op
      /\ Len(Queue') = Len(Queue) - 1 /\ DOMAIN Queue' = 1 .. Len(Queue) - 1
      /\ \A m \in 1 .. Len(Queue) - 1 : Queue'[m] = Queue[m + 1]
  BY <1>2, <1>3, ServeIs DEF Served
<1>5. Storage!TypeOK'
  BY <1>3 DEF Served
<1>6. TypeOK'
  BY <1>1, <1>5, LocalTypes DEF IInv, TypeOK
<1>7. ServableInv'
  BY <1>2, <1>3, ServeServable DEF IInv
<1>8. AnswerInv'
  <2>1. ASSUME pc \notin {"await", "off"} PROVE Replies' = <<>> /\ NoSearch(Len(Queue))'
    <3>1. Replies = <<>> /\ NoSearch(Len(Queue))
      BY <2>1 DEF IInv, AnswerInv
    <3>2. op # "search"
      BY <1>4, <3>1 DEF NoSearch
    <3>3. Replies' = <<>>
      BY <1>3, <3>1, <3>2 DEF Served, Replies
    <3>4. \A m \in 1 .. Len(Queue) - 1 : m + 1 \in 1 .. Len(Queue)
      BY <1>4
    <3>5. QED
      BY <1>4, <3>1, <3>3, <3>4 DEF NoSearch
  <2>2. ASSUME pc \in {"search", "await"} PROVE RecordedAt(Len(Queue) + 1)'
    <3>1. RecordedAt(Len(Queue) + 1)
      BY <2>2 DEF IInv, AnswerInv
    <3>2. Len(Queue) \in 1 .. Len(Queue) /\ (Len(Queue) - 1) + 1 = Len(Queue)
      BY <1>4
    <3>3. \A m : m = Len(Queue) => RecordedAt(m)'
      BY <1>2, <1>3, <3>1, <3>2, ServeAhead
    <3>4. Len(Queue') + 1 = Len(Queue)
      BY <1>4, <3>2
    <3>5. QED
      BY <3>3, <3>4 DEF RecordedAt, NoDump
  <2>3. ASSUME pc = "await"
        PROVE  \/ /\ Queue' = <<>>
                  /\ Replies' = <<[k \in DOMAIN Batch' |-> I'[LabelOf(Batch[k])']]>>
               \/ /\ Queue' # <<>> /\ Replies' = <<>>
                  /\ Queue'[Len(Queue')] = Storage!SearchRequest(RequestedLabels)
                  /\ NoSearch(Len(Queue) - 1)'
    <3>1. /\ Queue # <<>> /\ Replies = <<>>
          /\ Queue[Len(Queue)] = Storage!SearchRequest(RequestedLabels)
          /\ NoSearch(Len(Queue) - 1)
      BY <1>4, <2>3 DEF IInv, AnswerInv
    <3>2. /\ RequestedLabels \in Seq(Labels) /\ DOMAIN RequestedLabels = 1 .. Len(Batch)
          /\ DOMAIN Batch = 1 .. Len(Batch)
          /\ \A k \in 1 .. Len(Batch) : RequestedLabels[k] = LabelOf(Batch[k])
      BY <2>3, BatchIs, RequestedIs DEF IInv, Searching
    <3>3. CASE Len(Queue) = 1
      <4>1. Queue' = <<>>
        BY <1>4, <1>5, <3>3, QueueIs DEF Storage!TypeOK, Queue, Connections
      <4>2. Queue[1].op = "search" /\ Queue[1].labels = RequestedLabels
        BY <3>1, <3>2, <3>3, RequestIs
      <4>3. Replies' = Append(Replies, [k \in DOMAIN RequestedLabels |-> I[RequestedLabels[k]]])
        BY <1>3, <1>4, <4>2 DEF Served
      <4>4. \A k \in 1 .. Len(Batch) : I[RequestedLabels[k]] = I'[LabelOf(Batch[k])']
        <5>1. \A l \in Labels : I'[l] = I[l]
          BY <1>3, <4>2 DEF Served, Adds
        <5>2. \A k \in 1 .. Len(Batch) : RequestedLabels[k] \in Labels
          BY <3>2, ElementOfSeq, LenProperties
        <5>3. \A k : LabelOf(Batch[k])' = LabelOf(Batch[k])
          BY <1>1 DEF LabelOf, Batch
        <5>4. QED
          BY <3>2, <5>1, <5>2, <5>3
      <4>5. DOMAIN Batch' = 1 .. Len(Batch)
        BY <1>1, <3>2 DEF Batch
      <4>6. [k \in DOMAIN RequestedLabels |-> I[RequestedLabels[k]]]
                = [k \in DOMAIN Batch' |-> I'[LabelOf(Batch[k])']]
        BY <3>2, <4>4, <4>5
      <4>7. QED
        BY <3>1, <4>1, <4>3, <4>6
    <3>4. CASE Len(Queue) # 1
      <4>1. Len(Queue) - 1 \in 1 .. Len(Queue) - 1 /\ (Len(Queue) - 1) + 1 = Len(Queue)
            /\ 1 \in 1 .. Len(Queue) - 1
        BY <1>4, <3>4
      <4>2. Queue'[Len(Queue')] = Queue[Len(Queue)] /\ Queue' # <<>>
        BY <1>4, <4>1
      <4>3. op # "search"
        BY <1>4, <3>1, <4>1 DEF NoSearch
      <4>4. Replies' = <<>>
        BY <1>3, <3>1, <4>3 DEF Served, Replies
      <4>5. NoSearch(Len(Queue) - 1)'
        <5>1. \A m \in 1 .. Len(Queue') - 1 : m + 1 \in 1 .. Len(Queue) - 1 /\ m \in 1 .. Len(Queue) - 1
          BY <1>4
        <5>2. QED
          BY <1>4, <3>1, <5>1 DEF NoSearch
      <4>6. QED
        BY <3>1, <4>2, <4>4, <4>5
    <3>5. QED
      BY <3>3, <3>4
  <2>4. RequestedLabels' = RequestedLabels
    BY <1>1 DEF RequestedLabels, LabelOf, Batch
  <2>5. Storage!SearchRequest(RequestedLabels)' = Storage!SearchRequest(RequestedLabels)
    BY <2>4
  <2>6. QED
    BY <1>1, <2>1, <2>2, <2>3, <2>5 DEF AnswerInv
<1>9. PostingInv'
  <2>1. nDocs' = Len(texts')
        /\ \A w \in Words : W'[w] <= nDocs' /\ W'[w] = Cardinality(Having(w, nDocs))'
    BY <1>1 DEF IInv, PostingInv, Having
  <2>2. \A p : InMessages(p)' <=> InMessages(p)
    BY <1>1 DEF InMessages
  <2>3. \A p \in PendingPairs' : p \in PendingPairs
    BY <1>2, <1>3, <2>2, PendingIs, ServePending
  <2>4. UNCHANGED <<W, nDocs, texts>>
    BY <1>1
  <2>5. ASSUME pc # "off", NEW p \in PendingPairs'
        PROVE  p.label \in CountedLabels' /\ Right(p.label, p.value)'
    <3>1. p.label \in CountedLabels /\ Right(p.label, p.value)
      BY <2>3, <2>5 DEF IInv, PostingInv
    <3>2. QED
      BY <2>4, <3>1, SameRight
  <2>6. ASSUME pc # "off", NEW l \in CountedLabels', NEW v, v = I'[l]
        PROVE  (\E p \in PendingPairs' : p.label = l) \/ Right(l, v)'
    <3>1. l \in CountedLabels /\ l \in Labels
      BY <2>4, <2>6, SameRight DEF CountedLabels
    <3>2. CASE Adds(Queue[1], l)
      <4>1. PICK p \in ToSet(Queue[1].pairs) : p.label = l /\ I'[l] = p.value
        BY <1>3, <3>1, <3>2 DEF Served
      <4>2. p \in PendingPairs
        <5>1. InQueue(p)
          BY <1>4, <3>2, <4>1 DEF InQueue, Adds
        <5>2. QED
          BY <5>1, PendingIs
      <4>3. Right(l, v)
        BY <2>6, <4>1, <4>2 DEF IInv, PostingInv
      <4>4. QED
        BY <2>4, <4>3, SameRight
    <3>3. CASE ~Adds(Queue[1], l)
      <4>1. I'[l] = I[l]
        BY <1>3, <3>1, <3>3 DEF Served
      <4>2. CASE \E p \in PendingPairs : p.label = l
        <5>1. PICK p \in PendingPairs : p.label = l
          BY <4>2
        <5>2. ~(op = "add" /\ p \in ToSet(Queue[1].pairs))
          BY <1>4, <3>3, <5>1 DEF Adds, ToSet
        <5>3. p \in PendingPairs'
          BY <1>2, <1>3, <2>2, <5>1, <5>2, PendingIs, ServePending
        <5>4. QED
          BY <5>1, <5>3
      <4>3. CASE Right(l, I[l])
        BY <2>4, <2>6, <4>1, <4>3, SameRight
      <4>4. QED
        BY <2>6, <3>1, <4>2, <4>3 DEF IInv, PostingInv
    <3>4. QED
      BY <3>2, <3>3
  <2>7. QED
    BY <1>1, <2>1, <2>5, <2>6, PostingNext
<1>10. LoopInv'
  BY <1>1 DEF IInv, LoopInv, Searching, Asked
<1>11. ResultInv'
  BY <1>1, SameResult DEF IInv
<1>12. QED
  BY <1>1, <1>6, <1>7, <1>8, <1>9, <1>10, <1>11, SameSource DEF IInv, update

\* Nothing happens to it.
LEMMA StutterIInv ==
    ASSUME IInv, UNCHANGED vars
    PROVE  IInv'
<1>1. UNCHANGED <<requests, replies, I, recorded, running, W, nDocs, pc, source, messages, query, rpn,
                  counter, labels, label_pos, docs, result, answer, texts>>
      /\ UNCHANGED <<service, client, update, search>>
  BY DEF vars, service, client, update, search
<1>2. TypeOK'
  BY <1>1 DEF IInv, TypeOK, Storage!TypeOK
<1>3. ServableInv' /\ AnswerInv'
  <2>1. Batch' = Batch
    BY <1>1 DEF Batch
  <2>2. QED
    BY <1>1, <2>1, SameService DEF IInv
<1>4. PostingInv'
  <2>1. \A p : p \in PendingPairs' <=> p \in PendingPairs
    BY <1>1 DEF PendingPairs, Queue
  <2>2. QED
    BY <1>1, <2>1, SamePostings DEF IInv
<1>5. LoopInv'
  BY <1>1 DEF IInv, LoopInv, Searching, Asked
<1>6. ResultInv'
  BY <1>1, SameResult DEF IInv
<1>7. QED
  BY <1>1, <1>2, <1>3, <1>4, <1>5, <1>6, SameSource DEF IInv
LEMMA NextIInv ==
    ASSUME IInv, [Next]_vars
    PROVE  IInv'
<1>1. CASE Setup
  BY <1>1, SetupIInv
<1>2. ASSUME NEW file \in Files, UpdateNormal(file) PROVE IInv'
  <2> DEFINE document == Analyzer!extractUniqueKeywords(file)
  <2>1. document \in Document
    BY InputsAssumption
  <2>2. Update(file, <<document>>)
    BY <1>2 DEF UpdateNormal
  <2> HIDE DEF document
  <2>3. <<document>> \in Seq(Document)
    BY <2>1
  <2>4. QED
    BY <2>2, <2>3, UpdateIInv DEF document
<1>3. ASSUME NEW file \in Files, UpdateWiki(file) PROVE IInv'
  <2> DEFINE documents == Analyzer!extractUniqueKeywords_wiki(file)
  <2>1. documents \in Seq(Document)
    BY InputsAssumption
  <2>2. Update(file, documents)
    BY <1>3 DEF UpdateWiki
  <2> HIDE DEF documents
  <2>3. QED
    BY <2>1, <2>2, UpdateIInv DEF documents
<1>4. CASE Search(Queries)
  BY <1>4, SearchIIInv, InputsAssumption
<1>5. ASSUME NEW aggregate \in BOOLEAN, DumpBench(aggregate) PROVE IInv'
  BY <1>5, DumpBenchIInv
<1>6. CASE Quit
  BY <1>6, EndIInv DEF Quit
<1>7. CASE SendBatch
  BY <1>7, SendBatchIInv
<1>8. CASE NextDocument
  BY <1>8, NextDocumentIInv
<1>9. CASE Updated
  BY <1>9, UpdatedIInv
<1>10. CASE RequestBatch
  BY <1>10, RequestBatchIInv
<1>11. CASE ReceiveBatch
  BY <1>11, ReceiveBatchIInv
<1>12. CASE Evaluate
  BY <1>12, EvaluateIInv
<1>13. CASE Answered
  BY <1>13, AnsweredIInv
<1>14. CASE Serve
  BY <1>14, ServeIInv
<1>15. CASE UNCHANGED vars
  BY <1>15, StutterIInv
<1>16. QED
  BY <1>1, <1>2, <1>3, <1>4, <1>5, <1>6, <1>7, <1>8, <1>9, <1>10, <1>11, <1>12, <1>13, <1>14, <1>15
     DEF Next, Begin, Proceed

\* Whatever the documents, the queries and the sizes of the batches: every label is where
\* the invariant says it is, what waits at the storage can be served, and the search has
\* read right postings of the labels it has asked for (SseIee.cpp, SseServer.cpp).
THEOREM IndexInvariant == Spec => []IInv
<1>1. Init => IInv
  BY InitIInv
<1>2. IInv /\ [Next]_vars => IInv'
  BY NextIInv
<1>3. QED
  BY <1>1, <1>2, PTL DEF Spec

----------------------------------------------------------------------------
(* The queries that are written for expressions *)

LEMMA ExpressionTypes ==
    /\ Expressions \subseteq [op : {"word"}, form : Forms] \cup [op : {"!"}, of : Expressions]
                             \cup [op : {"&", "|"}, left : Expressions, right : Expressions]
    /\ MaxDepth \in Nat /\ Depth \in [Expressions -> 0 .. MaxDepth]
    /\ \A e \in Expressions : \A x \in Operands(e) : x \in Expressions /\ Depth[x] < Depth[e]
<1>1. \A e \in Expressions : \A x \in Operands(e) : x \in Expressions
  <2>1. SUFFICES ASSUME NEW e \in Expressions, NEW x \in Operands(e) PROVE x \in Expressions
    OBVIOUS
  <2>2. CASE e \in [op : {"word"}, form : Forms]
    BY <2>2 DEF Operands
  <2>3. CASE e \in [op : {"!"}, of : Expressions]
    BY <2>3 DEF Operands
  <2>4. CASE e \in [op : {"&", "|"}, left : Expressions, right : Expressions]
    BY <2>4 DEF Operands
  <2>5. QED
    BY <2>2, <2>3, <2>4, ExpressionsAssumption
<1>2. QED
  BY <1>1, ExpressionsAssumption

\* An expression is a word, a negation or a join.
LEMMA ExpressionCases ==
    ASSUME NEW e \in Expressions
    PROVE  \/ e.op = "word" /\ e.form \in Forms /\ Operands(e) = {}
           \/ e.op = "!" /\ e.of \in Expressions /\ Operands(e) = {e.of}
           \/ e.op \in {"&", "|"} /\ e.left \in Expressions /\ e.right \in Expressions
              /\ Operands(e) = {e.left, e.right}
<1>1. CASE e \in [op : {"word"}, form : Forms]
  BY <1>1 DEF Operands
<1>2. CASE e \in [op : {"!"}, of : Expressions]
  BY <1>2 DEF Operands
<1>3. CASE e \in [op : {"&", "|"}, left : Expressions, right : Expressions]
  BY <1>3 DEF Operands
<1>4. QED
  BY <1>1, <1>2, <1>3, ExpressionTypes

\* What an expression has when its operands have it, all have.
LEMMA ExpressionInduction ==
    ASSUME NEW P, \A e \in Expressions : (\A x \in Operands(e) : x \in P) => e \in P
    PROVE  \A e \in Expressions : e \in P
<1> DEFINE T == {n \in 0 .. MaxDepth : \A e \in Expressions : Depth[e] <= n => e \in P}
<1>1. /\ MaxDepth \in Nat /\ \A e \in Expressions : Depth[e] \in 0 .. MaxDepth
      /\ \A e \in Expressions : \A x \in Operands(e) : x \in Expressions /\ Depth[x] < Depth[e]
  BY ExpressionTypes
<1>2. 0 \in T
  <2>1. ASSUME NEW e \in Expressions, Depth[e] <= 0 PROVE e \in P
    <3>1. \A x \in Operands(e) : FALSE
      BY <1>1, <2>1
    <3>2. QED
      BY <3>1
  <2>2. QED
    BY <1>1, <2>1
<1>3. ASSUME NEW n \in 1 .. MaxDepth, n - 1 \in T PROVE n \in T
  <2>1. ASSUME NEW e \in Expressions, Depth[e] <= n PROVE e \in P
    <3>1. \A x \in Operands(e) : x \in Expressions /\ Depth[x] <= n - 1
      BY <1>1, <2>1
    <3>2. \A x \in Operands(e) : x \in P
      BY <1>3, <3>1
    <3>3. QED
      BY <3>2
  <2>2. QED
    BY <1>1, <2>1
<1> HIDE DEF T
<1>4. \A n \in 0 .. MaxDepth : n \in T
  BY <1>1, <1>2, <1>3, Induction
<1>5. QED
  BY <1>1, <1>4 DEF T

Texts == Seq(Parser!Lexemes)

LEMMA NestedIs ==
    ASSUME NEW text \in Texts, NEW x, NEW ops
    PROVE  Nested(text, x, ops) \in Texts
<1>1. "(" \in Parser!Lexemes /\ ")" \in Parser!Lexemes
  BY Zenon DEF Parser!Lexemes
<1> DEFINE L == Parser!Lexemes
<1> HIDE DEF L
<1>2. <<"(">> \o text \o <<")">> \in Seq(L)
  BY <1>1 DEF Texts, L
<1>3. QED
  BY <1>2, Zenon DEF Nested, Texts, L

LEMMA WrittenCases ==
    ASSUME NEW f, NEW e
    PROVE  /\ e.op = "word" => TextOf(e, f) = <<e.form>>
           /\ e.op = "!" => TextOf(e, f) = <<"!">> \o Nested(f[e.of], e.of, {"!", "&", "|"})
           /\ e.op = "&" => TextOf(e, f) = Nested(f[e.left], e.left, {"|"}) \o <<" ", "&", "&", " ">>
                                              \o Nested(f[e.right], e.right, {"|"})
           /\ e.op = "|" => TextOf(e, f) = f[e.left] \o <<"|">> \o f[e.right]
<1> DEFINE word == <<e.form>>
           negation == <<"!">> \o Nested(f[e.of], e.of, {"!", "&", "|"})
           both == Nested(f[e.left], e.left, {"|"}) \o <<" ", "&", "&", " ">>
                   \o Nested(f[e.right], e.right, {"|"})
           either == f[e.left] \o <<"|">> \o f[e.right]
           op == e.op
<1>1. TextOf(e, f) = CASE op = "word" -> word [] op = "!" -> negation
                          [] op = "&" -> both [] op = "|" -> either
  BY DEF TextOf
<1> HIDE DEF word, negation, both, either, op
<1>2. /\ op = "word" => TextOf(e, f) = word
      /\ op = "!" => TextOf(e, f) = negation
      /\ op = "&" => TextOf(e, f) = both
      /\ op = "|" => TextOf(e, f) = either
  BY <1>1
<1>3. QED
  BY <1>2 DEF word, negation, both, either, op

LEMMA LexemesAre ==
    /\ {"&", "|", "!", "(", ")", " "} \subseteq Parser!Lexemes /\ Forms \subseteq Parser!Lexemes
    /\ Forms \cap {"&", "|", "!", "(", ")", " "} = {} /\ Words \cap {"&", "|", "!", "(", ")", " "} = {}
<1>1. Parser!Lexemes = Forms \cup {"&", "|", "!"} \cup {"(", ")", " "}
  BY Zenon DEF Parser!Lexemes, Parser!Operators
<1>2. Forms \cap {"&", "|", "!", "(", ")", " "} = {} /\ Words \cap {"&", "|", "!", "(", ")", " "} = {}
  BY TextAssumption, Zenon
<1>3. QED
  BY <1>1, <1>2

LEMMA WrittenIs ==
    ASSUME NEW f, NEW e \in Expressions, \A x \in Operands(e) : f[x] \in Texts
    PROVE  TextOf(e, f) \in Texts
<1> DEFINE L == Parser!Lexemes
<1>1. "!" \in L /\ "&" \in L /\ "|" \in L /\ " " \in L /\ Forms \subseteq L
  BY LexemesAre
<1>2. \A x \in Operands(e) : f[x] \in Seq(L)
  BY DEF Texts
<1>3. \A x \in Operands(e) : \A ops : Nested(f[x], x, ops) \in Seq(L)
  BY <1>2, NestedIs DEF Texts
<1> HIDE DEF L
<1>4. /\ <<"!">> \in Seq(L) /\ <<" ", "&", "&", " ">> \in Seq(L) /\ <<"|">> \in Seq(L)
      /\ \A form \in Forms : <<form>> \in Seq(L)
  <2>1. \A a \in L : <<a>> \in Seq(L)
    OBVIOUS
  <2>2. \A a, b, c, d \in L : <<a, b, c, d>> \in Seq(L)
    OBVIOUS
  <2>3. QED
    BY <1>1, <2>1, <2>2
<1>5. CASE e.op = "word" /\ e.form \in Forms
  BY <1>4, <1>5, WrittenCases DEF Texts, L
<1>6. CASE e.op = "!" /\ Operands(e) = {e.of}
  <2>1. <<"!">> \o Nested(f[e.of], e.of, {"!", "&", "|"}) \in Seq(L)
    BY <1>3, <1>4, <1>6, ConcatProperties
  <2>2. QED
    BY <1>6, <2>1, WrittenCases DEF Texts, L
<1>7. CASE e.op \in {"&", "|"} /\ Operands(e) = {e.left, e.right}
  <2>1. Nested(f[e.left], e.left, {"|"}) \o <<" ", "&", "&", " ">> \o Nested(f[e.right], e.right, {"|"}) \in Seq(L)
    BY <1>3, <1>4, <1>7, ConcatProperties
  <2>2. f[e.left] \o <<"|">> \o f[e.right] \in Seq(L)
    BY <1>2, <1>4, <1>7, ConcatProperties
  <2>3. QED
    BY <1>7, <2>1, <2>2, WrittenCases DEF Texts, L
<1>8. QED
  BY <1>5, <1>6, <1>7, ExpressionCases

\* What is written for an expression depends on what is written for its operands.
LEMMA WrittenSame ==
    ASSUME NEW f, NEW g, NEW e \in Expressions, \A x \in Operands(e) : f[x] = g[x]
    PROVE  TextOf(e, f) = TextOf(e, g)
<1>1. CASE e.op = "word"
  BY <1>1, WrittenCases
<1>2. CASE e.op = "!" /\ Operands(e) = {e.of}
  BY <1>2, WrittenCases
<1>3. CASE e.op \in {"&", "|"} /\ Operands(e) = {e.left, e.right}
  <2>1. f[e.left] = g[e.left] /\ f[e.right] = g[e.right]
    BY <1>3
  <2>2. CASE e.op = "&"
    BY <2>1, <2>2, WrittenCases
  <2>3. CASE e.op = "|"
    BY <2>1, <2>3, WrittenCases
  <2>4. QED
    BY <1>3, <2>2, <2>3
<1>4. QED
  BY <1>1, <1>2, <1>3, ExpressionCases

LEMMA RenderIs ==
    \A e \in Expressions : Render[e] = TextOf(e, Render) /\ Render[e] \in Texts
<1> DEFINE Y == Texts
           F == [Expressions -> Y]
           step == [x \in F \X Expressions |-> TextOf(x[2], x[1])]
           y == <<>>
<1>1. \A f \in F, e \in Expressions : step[<<f, e>>] = TextOf(e, f)
  OBVIOUS
<1>2. step \in [F \X Expressions -> Y]
  <2>1. \A x \in F \X Expressions : TextOf(x[2], x[1]) \in Y
    BY WrittenIs, ExpressionTypes
  <2>2. QED
    BY <2>1
<1>3. y \in Y
  BY EmptySeq DEF Texts
<1> HIDE DEF step, Y, y
<1>4. ASSUME NEW f \in F, NEW g \in F, NEW e \in Expressions,
             \A x \in Expressions : Depth[x] < Depth[e] => f[x] = g[x]
      PROVE  step[<<f, e>>] = step[<<g, e>>]
  <2>1. \A x \in Operands(e) : f[x] = g[x]
    BY <1>4, ExpressionTypes
  <2>2. QED
    BY <1>1, <2>1, WrittenSame
<1>5. PICK f : Defines(step, f, Expressions, Y)
  <2>1. MaxDepth \in Nat /\ Depth \in [Expressions -> 0 .. MaxDepth]
    BY ExpressionTypes
  <2>2. Descends(step, Depth, MaxDepth, Expressions, Y)
    BY <1>2, <1>4, <2>1 DEF Descends
  <2>3. QED
    BY <1>3, <2>2, DepthRecursion
<1>6. \E g \in F : g = [e \in Expressions |-> TextOf(e, g)]
  <2>1. f = [e \in Expressions |-> TextOf(e, f)]
    BY <1>1, <1>5 DEF Defines
  <2>2. QED
    BY <1>5, <2>1 DEF Defines
<1> DEFINE text[e \in Expressions] == TextOf(e, text)
<1>7. text = [e \in Expressions |-> TextOf(e, text)]
  BY <1>6, Zenon
<1>8. Render = text
  BY Zenon DEF Render
<1> HIDE DEF text
<1>9. \A e \in Expressions : Render[e] = TextOf(e, Render)
  BY <1>7, <1>8
<1>10. \A e \in Expressions : Render[e] \in Texts
  <2> DEFINE P == {e \in Expressions : Render[e] \in Texts}
  <2>1. \A e \in Expressions : (\A x \in Operands(e) : x \in P) => e \in P
    BY <1>9, WrittenIs
  <2> HIDE DEF P
  <2>2. \A e \in Expressions : e \in P
    BY <2>1, ExpressionInduction
  <2>3. QED
    BY <2>2 DEF P
<1>11. QED
  BY <1>9, <1>10

LEMMA MeaningCases ==
    ASSUME NEW f, NEW e
    PROVE  /\ e.op = "word" => MeaningOf(e, f) = Having(Stem[e.form], Len(texts))
           /\ e.op = "!" => MeaningOf(e, f) = 0 .. Len(texts) - 1 \ f[e.of]
           /\ e.op = "&" => MeaningOf(e, f) = f[e.left] \cap f[e.right]
           /\ e.op = "|" => MeaningOf(e, f) = f[e.left] \cup f[e.right]
<1> DEFINE word == Having(Stem[e.form], Len(texts))
           negation == 0 .. Len(texts) - 1 \ f[e.of]
           both == f[e.left] \cap f[e.right]
           either == f[e.left] \cup f[e.right]
           op == e.op
<1>1. MeaningOf(e, f) = CASE op = "word" -> word [] op = "!" -> negation
                          [] op = "&" -> both [] op = "|" -> either
  BY DEF MeaningOf, Having
<1> HIDE DEF word, negation, both, either, op
<1>2. /\ op = "word" => MeaningOf(e, f) = word
      /\ op = "!" => MeaningOf(e, f) = negation
      /\ op = "&" => MeaningOf(e, f) = both
      /\ op = "|" => MeaningOf(e, f) = either
  BY <1>1
<1>3. QED
  BY <1>2 DEF word, negation, both, either, op

LEMMA MeaningIs ==
    \A e \in Expressions : Meaning[e] = MeaningOf(e, Meaning)
<1> DEFINE Y == SUBSET (0 .. Len(texts) - 1)
           F == [Expressions -> Y]
           step == [x \in F \X Expressions |-> MeaningOf(x[2], x[1])]
           y == {}
<1>1. \A f \in F, e \in Expressions : step[<<f, e>>] = MeaningOf(e, f)
  OBVIOUS
<1>2. ASSUME NEW f \in F, NEW e \in Expressions PROVE MeaningOf(e, f) \in Y
  <2>1. Having(Stem[e.form], Len(texts)) \in Y /\ 0 .. Len(texts) - 1 \ f[e.of] \in Y
    BY DEF Having
  <2>2. \A u, v \in Expressions : f[u] \cap f[v] \in Y /\ f[u] \cup f[v] \in Y
    OBVIOUS
  <2> HIDE DEF Y, F
  <2>3. CASE e.op = "word"
    BY <2>1, <2>3, MeaningCases
  <2>4. CASE e.op = "!"
    BY <2>1, <2>4, MeaningCases
  <2>5. CASE e.op \in {"&", "|"} /\ e.left \in Expressions /\ e.right \in Expressions
    <3>1. CASE e.op = "&"
      BY <2>2, <2>5, <3>1, MeaningCases
    <3>2. CASE e.op = "|"
      BY <2>2, <2>5, <3>2, MeaningCases
    <3>3. QED
      BY <2>5, <3>1, <3>2
  <2>6. QED
    BY <2>3, <2>4, <2>5, ExpressionCases
<1>3. step \in [F \X Expressions -> Y]
  <2> HIDE DEF F, Y
  <2>1. \A x \in F \X Expressions : MeaningOf(x[2], x[1]) \in Y
    BY <1>2
  <2>2. QED
    BY <2>1
<1>4. y \in Y
  OBVIOUS
<1> HIDE DEF step, Y, y
<1>5. ASSUME NEW f \in F, NEW g \in F, NEW e \in Expressions,
             \A x \in Expressions : Depth[x] < Depth[e] => f[x] = g[x]
      PROVE  step[<<f, e>>] = step[<<g, e>>]
  <2>1. \A x \in Operands(e) : f[x] = g[x]
    BY <1>5, ExpressionTypes
  <2>2. MeaningOf(e, f) = MeaningOf(e, g)
    <3>1. CASE e.op = "word"
      BY <3>1, MeaningCases
    <3>2. CASE e.op = "!" /\ Operands(e) = {e.of}
      <4>1. f[e.of] = g[e.of]
        BY <2>1, <3>2
      <4>2. QED
        BY <3>2, <4>1, MeaningCases, Zenon
    <3>3. CASE e.op \in {"&", "|"} /\ Operands(e) = {e.left, e.right}
      <4>1. f[e.left] = g[e.left] /\ f[e.right] = g[e.right]
        BY <2>1, <3>3
      <4>2. CASE e.op = "&"
        BY <4>1, <4>2, MeaningCases, Zenon
      <4>3. CASE e.op = "|"
        BY <4>1, <4>3, MeaningCases, Zenon
      <4>4. QED
        BY <3>3, <4>2, <4>3
    <3>4. QED
      BY <3>1, <3>2, <3>3, ExpressionCases
  <2>3. QED
    BY <1>1, <2>2
<1>6. PICK f : Defines(step, f, Expressions, Y)
  <2>1. MaxDepth \in Nat /\ Depth \in [Expressions -> 0 .. MaxDepth]
    BY ExpressionTypes
  <2>2. Descends(step, Depth, MaxDepth, Expressions, Y)
    BY <1>3, <1>5, <2>1 DEF Descends
  <2>3. QED
    BY <1>4, <2>2, DepthRecursion
<1>7. \E g \in F : g = [e \in Expressions |-> MeaningOf(e, g)]
  <2>1. f = [e \in Expressions |-> MeaningOf(e, f)]
    BY <1>1, <1>6 DEF Defines
  <2>2. QED
    BY <1>6, <2>1 DEF Defines
<1> DEFINE documents[e \in Expressions] == MeaningOf(e, documents)
<1>8. documents = [e \in Expressions |-> MeaningOf(e, documents)]
  BY <1>7, Zenon
<1>9. Meaning = documents
  BY Zenon DEF Meaning
<1> HIDE DEF documents
<1>10. QED
  BY <1>8, <1>9

----------------------------------------------------------------------------
(* Cutting what is written into tokens *)

\* The last lexeme, whether its place in its run is odd (1) or even (2), and the tokens.
Cuts == [last : Parser!Lexemes, turn : {1, 2}, tokens : Seq(Tokens)]
Uncut == [last |-> Space, turn |-> 2, tokens |-> <<>>]

Turn(cut, c) == IF c = cut.last /\ cut.turn = 1 THEN 2 ELSE 1

Cut(cut, c) ==
    [last |-> c, turn |-> Turn(cut, c),
     tokens |-> IF c = Space \/ (c \in {"&", "|"} /\ Turn(cut, c) = 2) THEN cut.tokens
                ELSE Append(cut.tokens, TokenOf(c))]

cutting == [x \in Cuts \X Parser!Lexemes |-> Cut(x[1], x[2])]

LEMMA CutIs ==
    ASSUME NEW cut \in Cuts, NEW c \in Parser!Lexemes
    PROVE  cutting[<<cut, c>>] = Cut(cut, c) /\ Cut(cut, c) \in Cuts
<1>1. TokenOf(c) \in Tokens
  BY ConstantTypes DEF Tokens, TokenOf
<1>2. Append(cut.tokens, TokenOf(c)) \in Seq(Tokens) /\ cut.tokens \in Seq(Tokens)
  BY <1>1, AppendProperties DEF Cuts
<1>3. Turn(cut, c) \in {1, 2}
  BY DEF Turn
<1>4. Cut(cut, c) \in Cuts
  <2> DEFINE passed == c = Space \/ (c \in {"&", "|"} /\ Turn(cut, c) = 2)
             tokens == IF passed THEN cut.tokens ELSE Append(cut.tokens, TokenOf(c))
  <2> HIDE DEF passed
  <2>1. tokens \in Seq(Tokens)
    BY <1>2
  <2>2. Cut(cut, c) = [last |-> c, turn |-> Turn(cut, c), tokens |-> tokens]
    BY DEF Cut, passed
  <2> HIDE DEF tokens
  <2>3. QED
    BY <1>3, <2>1, <2>2 DEF Cuts
<1>5. <<cut, c>> \in Cuts \X Parser!Lexemes
  OBVIOUS
<1>6. cutting[<<cut, c>>] = Cut(cut, c)
  BY <1>5 DEF cutting
<1>7. QED
  BY <1>4, <1>6

\* A run of equal lexemes grows, or begins anew.
LEMMA RunIs ==
    ASSUME NEW q \in Seq(Parser!Lexemes), NEW k \in 1 .. Len(q)
    PROVE  /\ RunTo(q, k) \in Int
           /\ k = 1 => RunTo(q, k) = 1
           /\ \A h : k # 1 /\ h = k - 1 =>
                 RunTo(q, k) = IF q[k] = q[h] THEN RunTo(q, h) + 1 ELSE 1
<1> DEFINE K(i) == {j \in 1 .. i : q[j] # q[i]}
           L(i) == IF K(i) # {} THEN Parser!Max(K(i)) ELSE 0
<1>1. \A i : RunTo(q, i) = i - L(i)
  BY DEF RunTo, Parser!SelectLastInSubSeq
<1>2. Len(q) \in Nat
  BY LenProperties
<1>3. \A i \in Nat : L(i) \in 0 .. i
  <2>1. \A i : K(i) \in SUBSET (1 .. i)
    BY Zenon
  <2> HIDE DEF K
  <2>2. QED
    BY <2>1, LastPlaceIs
<1>4. k \in Nat /\ RunTo(q, k) \in Int
  <2>1. k \in Nat /\ L(k) \in 0 .. k
    BY <1>2, <1>3
  <2> HIDE DEF L
  <2>2. QED
    BY <1>1, <2>1
<1>5. ASSUME k = 1 PROVE RunTo(q, k) = 1
  <2>1. K(1) = {}
    OBVIOUS
  <2>2. L(1) = 0
    BY <2>1
  <2> HIDE DEF L
  <2>3. QED
    BY <1>1, <1>5, <2>2
<1>6. ASSUME NEW h, k # 1, h = k - 1 PROVE RunTo(q, k) = IF q[k] = q[h] THEN RunTo(q, h) + 1 ELSE 1
  <2>1. h \in Nat /\ k = h + 1 /\ h \in 1 .. k /\ \A j \in 1 .. k : j \in 1 .. h \/ j = k
    BY <1>4, <1>6
  <2>2. CASE q[k] = q[h]
    <3>1. \A j : j \in K(k) <=> j \in K(h)
      BY <2>1, <2>2
    <3>2. K(k) = K(h)
      BY <3>1
    <3>3. L(k) = L(h)
      BY <3>2
    <3>4. L(h) \in Int
      BY <1>3, <2>1
    <3> HIDE DEF L, K
    <3>5. QED
      BY <1>1, <2>1, <2>2, <3>3, <3>4
  <2>3. CASE q[k] # q[h]
    <3>1. h \in K(k) /\ \A j \in K(k) : j \in Int /\ j <= h
      BY <2>1, <2>3
    <3> HIDE DEF K
    <3>2. Parser!Max(K(k)) = h
      <4>1. \A x \in K(k) : (\A y \in K(k) : x >= y) <=> x = h
        BY <2>1, <3>1
      <4>2. Parser!Max(K(k)) = CHOOSE x \in K(k) : \A y \in K(k) : x >= y
        BY Zenon DEF Parser!Max
      <4>3. \A x : x \in K(k) /\ (\A y \in K(k) : x >= y) <=> x = h
        BY <3>1, <4>1
      <4>4. QED
        BY <4>2, <4>3
    <3>3. L(k) = h
      BY <3>1, <3>2
    <3> HIDE DEF L
    <3>4. RunTo(q, k) = k - h
      BY <1>1, <3>3
    <3>5. QED
      BY <2>1, <2>3, <3>4
  <2>4. QED
    BY <2>2, <2>3
<1>7. QED
  BY <1>4, <1>5, <1>6

LEMMA Parity ==
    1 % 2 # 0 /\ \A n \in Int : (n + 1) % 2 = 0 <=> n % 2 # 0
OBVIOUS

\* A lexeme is the second of two if it is as the one before, which is not.
LEMMA SecondIs ==
    ASSUME NEW q \in Seq(Parser!Lexemes), NEW k \in 1 .. Len(q)
    PROVE  /\ k = 1 => ~Second(q, k)
           /\ \A h : k # 1 /\ h = k - 1 => (Second(q, k) <=> q[k] = q[h] /\ ~Second(q, h))
<1>1. k = 1 => ~Second(q, k)
  <2>1. k = 1 => RunTo(q, k) = 1
    BY RunIs
  <2>2. QED
    BY <2>1, Parity DEF Second
<1>2. ASSUME NEW h, k # 1, h = k - 1 PROVE Second(q, k) <=> q[k] = q[h] /\ ~Second(q, h)
  <2>1. h \in 1 .. Len(q)
    BY <1>2, LenProperties
  <2>2. RunTo(q, h) \in Int
    BY <2>1, RunIs
  <2>3. RunTo(q, k) = IF q[k] = q[h] THEN RunTo(q, h) + 1 ELSE 1
    BY <1>2, RunIs
  <2>4. QED
    BY <2>2, <2>3, Parity DEF Second
<1>3. QED
  BY <1>1, <1>2

\* tokenize is such a cutting.
LEMMA TokenizeCuts ==
    ASSUME NEW q \in Seq(Parser!Lexemes), NEW z, Leads(cutting, Uncut, q, z)
    PROVE  Parser!tokenize(q) = z.tokens
<1>1. PICK tokens : Tokenizes(tokens, q)
  BY TokenizeSteps
<1>2. /\ Len(q) \in Nat /\ \A k \in 1 .. Len(q) : q[k] \in Parser!Lexemes
      /\ \A k \in 0 .. Len(q) : tokens[k] \in Seq(Tokens)
  BY <1>1, LenProperties, ElementOfSeq DEF Tokenizes
<1> DEFINE last(k) == IF k = 0 THEN Space ELSE q[k]
           turn(k) == IF k = 0 \/ Second(q, k) THEN 2 ELSE 1
           f == [k \in 0 .. Len(q) |-> [last |-> last(k), turn |-> turn(k), tokens |-> tokens[k]]]
<1>3. /\ last(0) = Space /\ turn(0) = 2 /\ \A k : turn(k) \in {1, 2}
      /\ \A k \in 1 .. Len(q) : last(k) = q[k] /\ (turn(k) = 2 <=> Second(q, k))
  BY <1>2
<1> HIDE DEF last, turn
<1>4. ASSUME NEW k \in 0 .. Len(q)
      PROVE  f[k] \in Cuts /\ f[k].last = last(k) /\ f[k].turn = turn(k) /\ f[k].tokens = tokens[k]
  <2>1. last(k) \in Parser!Lexemes
    <3>1. k = 0 \/ k \in 1 .. Len(q)
      BY <1>2
    <3>2. Space \in Parser!Lexemes
      BY LexemesAre DEF Space
    <3>3. QED
      BY <1>3, <1>2, <3>1, <3>2
  <2>2. QED
    BY <1>3, <1>2, <2>1 DEF Cuts
<1>5. f[0] = Uncut
  <2>1. 0 \in 0 .. Len(q) /\ last(0) = Space /\ turn(0) = 2 /\ tokens[0] = <<>>
    BY <1>3, <1>1, <1>2 DEF Tokenizes
  <2>2. QED
    BY <2>1 DEF Uncut
<1> HIDE DEF f
<1>6. ASSUME NEW k \in 1 .. Len(q), NEW h, h = k - 1
      PROVE  Turn(f[h], q[k]) = turn(k)
  <2>1. h \in 0 .. Len(q) /\ (h = 0 <=> k = 1) /\ (h # 0 => h \in 1 .. Len(q)) /\ k # 0
    BY <1>2, <1>6
  <2>2. f[h].last = last(h) /\ f[h].turn = turn(h)
    BY <1>4, <2>1
  <2>3. CASE k = 1
    <3>1. ~Second(q, k)
      BY <2>3, SecondIs
    <3>2. f[h].turn = 2
      BY <1>3, <2>1, <2>2, <2>3
    <3>3. QED
      BY <1>3, <3>1, <3>2 DEF Turn
  <2>4. CASE k # 1
    <3>1. h # 0 /\ h \in 1 .. Len(q)
      BY <2>1, <2>4
    <3>2. Second(q, k) <=> q[k] = q[h] /\ ~Second(q, h)
      BY <1>6, <2>4, SecondIs
    <3>3. f[h].last = q[h] /\ f[h].turn \in {1, 2} /\ (f[h].turn = 2 <=> Second(q, h))
      BY <1>3, <2>2, <3>1
    <3>4. turn(k) \in {1, 2} /\ (turn(k) = 2 <=> Second(q, k))
      BY <1>3
    <3>5. QED
      BY <3>2, <3>3, <3>4 DEF Turn
  <2>5. QED
    BY <2>3, <2>4
<1>7. ASSUME NEW k \in 1 .. Len(q) PROVE f[k] = cutting[<<f[k - 1], q[k]>>]
  <2>1. PICK h : h = k - 1
    OBVIOUS
  <2>2. h \in 0 .. Len(q) /\ k \in 0 .. Len(q) /\ k # 0
    BY <1>2, <2>1
  <2>3. f[h] \in Cuts /\ q[k] \in Parser!Lexemes /\ f[h].tokens = tokens[h]
    BY <1>2, <1>4, <2>2
  <2>4. Turn(f[h], q[k]) = turn(k) /\ last(k) = q[k]
    BY <1>3, <1>6, <2>1, <2>2
  <2>5. turn(k) = 2 <=> Second(q, k)
    BY <1>3
  <2>6. tokens[k] = IF Skipped(q, k) THEN tokens[h] ELSE Append(tokens[h], TokenOf(q[k]))
    BY <1>1, <2>1 DEF Tokenizes
  <2>7. Skipped(q, k) <=> q[k] = Space \/ (q[k] \in {"&", "|"} /\ Turn(f[h], q[k]) = 2)
    BY <2>4, <2>5 DEF Skipped
  <2>8. f[k] = [last |-> last(k), turn |-> turn(k), tokens |-> tokens[k]]
    BY <2>2 DEF f
  <2>9. f[k] = Cut(f[h], q[k])
    BY <2>3, <2>4, <2>6, <2>7, <2>8 DEF Cut
  <2>10. cutting[<<f[h], q[k]>>] = Cut(f[h], q[k])
    BY <2>3, CutIs
  <2>11. QED
    BY <2>1, <2>9, <2>10
<1>8. ReadBy(cutting, f, q)
  BY <1>7 DEF ReadBy
<1>9. f[Len(q)] = z
  BY <1>5, <1>8, LeadsThere
<1>10. f[Len(q)].tokens = tokens[Len(q)]
  <2>1. Len(q) \in 0 .. Len(q)
    BY <1>2
  <2>2. QED
    BY <1>4, <2>1
<1>11. QED
  BY <1>1, <1>9, <1>10 DEF Tokenizes

Signs == {"&", "|", "!", "(", ")"}

LEMMA SignsAre ==
    /\ Space \in Parser!Lexemes /\ Space \notin Signs
    /\ \A c \in Signs : /\ c \in Parser!Lexemes /\ c \in Tokens /\ c \notin Words
                        /\ c # Space /\ TokenOf(c) = c
<1>1. /\ "&" # Space /\ "|" # Space /\ "!" # Space /\ "(" # Space /\ ")" # Space
  BY DEF Space
<1>2. Space \in Parser!Lexemes
  BY LexemesAre, Zenon DEF Space
<1>3. \A c \in Signs : c \in Parser!Lexemes
  BY LexemesAre, Zenon DEF Signs
<1>4. \A c \in Signs : c \notin Forms /\ c \notin Words
  BY LexemesAre, Zenon DEF Signs
<1>5. QED
  BY <1>1, <1>2, <1>3, <1>4 DEF Signs, Tokens, TokenOf

\* Wherever the text begins, its tokens are t, and it ends with no operator that a
\* second of it could follow.
CutsInto(text, t) ==
    \A cut \in Cuts : \E z \in Cuts :
        Leads(cutting, cut, text, z) /\ z.last \notin {"&", "|"} /\ z.tokens = cut.tokens \o t

\* One lexeme.
LEMMA CutOne ==
    ASSUME NEW cut \in Cuts, NEW c \in Parser!Lexemes
    PROVE  \E z \in Cuts :
              /\ Leads(cutting, cut, <<c>>, z)
              /\ z.last = c /\ z.turn = Turn(cut, c)
              /\ z.tokens = IF c = Space \/ (c \in {"&", "|"} /\ Turn(cut, c) = 2) THEN cut.tokens
                            ELSE cut.tokens \o <<TokenOf(c)>>
<1> DEFINE z == cutting[<<cut, c>>]
<1>1. z = Cut(cut, c) /\ z \in Cuts
  BY CutIs
<1>2. Leads(cutting, cut, <<c>>, z)
  BY LeadsOn
<1>3. Append(cut.tokens, TokenOf(c)) = cut.tokens \o <<TokenOf(c)>>
  <2>1. cut.tokens \in Seq(Tokens) /\ TokenOf(c) \in Tokens
    BY ConstantTypes DEF Cuts, Tokens, TokenOf
  <2>2. QED
    BY <2>1
<1> HIDE DEF z
<1>4. /\ z.last = c /\ z.turn = Turn(cut, c)
      /\ z.tokens = IF c = Space \/ (c \in {"&", "|"} /\ Turn(cut, c) = 2) THEN cut.tokens
                    ELSE cut.tokens \o <<TokenOf(c)>>
  BY <1>1, <1>3 DEF Cut
<1>5. QED
  BY <1>1, <1>2, <1>4

LEMMA CutPlain ==
    ASSUME NEW c \in Parser!Lexemes \ {"&", "|", Space}
    PROVE  CutsInto(<<c>>, <<TokenOf(c)>>)
<1>1. c \notin {"&", "|"} /\ c # Space
  OBVIOUS
<1>2. ASSUME NEW cut \in Cuts
      PROVE  \E z \in Cuts : /\ Leads(cutting, cut, <<c>>, z) /\ z.last \notin {"&", "|"}
                             /\ z.tokens = cut.tokens \o <<TokenOf(c)>>
  <2>1. PICK z \in Cuts :
            /\ Leads(cutting, cut, <<c>>, z)
            /\ z.last = c /\ z.turn = Turn(cut, c)
            /\ z.tokens = IF c = Space \/ (c \in {"&", "|"} /\ Turn(cut, c) = 2) THEN cut.tokens
                          ELSE cut.tokens \o <<TokenOf(c)>>
    BY CutOne
  <2>2. z.tokens = cut.tokens \o <<TokenOf(c)>>
    BY <1>1, <2>1
  <2>3. QED
    BY <1>1, <2>1, <2>2
<1>3. QED
  BY <1>2 DEF CutsInto

LEMMA CutsJoin ==
    ASSUME NEW s \in Texts, NEW t \in Texts, NEW u \in Seq(Tokens), NEW v \in Seq(Tokens),
           CutsInto(s, u), CutsInto(t, v)
    PROVE  CutsInto(s \o t, u \o v)
<1>1. ASSUME NEW cut \in Cuts
      PROVE  \E z \in Cuts : /\ Leads(cutting, cut, s \o t, z) /\ z.last \notin {"&", "|"}
                             /\ z.tokens = cut.tokens \o (u \o v)
  <2>1. PICK y \in Cuts : Leads(cutting, cut, s, y) /\ y.tokens = cut.tokens \o u
    BY DEF CutsInto
  <2>2. PICK z \in Cuts : /\ Leads(cutting, y, t, z) /\ z.last \notin {"&", "|"}
                          /\ z.tokens = y.tokens \o v
    BY DEF CutsInto
  <2>3. Leads(cutting, cut, s \o t, z)
    BY <2>1, <2>2, LeadsJoin DEF Texts
  <2>4. z.tokens = cut.tokens \o (u \o v)
    <3> DEFINE c == cut.tokens
    <3>1. c \in Seq(Tokens) /\ z.tokens = (c \o u) \o v
      BY <2>1, <2>2 DEF Cuts
    <3> HIDE DEF c
    <3>2. z.tokens = c \o (u \o v)
      BY <3>1, ConcatAssociative
    <3>3. QED
      BY <3>2 DEF c
  <2>5. QED
    BY <2>2, <2>3, <2>4
<1>2. QED
  BY <1>1 DEF CutsInto

LEMMA FourIs ==
    ASSUME NEW S, NEW a \in S, NEW b \in S, NEW c \in S, NEW d \in S
    PROVE  (<<a>> \o <<b>>) \o (<<c>> \o <<d>>) = <<a, b, c, d>>
<1> DEFINE one(x) == <<x>>
           four == <<a, b, c, d>>
<1>1. /\ \A x \in S : one(x) \in Seq(S) /\ Len(one(x)) = 1 /\ one(x)[1] = x
      /\ four \in Seq(S) /\ Len(four) = 4
      /\ four[1] = a /\ four[2] = b /\ four[3] = c /\ four[4] = d
  OBVIOUS
<1> HIDE DEF one, four
<1>2. ASSUME NEW x \in S, NEW y \in S
      PROVE  LET two == one(x) \o one(y)
             IN  two \in Seq(S) /\ Len(two) = 2 /\ two[1] = x /\ two[2] = y
  BY <1>1, ConcatProperties
<1> DEFINE s == one(a) \o one(b)
           t == one(c) \o one(d)
<1>3. /\ s \in Seq(S) /\ Len(s) = 2 /\ s[1] = a /\ s[2] = b
      /\ t \in Seq(S) /\ Len(t) = 2 /\ t[1] = c /\ t[2] = d
  BY <1>2
<1> HIDE DEF s, t
<1>4. /\ s \o t \in Seq(S) /\ Len(s \o t) = 4
      /\ (s \o t)[1] = a /\ (s \o t)[2] = b /\ (s \o t)[3] = c /\ (s \o t)[4] = d
  <2> DEFINE u == s \o t
  <2>1. /\ u \in Seq(S) /\ Len(u) = Len(s) + Len(t)
        /\ \A i \in 1 .. Len(s) + Len(t) : u[i] = IF i <= Len(s) THEN s[i] ELSE t[i - Len(s)]
    BY <1>3, ConcatProperties
  <2> HIDE DEF u
  <2>2. /\ u \in Seq(S) /\ Len(u) = 4
        /\ \A i \in 1 .. 4 : u[i] = IF i <= 2 THEN s[i] ELSE t[i - 2]
    BY <1>3, <2>1
  <2>3. u[1] = s[1] /\ u[2] = s[2] /\ u[3] = t[1] /\ u[4] = t[2]
    BY <2>2
  <2>4. QED
    BY <1>3, <2>2, <2>3 DEF u
<1>5. \A i \in 1 .. 4 : (s \o t)[i] = four[i]
  BY <1>1, <1>4
<1>6. s \o t = four
  BY <1>1, <1>4, <1>5, SeqEqual
<1>7. QED
  BY <1>6 DEF s, t, one, four

\* Of two &, one is a token.
LEMMA CutAnd == CutsInto(<<Space, "&", "&", Space>>, <<"&">>)
<1> DEFINE L == Parser!Lexemes
<1>1. /\ Space \in L /\ "&" \in L /\ Space # "&" /\ Space # "|"
      /\ TokenOf("&") = "&"
  BY SignsAre DEF Signs
<1>2. ASSUME NEW cut \in Cuts
      PROVE  \E z \in Cuts : /\ Leads(cutting, cut, <<Space, "&", "&", Space>>, z)
                             /\ z.last \notin {"&", "|"} /\ z.tokens = cut.tokens \o <<"&">>
  <2>1. PICK a \in Cuts : /\ Leads(cutting, cut, <<Space>>, a)
                          /\ a.last = Space /\ a.tokens = cut.tokens
    BY <1>1, CutOne
  <2>2. PICK b \in Cuts : /\ Leads(cutting, a, <<"&">>, b)
                          /\ b.last = "&" /\ b.turn = 1 /\ b.tokens = cut.tokens \o <<"&">>
    <3>1. Turn(a, "&") = 1
      BY <1>1, <2>1 DEF Turn
    <3>2. PICK b \in Cuts :
              /\ Leads(cutting, a, <<"&">>, b) /\ b.last = "&" /\ b.turn = Turn(a, "&")
              /\ b.tokens = IF "&" = Space \/ ("&" \in {"&", "|"} /\ Turn(a, "&") = 2) THEN a.tokens
                            ELSE a.tokens \o <<TokenOf("&")>>
      BY <1>1, CutOne, Zenon
    <3>3. b.tokens = cut.tokens \o <<"&">>
      BY <1>1, <2>1, <3>1, <3>2
    <3>4. QED
      BY <3>1, <3>2, <3>3
  <2>3. PICK c \in Cuts : /\ Leads(cutting, b, <<"&">>, c) /\ c.tokens = cut.tokens \o <<"&">>
    <3>1. Turn(b, "&") = 2
      BY <2>2 DEF Turn
    <3>2. QED
      BY <1>1, <2>2, <3>1, CutOne
  <2>4. PICK z \in Cuts : /\ Leads(cutting, c, <<Space>>, z)
                          /\ z.last = Space /\ z.tokens = cut.tokens \o <<"&">>
    <3>1. PICK z \in Cuts :
              /\ Leads(cutting, c, <<Space>>, z) /\ z.last = Space /\ z.turn = Turn(c, Space)
              /\ z.tokens = IF Space = Space \/ (Space \in {"&", "|"} /\ Turn(c, Space) = 2) THEN c.tokens
                            ELSE c.tokens \o <<TokenOf(Space)>>
      BY <1>1, CutOne, Zenon
    <3>2. QED
      BY <2>3, <3>1
  <2> HIDE DEF L
  <2>5. <<Space>> \in Seq(L) /\ <<"&">> \in Seq(L)
    BY <1>1
  <2>6. <<Space>> \o <<"&">> \in Seq(L) /\ <<"&">> \o <<Space>> \in Seq(L)
    BY <2>5, ConcatProperties
  <2>7. Leads(cutting, cut, <<Space>> \o <<"&">>, b) /\ Leads(cutting, b, <<"&">> \o <<Space>>, z)
    BY <2>1, <2>2, <2>3, <2>4, <2>5, LeadsJoin
  <2>8. Leads(cutting, cut, (<<Space>> \o <<"&">>) \o (<<"&">> \o <<Space>>), z)
    BY <2>6, <2>7, LeadsJoin
  <2>9. (<<Space>> \o <<"&">>) \o (<<"&">> \o <<Space>>) = <<Space, "&", "&", Space>>
    BY <1>1, FourIs
  <2>10. QED
    BY <1>1, <2>4, <2>8, <2>9
<1>3. QED
  BY <1>2 DEF CutsInto

\* A single | after a text that ends with no operator is a token.
LEMMA CutOr ==
    ASSUME NEW s \in Texts, NEW t \in Texts, NEW u \in Seq(Tokens), NEW v \in Seq(Tokens),
           CutsInto(s, u), CutsInto(t, v)
    PROVE  CutsInto(s \o <<"|">> \o t, u \o <<"|">> \o v)
<1> DEFINE L == Parser!Lexemes
<1>1. "|" \in L /\ "|" # Space /\ TokenOf("|") = "|" /\ "|" \in Tokens
  BY SignsAre DEF Signs
<1>2. ASSUME NEW cut \in Cuts
      PROVE  \E z \in Cuts : /\ Leads(cutting, cut, s \o <<"|">> \o t, z) /\ z.last \notin {"&", "|"}
                             /\ z.tokens = cut.tokens \o (u \o <<"|">> \o v)
  <2>1. PICK a \in Cuts : /\ Leads(cutting, cut, s, a) /\ a.last \notin {"&", "|"}
                          /\ a.tokens = cut.tokens \o u
    BY DEF CutsInto
  <2>2. PICK b \in Cuts : Leads(cutting, a, <<"|">>, b) /\ b.tokens = a.tokens \o <<"|">>
    <3>1. Turn(a, "|") = 1
      BY <2>1 DEF Turn
    <3>2. PICK b \in Cuts :
              /\ Leads(cutting, a, <<"|">>, b) /\ b.last = "|" /\ b.turn = Turn(a, "|")
              /\ b.tokens = IF "|" = Space \/ ("|" \in {"&", "|"} /\ Turn(a, "|") = 2) THEN a.tokens
                            ELSE a.tokens \o <<TokenOf("|")>>
      BY <1>1, CutOne, Zenon
    <3>3. b.tokens = a.tokens \o <<"|">>
      BY <1>1, <3>1, <3>2
    <3>4. QED
      BY <3>2, <3>3
  <2>3. PICK z \in Cuts : /\ Leads(cutting, b, t, z) /\ z.last \notin {"&", "|"}
                          /\ z.tokens = b.tokens \o v
    BY DEF CutsInto
  <2>4. s \in Seq(L) /\ t \in Seq(L) /\ <<"|">> \in Seq(L) /\ s \o <<"|">> \in Seq(L)
    BY <1>1 DEF Texts
  <2> HIDE DEF L
  <2>5. Leads(cutting, cut, s \o <<"|">>, b)
    BY <2>1, <2>2, <2>4, LeadsJoin
  <2>6. Leads(cutting, cut, s \o <<"|">> \o t, z)
    BY <2>3, <2>4, <2>5, LeadsJoin
  <2>7. z.tokens = cut.tokens \o (u \o <<"|">> \o v)
    <3> DEFINE c == cut.tokens
               or == <<"|">>
    <3>1. c \in Seq(Tokens) /\ or \in Seq(Tokens) /\ z.tokens = ((c \o u) \o or) \o v
      BY <1>1, <2>1, <2>2, <2>3 DEF Cuts
    <3> HIDE DEF c, or
    <3>2. u \o or \in Seq(Tokens)
      BY <3>1, ConcatProperties
    <3>3. (c \o u) \o or = c \o (u \o or)
      BY <3>1, ConcatAssociative
    <3>4. z.tokens = c \o ((u \o or) \o v)
      BY <3>1, <3>2, <3>3, ConcatAssociative
    <3>5. QED
      BY <3>4 DEF c, or
  <2>8. QED
    BY <2>3, <2>6, <2>7
<1>3. QED
  BY <1>2 DEF CutsInto

LEMMA CutsTokenize ==
    ASSUME NEW text \in Texts, NEW t \in Seq(Tokens), CutsInto(text, t)
    PROVE  Parser!tokenize(text) = t
<1>1. Uncut \in Cuts /\ Uncut.tokens = <<>>
  BY SignsAre DEF Cuts, Uncut
<1>2. PICK z \in Cuts : Leads(cutting, Uncut, text, z) /\ z.tokens = <<>> \o t
  BY <1>1 DEF CutsInto
<1>3. <<>> \o t = t
  OBVIOUS
<1>4. QED
  BY <1>2, <1>3, TokenizeCuts DEF Texts

----------------------------------------------------------------------------
(* The shunting yard, of sequences of tokens *)

LEMMA PrecedenceIs ==
    /\ Parser!precedence("!") = 3 /\ Parser!precedence("&") = 2 /\ Parser!precedence("|") = 1
    /\ Parser!precedence("(") = -1
BY DEF Parser!precedence

\* The two parts of a sequence that was joined.
LEMMA PartsOfJoined ==
    ASSUME NEW S, NEW s \in Seq(S), NEW t \in Seq(S)
    PROVE  /\ s \o t \in Seq(S) /\ Len(s) \in 0 .. Len(s \o t)
           /\ SubSeq(s \o t, 1, Len(s)) = s
           /\ SubSeq(s \o t, Len(s) + 1, Len(s \o t)) = t
<1> DEFINE all == s \o t
           m == Len(s)
           n == Len(t)
<1>1. /\ all \in Seq(S) /\ Len(all) = m + n /\ m \in Nat /\ n \in Nat
      /\ \A i \in 1 .. m + n : all[i] = IF i <= m THEN s[i] ELSE t[i - m]
  BY ConcatProperties, LenProperties
<1> HIDE DEF all, m, n
<1>2. m \in 0 .. Len(all)
  BY <1>1
<1>3. SubSeq(all, 1, m) = s
  <2>1. /\ SubSeq(all, 1, m) \in Seq(S) /\ Len(SubSeq(all, 1, m)) = m
        /\ \A i \in 1 .. m : SubSeq(all, 1, m)[i] = all[i]
    <3>1. 1 \in 1 .. Len(all) + 1 /\ m - 1 + 1 = m /\ (IF 1 <= m THEN m - 1 + 1 ELSE 0) = m
      BY <1>1
    <3>2. /\ SubSeq(all, 1, m) \in Seq(S)
          /\ Len(SubSeq(all, 1, m)) = IF 1 <= m THEN m - 1 + 1 ELSE 0
          /\ \A i \in 1 .. m - 1 + 1 : SubSeq(all, 1, m)[i] = all[1 + i - 1]
      BY <1>1, <1>2, <3>1, PartIs
    <3>3. \A i \in 1 .. m : 1 + i - 1 = i
      OBVIOUS
    <3>4. QED
      BY <3>1, <3>2, <3>3
  <2>2. \A i \in 1 .. m : all[i] = s[i]
    BY <1>1
  <2> DEFINE part == SubSeq(all, 1, m)
  <2> HIDE DEF part
  <2>3. part \in Seq(S) /\ Len(part) = Len(s) /\ \A i \in 1 .. Len(s) : part[i] = s[i]
    BY <2>1, <2>2 DEF part, m
  <2>4. part = s
    BY <2>3, SeqEqual
  <2>5. QED
    BY <2>4 DEF part
<1>4. SubSeq(all, m + 1, Len(all)) = t
  <2> DEFINE part == SubSeq(all, m + 1, m + n)
             a == m + 1
             b == m + n
  <2>1. a \in 1 .. Len(all) + 1 /\ b \in 0 .. Len(all) /\ b - a + 1 = n
        /\ (IF a <= b THEN b - a + 1 ELSE 0) = n /\ \A i \in 1 .. n : a + i - 1 = m + i
    BY <1>1
  <2> HIDE DEF a, b
  <2>2. /\ SubSeq(all, a, b) \in Seq(S)
        /\ Len(SubSeq(all, a, b)) = IF a <= b THEN b - a + 1 ELSE 0
        /\ \A i \in 1 .. b - a + 1 : SubSeq(all, a, b)[i] = all[a + i - 1]
    BY <1>1, <2>1, PartIs
  <2>3. part = SubSeq(all, a, b)
    BY DEF a, b
  <2> HIDE DEF part
  <2>4. /\ part \in Seq(S) /\ Len(part) = n /\ \A i \in 1 .. n : part[i] = all[m + i]
    BY <2>1, <2>2, <2>3
  <2>5. \A i \in 1 .. n : all[m + i] = t[i]
    <3>1. \A i \in 1 .. n : m + i \in 1 .. m + n /\ ~(m + i <= m) /\ (m + i) - m = i
      BY <1>1
    <3>2. QED
      BY <1>1, <3>1
  <2>6. part \in Seq(S) /\ Len(part) = Len(t) /\ \A i \in 1 .. Len(t) : part[i] = t[i]
    BY <2>4, <2>5 DEF n
  <2>7. part = t
    BY <2>6, SeqEqual
  <2>8. QED
    BY <1>1, <2>7 DEF part
<1>5. QED
  BY <1>1, <1>2, <1>3, <1>4 DEF all, m

Yard(ops, out) == [operators |-> ops, output |-> out]

\* Popping what is above the first operators.
LEMMA PopIs ==
    ASSUME NEW ops \in Seq(Tokens), NEW pend \in Seq(Tokens), NEW out \in Seq(Tokens)
    PROVE  Parser!PopDownTo(Yard(ops \o pend, out), Len(ops)) = Yard(ops, out \o Parser!Reverse(pend))
<1> DEFINE all == ops \o pend
<1>1. SubSeq(all, 1, Len(ops)) = ops /\ SubSeq(all, Len(ops) + 1, Len(all)) = pend
  BY PartsOfJoined
<1> HIDE DEF all
<1>2. Parser!PopDownTo(Yard(all, out), Len(ops)) = Yard(ops, out \o Parser!Reverse(pend))
  BY <1>1 DEF Parser!PopDownTo, Yard
<1>3. QED
  BY <1>2 DEF all

\* The last place with a property is the end of the first part.
LEMMA LastOfFirst ==
    ASSUME NEW m \in Nat, NEW n \in Nat, NEW K \in SUBSET (1 .. n),
           m # 0 => m \in K, \A i \in K : i <= m
    PROVE  (IF K # {} THEN Parser!Max(K) ELSE 0) = m
<1>1. CASE m = 0
  <2>1. K = {}
    BY <1>1
  <2>2. QED
    BY <1>1, <2>1
<1>2. CASE m # 0
  <2>1. m \in K /\ \A i \in K : i \in Int /\ m >= i
    BY <1>2
  <2>2. \A x \in K : (\A i \in K : x >= i) => x = m
    BY <2>1
  <2>3. Parser!Max(K) \in K /\ \A i \in K : Parser!Max(K) >= i
    BY <2>1, Zenon DEF Parser!Max
  <2>4. Parser!Max(K) = m
    BY <2>2, <2>3
  <2>5. QED
    BY <2>1, <2>4
<1>3. QED
  BY <1>1, <1>2

\* The top of the operators is of a lower precedence than p.
Below(ops, p) == ops # <<>> => Parser!precedence(ops[Len(ops)]) < p

\* Operators that are of precedence p or above.
AtLeast(pend, p) ==
    pend \in Seq(Parser!Operators) /\ \A i \in 1 .. Len(pend) : Parser!precedence(pend[i]) >= p

shunting == [x \in ({None} \cup Yards) \X Tokens |-> Parser!ShuntingStep(x[1], x[2])]

LEMMA OperatorsAre ==
    /\ Parser!Operators = {"&", "|", "!"} /\ Parser!Operators \subseteq Tokens
    /\ \A x : x \in Seq(Parser!Operators) => x \in Seq(Tokens)
<1>1. Parser!Operators = {"&", "|", "!"}
  BY DEF Parser!Operators
<1>2. Parser!Operators \subseteq Tokens
  BY <1>1, SignsAre DEF Signs
<1>3. QED
  BY <1>1, <1>2, SeqMonotonic

LEMMA ShuntingIs ==
    ASSUME NEW ops \in Seq(Tokens), NEW out \in Seq(Tokens), NEW token \in Tokens
    PROVE  shunting[<<Yard(ops, out), token>>] =
               CASE token \in Parser!Operators -> Parser!PushOperator(Yard(ops, out), token)
                 [] token = "(" -> Yard(Append(ops, token), out)
                 [] token = ")" -> Parser!CloseParenthesis(Yard(ops, out))
                 [] OTHER -> Yard(ops, Append(out, token))
<1> DEFINE yard == Yard(ops, out)
<1>1. yard \in Yards
  BY DEF Yard, Yards
<1>2. yard # None
  BY <1>1, ExpressionsAssumption DEF Yards, Tokens
<1>3. /\ [yard EXCEPT !.operators = Append(@, token)] = Yard(Append(ops, token), out)
      /\ [yard EXCEPT !.output = Append(@, token)] = Yard(ops, Append(out, token))
  <2> DEFINE more == Append(ops, token)
             longer == Append(out, token)
  <2>1. yard.operators = ops /\ yard.output = out
    BY DEF Yard
  <2>2. /\ Append(yard.operators, token) = more /\ Append(yard.output, token) = longer
    BY <2>1
  <2> HIDE DEF more, longer
  <2>3. /\ [yard EXCEPT !.operators = more] = Yard(more, out)
        /\ [yard EXCEPT !.output = longer] = Yard(ops, longer)
    BY DEF Yard
  <2>4. QED
    BY <2>2, <2>3, Zenon DEF more, longer
<1> HIDE DEF yard
<1>4. shunting[<<yard, token>>] = Parser!ShuntingStep(yard, token)
  BY <1>1 DEF shunting
<1>5. QED
  BY <1>2, <1>3, <1>4, Zenon DEF Parser!ShuntingStep, yard

LEMMA OneMore ==
    ASSUME NEW S, NEW s \in Seq(S), NEW x \in S
    PROVE  Append(s, x) = s \o <<x>> /\ s \o <<x>> \in Seq(S) /\ Parser!Front(s \o <<x>>) = s
<1>1. Append(s, x) = s \o <<x>>
  OBVIOUS
<1>2. <<x>> \in Seq(S) /\ Len(<<x>>) = 1
  OBVIOUS
<1> DEFINE one == <<x>>
<1> HIDE DEF one
<1>3. /\ s \o one \in Seq(S) /\ SubSeq(s \o one, 1, Len(s)) = s
      /\ Len(s \o one) = Len(s) + 1 /\ Len(s) \in Nat
  BY <1>2, PartsOfJoined, ConcatProperties, LenProperties DEF one
<1>4. Len(s \o one) - 1 = Len(s)
  BY <1>3
<1>5. Parser!Front(s \o one) = s
  BY <1>3, <1>4 DEF Parser!Front
<1>6. QED
  BY <1>1, <1>3, <1>5 DEF one

LEMMA PushIs ==
    ASSUME NEW ops \in Seq(Tokens), NEW pend, NEW out \in Seq(Tokens), NEW op \in Parser!Operators,
           Below(ops, Parser!precedence(op)), AtLeast(pend, Parser!precedence(op))
    PROVE  shunting[<<Yard(ops \o pend, out), op>>] = Yard(ops \o <<op>>, out \o Parser!Reverse(pend))
<1> DEFINE all == ops \o pend
           p == Parser!precedence(op)
           K == {i \in 1 .. Len(all) : Parser!precedence(all[i]) < p}
           k == IF K # {} THEN Parser!Max(K) ELSE 0
           popped == Parser!PopDownTo(Yard(all, out), k)
<1>1. op \in Tokens /\ pend \in Seq(Tokens)
  BY OperatorsAre DEF AtLeast
<1>2. /\ all \in Seq(Tokens) /\ Len(all) = Len(ops) + Len(pend) /\ Len(ops) \in Nat /\ Len(pend) \in Nat
      /\ \A i \in 1 .. Len(ops) + Len(pend) : all[i] = IF i <= Len(ops) THEN ops[i] ELSE pend[i - Len(ops)]
  BY <1>1, ConcatProperties, LenProperties
<1> HIDE DEF all
<1>3. p \in Int
  BY OperatorsAre, PrecedenceIs
<1> HIDE DEF p
<1>4. Len(ops) # 0 => Len(ops) \in K
  <2>1. SUFFICES ASSUME Len(ops) # 0 PROVE Len(ops) \in K
    OBVIOUS
  <2>2. Len(ops) \in 1 .. Len(all) /\ all[Len(ops)] = ops[Len(ops)]
    BY <1>2, <2>1
  <2>3. Parser!precedence(ops[Len(ops)]) < p
    BY <2>1 DEF Below, p
  <2>4. QED
    BY <2>2, <2>3
<1>5. ASSUME NEW i \in K PROVE i <= Len(ops)
  <2>1. SUFFICES ASSUME ~(i <= Len(ops)) PROVE FALSE
    OBVIOUS
  <2>2. i - Len(ops) \in 1 .. Len(pend) /\ all[i] = pend[i - Len(ops)]
    BY <1>2, <2>1
  <2>3. pend[i - Len(ops)] \in Parser!Operators
    BY <2>2, ElementOfSeq DEF AtLeast
  <2>4. Parser!precedence(pend[i - Len(ops)]) \in Int
    BY <2>3, OperatorsAre, PrecedenceIs
  <2>5. Parser!precedence(pend[i - Len(ops)]) >= p
    BY <2>2 DEF AtLeast, p
  <2>6. Parser!precedence(all[i]) < p
    OBVIOUS
  <2>7. QED
    BY <1>3, <2>2, <2>4, <2>5, <2>6
<1>6. k = Len(ops)
  <2>1. K \in SUBSET (1 .. Len(all)) /\ Len(all) \in Nat /\ Len(ops) \in Nat
    BY <1>2
  <2> HIDE DEF K
  <2>2. QED
    BY <1>4, <1>5, <2>1, LastOfFirst
<1>7. popped = Yard(ops, out \o Parser!Reverse(pend))
  <2> HIDE DEF k
  <2>1. QED
    BY <1>1, <1>6, PopIs DEF all
<1>8. Parser!PushOperator(Yard(all, out), op) = [popped EXCEPT !.operators = Append(@, op)]
  BY DEF Parser!PushOperator, Parser!Topmost, Parser!SelectLastInSeq, Yard, p
<1> HIDE DEF popped
<1>9. Append(ops, op) = ops \o <<op>>
  BY <1>1, OneMore
<1>10. Parser!PushOperator(Yard(all, out), op) = Yard(ops \o <<op>>, out \o Parser!Reverse(pend))
  BY <1>7, <1>8, <1>9 DEF Yard
<1>11. shunting[<<Yard(all, out), op>>] = Parser!PushOperator(Yard(all, out), op)
  <2>1. op \in Tokens /\ op \in Parser!Operators /\ op # "(" /\ op # ")"
    BY <1>1, OperatorsAre
  <2>2. QED
    BY <1>2, <2>1, ShuntingIs
<1>12. QED
  BY <1>10, <1>11 DEF all

LEMMA CloseIs ==
    ASSUME NEW ops \in Seq(Tokens), NEW pend \in Seq(Parser!Operators), NEW out \in Seq(Tokens)
    PROVE  shunting[<<Yard(ops \o <<"(">> \o pend, out), ")">>] = Yard(ops, out \o Parser!Reverse(pend))
<1> DEFINE first == ops \o <<"(">>
           all == first \o pend
           m == Len(first)
           K == {i \in 1 .. Len(all) : all[i] = "("}
           k == IF K # {} THEN Parser!Max(K) ELSE 0
           popped == Parser!PopDownTo(Yard(all, out), k)
<1>1. "(" \in Tokens /\ ")" \in Tokens /\ pend \in Seq(Tokens)
  BY OperatorsAre, SignsAre DEF Signs
<1>2. first \in Seq(Tokens) /\ m \in Nat /\ m # 0 /\ first[m] = "(" /\ Parser!Front(first) = ops
  <2>1. first = Append(ops, "(") /\ first \in Seq(Tokens) /\ Parser!Front(first) = ops
    BY <1>1, OneMore
  <2>2. QED
    BY <1>1, <2>1, AppendProperties, LenProperties
<1> HIDE DEF first
<1>3. /\ all \in Seq(Tokens) /\ Len(all) = m + Len(pend) /\ Len(pend) \in Nat
      /\ \A i \in 1 .. m + Len(pend) : all[i] = IF i <= m THEN first[i] ELSE pend[i - m]
  BY <1>1, <1>2, ConcatProperties, LenProperties
<1> HIDE DEF all
<1>4. m \in K
  BY <1>2, <1>3
<1>5. ASSUME NEW i \in K PROVE i <= m
  <2>1. SUFFICES ASSUME ~(i <= m) PROVE FALSE
    OBVIOUS
  <2>2. i - m \in 1 .. Len(pend) /\ all[i] = pend[i - m]
    BY <1>2, <1>3, <2>1
  <2>3. pend[i - m] \in Parser!Operators
    BY <2>2, ElementOfSeq
  <2>4. QED
    BY <2>2, <2>3, OperatorsAre
<1>6. k = m
  <2>1. K \in SUBSET (1 .. Len(all)) /\ Len(all) \in Nat
    BY <1>2, <1>3
  <2> HIDE DEF K, m
  <2>2. QED
    BY <1>2, <1>4, <1>5, <2>1, LastOfFirst
<1>7. popped = Yard(first, out \o Parser!Reverse(pend))
  <2> HIDE DEF k
  <2>1. QED
    BY <1>1, <1>2, <1>6, PopIs DEF all
<1>8. Parser!CloseParenthesis(Yard(all, out)) =
          IF k = 0 THEN None ELSE [popped EXCEPT !.operators = Parser!Front(@)]
  <2>1. Yard(all, out).operators = all
    BY DEF Yard
  <2>2. QED
    BY <2>1, Zenon DEF Parser!CloseParenthesis, Parser!Topmost, Parser!SelectLastInSeq
<1> HIDE DEF popped, k
<1>9. Parser!CloseParenthesis(Yard(all, out)) = Yard(ops, out \o Parser!Reverse(pend))
  BY <1>2, <1>6, <1>7, <1>8 DEF Yard
<1>10. ")" \notin Parser!Operators
  BY OperatorsAre
<1>11. shunting[<<Yard(all, out), ")">>] = Parser!CloseParenthesis(Yard(all, out))
  BY <1>1, <1>3, <1>10, ShuntingIs
<1>12. QED
  BY <1>9, <1>11 DEF all, first

LEMMA OpenIs ==
    ASSUME NEW ops \in Seq(Tokens), NEW out \in Seq(Tokens)
    PROVE  shunting[<<Yard(ops, out), "(">>] = Yard(ops \o <<"(">>, out)
<1>1. "(" \in Tokens /\ "(" \notin Parser!Operators
  BY SignsAre, OperatorsAre DEF Signs
<1>2. shunting[<<Yard(ops, out), "(">>] = Yard(Append(ops, "("), out)
  BY <1>1, ShuntingIs
<1>3. QED
  BY <1>1, <1>2, OneMore

LEMMA WordIs ==
    ASSUME NEW ops \in Seq(Tokens), NEW out \in Seq(Tokens), NEW w \in Words
    PROVE  shunting[<<Yard(ops, out), w>>] = Yard(ops, out \o <<w>>)
<1>1. w \in Tokens /\ w \notin Signs
  BY SignsAre DEF Tokens
<1>2. w \notin Parser!Operators /\ w # "(" /\ w # ")"
  BY <1>1, OperatorsAre DEF Signs
<1>3. shunting[<<Yard(ops, out), w>>] = Yard(ops, Append(out, w))
  BY <1>1, <1>2, ShuntingIs
<1>4. QED
  BY <1>1, <1>3, OneMore

----------------------------------------------------------------------------
(* The evaluation, of sequences of tokens *)

truth == [x \in Seq(Sets) \X Tokens |-> TruthStep(x[1], x[2])]

Joined(op, A, B) == IF op = "&" THEN A \cap B ELSE A \cup B

LEMMA TruthOn ==
    ASSUME NEW S \in Seq(Sets), NEW token \in Tokens
    PROVE  truth[<<S, token>>] = TruthStep(S, token)
<1>1. <<S, token>> \in Seq(Sets) \X Tokens
  OBVIOUS
<1>2. QED
  BY <1>1, Zenon DEF truth

LEMMA TruthWord ==
    ASSUME NEW S \in Seq(Sets), NEW w \in Words
    PROVE  truth[<<S, w>>] = S \o <<Having(w, nDocs)>> /\ Having(w, nDocs) \in Sets
<1>1. w \in Tokens /\ Having(w, nDocs) \in Sets
  BY DEF Tokens, Having, Sets
<1>2. TruthStep(S, w) = Append(S, Having(w, nDocs))
  BY TruthCases, Zenon
<1>3. QED
  BY <1>1, <1>2, TruthOn, OneMore

LEMMA TruthNot ==
    ASSUME NEW S \in Seq(Sets), NEW M \in Sets
    PROVE  /\ truth[<<S \o <<M>>, "!">>] = S \o <<0 .. nDocs - 1 \ M>>
           /\ S \o <<M>> \in Seq(Sets) /\ 0 .. nDocs - 1 \ M \in Sets
<1> DEFINE all == S \o <<M>>
           rest == 0 .. nDocs - 1 \ M
<1>1. all \in Seq(Sets) /\ all = Append(S, M)
  BY OneMore
<1>2. Front(all) = S
  BY OneMore DEF Parser!Front, Front
<1>3. rest \in Sets /\ "!" \in Tokens
  BY SignsAre DEF Sets, Signs
<1> HIDE DEF all, rest
<1>4. Len(all) \in Nat /\ Len(all) # 0 /\ all[Len(all)] = M
  <2>1. Len(all) = Len(S) + 1 /\ all[Len(S) + 1] = M /\ Len(S) \in Nat
    BY <1>1, AppendProperties, LenProperties
  <2>2. QED
    BY <2>1
<1>5. TruthStep(all, "!") = IF Len(all) < 1 THEN <<>> ELSE Append(Front(all), 0 .. nDocs - 1 \ all[Len(all)])
  BY TruthCases, Zenon
<1>6. ~(Len(all) < 1) /\ 0 .. nDocs - 1 \ all[Len(all)] = rest
  BY <1>4 DEF rest
<1>7. TruthStep(all, "!") = Append(S, rest)
  BY <1>2, <1>5, <1>6, Zenon
<1>8. truth[<<all, "!">>] = TruthStep(all, "!")
  BY <1>1, <1>3, TruthOn
<1>9. Append(S, rest) = S \o <<rest>>
  BY <1>3, OneMore
<1>10. truth[<<all, "!">>] = S \o <<rest>> /\ all \in Seq(Sets) /\ rest \in Sets
  BY <1>1, <1>3, <1>7, <1>8, <1>9
<1>11. QED
  BY <1>10 DEF all, rest

LEMMA TruthJoins ==
    ASSUME NEW S \in Seq(Sets), NEW A \in Sets, NEW B \in Sets, NEW op \in {"&", "|"}
    PROVE  /\ truth[<<S \o <<A>> \o <<B>>, op>>] = S \o <<Joined(op, A, B)>>
           /\ S \o <<A>> \o <<B>> \in Seq(Sets) /\ Joined(op, A, B) \in Sets
<1> DEFINE one == S \o <<A>>
           all == one \o <<B>>
           n == Len(all)
           C == Joined(op, A, B)
<1>1. one \in Seq(Sets) /\ one = Append(S, A)
  BY OneMore
<1> HIDE DEF one
<1>2. all \in Seq(Sets) /\ all = Append(one, B)
  BY <1>1, OneMore
<1>3. C \in Sets /\ op \in Tokens
  <2>1. C = A \cap B \/ C = A \cup B
    BY DEF Joined
  <2>2. A \cap B \in Sets /\ A \cup B \in Sets
    BY DEF Sets
  <2>3. op \in Tokens
    BY SignsAre DEF Signs
  <2>4. QED
    BY <2>1, <2>2, <2>3
<1> HIDE DEF all, C
<1>4. /\ n = Len(S) + 2 /\ Len(S) \in Nat /\ all[Len(S) + 2] = B /\ all[Len(S) + 1] = A
      /\ \A i \in 1 .. Len(S) : all[i] = S[i]
  <2>1. /\ Len(one) = Len(S) + 1 /\ one[Len(S) + 1] = A /\ Len(S) \in Nat
        /\ \A i \in 1 .. Len(S) : one[i] = S[i]
    BY <1>1, AppendProperties, LenProperties
  <2>2. /\ n = Len(one) + 1 /\ all[Len(one) + 1] = B
        /\ \A i \in 1 .. Len(one) : all[i] = one[i]
    BY <1>1, <1>2, AppendProperties
  <2>3. QED
    BY <2>1, <2>2
<1>5. SubSeq(all, 1, n - 2) = S
  <2> DEFINE part == SubSeq(all, 1, Len(S))
  <2>1. 1 \in 1 .. Len(all) + 1 /\ Len(S) \in 0 .. Len(all)
        /\ Len(S) - 1 + 1 = Len(S) /\ (IF 1 <= Len(S) THEN Len(S) - 1 + 1 ELSE 0) = Len(S)
    BY <1>4
  <2>2. /\ part \in Seq(Sets) /\ Len(part) = IF 1 <= Len(S) THEN Len(S) - 1 + 1 ELSE 0
        /\ \A i \in 1 .. Len(S) - 1 + 1 : part[i] = all[1 + i - 1]
    BY <1>2, <2>1, PartIs
  <2> HIDE DEF part
  <2>3. \A i \in 1 .. Len(S) : 1 + i - 1 = i
    OBVIOUS
  <2>4. Len(part) = Len(S) /\ \A i \in 1 .. Len(S) : part[i] = S[i]
    BY <1>4, <2>1, <2>2, <2>3
  <2>5. part = S
    BY <2>2, <2>4, SeqEqual
  <2>6. n - 2 = Len(S)
    BY <1>4
  <2>7. QED
    BY <2>5, <2>6 DEF part
<1>6. ~(n < 2) /\ all[n - 1] = A /\ all[n] = B
  <2>1. n - 1 = Len(S) + 1 /\ n = Len(S) + 2 /\ ~(n < 2)
    BY <1>4
  <2>2. QED
    BY <1>4, <2>1
<1>7. TruthStep(all, op) = Append(S, C)
  <2>1. CASE op = "&"
    <3>1. TruthStep(all, "&") = IF n < 2 THEN <<>> ELSE Append(SubSeq(all, 1, n - 2), all[n - 1] \cap all[n])
      BY TruthCases, Zenon
    <3>2. C = A \cap B
      BY <2>1 DEF C, Joined
    <3>3. QED
      BY <1>5, <1>6, <2>1, <3>1, <3>2
  <2>2. CASE op = "|"
    <3>1. TruthStep(all, "|") = IF n < 2 THEN <<>> ELSE Append(SubSeq(all, 1, n - 2), all[n - 1] \cup all[n])
      BY TruthCases, Zenon
    <3>2. C = A \cup B
      BY <2>2 DEF C, Joined
    <3>3. QED
      BY <1>5, <1>6, <2>2, <3>1, <3>2
  <2>3. QED
    BY <2>1, <2>2
<1>8. truth[<<all, op>>] = S \o <<C>>
  BY <1>2, <1>3, <1>7, TruthOn, OneMore
<1>9. QED
  BY <1>2, <1>3, <1>8 DEF all, one, C

LEMMA ReverseIs ==
    ASSUME NEW S, NEW s \in Seq(S)
    PROVE  /\ Parser!Reverse(s) \in Seq(S) /\ Len(Parser!Reverse(s)) = Len(s)
           /\ \A i \in 1 .. Len(s) : Parser!Reverse(s)[i] = s[(Len(s) - i) + 1]
<1>1. Len(s) \in Nat /\ \A i \in 1 .. Len(s) : s[i] \in S
  BY ElementOfSeq, LenProperties
<1>2. ASSUME NEW i \in 1 .. Len(s) PROVE s[(Len(s) - i) + 1] \in S
  <2>1. (Len(s) - i) + 1 \in 1 .. Len(s)
    BY <1>1
  <2>2. QED
    BY <1>1, <2>1
<1>3. QED
  BY <1>1, <1>2 DEF Parser!Reverse

LEMMA ReverseJoined ==
    ASSUME NEW S, NEW s \in Seq(S), NEW t \in Seq(S)
    PROVE  Parser!Reverse(s \o t) = Parser!Reverse(t) \o Parser!Reverse(s)
<1> DEFINE m == Len(s)
           n == Len(t)
           all == s \o t
           u == Parser!Reverse(s)
           v == Parser!Reverse(t)
           a == Parser!Reverse(all)
           b == v \o u
<1>1. /\ all \in Seq(S) /\ Len(all) = m + n /\ m \in Nat /\ n \in Nat
      /\ \A i \in 1 .. m + n : all[i] = IF i <= m THEN s[i] ELSE t[i - m]
  BY ConcatProperties, LenProperties
<1> HIDE DEF all, m, n
<1>2. /\ u \in Seq(S) /\ Len(u) = m /\ \A i \in 1 .. m : u[i] = s[(m - i) + 1]
      /\ v \in Seq(S) /\ Len(v) = n /\ \A i \in 1 .. n : v[i] = t[(n - i) + 1]
  BY ReverseIs DEF m, n
<1>3. a \in Seq(S) /\ Len(a) = m + n /\ \A i \in 1 .. m + n : a[i] = all[((m + n) - i) + 1]
  <2>1. /\ a \in Seq(S) /\ Len(a) = Len(all) /\ \A i \in 1 .. Len(all) : a[i] = all[(Len(all) - i) + 1]
    BY <1>1, ReverseIs
  <2> HIDE DEF a
  <2>2. QED
    BY <1>1, <2>1
<1> HIDE DEF u, v, a
<1>4. /\ b \in Seq(S) /\ Len(b) = m + n
      /\ \A i \in 1 .. m + n : b[i] = IF i <= n THEN v[i] ELSE u[i - n]
  <2>1. /\ b \in Seq(S) /\ Len(b) = n + m
        /\ \A i \in 1 .. n + m : b[i] = IF i <= n THEN v[i] ELSE u[i - n]
    <3>1. /\ b \in Seq(S) /\ Len(b) = Len(v) + Len(u)
          /\ \A i \in 1 .. Len(v) + Len(u) : b[i] = IF i <= Len(v) THEN v[i] ELSE u[i - Len(v)]
      BY <1>2, ConcatProperties
    <3> HIDE DEF b
    <3>2. QED
      BY <1>2, <3>1
  <2>2. n + m = m + n
    BY <1>1
  <2>3. QED
    BY <2>1, <2>2
<1> HIDE DEF b
<1>5. ASSUME NEW i \in 1 .. m + n PROVE a[i] = b[i]
  <2> DEFINE j == ((m + n) - i) + 1
  <2>1. j \in 1 .. m + n /\ a[i] = all[j]
    BY <1>1, <1>3
  <2>2. CASE i <= n
    <3>1. ~(j <= m) /\ j - m = (n - i) + 1 /\ i \in 1 .. n
      BY <1>1, <2>2
    <3>2. all[j] = t[j - m]
      BY <1>1, <2>1, <3>1
    <3>3. b[i] = t[(n - i) + 1]
      BY <1>2, <1>4, <2>2, <3>1
    <3>4. QED
      BY <2>1, <3>1, <3>2, <3>3
  <2>3. CASE ~(i <= n)
    <3>1. j <= m /\ i - n \in 1 .. m /\ j = (m - (i - n)) + 1
      BY <1>1, <2>3
    <3>2. all[j] = s[j]
      BY <1>1, <2>1, <3>1
    <3>3. b[i] = s[(m - (i - n)) + 1]
      BY <1>2, <1>4, <2>3, <3>1
    <3>4. QED
      BY <2>1, <3>1, <3>2, <3>3
  <2>4. QED
    BY <2>2, <2>3
<1>6. a = b
  BY <1>3, <1>4, <1>5, SeqEqual
<1>7. QED
  BY <1>6 DEF a, b, u, v, all

LEMMA ReverseOne ==
    ASSUME NEW S, NEW x \in S
    PROVE  Parser!Reverse(<<x>>) = <<x>>
<1> DEFINE one == <<x>>
<1>1. one \in Seq(S) /\ Len(one) = 1
  OBVIOUS
<1>2. /\ Parser!Reverse(one) \in Seq(S) /\ Len(Parser!Reverse(one)) = 1
      /\ \A i \in 1 .. 1 : Parser!Reverse(one)[i] = one[(1 - i) + 1]
  <2> HIDE DEF one
  <2>1. /\ Parser!Reverse(one) \in Seq(S) /\ Len(Parser!Reverse(one)) = Len(one)
        /\ \A i \in 1 .. Len(one) : Parser!Reverse(one)[i] = one[(Len(one) - i) + 1]
    BY <1>1, ReverseIs
  <2>2. QED
    BY <1>1, <2>1
<1> HIDE DEF one
<1>3. \A i \in 1 .. 1 : (1 - i) + 1 = i
  OBVIOUS
<1>4. \A i \in 1 .. Len(one) : Parser!Reverse(one)[i] = one[i]
  BY <1>1, <1>2, <1>3
<1>5. Parser!Reverse(one) = one
  BY <1>1, <1>2, <1>4, SeqEqual
<1>6. QED
  BY <1>5 DEF one

----------------------------------------------------------------------------
(* The yard and the evaluation together *)

\* The evaluation of the operators that wait, from the top, makes Z of the stack S.
Flushes(pend, S, Z) == Leads(truth, S, Parser!Reverse(pend), Z)

\* The tokens t make the operators more of ops, and the evaluation of what they put
\* into the output makes Z of the stack S.
Reaches(ops, S, t, more, Z) ==
    \A out \in Seq(Tokens) : \E o \in Seq(Tokens) :
        Leads(shunting, Yard(ops, out), t, Yard(more, out \o o)) /\ Leads(truth, S, o, Z)

LEMMA FlushesNothing ==
    ASSUME NEW S
    PROVE  Flushes(<<>>, S, S)
<1>1. <<>> \in Seq(Tokens)
  OBVIOUS
<1>2. Parser!Reverse(<<>>) \in Seq(Tokens) /\ Len(Parser!Reverse(<<>>)) = 0
  BY <1>1, ReverseIs
<1>3. Parser!Reverse(<<>>) = <<>>
  BY <1>2, EmptySeq
<1>4. QED
  BY <1>3, LeadsNowhere DEF Flushes

LEMMA FlushesOne ==
    ASSUME NEW S, NEW op \in Tokens
    PROVE  Flushes(<<op>>, S, truth[<<S, op>>])
BY ReverseOne, LeadsOn DEF Flushes

LEMMA FlushesJoined ==
    ASSUME NEW s \in Seq(Tokens), NEW t \in Seq(Tokens), NEW S, NEW Y, NEW Z,
           Flushes(t, S, Y), Flushes(s, Y, Z)
    PROVE  Flushes(s \o t, S, Z)
<1>1. Parser!Reverse(s) \in Seq(Tokens) /\ Parser!Reverse(t) \in Seq(Tokens)
  BY ReverseIs
<1>2. Leads(truth, S, Parser!Reverse(t) \o Parser!Reverse(s), Z)
  BY <1>1, LeadsJoin DEF Flushes
<1>3. Parser!Reverse(s \o t) = Parser!Reverse(t) \o Parser!Reverse(s)
  BY ReverseJoined
<1>4. QED
  BY <1>2, <1>3 DEF Flushes

LEMMA ReachesJoined ==
    ASSUME NEW ops, NEW more, NEW last, NEW S, NEW Y, NEW Z,
           NEW t \in Seq(Tokens), NEW u \in Seq(Tokens),
           Reaches(ops, S, t, more, Y), Reaches(more, Y, u, last, Z)
    PROVE  Reaches(ops, S, t \o u, last, Z)
<1>1. ASSUME NEW out \in Seq(Tokens)
      PROVE  \E o \in Seq(Tokens) : /\ Leads(shunting, Yard(ops, out), t \o u, Yard(last, out \o o))
                                    /\ Leads(truth, S, o, Z)
  <2>1. PICK a \in Seq(Tokens) : /\ Leads(shunting, Yard(ops, out), t, Yard(more, out \o a))
                                 /\ Leads(truth, S, a, Y)
    BY DEF Reaches
  <2>2. out \o a \in Seq(Tokens)
    BY ConcatProperties
  <2>3. PICK b \in Seq(Tokens) : /\ Leads(shunting, Yard(more, out \o a), u, Yard(last, (out \o a) \o b))
                                 /\ Leads(truth, Y, b, Z)
    BY <2>2 DEF Reaches
  <2>4. Leads(shunting, Yard(ops, out), t \o u, Yard(last, (out \o a) \o b))
    BY <2>1, <2>3, LeadsJoin
  <2>5. Leads(truth, S, a \o b, Z)
    BY <2>1, <2>3, LeadsJoin
  <2>6. (out \o a) \o b = out \o (a \o b) /\ a \o b \in Seq(Tokens)
    BY ConcatAssociative, ConcatProperties
  <2>7. QED
    BY <2>4, <2>5, <2>6
<1>2. QED
  BY <1>1 DEF Reaches

\* An operator pops those that wait for no less, and waits.
LEMMA ReachesPush ==
    ASSUME NEW ops \in Seq(Tokens), NEW pend, NEW op \in Parser!Operators, NEW S, NEW Z,
           Below(ops, Parser!precedence(op)), AtLeast(pend, Parser!precedence(op)),
           Flushes(pend, S, Z)
    PROVE  Reaches(ops \o pend, S, <<op>>, ops \o <<op>>, Z)
<1>1. pend \in Seq(Tokens) /\ Parser!Reverse(pend) \in Seq(Tokens)
  BY OperatorsAre, ReverseIs DEF AtLeast
<1>2. ASSUME NEW out \in Seq(Tokens)
      PROVE  Leads(shunting, Yard(ops \o pend, out), <<op>>, Yard(ops \o <<op>>, out \o Parser!Reverse(pend)))
  <2>1. shunting[<<Yard(ops \o pend, out), op>>] = Yard(ops \o <<op>>, out \o Parser!Reverse(pend))
    BY PushIs
  <2>2. Leads(shunting, Yard(ops \o pend, out), <<op>>, shunting[<<Yard(ops \o pend, out), op>>])
    BY LeadsOn
  <2>3. QED
    BY <2>1, <2>2
<1>3. QED
  BY <1>1, <1>2 DEF Reaches, Flushes

LEMMA ReachesClose ==
    ASSUME NEW ops \in Seq(Tokens), NEW pend \in Seq(Parser!Operators), NEW S, NEW Z,
           Flushes(pend, S, Z)
    PROVE  Reaches(ops \o <<"(">> \o pend, S, <<")">>, ops, Z)
<1>1. pend \in Seq(Tokens) /\ Parser!Reverse(pend) \in Seq(Tokens)
  BY OperatorsAre, ReverseIs
<1> DEFINE all == ops \o <<"(">> \o pend
<1>2. ASSUME NEW out \in Seq(Tokens)
      PROVE  Leads(shunting, Yard(all, out), <<")">>, Yard(ops, out \o Parser!Reverse(pend)))
  <2>1. shunting[<<Yard(all, out), ")">>] = Yard(ops, out \o Parser!Reverse(pend))
    BY CloseIs
  <2> HIDE DEF all
  <2>2. Leads(shunting, Yard(all, out), <<")">>, shunting[<<Yard(all, out), ")">>])
    BY LeadsOn
  <2>3. QED
    BY <2>1, <2>2
<1> HIDE DEF all
<1>3. Reaches(all, S, <<")">>, ops, Z)
  BY <1>1, <1>2 DEF Reaches, Flushes
<1>4. QED
  BY <1>3 DEF all

LEMMA ReachesOpen ==
    ASSUME NEW ops \in Seq(Tokens), NEW S
    PROVE  Reaches(ops, S, <<"(">>, ops \o <<"(">>, S)
<1> DEFINE none == <<>>
           more == ops \o <<"(">>
<1>1. none \in Seq(Tokens) /\ Leads(truth, S, none, S)
  BY LeadsNowhere
<1>2. \A out \in Seq(Tokens) : out \o none = out
  BY ConcatEmptySeq
<1> HIDE DEF none
<1>3. ASSUME NEW out \in Seq(Tokens)
      PROVE  Leads(shunting, Yard(ops, out), <<"(">>, Yard(more, out))
  <2>1. shunting[<<Yard(ops, out), "(">>] = Yard(more, out)
    BY OpenIs
  <2> HIDE DEF more
  <2>2. Leads(shunting, Yard(ops, out), <<"(">>, shunting[<<Yard(ops, out), "(">>])
    BY LeadsOn
  <2>3. QED
    BY <2>1, <2>2
<1> HIDE DEF more
<1>4. Reaches(ops, S, <<"(">>, more, S)
  BY <1>1, <1>2, <1>3 DEF Reaches
<1>5. QED
  BY <1>4 DEF more

LEMMA ReachesWord ==
    ASSUME NEW ops \in Seq(Tokens), NEW S \in Seq(Sets), NEW w \in Words
    PROVE  Reaches(ops, S, <<w>>, ops, S \o <<Having(w, nDocs)>>)
<1> DEFINE Z == S \o <<Having(w, nDocs)>>
           one == <<w>>
<1>1. one \in Seq(Tokens)
  BY DEF Tokens
<1>2. Leads(truth, S, one, Z)
  <2>1. truth[<<S, w>>] = Z
    BY TruthWord
  <2> HIDE DEF Z
  <2>2. QED
    BY <2>1, LeadsOn
<1> HIDE DEF Z
<1>3. ASSUME NEW out \in Seq(Tokens) PROVE Leads(shunting, Yard(ops, out), one, Yard(ops, out \o one))
  <2>1. shunting[<<Yard(ops, out), w>>] = Yard(ops, out \o one)
    BY WordIs
  <2>2. QED
    BY <2>1, LeadsOn
<1> HIDE DEF one
<1>4. Reaches(ops, S, one, ops, Z)
  BY <1>1, <1>2, <1>3 DEF Reaches
<1>5. QED
  BY <1>4 DEF one, Z

----------------------------------------------------------------------------
(* What tokens mean *)

\* Where the top operator is of a lower precedence than p, the tokens t leave
\* operators of p or above, whose evaluation leaves the set M on top of what was.
Strict(t, p, M) ==
    \A ops \in Seq(Tokens), S \in Seq(Sets) : Below(ops, p) =>
        \E pend, Y : /\ AtLeast(pend, p) /\ Reaches(ops, S, t, ops \o pend, Y)
                     /\ Flushes(pend, Y, S \o <<M>>)

\* Where the operator op waits on a set, the tokens t leave operators above it, whose
\* evaluation, with that of op, joins M to the set: op is associative.
Equal(t, op, M) ==
    \A ops \in Seq(Tokens), S \in Seq(Sets), A \in Sets : Below(ops, Parser!precedence(op)) =>
        \E pend, Y : /\ AtLeast(pend, Parser!precedence(op))
                     /\ Reaches(ops \o <<op>>, S \o <<A>>, t, (ops \o <<op>>) \o pend, Y)
                     /\ Flushes(<<op>> \o pend, Y, S \o <<Joined(op, A, M)>>)

LEMMA AtLeastNothing ==
    ASSUME NEW p
    PROVE  AtLeast(<<>>, p)
<1>1. <<>> \in Seq(Parser!Operators) /\ Len(<<>>) = 0
  OBVIOUS
<1>2. QED
  BY <1>1 DEF AtLeast

LEMMA AtLeastMore ==
    ASSUME NEW op \in Parser!Operators, NEW pend, NEW p,
           Parser!precedence(op) >= p, AtLeast(pend, p)
    PROVE  AtLeast(<<op>> \o pend, p)
<1> DEFINE one == <<op>>
           all == one \o pend
<1>1. one \in Seq(Parser!Operators) /\ Len(one) = 1 /\ one[1] = op
  OBVIOUS
<1> HIDE DEF one
<1>2. /\ pend \in Seq(Parser!Operators) /\ Len(pend) \in Nat
      /\ \A i \in 1 .. Len(pend) : Parser!precedence(pend[i]) >= p
  BY LenProperties DEF AtLeast
<1>3. /\ all \in Seq(Parser!Operators) /\ Len(all) = 1 + Len(pend)
      /\ \A i \in 1 .. 1 + Len(pend) : all[i] = IF i <= 1 THEN one[1] ELSE pend[i - 1]
  <2>1. /\ all \in Seq(Parser!Operators) /\ Len(all) = Len(one) + Len(pend)
        /\ \A i \in 1 .. Len(one) + Len(pend) : all[i] = IF i <= Len(one) THEN one[i] ELSE pend[i - Len(one)]
    BY <1>1, <1>2, ConcatProperties
  <2> HIDE DEF all
  <2>2. \A i \in 1 .. 1 + Len(pend) : i <= 1 => i = 1
    OBVIOUS
  <2>3. QED
    BY <1>1, <2>1, <2>2
<1> HIDE DEF all
<1>4. ASSUME NEW i \in 1 .. Len(all) PROVE Parser!precedence(all[i]) >= p
  <2>1. CASE i <= 1
    <3>1. all[i] = op
      BY <1>1, <1>3, <2>1
    <3>2. QED
      BY <3>1
  <2>2. CASE ~(i <= 1)
    <3>1. i - 1 \in 1 .. Len(pend) /\ all[i] = pend[i - 1]
      BY <1>2, <1>3, <2>2
    <3>2. QED
      BY <1>2, <3>1
  <2>3. QED
    BY <2>1, <2>2
<1>5. AtLeast(all, p)
  BY <1>3, <1>4 DEF AtLeast
<1>6. QED
  BY <1>5 DEF all, one

LEMMA AtLeastLess ==
    ASSUME NEW pend, NEW p \in Int, NEW q \in Int, q <= p, AtLeast(pend, p)
    PROVE  AtLeast(pend, q)
<1>1. pend \in Seq(Parser!Operators)
  BY DEF AtLeast
<1>2. ASSUME NEW i \in 1 .. Len(pend) PROVE Parser!precedence(pend[i]) >= q
  <2>1. pend[i] \in Parser!Operators
    BY <1>1, ElementOfSeq
  <2>2. Parser!precedence(pend[i]) \in Int
    BY <2>1, OperatorsAre, PrecedenceIs
  <2>3. Parser!precedence(pend[i]) >= p
    BY DEF AtLeast
  <2>4. QED
    BY <2>2, <2>3
<1>3. QED
  BY <1>1, <1>2 DEF AtLeast

\* An operator on top.
LEMMA BelowOn ==
    ASSUME NEW ops \in Seq(Tokens), NEW op \in Tokens, NEW p, Parser!precedence(op) < p
    PROVE  Below(ops \o <<op>>, p) /\ ops \o <<op>> \in Seq(Tokens)
<1> DEFINE all == ops \o <<op>>
<1>1. all \in Seq(Tokens) /\ all = Append(ops, op)
  BY OneMore
<1> HIDE DEF all
<1>2. all[Len(all)] = op
  <2>1. Len(all) = Len(ops) + 1 /\ all[Len(ops) + 1] = op
    BY <1>1, AppendProperties
  <2>2. QED
    BY <2>1
<1>3. Below(all, p)
  BY <1>2 DEF Below
<1>4. QED
  BY <1>1, <1>3 DEF all

LEMMA PrecedenceType == \A x : Parser!precedence(x) \in {-1, 1, 2, 3}
BY DEF Parser!precedence

LEMMA BelowMore ==
    ASSUME NEW ops \in Seq(Tokens), NEW p \in Int, NEW q \in Int, q <= p, Below(ops, q)
    PROVE  Below(ops, p)
<1>1. ASSUME ops # <<>> PROVE Parser!precedence(ops[Len(ops)]) < p
  <2>1. Parser!precedence(ops[Len(ops)]) < q /\ Parser!precedence(ops[Len(ops)]) \in Int
    BY <1>1, PrecedenceType DEF Below
  <2>2. QED
    BY <2>1
<1>2. QED
  BY <1>1 DEF Below

LEMMA StrictWord ==
    ASSUME NEW w \in Words
    PROVE  Strict(<<w>>, 4, Having(w, nDocs))
<1> DEFINE M == Having(w, nDocs)
           none == <<>>
<1>1. AtLeast(none, 4)
  BY AtLeastNothing
<1>2. \A S : Flushes(none, S, S)
  BY FlushesNothing
<1>3. \A ops \in Seq(Tokens) : ops \o none = ops
  BY ConcatEmptySeq
<1> HIDE DEF none
<1>4. \A ops \in Seq(Tokens), S \in Seq(Sets) : Reaches(ops, S, <<w>>, ops, S \o <<M>>)
  BY ReachesWord
<1> HIDE DEF M
<1>5. ASSUME NEW ops \in Seq(Tokens), NEW S \in Seq(Sets)
      PROVE  \E pend, Y : /\ AtLeast(pend, 4) /\ Reaches(ops, S, <<w>>, ops \o pend, Y)
                          /\ Flushes(pend, Y, S \o <<M>>)
  BY <1>1, <1>2, <1>3, <1>4
<1>6. Strict(<<w>>, 4, M)
  BY <1>5 DEF Strict
<1>7. QED
  BY <1>6 DEF M

LEMMA StrictLess ==
    ASSUME NEW t, NEW M, NEW p \in Int, NEW q \in Int, q <= p, Strict(t, p, M)
    PROVE  Strict(t, q, M)
<1>1. ASSUME NEW ops \in Seq(Tokens), NEW S \in Seq(Sets), Below(ops, q)
      PROVE  \E pend, Y : /\ AtLeast(pend, q) /\ Reaches(ops, S, t, ops \o pend, Y)
                          /\ Flushes(pend, Y, S \o <<M>>)
  <2>1. Below(ops, p)
    BY <1>1, BelowMore
  <2>2. PICK pend, Y : /\ AtLeast(pend, p) /\ Reaches(ops, S, t, ops \o pend, Y)
                       /\ Flushes(pend, Y, S \o <<M>>)
    BY <2>1 DEF Strict
  <2>3. AtLeast(pend, q)
    BY <2>2, AtLeastLess
  <2>4. QED
    BY <2>2, <2>3
<1>2. QED
  BY <1>1 DEF Strict

\* Parentheses.
LEMMA StrictNested ==
    ASSUME NEW t \in Seq(Tokens), NEW p \in 1 .. 4, NEW M \in Sets, Strict(t, p, M)
    PROVE  Strict(<<"(">> \o t \o <<")">>, 4, M)
<1> DEFINE open == <<"(">>
           close == <<")">>
           none == <<>>
           all == open \o t \o close
<1>1. /\ "(" \in Tokens /\ Parser!precedence("(") < p
      /\ open \in Seq(Tokens) /\ close \in Seq(Tokens)
  <2>1. "(" \in Tokens /\ ")" \in Tokens
    BY SignsAre DEF Signs
  <2>2. QED
    BY <2>1, PrecedenceIs
<1>2. /\ AtLeast(none, 4) /\ \A S : Flushes(none, S, S)
      /\ \A ops \in Seq(Tokens) : ops \o none = ops
  BY AtLeastNothing, FlushesNothing, ConcatEmptySeq
<1> HIDE DEF none
<1>3. ASSUME NEW ops \in Seq(Tokens), NEW S \in Seq(Sets)
      PROVE  \E pend, Y : /\ AtLeast(pend, 4) /\ Reaches(ops, S, all, ops \o pend, Y)
                          /\ Flushes(pend, Y, S \o <<M>>)
  <2> DEFINE more == ops \o open
             Z == S \o <<M>>
  <2>1. Reaches(ops, S, open, more, S)
    BY ReachesOpen
  <2>2. Below(more, p) /\ more \in Seq(Tokens)
    BY <1>1, BelowOn
  <2> HIDE DEF more
  <2>3. PICK pend, Y : /\ AtLeast(pend, p) /\ Reaches(more, S, t, more \o pend, Y)
                       /\ Flushes(pend, Y, Z)
    BY <2>2 DEF Strict
  <2> HIDE DEF Z
  <2>4. Reaches(more \o pend, Y, close, ops, Z)
    <3>1. pend \in Seq(Parser!Operators)
      BY <2>3 DEF AtLeast
    <3>2. QED
      BY <2>3, <3>1, ReachesClose DEF more
  <2> HIDE DEF open, close
  <2>5. Reaches(ops, S, open \o t, more \o pend, Y)
    BY <1>1, <2>1, <2>3, ReachesJoined
  <2>6. open \o t \in Seq(Tokens)
    BY <1>1, ConcatProperties
  <2>7. Reaches(ops, S, all, ops, Z)
    BY <1>1, <2>4, <2>5, <2>6, ReachesJoined
  <2> HIDE DEF all
  <2>8. QED
    BY <1>2, <2>7 DEF Z
<1> HIDE DEF all
<1>4. Strict(all, 4, M)
  BY <1>3 DEF Strict
<1>5. QED
  BY <1>4 DEF all, open, close

LEMMA StrictNot ==
    ASSUME NEW t \in Seq(Tokens), NEW M \in Sets, Strict(t, 4, M)
    PROVE  Strict(<<"!">> \o t, 3, 0 .. nDocs - 1 \ M)
<1> DEFINE not == <<"!">>
           none == <<>>
           N == 0 .. nDocs - 1 \ M
           all == not \o t
<1>1. /\ "!" \in Tokens /\ "!" \in Parser!Operators /\ Parser!precedence("!") = 3 /\ not \in Seq(Tokens)
      /\ 3 < 4 /\ 3 >= 3 /\ 3 \in Int /\ 4 \in Int /\ 3 <= 4
  BY OperatorsAre, PrecedenceIs
<1>2. /\ AtLeast(none, 3) /\ \A S : Flushes(none, S, S)
      /\ \A ops \in Seq(Tokens) : ops \o none = ops
  BY AtLeastNothing, FlushesNothing, ConcatEmptySeq
<1> HIDE DEF none, N
<1>3. ASSUME NEW ops \in Seq(Tokens), NEW S \in Seq(Sets), Below(ops, 3)
      PROVE  \E pend, Y : /\ AtLeast(pend, 3) /\ Reaches(ops, S, all, ops \o pend, Y)
                          /\ Flushes(pend, Y, S \o <<N>>)
  <2> DEFINE more == ops \o not
             Z == S \o <<M>>
             last == S \o <<N>>
  <2>1. Reaches(ops, S, not, more, S)
    <3>1. Reaches(ops \o none, S, <<"!">>, ops \o <<"!">>, S)
      BY <1>1, <1>2, <1>3, ReachesPush
    <3>2. QED
      BY <1>2, <3>1
  <2>2. Below(more, 4) /\ more \in Seq(Tokens)
    BY <1>1, BelowOn
  <2>3. Z \in Seq(Sets) /\ truth[<<Z, "!">>] = last
    BY TruthNot DEF N
  <2> HIDE DEF more, Z, last
  <2>4. PICK pend, Y : /\ AtLeast(pend, 4) /\ Reaches(more, S, t, more \o pend, Y)
                       /\ Flushes(pend, Y, Z)
    BY <2>2 DEF Strict, Z
  <2>5. AtLeast(not \o pend, 3)
    <3>1. AtLeast(pend, 3)
      BY <1>1, <2>4, AtLeastLess
    <3>2. QED
      BY <1>1, <3>1, AtLeastMore
  <2>6. Flushes(not, Z, last)
    BY <1>1, <2>3, FlushesOne
  <2>7. pend \in Seq(Tokens)
    BY <2>4, OperatorsAre DEF AtLeast
  <2> HIDE DEF not
  <2>8. Reaches(ops, S, all, more \o pend, Y)
    BY <1>1, <2>1, <2>4, ReachesJoined
  <2>9. Flushes(not \o pend, Y, last)
    BY <1>1, <2>4, <2>6, <2>7, FlushesJoined
  <2>10. more \o pend = ops \o (not \o pend)
    BY <1>1, <2>7, ConcatAssociative DEF more
  <2> HIDE DEF all
  <2>11. QED
    BY <2>5, <2>8, <2>9, <2>10 DEF last
<1> HIDE DEF all
<1>4. Strict(all, 3, N)
  BY <1>3 DEF Strict
<1>5. QED
  BY <1>4 DEF all, not, N

LEMMA EqualOfStrict ==
    ASSUME NEW t \in Seq(Tokens), NEW p \in Int, NEW M \in Sets, Strict(t, p, M),
           NEW op \in {"&", "|"}, Parser!precedence(op) < p
    PROVE  Equal(t, op, M)
<1> DEFINE q == Parser!precedence(op)
           one == <<op>>
<1>1. op \in Tokens /\ op \in Parser!Operators /\ q \in Int /\ one \in Seq(Tokens) /\ q >= q /\ q <= p
  <2>1. op \in Tokens /\ op \in Parser!Operators /\ q \in Int
    BY OperatorsAre, PrecedenceIs
  <2>2. QED
    BY <2>1
<1>2. ASSUME NEW ops \in Seq(Tokens), NEW S \in Seq(Sets), NEW A \in Sets, Below(ops, q)
      PROVE  \E pend, Y : /\ AtLeast(pend, q)
                          /\ Reaches(ops \o one, S \o <<A>>, t, (ops \o one) \o pend, Y)
                          /\ Flushes(one \o pend, Y, S \o <<Joined(op, A, M)>>)
  <2> DEFINE more == ops \o one
             Z == S \o <<A>>
             both == Z \o <<M>>
             last == S \o <<Joined(op, A, M)>>
  <2>1. Below(more, p) /\ more \in Seq(Tokens)
    BY <1>1, BelowOn
  <2>2. Z \in Seq(Sets)
    BY OneMore
  <2>3. truth[<<both, op>>] = last
    BY TruthJoins
  <2> HIDE DEF more, Z, last, q
  <2>4. PICK pend, Y : /\ AtLeast(pend, p) /\ Reaches(more, Z, t, more \o pend, Y)
                       /\ Flushes(pend, Y, both)
    BY <2>1, <2>2 DEF Strict
  <2> HIDE DEF both
  <2>5. AtLeast(pend, q)
    BY <1>1, <2>4, AtLeastLess
  <2>6. Flushes(one, both, last)
    BY <1>1, <2>3, FlushesOne
  <2>7. pend \in Seq(Tokens)
    BY <2>4, OperatorsAre DEF AtLeast
  <2> HIDE DEF one
  <2>8. Flushes(one \o pend, Y, last)
    BY <1>1, <2>4, <2>6, <2>7, FlushesJoined
  <2>9. QED
    BY <2>4, <2>5, <2>8 DEF more, Z, last
<1>3. QED
  BY <1>2 DEF Equal

LEMMA StrictJoin ==
    ASSUME NEW l \in Seq(Tokens), NEW r \in Seq(Tokens), NEW A \in Sets, NEW B \in Sets,
           NEW op \in {"&", "|"}, Strict(l, Parser!precedence(op), A), Equal(r, op, B)
    PROVE  Strict(l \o <<op>> \o r, Parser!precedence(op), Joined(op, A, B))
<1> DEFINE q == Parser!precedence(op)
           one == <<op>>
           all == l \o one \o r
           C == Joined(op, A, B)
<1>1. op \in Tokens /\ op \in Parser!Operators /\ q \in Int /\ one \in Seq(Tokens) /\ q >= q
  <2>1. op \in Tokens /\ op \in Parser!Operators /\ q \in Int
    BY OperatorsAre, PrecedenceIs
  <2>2. QED
    BY <2>1
<1>2. ASSUME NEW ops \in Seq(Tokens), NEW S \in Seq(Sets), Below(ops, q)
      PROVE  \E pend, Y : /\ AtLeast(pend, q) /\ Reaches(ops, S, all, ops \o pend, Y)
                          /\ Flushes(pend, Y, S \o <<C>>)
  <2> DEFINE more == ops \o one
             Z == S \o <<A>>
             last == S \o <<C>>
  <2>1. PICK below, X : /\ AtLeast(below, q) /\ Reaches(ops, S, l, ops \o below, X)
                        /\ Flushes(below, X, Z)
    BY <1>2 DEF Strict
  <2> HIDE DEF Z
  <2>2. Reaches(ops \o below, X, one, more, Z)
    BY <1>1, <1>2, <2>1, ReachesPush
  <2>3. PICK pend, Y : /\ AtLeast(pend, q) /\ Reaches(more, Z, r, more \o pend, Y)
                       /\ Flushes(one \o pend, Y, last)
    BY <1>2 DEF Equal, Z
  <2>4. AtLeast(one \o pend, q)
    BY <1>1, <2>3, AtLeastMore
  <2>5. pend \in Seq(Tokens)
    BY <2>3, OperatorsAre DEF AtLeast
  <2> HIDE DEF one, more, last, q
  <2>6. Reaches(ops, S, l \o one, more, Z) /\ l \o one \in Seq(Tokens)
    BY <1>1, <2>1, <2>2, ReachesJoined, ConcatProperties
  <2>7. Reaches(ops, S, all, more \o pend, Y)
    BY <2>3, <2>6, ReachesJoined
  <2>8. more \o pend = ops \o (one \o pend)
    BY <1>1, <2>5, ConcatAssociative DEF more
  <2> HIDE DEF all
  <2>9. QED
    BY <2>3, <2>4, <2>7, <2>8 DEF last
<1> HIDE DEF all, C
<1>3. Strict(all, q, C)
  BY <1>2 DEF Strict
<1>4. QED
  BY <1>3 DEF all, C, one

LEMMA EqualJoin ==
    ASSUME NEW l \in Seq(Tokens), NEW r \in Seq(Tokens), NEW A \in Sets, NEW B \in Sets,
           NEW op \in {"&", "|"}, Equal(l, op, A), Equal(r, op, B)
    PROVE  Equal(l \o <<op>> \o r, op, Joined(op, A, B))
<1> DEFINE q == Parser!precedence(op)
           one == <<op>>
           all == l \o one \o r
           C == Joined(op, A, B)
<1>1. op \in Tokens /\ op \in Parser!Operators /\ q \in Int /\ one \in Seq(Tokens) /\ q >= q
  <2>1. op \in Tokens /\ op \in Parser!Operators /\ q \in Int
    BY OperatorsAre, PrecedenceIs
  <2>2. QED
    BY <2>1
<1>2. ASSUME NEW ops \in Seq(Tokens), NEW S \in Seq(Sets), NEW D \in Sets, Below(ops, q)
      PROVE  \E pend, Y : /\ AtLeast(pend, q)
                          /\ Reaches(ops \o one, S \o <<D>>, all, (ops \o one) \o pend, Y)
                          /\ Flushes(one \o pend, Y, S \o <<Joined(op, D, C)>>)
  <2> DEFINE more == ops \o one
             E == Joined(op, D, A)
             first == S \o <<D>>
             Z == S \o <<E>>
             last == S \o <<Joined(op, D, C)>>
  <2>1. PICK below, X : /\ AtLeast(below, q) /\ Reaches(more, first, l, more \o below, X)
                        /\ Flushes(one \o below, X, Z)
    BY <1>2 DEF Equal
  <2>2. AtLeast(one \o below, q)
    BY <1>1, <2>1, AtLeastMore
  <2>3. below \in Seq(Tokens)
    BY <2>1, OperatorsAre DEF AtLeast
  <2>4. E \in Sets
    BY TruthJoins
  <2>5. Joined(op, E, B) = Joined(op, D, C)
    BY DEF Joined, E, C
  <2> HIDE DEF Z, first, E, C
  <2>6. Reaches(ops \o (one \o below), X, one, more, Z)
    BY <1>1, <1>2, <2>1, <2>2, ReachesPush
  <2>7. PICK pend, Y : /\ AtLeast(pend, q) /\ Reaches(more, Z, r, more \o pend, Y)
                       /\ Flushes(one \o pend, Y, last)
    BY <1>2, <2>4, <2>5 DEF Equal, Z
  <2> HIDE DEF one, last, q
  <2>8. more \o below = ops \o (one \o below)
    BY <1>1, <2>3, ConcatAssociative
  <2> HIDE DEF more
  <2>9. Reaches(more, first, l \o one, more, Z) /\ l \o one \in Seq(Tokens)
    BY <1>1, <2>1, <2>6, <2>8, ReachesJoined, ConcatProperties
  <2>10. Reaches(more, first, all, more \o pend, Y)
    BY <2>7, <2>9, ReachesJoined
  <2> HIDE DEF all
  <2>11. QED
    BY <2>7, <2>10 DEF last, more, first
<1> HIDE DEF all, C
<1>3. Equal(all, op, C)
  BY <1>2 DEF Equal
<1>4. QED
  BY <1>3 DEF all, C, one

\* What the parser makes of tokens that mean a set is true of the set.
LEMMA NotationMeans ==
    ASSUME nDocs \in Nat, NEW t \in Seq(Tokens), NEW p, NEW M \in Sets, Strict(t, p, M)
    PROVE  Truth(Parser!shunting_yard(t)) = M
<1> DEFINE none == <<>>
           start == Yard(none, none)
<1>1. none \in Seq(Tokens) /\ none \in Seq(Sets) /\ Below(none, p)
  BY DEF Below
<1>2. (\A s \in Seq(Tokens) : none \o s = s) /\ none \o <<M>> = <<M>>
  <2>1. <<M>> \in Seq(Sets)
    OBVIOUS
  <2>2. QED
    BY <2>1, ConcatEmptySeq
<1> HIDE DEF none
<1>3. PICK pend, Y : /\ AtLeast(pend, p) /\ Reaches(none, none, t, none \o pend, Y)
                     /\ Flushes(pend, Y, none \o <<M>>)
  BY <1>1 DEF Strict
<1>4. pend \in Seq(Parser!Operators) /\ pend \in Seq(Tokens) /\ Parser!Reverse(pend) \in Seq(Tokens)
  BY <1>3, OperatorsAre, ReverseIs DEF AtLeast
<1>5. PICK o \in Seq(Tokens) : /\ Leads(shunting, start, t, Yard(pend, o))
                               /\ Leads(truth, none, o, Y)
  BY <1>1, <1>2, <1>3, <1>4 DEF Reaches
<1> DEFINE notation == o \o Parser!Reverse(pend)
<1>6. notation \in Seq(Tokens)
  BY <1>4, ConcatProperties
<1>7. Parser!shunting_yard(t) = notation
  <2>1. PICK yards : Shunts(yards, t)
    BY ShuntingSteps
  <2>2. ReadBy(shunting, yards, t)
    <3>1. ASSUME NEW k \in 1 .. Len(t) PROVE yards[k] = shunting[<<yards[k - 1], t[k]>>]
      <4>1. k - 1 \in 0 .. Len(t)
        BY LenProperties
      <4>2. yards[k - 1] \in {None} \cup Yards /\ t[k] \in Tokens
        BY <2>1, <4>1, ElementOfSeq DEF Shunts
      <4>3. shunting[<<yards[k - 1], t[k]>>] = Parser!ShuntingStep(yards[k - 1], t[k])
        BY <4>2 DEF shunting
      <4>4. QED
        BY <2>1, <4>3 DEF Shunts
    <3>2. QED
      BY <3>1 DEF ReadBy
  <2>3. yards[0] = start
    BY <2>1 DEF Shunts, Yard, none
  <2> HIDE DEF start
  <2>4. yards[Len(t)] = Yard(pend, o)
    BY <1>5, <2>2, <2>3, LeadsThere
  <2>5. Yard(pend, o) # None
    BY <1>4, ExpressionsAssumption DEF Yard, Tokens
  <2>6. ~Parser!Contains(pend, "(")
    <3>1. ASSUME NEW i \in 1 .. Len(pend) PROVE pend[i] # "("
      <4>1. pend[i] \in Parser!Operators
        BY <1>4, ElementOfSeq
      <4>2. QED
        BY <4>1, OperatorsAre
    <3>2. QED
      BY <3>1, Zenon DEF Parser!Contains
  <2>7. Yard(pend, o).operators = pend /\ Yard(pend, o).output = o
    BY DEF Yard
  <2>8. Parser!shunting_yard(t) = Parser!PopDownTo(Yard(pend, o), 0).output
    BY <2>1, <2>4, <2>5, <2>6, <2>7, Zenon DEF Shunts
  <2>9. Parser!PopDownTo(Yard(pend, o), 0) = Yard(none, notation)
    <3>1. Parser!PopDownTo(Yard(none \o pend, o), Len(none)) = Yard(none, notation)
      BY <1>1, <1>4, PopIs
    <3>2. Len(none) = 0 /\ none \o pend = pend
      BY <1>2, <1>4 DEF none
    <3>3. QED
      BY <3>1, <3>2
  <2> HIDE DEF notation
  <2>10. Yard(none, notation).output = notation
    BY DEF Yard
  <2>11. QED
    BY <2>8, <2>9, <2>10
<1>8. Leads(truth, none, notation, <<M>>)
  BY <1>2, <1>3, <1>4, <1>5, LeadsJoin DEF Flushes
<1> HIDE DEF notation
<1>9. PICK sets : TrueOf(sets, notation)
  BY <1>6, TruthSteps
<1>10. ReadBy(truth, sets, notation)
  <2>1. ASSUME NEW k \in 1 .. Len(notation) PROVE sets[k] = truth[<<sets[k - 1], notation[k]>>]
    <3>1. k - 1 \in 0 .. Len(notation)
      BY <1>6, LenProperties
    <3>2. sets[k - 1] \in Seq(Sets) /\ notation[k] \in Tokens
      BY <1>6, <1>9, <3>1, ElementOfSeq DEF TrueOf
    <3>3. truth[<<sets[k - 1], notation[k]>>] = TruthStep(sets[k - 1], notation[k])
      BY <3>2, TruthOn
    <3>4. QED
      BY <1>9, <3>3 DEF TrueOf
  <2>2. QED
    BY <2>1 DEF ReadBy
<1>11. sets[0] = none
  BY <1>9 DEF TrueOf, none
<1>12. sets[Len(notation)] = <<M>>
  BY <1>6, <1>8, <1>10, <1>11, LeadsThere
<1>13. Truth(notation) = <<M>>[1]
  BY <1>9, <1>12 DEF TrueOf
<1>14. QED
  BY <1>7, <1>13

----------------------------------------------------------------------------
(* The queries written for expressions mean what they should *)

PrecedenceOf(e) == IF e.op = "word" THEN 4 ELSE Parser!precedence(e.op)

\* What is written between the operands of a conjunction.
And == <<" ", "&", "&", " ">>

\* What a text means: its tokens, and at which level they may be operands.
Means(text, p, M) ==
    /\ M \in Sets /\ text \in Texts
    /\ \E t \in Seq(Tokens) :
           /\ CutsInto(text, t) /\ Strict(t, p, M)
           /\ \A op \in {"&", "|"} : Parser!precedence(op) = p => Equal(t, op, M)

LEMMA MeansWord ==
    ASSUME NEW form \in Forms
    PROVE  Means(<<form>>, 4, Having(Stem[form], nDocs))
<1> DEFINE w == Stem[form]
           text == <<form>>
           t == <<w>>
           M == Having(w, nDocs)
<1>1. w \in Words /\ w \in Tokens /\ form \in Parser!Lexemes
  <2>1. w \in Words
    BY ConstantTypes
  <2>2. form \in Parser!Lexemes
    BY LexemesAre, Zenon
  <2>3. QED
    BY <2>1, <2>2 DEF Tokens
<1>2. TokenOf(form) = w /\ form \in Parser!Lexemes \ {"&", "|", Space}
  <2>1. form \notin {"&", "|"} /\ form # Space
    BY LexemesAre, Zenon DEF Space
  <2>2. QED
    BY <1>1, <2>1 DEF TokenOf
<1>3. CutsInto(text, t)
  BY <1>2, CutPlain
<1>4. Strict(t, 4, M) /\ M \in Sets
  <2>1. Having(w, nDocs) \in Sets
    BY DEF Having, Sets
  <2>2. Strict(<<w>>, 4, Having(w, nDocs))
    BY <1>1, StrictWord
  <2>3. QED
    BY <2>1, <2>2
<1>5. text \in Texts /\ t \in Seq(Tokens)
  BY <1>1 DEF Texts
<1>6. \A op \in {"&", "|"} : Parser!precedence(op) # 4
  BY PrecedenceIs
<1> HIDE DEF text, t, M
<1>7. QED
  BY <1>3, <1>4, <1>5, <1>6 DEF Means, text, M

LEMMA MeansNested ==
    ASSUME NEW text, NEW p \in 1 .. 4, NEW M, Means(text, p, M)
    PROVE  Means(<<"(">> \o text \o <<")">>, 4, M)
<1> DEFINE open == <<"(">>
           close == <<")">>
           all == open \o text \o close
<1>1. PICK t \in Seq(Tokens) : CutsInto(text, t) /\ Strict(t, p, M)
  BY DEF Means
<1>2. M \in Sets /\ text \in Texts
  BY DEF Means
<1>3. CutsInto(open, open) /\ CutsInto(close, close)
  <2>1. ASSUME NEW c \in {"(", ")"} PROVE CutsInto(<<c>>, <<c>>)
    <3>1. c \in Parser!Lexemes \ {"&", "|", Space} /\ TokenOf(c) = c
      BY SignsAre DEF Signs
    <3>2. QED
      BY <3>1, CutPlain
  <2>2. QED
    BY <2>1
<1>4. open \in Seq(Tokens) /\ close \in Seq(Tokens) /\ open \in Texts /\ close \in Texts
  BY SignsAre DEF Signs, Texts
<1>5. Strict(open \o t \o close, 4, M)
  BY <1>1, <1>2, StrictNested
<1> HIDE DEF open, close
<1>6. open \o text \in Texts /\ open \o t \in Seq(Tokens)
  BY <1>2, <1>4, ConcatProperties DEF Texts
<1>7. CutsInto(open \o text, open \o t)
  BY <1>1, <1>2, <1>3, <1>4, CutsJoin
<1>8. CutsInto(all, open \o t \o close)
  BY <1>3, <1>4, <1>6, <1>7, CutsJoin
<1>9. all \in Texts /\ open \o t \o close \in Seq(Tokens)
  BY <1>4, <1>6, ConcatProperties DEF Texts
<1>10. \A op \in {"&", "|"} : Parser!precedence(op) # 4
  BY PrecedenceIs
<1> HIDE DEF all
<1>11. Means(all, 4, M)
  BY <1>2, <1>5, <1>8, <1>9, <1>10 DEF Means
<1>12. QED
  BY <1>11 DEF all, open, close

LEMMA MeansNot ==
    ASSUME NEW text, NEW M, Means(text, 4, M)
    PROVE  Means(<<"!">> \o text, 3, 0 .. nDocs - 1 \ M)
<1> DEFINE not == <<"!">>
           all == not \o text
           N == 0 .. nDocs - 1 \ M
<1>1. PICK t \in Seq(Tokens) : CutsInto(text, t) /\ Strict(t, 4, M)
  BY DEF Means
<1>2. M \in Sets /\ text \in Texts
  BY DEF Means
<1>3. CutsInto(not, not)
  <2>1. "!" \in Parser!Lexemes \ {"&", "|", Space} /\ TokenOf("!") = "!"
    BY SignsAre DEF Signs
  <2>2. QED
    BY <2>1, CutPlain
<1>4. not \in Seq(Tokens) /\ not \in Texts
  BY SignsAre DEF Signs, Texts
<1>5. Strict(not \o t, 3, N) /\ N \in Sets
  <2>1. Strict(<<"!">> \o t, 3, 0 .. nDocs - 1 \ M)
    BY <1>1, <1>2, StrictNot
  <2>2. 0 .. nDocs - 1 \ M \in Sets
    BY DEF Sets
  <2>3. QED
    BY <2>1, <2>2
<1> HIDE DEF not, N
<1>6. CutsInto(all, not \o t)
  BY <1>1, <1>2, <1>3, <1>4, CutsJoin
<1>7. all \in Texts /\ not \o t \in Seq(Tokens)
  BY <1>2, <1>4, ConcatProperties DEF Texts
<1>8. \A op \in {"&", "|"} : Parser!precedence(op) # 3
  BY PrecedenceIs
<1> HIDE DEF all
<1>9. Means(all, 3, N)
  BY <1>5, <1>6, <1>7, <1>8 DEF Means
<1>10. QED
  BY <1>9 DEF all, not, N

\* Two operands, cut and joined.
LEMMA MeansJoined ==
    ASSUME NEW op \in {"&", "|"}, NEW text \in Texts,
           NEW l \in Seq(Tokens), NEW r \in Seq(Tokens), NEW A \in Sets, NEW B \in Sets,
           NEW p \in 1 .. 4, NEW q \in 1 .. 4,
           p >= Parser!precedence(op), q >= Parser!precedence(op),
           Strict(l, p, A), \A o \in {"&", "|"} : Parser!precedence(o) = p => Equal(l, o, A),
           Strict(r, q, B), \A o \in {"&", "|"} : Parser!precedence(o) = q => Equal(r, o, B),
           CutsInto(text, l \o <<op>> \o r)
    PROVE  Means(text, Parser!precedence(op), Joined(op, A, B))
<1> DEFINE n == Parser!precedence(op)
           t == l \o <<op>> \o r
           C == Joined(op, A, B)
<1>1. n \in Int /\ C \in Sets
  BY PrecedenceIs DEF Joined, Sets
<1>2. Strict(l, n, A)
  BY <1>1, StrictLess
<1>3. Equal(l, op, A)
  <2>1. CASE p = n
    BY <2>1
  <2>2. CASE p # n
    <3>1. n < p
      BY <1>1, <2>2
    <3>2. QED
      BY <3>1, EqualOfStrict
  <2>3. QED
    BY <2>1, <2>2
<1>4. Equal(r, op, B)
  <2>1. CASE q = n
    BY <2>1
  <2>2. CASE q # n
    <3>1. n < q
      BY <1>1, <2>2
    <3>2. QED
      BY <3>1, EqualOfStrict
  <2>3. QED
    BY <2>1, <2>2
<1>5. Strict(t, n, C)
  BY <1>2, <1>4, StrictJoin
<1>6. Equal(t, op, C)
  BY <1>3, <1>4, EqualJoin
<1>7. t \in Seq(Tokens)
  <2>1. <<op>> \in Seq(Tokens)
    BY SignsAre DEF Signs
  <2>2. QED
    BY <2>1, ConcatProperties
<1>8. \A o \in {"&", "|"} : Parser!precedence(o) = n => o = op
  BY PrecedenceIs
<1>9. CutsInto(text, t)
  OBVIOUS
<1> HIDE DEF t, n, C
<1>10. Means(text, n, C)
  BY <1>1, <1>5, <1>6, <1>7, <1>8, <1>9 DEF Means
<1>11. QED
  BY <1>10 DEF n, C

LEMMA MeansAnd ==
    ASSUME NEW u, NEW v, NEW p \in 2 .. 4, NEW q \in 2 .. 4, NEW A, NEW B,
           Means(u, p, A), Means(v, q, B)
    PROVE  Means(u \o And \o v, 2, A \cap B)
<1> DEFINE one == <<"&">>
           all == u \o And \o v
<1>1. PICK l \in Seq(Tokens) : /\ CutsInto(u, l) /\ Strict(l, p, A)
                               /\ \A o \in {"&", "|"} : Parser!precedence(o) = p => Equal(l, o, A)
  BY DEF Means
<1>2. PICK r \in Seq(Tokens) : /\ CutsInto(v, r) /\ Strict(r, q, B)
                               /\ \A o \in {"&", "|"} : Parser!precedence(o) = q => Equal(r, o, B)
  BY DEF Means
<1>3. A \in Sets /\ B \in Sets /\ u \in Texts /\ v \in Texts
  BY DEF Means
<1>4. And = <<Space, "&", "&", Space>>
  BY Zenon DEF And, Space
<1>5. CutsInto(And, one)
  BY <1>4, CutAnd
<1>6. And \in Texts /\ one \in Seq(Tokens)
  <2>1. Space \in Parser!Lexemes /\ "&" \in Parser!Lexemes /\ "&" \in Tokens
    BY SignsAre DEF Signs
  <2>2. \A a, b, c, d \in Parser!Lexemes : <<a, b, c, d>> \in Seq(Parser!Lexemes)
    OBVIOUS
  <2>3. QED
    BY <1>4, <2>1, <2>2 DEF Texts
<1> HIDE DEF one
<1>7. u \o And \in Texts /\ l \o one \in Seq(Tokens)
  BY <1>3, <1>6, ConcatProperties DEF Texts
<1>8. CutsInto(u \o And, l \o one)
  BY <1>1, <1>3, <1>5, <1>6, CutsJoin
<1>9. CutsInto(all, l \o one \o r)
  BY <1>2, <1>3, <1>7, <1>8, CutsJoin
<1>10. all \in Texts
  BY <1>3, <1>7, ConcatProperties DEF Texts
<1> HIDE DEF all
<1>11. Parser!precedence("&") = 2 /\ Joined("&", A, B) = A \cap B
  BY PrecedenceIs DEF Joined
<1>12. p \in 1 .. 4 /\ q \in 1 .. 4 /\ p >= 2 /\ q >= 2
  OBVIOUS
<1>13. Means(all, Parser!precedence("&"), Joined("&", A, B))
  BY <1>1, <1>2, <1>3, <1>9, <1>10, <1>11, <1>12, MeansJoined DEF one
<1>14. Means(all, 2, A \cap B)
  BY <1>11, <1>13
<1>15. QED
  BY <1>14 DEF all

LEMMA MeansOr ==
    ASSUME NEW u, NEW v, NEW p \in 1 .. 4, NEW q \in 1 .. 4, NEW A, NEW B,
           Means(u, p, A), Means(v, q, B)
    PROVE  Means(u \o <<"|">> \o v, 1, A \cup B)
<1> DEFINE or == <<"|">>
           all == u \o or \o v
<1>1. PICK l \in Seq(Tokens) : /\ CutsInto(u, l) /\ Strict(l, p, A)
                               /\ \A o \in {"&", "|"} : Parser!precedence(o) = p => Equal(l, o, A)
  BY DEF Means
<1>2. PICK r \in Seq(Tokens) : /\ CutsInto(v, r) /\ Strict(r, q, B)
                               /\ \A o \in {"&", "|"} : Parser!precedence(o) = q => Equal(r, o, B)
  BY DEF Means
<1>3. A \in Sets /\ B \in Sets /\ u \in Texts /\ v \in Texts
  BY DEF Means
<1>4. CutsInto(all, l \o or \o r)
  BY <1>1, <1>2, <1>3, CutOr
<1>5. or \in Texts
  BY SignsAre DEF Texts, Signs
<1> HIDE DEF or
<1>6. all \in Texts
  BY <1>3, <1>5, ConcatProperties DEF Texts
<1> HIDE DEF all
<1>7. Parser!precedence("|") = 1 /\ Joined("|", A, B) = A \cup B
  BY PrecedenceIs DEF Joined
<1>8. p >= 1 /\ q >= 1
  OBVIOUS
<1>9. Means(all, Parser!precedence("|"), Joined("|", A, B))
  BY <1>1, <1>2, <1>3, <1>4, <1>6, <1>7, <1>8, MeansJoined DEF or
<1>10. Means(all, 1, A \cup B)
  BY <1>7, <1>9
<1>11. QED
  BY <1>10 DEF all, or

\* Every expression's query means the documents it is true of.
LEMMA RenderMeans ==
    nDocs = Len(texts) => \A e \in Expressions : Means(Render[e], PrecedenceOf(e), Meaning[e])
<1> SUFFICES ASSUME nDocs = Len(texts)
             PROVE  \A e \in Expressions : Means(Render[e], PrecedenceOf(e), Meaning[e])
  OBVIOUS
<1>1. nDocs = Len(texts)
  OBVIOUS
<1> DEFINE P == {e \in Expressions : Means(Render[e], PrecedenceOf(e), Meaning[e])}
<1>2. ASSUME NEW e \in Expressions, \A x \in Operands(e) : x \in P PROVE e \in P
  <2>1. Render[e] = TextOf(e, Render) /\ Meaning[e] = MeaningOf(e, Meaning)
    BY RenderIs, MeaningIs
  <2>2. \A x \in Operands(e) : /\ x.op \in {"word", "!", "&", "|"}
                               /\ Means(Render[x], PrecedenceOf(x), Meaning[x])
    <3>1. \A x \in Operands(e) : x \in Expressions
      BY ExpressionTypes
    <3>2. QED
      BY <1>2, <3>1, ExpressionCases
  <2>3. \A x \in Operands(e) : /\ x.op = "word" => PrecedenceOf(x) = 4
                               /\ x.op = "!" => PrecedenceOf(x) = 3
                               /\ x.op = "&" => PrecedenceOf(x) = 2
                               /\ x.op = "|" => PrecedenceOf(x) = 1
    BY PrecedenceIs DEF PrecedenceOf
  <2> HIDE DEF P
  <2>4. CASE e.op = "word" /\ e.form \in Forms
    <3>1. Render[e] = <<e.form>>
      BY <2>1, <2>4, WrittenCases, Zenon
    <3>2. Meaning[e] = Having(Stem[e.form], nDocs)
      BY <1>1, <2>1, <2>4, MeaningCases
    <3>3. PrecedenceOf(e) = 4
      BY <2>4 DEF PrecedenceOf
    <3>4. QED
      BY <2>4, <3>1, <3>2, <3>3, MeansWord DEF P
  <2>5. CASE e.op = "!" /\ Operands(e) = {e.of}
    <3> DEFINE x == e.of
               text == Nested(Render[x], x, {"!", "&", "|"})
    <3>1. Render[e] = <<"!">> \o text
      BY <2>1, <2>5, WrittenCases, Zenon
    <3>2. Meaning[e] = 0 .. nDocs - 1 \ Meaning[x]
      BY <1>1, <2>1, <2>5, MeaningCases
    <3>3. PrecedenceOf(e) = 3
      BY <2>5, PrecedenceIs DEF PrecedenceOf
    <3>4. Means(text, 4, Meaning[x])
      <4>1. x \in Operands(e)
        BY <2>5
      <4> HIDE DEF x
      <4>2. CASE x.op = "word"
        BY <2>2, <2>3, <4>1, <4>2 DEF Nested
      <4>3. CASE x.op \in {"!", "&", "|"}
        <5>1. PrecedenceOf(x) \in 1 .. 4
          BY <2>3, <4>1, <4>3
        <5>2. Means(<<"(">> \o Render[x] \o <<")">>, 4, Meaning[x])
          BY <2>2, <4>1, <5>1, MeansNested
        <5>3. QED
          BY <4>3, <5>2 DEF Nested
      <4>4. QED
        BY <2>2, <4>1, <4>2, <4>3
    <3> HIDE DEF x, text
    <3>5. Means(<<"!">> \o text, 3, 0 .. nDocs - 1 \ Meaning[x])
      BY <3>4, MeansNot
    <3>6. QED
      BY <3>1, <3>2, <3>3, <3>5 DEF P
  <2>6. CASE e.op = "&" /\ Operands(e) = {e.left, e.right}
    <3> DEFINE x == e.left
               y == e.right
               text(z) == Nested(Render[z], z, {"|"})
    <3>1. Render[e] = text(x) \o And \o text(y)
      BY <2>1, <2>6, WrittenCases, Zenon DEF And
    <3>2. Meaning[e] = Meaning[x] \cap Meaning[y]
      BY <2>1, <2>6, MeaningCases
    <3>3. PrecedenceOf(e) = 2
      BY <2>6, PrecedenceIs DEF PrecedenceOf
    <3>4. ASSUME NEW z \in Operands(e) PROVE \E p \in 2 .. 4 : Means(text(z), p, Meaning[z])
      <4>1. CASE z.op # "|"
        <5>1. PrecedenceOf(z) \in 2 .. 4
          BY <2>2, <2>3, <4>1
        <5>2. text(z) = Render[z]
          BY <4>1 DEF Nested
        <5>3. QED
          BY <2>2, <5>1, <5>2
      <4>2. CASE z.op = "|"
        <5>1. PrecedenceOf(z) \in 1 .. 4
          BY <2>3, <4>2
        <5>2. Means(<<"(">> \o Render[z] \o <<")">>, 4, Meaning[z])
          BY <2>2, <5>1, MeansNested
        <5>3. text(z) = <<"(">> \o Render[z] \o <<")">>
          BY <4>2 DEF Nested
        <5>4. 4 \in 2 .. 4
          OBVIOUS
        <5>5. QED
          BY <5>2, <5>3, <5>4, Zenon
      <4>3. QED
        BY <4>1, <4>2
    <3>5. x \in Operands(e) /\ y \in Operands(e)
      BY <2>6
    <3> HIDE DEF x, y, text
    <3>6. PICK p \in 2 .. 4 : Means(text(x), p, Meaning[x])
      BY <3>4, <3>5
    <3>7. PICK q \in 2 .. 4 : Means(text(y), q, Meaning[y])
      BY <3>4, <3>5
    <3>8. Means(text(x) \o And \o text(y), 2, Meaning[x] \cap Meaning[y])
      BY <3>6, <3>7, MeansAnd
    <3>9. QED
      BY <3>1, <3>2, <3>3, <3>8, Zenon DEF P
  <2>7. CASE e.op = "|" /\ Operands(e) = {e.left, e.right}
    <3> DEFINE x == e.left
               y == e.right
    <3>1. Render[e] = Render[x] \o <<"|">> \o Render[y]
      BY <2>1, <2>7, WrittenCases, Zenon
    <3>2. Meaning[e] = Meaning[x] \cup Meaning[y]
      BY <2>1, <2>7, MeaningCases
    <3>3. PrecedenceOf(e) = 1
      BY <2>7, PrecedenceIs DEF PrecedenceOf
    <3>4. \A z \in Operands(e) : PrecedenceOf(z) \in 1 .. 4
      BY <2>2, <2>3
    <3>5. x \in Operands(e) /\ y \in Operands(e)
      BY <2>7
    <3> HIDE DEF x, y
    <3>6. Means(Render[x] \o <<"|">> \o Render[y], 1, Meaning[x] \cup Meaning[y])
      BY <2>2, <3>4, <3>5, MeansOr
    <3>7. QED
      BY <3>1, <3>2, <3>3, <3>6 DEF P
  <2>8. QED
    BY <2>4, <2>5, <2>6, <2>7, ExpressionCases
<1> HIDE DEF P
<1>3. \A e \in Expressions : e \in P
  BY <1>2, ExpressionInduction
<1>4. QED
  BY <1>3 DEF P

----------------------------------------------------------------------------
(* What the invariant says of each property *)

LEMMA InvariantPosted ==
    ASSUME IInv
    PROVE  CountedArePosted
<1>1. SUFFICES ASSUME pc # "off", NEW l \in CountedLabels
               PROVE  \/ I[l] # None
                      \/ \E m \in DOMAIN Queue :
                            Queue[m].op = "add" /\ \E k \in DOMAIN Queue[m].pairs : Queue[m].pairs[k].label = l
                      \/ \E m \in DOMAIN messages : \E k \in DOMAIN messages[m] : messages[m][k].label = l
  BY DEF CountedArePosted, Queue
<1>2. CASE \E p \in PendingPairs : p.label = l
  <2>1. PICK p : p.label = l /\ (InQueue(p) \/ InMessages(p))
    BY <1>2, PendingIs
  <2>2. QED
    BY <2>1 DEF InQueue, InMessages, ToSet
<1>3. CASE Right(l, I[l])
  BY <1>3, RightIs DEF IInv, CountedLabels
<1>4. QED
  BY <1>1, <1>2, <1>3 DEF IInv, PostingInv

LEMMA InvariantOnce ==
    ASSUME IInv
    PROVE  EveryPostingOnce
<1>1. SUFFICES ASSUME pc \in {"search", "await"}
               PROVE  /\ ToSet(labels) = Asked /\ Len(labels) = Cardinality(Asked)
                      /\ \A x \in Asked : docs[x[1]][x[2] + 1] = None
                             <=> \E k \in label_pos + 1 .. Len(labels) : labels[k] = x
  BY DEF EveryPostingOnce, Asked
<1>2. /\ ToSet(labels) = Asked /\ IsInjective(labels)
      /\ \A x \in Asked : docs[x[1]][x[2] + 1] = None
             <=> \E k \in label_pos + 1 .. Len(labels) : labels[k] = x
  BY <1>1 DEF IInv, LoopInv, Searching
<1>3. Len(labels) \in Nat /\ DOMAIN labels = 1 .. Len(labels)
  BY LenProperties DEF IInv, TypeOK
<1>4. Len(labels) = Cardinality(Asked)
  <2>1. IsFiniteSet(1 .. Len(labels)) /\ Cardinality(1 .. Len(labels)) = Len(labels)
    <3>1. 1 \in Int /\ Len(labels) \in Int
          /\ (IF 1 > Len(labels) THEN 0 ELSE Len(labels) - 1 + 1) = Len(labels)
      BY <1>3
    <3>2. QED
      BY <3>1, FS_Interval
  <2>2. labels \in Bijection(1 .. Len(labels), Asked)
    <3>1. labels \in [1 .. Len(labels) -> Asked]
      BY <1>2, <1>3 DEF ToSet, IInv, TypeOK
    <3>2. \A x \in Asked : \E k \in 1 .. Len(labels) : labels[k] = x
      BY <1>2, <1>3 DEF ToSet
    <3>3. \A j, k \in 1 .. Len(labels) : labels[j] = labels[k] => j = k
      BY <1>2, <1>3 DEF IsInjective
    <3>4. QED
      BY <3>1, <3>2, <3>3 DEF Bijection, Injection, Surjection, IsInjective
  <2>3. ExistsBijection(1 .. Len(labels), Asked)
    BY <2>2 DEF ExistsBijection
  <2>4. QED
    BY <2>1, <2>3, FS_Bijection
<1>5. QED
  BY <1>2, <1>4

LEMMA InvariantBest ==
    ASSUME IInv
    PROVE  BestAreReturned
<1> DEFINE Frequency(d) == texts[d + 1][rpn[1]]
<1>1. SUFFICES ASSUME pc = "answer", Len(rpn) = 1, Len(result) < nDocs,
                      NEW i \in DOMAIN answer, NEW d \in ToSet(result) \ {answer[j] : j \in 1 .. i}
               PROVE  Frequency(answer[i]) >= Frequency(d)
  BY DEF BestAreReturned
<1>2. answer \in Best(result) /\ result = DocumentsOf(docs[1]) /\ label_pos = Len(labels)
  BY <1>1 DEF IInv, LoopInv, ResultInv
<1>3. /\ answer[i] \in ToSet(result)
      /\ Score(answer[i]) >= Score(d)
  BY <1>1, <1>2 DEF Best, First, MayPrecede
<1>4. 1 \in DOMAIN rpn
  BY <1>1, LenProperties DEF IInv, LoopInv
<1>5. /\ DOMAIN docs[1] = 1 .. counter[1] /\ counter[1] \in Nat
      /\ \A n \in 1 .. counter[1] : Right(<<rpn[1], n - 1>>, <<<<rpn[1], n - 1>>, docs[1][n][1], docs[1][n][2]>>)
  BY <1>1, <1>2, <1>4, AllRead
<1>6. Len(docs[1]) # nDocs
  <2>1. DOMAIN result = DOMAIN docs[1]
    BY <1>2 DEF DocumentsOf
  <2>2. DocumentsOf(docs[1]) \in Seq(0 .. nDocs - 1)
        /\ docs[1] \in Seq((Docs \X (1 .. MaxFrequency)) \cup {None})
    BY <1>1, <1>2, <1>4, AllRead DEF IInv, TypeOK
  <2>3. Len(result) = Len(docs[1])
    BY <1>2, <2>1, <2>2, LenProperties
  <2>4. QED
    BY <1>1, <2>2, <2>3, LenProperties DEF IInv, TypeOK
<1>7. ASSUME NEW e \in ToSet(result) PROVE Score(e) = Frequency(e)
  <2>1. \E n \in DOMAIN docs[1] : docs[1][n][1] = e
    BY <1>2 DEF ToSet, DocumentsOf
  <2>2. PICK n \in DOMAIN docs[1] : n = (CHOOSE m \in DOMAIN docs[1] : docs[1][m][1] = e) /\ docs[1][n][1] = e
    BY <2>1
  <2>3. Score(e) = docs[1][n][2]
    BY <1>6, <2>2 DEF Score
  <2>4. Right(<<rpn[1], n - 1>>, <<<<rpn[1], n - 1>>, e, docs[1][n][2]>>)
    BY <1>5, <2>2
  <2>5. docs[1][n][2] = texts[e + 1][rpn[1]]
    BY <2>4 DEF Right
  <2>6. QED
    BY <2>3, <2>5
<1>8. QED
  BY <1>3, <1>7

LEMMA InvariantStaysUp ==
    ASSUME IInv
    PROVE  StorageStaysUp
<1>1. running
  BY DEF IInv, ServableInv
<1>2. ASSUME pc = "await"
      PROVE  Replies # <<>> \/ \E m \in DOMAIN Queue : Queue[m].op = "search"
  <2>1. CASE Replies = <<[k \in DOMAIN Batch |-> I[LabelOf(Batch[k])]]>>
    BY <2>1
  <2>2. CASE Queue # <<>> /\ Queue[Len(Queue)] = Storage!SearchRequest(RequestedLabels)
    <3>1. Queue \in Seq(Storage!Request) /\ DOMAIN Queue = 1 .. Len(Queue) /\ Len(Queue) \in Nat
      BY QueueIs DEF IInv, TypeOK
    <3>2. Len(Queue) \in DOMAIN Queue
      BY <2>2, <3>1, EmptySeq
    <3>3. Queue[Len(Queue)].op = "search"
      BY <2>2 DEF Storage!SearchRequest
    <3>4. QED
      BY <3>2, <3>3
  <2>3. QED
    BY <1>2, <2>1, <2>2 DEF IInv, AnswerInv
<1>3. QED
  BY <1>1, <1>2 DEF StorageStaysUp, Queue, Replies

\* The documents of an update of several documents are the articles.
LEMMA InvariantArticles ==
    ASSUME IInv
    PROVE  ArticlesKeepTheirWords
<1> DEFINE lines == source.file.lines
           documents == Analyzer!extractUniqueKeywords_wiki(source.file)
           first == source.first
<1>1. SUFFICES ASSUME pc = "update", Len(texts) > first + 1, NEW i \in DOMAIN lines,
                      lines[i].kind = "text", NEW k \in DOMAIN lines[i].forms
               PROVE  LET closed == Cardinality({j \in 1 .. i - 1 : lines[j] = Analyzer!CloseArticle})
                          article == texts[first + 1 + closed]
                      IN  \/ lines[i].forms[k] \in StopWords
                          \/ k = Len(lines[i].forms) /\ ~lines[i].followed
                          \/ article[Stem[lines[i].forms[k]]] > 0
  BY DEF ArticlesKeepTheirWords
<1>2. source.file \in Files /\ first \in Nat
  <2>1. source \in [file : Files, first : 0 .. MaxDocs]
    BY <1>1 DEF IInv, SourceInv
  <2>2. QED
    BY <2>1, ConstantTypes
<1>3. source.file \in Analyzer!File /\ documents \in Seq(Document)
  BY <1>2, InputsAssumption, Zenon
<1>4. first + Len(documents) = Len(texts) /\ \A h \in DOMAIN documents : texts[first + h] = documents[h]
  <2>1. PICK sent \in {<<Analyzer!extractUniqueKeywords(source.file)>>, documents} :
            first + Len(sent) = Len(texts) /\ \A h \in DOMAIN sent : texts[first + h] = sent[h]
    BY <1>1 DEF IInv, SourceInv
  <2> HIDE DEF documents, first
  <2>2. sent = documents
    BY <1>1, <2>1
  <2>3. QED
    BY <2>1, <2>2
<1>5. i \in 1 .. Len(lines) /\ Len(lines) \in Nat
  <2>1. lines \in Seq(Analyzer!Line)
    BY <1>3 DEF Analyzer!File
  <2> HIDE DEF lines
  <2>2. QED
    BY <1>1, <2>1, LenProperties
<1> DEFINE h == i - 1
           closed == Cardinality(Closing(lines, h))
<1>6. h \in Nat /\ closed \in Nat
  <2>1. h \in Nat
    BY <1>5
  <2> HIDE DEF h, lines
  <2>2. QED
    BY <2>1, ClosingIs
<1>7. 1 + closed \in 1 .. Len(documents) /\ Kept(documents[1 + closed], lines[i])
  BY <1>1, <1>3, <1>5, ArticleIs
<1>8. closed = Cardinality({j \in 1 .. i - 1 : lines[j] = Analyzer!CloseArticle})
  BY DEF Closing
<1> HIDE DEF closed, h, lines, documents, first
<1>9. texts[first + 1 + closed] = documents[1 + closed]
  <2>1. first + (1 + closed) = first + 1 + closed
    BY <1>2, <1>6
  <2>2. DOMAIN documents = 1 .. Len(documents)
    BY <1>3, LenProperties
  <2>3. QED
    BY <1>4, <1>7, <2>1, <2>2
<1>10. Kept(texts[first + 1 + closed], lines[i])
  BY <1>7, <1>9
<1>11. QED
  BY <1>1, <1>8, <1>10 DEF Kept

\* An answer has the documents that its query means.
LEMMA InvariantMeans == IInv => SearchMeansQuery
<1>1. SUFFICES ASSUME IInv, pc = "answer", NEW e \in Expressions, query = Render[e]
               PROVE  ToSet(result) = Meaning[e] /\ IsInjective(result)
  BY DEF SearchMeansQuery
<1>2. nDocs \in Nat /\ nDocs = Len(texts)
  BY <1>1 DEF IInv, TypeOK, PostingInv
<1>3. ToSet(result) = Truth(Parser!parse(query)) /\ IsInjective(result)
  BY <1>1 DEF IInv, LoopInv, ResultInv, Searching
<1>4. Means(Render[e], PrecedenceOf(e), Meaning[e])
  BY <1>1, <1>2, RenderMeans
<1>5. PICK t \in Seq(Tokens) : CutsInto(Render[e], t) /\ Strict(t, PrecedenceOf(e), Meaning[e])
  BY <1>4 DEF Means
<1>6. Render[e] \in Texts /\ Meaning[e] \in Sets
  BY <1>4 DEF Means
<1>7. Parser!tokenize(Render[e]) = t
  BY <1>5, <1>6, CutsTokenize
<1>8. Truth(Parser!shunting_yard(t)) = Meaning[e]
  BY <1>2, <1>5, <1>6, NotationMeans
<1>9. Parser!parse(query) = Parser!shunting_yard(t)
  BY <1>1, <1>7 DEF Parser!parse
<1>10. QED
  BY <1>3, <1>8, <1>9

\* Whatever batch an update is at, a label that is counted is in the storage, on its way,
\* or in the part of the message not sent yet (SseClient.cpp, SseIee.cpp: update).
THEOREM Posted == Spec => []CountedArePosted
BY IndexInvariant, InvariantPosted, PTL

\* The shuffle loses no label and doubles none: each posting of each word of a query is asked
\* for once, and read when its batch has been answered (SseIee.cpp: get_docs_from_server).
THEOREM EachPostingOnce == Spec => []EveryPostingOnce
BY IndexInvariant, InvariantOnce, PTL

\* A query of one word that not all documents have returns those that have it most often,
\* and those first (SseIee.cpp: calc_tfidf).
THEOREM BestReturned == Spec => []BestAreReturned
BY IndexInvariant, InvariantBest, PTL

\* Whatever Boolean expression a query is written for, with parentheses only where the
\* precedences ask for them, its search returns the documents that the expression is true
\* of, each once (QueryParser.cpp, SseIee.cpp: search, QueryEvaluator.cpp).
THEOREM SearchMeans == Spec => []SearchMeansQuery
BY IndexInvariant, InvariantMeans, PTL

\* The storage never exits, and the answer that the enclave waits for is there or asked for
\* (SseServer.cpp: process_client).
THEOREM StaysUp == Spec => []StorageStaysUp
BY IndexInvariant, InvariantStaysUp, PTL

\* The k-th article of a file is the k-th document of its update, and has every word that
\* another character follows: no line of markup shifts the articles (EnglishAnalyzer.cpp).
THEOREM ArticlesKept == Spec => []ArticlesKeepTheirWords
BY IndexInvariant, InvariantArticles, PTL

\* The type invariant of TextIndex.
THEOREM TypeCorrect == Spec => []TypeOK
<1>1. IInv => TypeOK
  BY DEF IInv
<1>2. QED
  BY <1>1, IndexInvariant, PTL
=============================================================================
