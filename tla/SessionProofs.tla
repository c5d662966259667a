----------------------------- MODULE SessionProofs -----------------------------
(***************************************************************************)
(* Every call of a client is executed once, in its order, and answered     *)
(* with its own answer: Session implements RemoteCall.  The proof goes by  *)
(* the phase each call is in, for any number of clients and any lengths of *)
(* messages and records, over TLS records and over a stream alike.         *)
(***************************************************************************)
EXTENDS SessionInvariant, SequenceTheorems, TLAPS

----------------------------------------------------------------------------
(* Parts of sequences *)

\* The values of f from i + 1 to j: what Slice and Singles are of a message.
Values(f) == {f[k] : k \in Nat}
Part(f, i, j) == [k \in 1 .. j - i |-> f[i + k]]

\* A part is the sequence of its values.
LEMMA PartType ==
  ASSUME NEW f, NEW i \in Nat, NEW j \in Nat, i <= j
  PROVE  /\ Part(f, i, j) \in Seq(Values(f))
         /\ Len(Part(f, i, j)) = j - i
         /\ DOMAIN Part(f, i, j) = 1 .. j - i
         /\ \A k \in 1 .. j - i : Part(f, i, j)[k] = f[i + k]
<1>1. j - i \in Nat
  OBVIOUS
<1>2. \A k \in 1 .. j - i : f[i + k] \in Values(f)
  <2>1. \A k \in 1 .. j - i : i + k \in Nat
    OBVIOUS
  <2> QED
    BY <2>1 DEF Values
<1>3. Part(f, i, j) \in Seq(Values(f))
  BY <1>1, <1>2 DEF Part
<1>4. Len(Part(f, i, j)) = j - i
  BY <1>1 DEF Part
<1> QED
  BY <1>3, <1>4 DEF Part

\* It is empty between a position and itself.
LEMMA PartEmpty ==
  ASSUME NEW f, NEW i \in Nat, NEW j \in Nat, i <= j
  PROVE  Part(f, i, j) = <<>> <=> i = j
<1>1. CASE i = j
  <2>1. 1 .. j - i = {}
    BY <1>1
  <2> QED
    BY <1>1, <2>1 DEF Part
<1>2. CASE i # j
  <2>1. Len(Part(f, i, j)) = j - i
    BY PartType
  <2>2. j - i # 0
    BY <1>2
  <2>3. Len(<<>>) = 0
    OBVIOUS
  <2> QED
    BY <1>2, <2>1, <2>2, <2>3
<1> QED
  BY <1>1, <1>2

\* A sequence of the same values is the same part.
LEMMA SamePart ==
  ASSUME NEW f, NEW s \in Seq(Values(f)), NEW i \in Nat, NEW j \in Nat, i <= j,
         Len(s) = j - i, \A k \in 1 .. j - i : s[k] = f[i + k]
  PROVE  s = Part(f, i, j)
<1>1. /\ Part(f, i, j) \in Seq(Values(f)) /\ Len(Part(f, i, j)) = j - i
      /\ \A k \in 1 .. j - i : Part(f, i, j)[k] = f[i + k]
  BY PartType
<1> QED
  BY <1>1, SeqEqual

\* A write of at most p bytes takes the first of a part and leaves the rest.
LEMMA PartCut ==
  ASSUME NEW f, NEW i \in Nat, NEW l \in Nat, i <= l, NEW p \in Nat
  PROVE  /\ First(Part(f, i, l), p) = Part(f, i, Smaller(i + p, l))
         /\ Rest(Part(f, i, l), p) = Part(f, Smaller(i + p, l), l)
         /\ Smaller(i + p, l) \in i .. l
<1> DEFINE s == Part(f, i, l)
           q == Smaller(p, l - i)
           e == Smaller(i + p, l)
<1>1. /\ s \in Seq(Values(f)) /\ Len(s) = l - i
      /\ \A k \in 1 .. l - i : s[k] = f[i + k]
  BY PartType
<1>2. q \in 0 .. l - i /\ e = i + q /\ e \in i .. l
  BY DEF Smaller
<1>3. First(s, p) = SubSeq(s, 1, q) /\ Rest(s, p) = SubSeq(s, q + 1, l - i)
  BY <1>1 DEF First, Rest
<1> HIDE DEF s, q, e
<1>4. \A k \in 1 .. l - i : s[k] \in Values(f)
  BY <1>1, ElementOfSeq
<1>5. SubSeq(s, 1, q) = Part(f, i, e)
  <2>1. /\ SubSeq(s, 1, q) \in Seq(Values(f)) /\ Len(SubSeq(s, 1, q)) = q
        /\ \A k \in 1 .. q : SubSeq(s, 1, q)[k] = s[k]
    BY <1>1, <1>2, <1>4, SubSeqProperties
  <2>2. e \in Nat /\ i <= e /\ q = e - i
    BY <1>2
  <2>3. \A k \in 1 .. e - i : k \in 1 .. l - i /\ SubSeq(s, 1, q)[k] = s[k]
    BY <1>2, <2>1, <2>2
  <2>4. \A k \in 1 .. e - i : SubSeq(s, 1, q)[k] = f[i + k]
    BY <1>1, <2>3
  <2> QED
    BY <2>1, <2>2, <2>4, SamePart
<1>6. SubSeq(s, q + 1, l - i) = Part(f, e, l)
  <2>1. /\ SubSeq(s, q + 1, l - i) \in Seq(Values(f))
        /\ Len(SubSeq(s, q + 1, l - i)) = l - e
        /\ \A k \in 1 .. l - e : SubSeq(s, q + 1, l - i)[k] = s[q + k]
    BY <1>1, <1>2, <1>4, SubSeqProperties
  <2>2. e \in Nat /\ e <= l
    BY <1>2
  <2>3. \A k \in 1 .. l - e : q + k \in 1 .. l - i /\ i + (q + k) = e + k
    BY <1>2
  <2>4. \A k \in 1 .. l - e : SubSeq(s, q + 1, l - i)[k] = f[e + k]
    BY <1>1, <2>1, <2>3
  <2>5. SubSeq(s, q + 1, l - i) \in Seq(Values(f)) /\ Len(SubSeq(s, q + 1, l - i)) = l - e
    BY <2>1
  <2> HIDE DEF s, q
  <2> QED
    BY <2>2, <2>4, <2>5, SamePart
<1> QED
  BY <1>2, <1>3, <1>5, <1>6 DEF s, e

\* What was read, and what comes after it.
LEMMA PartJoin ==
  ASSUME NEW f, NEW i \in Nat, NEW j \in Nat, NEW l \in Nat, i <= j, j <= l
  PROVE  Part(f, i, j) \o Part(f, j, l) = Part(f, i, l)
<1> DEFINE s == Part(f, i, j)
           t == Part(f, j, l)
<1>1. /\ s \in Seq(Values(f)) /\ Len(s) = j - i
      /\ \A k \in 1 .. j - i : s[k] = f[i + k]
  BY PartType
<1>2. /\ t \in Seq(Values(f)) /\ Len(t) = l - j
      /\ \A k \in 1 .. l - j : t[k] = f[j + k]
  BY PartType
<1> HIDE DEF s, t
<1>3. /\ s \o t \in Seq(Values(f)) /\ Len(s \o t) = l - i
      /\ \A k \in 1 .. l - i : (s \o t)[k] = IF k <= j - i THEN s[k] ELSE t[k - (j - i)]
  <2>1. /\ s \o t \in Seq(Values(f)) /\ Len(s \o t) = Len(s) + Len(t)
        /\ \A k \in 1 .. Len(s) + Len(t) :
              (s \o t)[k] = IF k <= Len(s) THEN s[k] ELSE t[k - Len(s)]
    BY <1>1, <1>2, ConcatProperties
  <2>2. Len(s) + Len(t) = l - i
    BY <1>1, <1>2
  <2> QED
    BY <1>1, <2>1, <2>2
<1>4. \A k \in 1 .. l - i : (s \o t)[k] = f[i + k]
  <2> TAKE k \in 1 .. l - i
  <2>1. CASE k <= j - i
    <3>1. k \in 1 .. j - i
      BY <2>1
    <3> QED
      BY <1>1, <1>3, <2>1, <3>1
  <2>2. CASE ~(k <= j - i)
    <3>1. k - (j - i) \in 1 .. l - j /\ j + (k - (j - i)) = i + k
      BY <2>2
    <3> QED
      BY <1>2, <1>3, <2>2, <3>1
  <2> QED
    BY <2>1, <2>2
<1>5. s \o t = Part(f, i, l)
  <2>1. i <= l
    OBVIOUS
  <2> QED
    BY <1>3, <1>4, <2>1, SamePart
<1> QED
  BY <1>5 DEF s, t

----------------------------------------------------------------------------
(* Slices of messages *)

ByteOf(m) == [k \in Nat |-> <<m, k>>]
SingleOf(m) == [k \in Nat |-> <<<<m, k>>>>]
Records(m) == Seq({m} \X Nat)

\* Bytes and records of one byte are numbered through their message.
LEMMA BytesAreParts ==
  ASSUME NEW m, NEW i \in Nat, NEW j \in Nat
  PROVE  /\ Slice(m, i, j) = Part(ByteOf(m), i, j) /\ Values(ByteOf(m)) = {m} \X Nat
         /\ Singles(m, i, j) = Part(SingleOf(m), i, j) /\ Values(SingleOf(m)) \subseteq Records(m)
<1>1. \A k \in 1 .. j - i : i + k \in Nat
  OBVIOUS
<1>2. \A k \in Nat : <<<<m, k>>>> \in Records(m)
  BY DEF Records
<1>3. Slice(m, i, j) = Part(ByteOf(m), i, j) /\ Singles(m, i, j) = Part(SingleOf(m), i, j)
  BY <1>1 DEF Slice, Singles, Part, ByteOf, SingleOf
<1>4. Values(ByteOf(m)) = {m} \X Nat
  BY DEF Values, ByteOf
<1>5. Values(SingleOf(m)) \subseteq Records(m)
  BY <1>2 DEF Values, SingleOf
<1> QED
  BY <1>3, <1>4, <1>5

\* The buffers that the loops of the two ends advance in.
LEMMA SliceType ==
  ASSUME NEW m, NEW i \in Nat, NEW j \in Nat, i <= j
  PROVE  /\ Slice(m, i, j) \in Records(m)
         /\ Len(Slice(m, i, j)) = j - i
         /\ DOMAIN Slice(m, i, j) = 1 .. j - i
         /\ \A k \in 1 .. j - i : Slice(m, i, j)[k] = <<m, i + k>>
<1>1. \A k \in 1 .. j - i : ByteOf(m)[i + k] = <<m, i + k>>
  BY DEF ByteOf
<1> DEFINE f == ByteOf(m)
<1>2. Slice(m, i, j) = Part(f, i, j) /\ Values(f) = {m} \X Nat
  BY BytesAreParts
<1>3. /\ Part(f, i, j) \in Seq(Values(f)) /\ Len(Part(f, i, j)) = j - i
      /\ DOMAIN Part(f, i, j) = 1 .. j - i
      /\ \A k \in 1 .. j - i : Part(f, i, j)[k] = f[i + k]
  BY PartType
<1> QED
  BY <1>1, <1>2, <1>3 DEF Records

\* A buffer is empty between a position and itself.
LEMMA SliceEmpty ==
  ASSUME NEW m, NEW i \in Nat, NEW j \in Nat, i <= j
  PROVE  Slice(m, i, j) = <<>> <=> i = j
BY BytesAreParts, PartEmpty

\* A write of at most p bytes.
LEMMA SliceCut ==
  ASSUME NEW m, NEW i \in Nat, NEW l \in Nat, i <= l, NEW p \in Nat
  PROVE  /\ First(Slice(m, i, l), p) = Slice(m, i, Smaller(i + p, l))
         /\ Rest(Slice(m, i, l), p) = Slice(m, Smaller(i + p, l), l)
         /\ Smaller(i + p, l) \in i .. l
<1>1. Smaller(i + p, l) \in i .. l /\ Smaller(i + p, l) \in Nat
  BY DEF Smaller
<1> DEFINE f == ByteOf(m)
           e == Smaller(i + p, l)
<1>2. Slice(m, i, l) = Part(f, i, l)
  BY BytesAreParts
<1>3. Slice(m, i, e) = Part(f, i, e) /\ Slice(m, e, l) = Part(f, e, l)
  BY <1>1, BytesAreParts
<1>4. First(Part(f, i, l), p) = Part(f, i, e) /\ Rest(Part(f, i, l), p) = Part(f, e, l)
  BY PartCut
<1> HIDE DEF f
<1> QED
  BY <1>1, <1>2, <1>3, <1>4

\* What was read, and what comes after it.
LEMMA SliceJoin ==
  ASSUME NEW m, NEW i \in Nat, NEW j \in Nat, NEW l \in Nat, i <= j, j <= l
  PROVE  Slice(m, i, j) \o Slice(m, j, l) = Slice(m, i, l)
<1> DEFINE f == ByteOf(m)
<1>1. Slice(m, i, j) = Part(f, i, j) /\ Slice(m, j, l) = Part(f, j, l) /\ Slice(m, i, l) = Part(f, i, l)
  BY BytesAreParts
<1>2. Part(f, i, j) \o Part(f, j, l) = Part(f, i, l)
  BY PartJoin
<1> HIDE DEF f
<1> QED
  BY <1>1, <1>2

\* The records of a stream are cut and joined as its bytes are.
LEMMA SinglesCut ==
  ASSUME NEW m, NEW i \in Nat, NEW l \in Nat, i <= l, NEW p \in Nat
  PROVE  /\ First(Singles(m, i, l), p) = Singles(m, i, Smaller(i + p, l))
         /\ Rest(Singles(m, i, l), p) = Singles(m, Smaller(i + p, l), l)
<1>1. Smaller(i + p, l) \in i .. l /\ Smaller(i + p, l) \in Nat
  BY DEF Smaller
<1> DEFINE f == SingleOf(m)
           e == Smaller(i + p, l)
<1>2. Singles(m, i, l) = Part(f, i, l)
  BY BytesAreParts
<1>3. Singles(m, i, e) = Part(f, i, e) /\ Singles(m, e, l) = Part(f, e, l)
  BY <1>1, BytesAreParts
<1>4. First(Part(f, i, l), p) = Part(f, i, e) /\ Rest(Part(f, i, l), p) = Part(f, e, l)
  BY PartCut
<1> HIDE DEF f
<1> QED
  BY <1>2, <1>3, <1>4

\* Bytes that come on a stream after those before them make it longer.
LEMMA SinglesJoin ==
  ASSUME NEW m, NEW i \in Nat, NEW j \in Nat, NEW l \in Nat, i <= j, j <= l
  PROVE  Singles(m, i, j) \o Singles(m, j, l) = Singles(m, i, l)
<1> DEFINE f == SingleOf(m)
<1>1. /\ Singles(m, i, j) = Part(f, i, j) /\ Singles(m, j, l) = Part(f, j, l)
      /\ Singles(m, i, l) = Part(f, i, l)
  BY BytesAreParts
<1>2. Part(f, i, j) \o Part(f, j, l) = Part(f, i, l)
  BY PartJoin
<1> HIDE DEF f
<1> QED
  BY <1>1, <1>2

\* A stream is the bytes that were written to it, and is read as them.
LEMMA StreamOfSlice ==
  ASSUME NEW m, NEW i \in Nat, NEW j \in Nat, i <= j
  PROVE  /\ Stream(Slice(m, i, j)) = Singles(m, i, j)
         /\ BytesOf(Singles(m, i, j)) = Slice(m, i, j)
<1>1. DOMAIN Slice(m, i, j) = 1 .. j - i /\ \A k \in 1 .. j - i : Slice(m, i, j)[k] = <<m, i + k>>
  BY SliceType
<1>2. DOMAIN Singles(m, i, j) = 1 .. j - i
      /\ \A k \in 1 .. j - i : Singles(m, i, j)[k][1] = <<m, i + k>>
  BY DEF Singles
<1>3. Stream(Slice(m, i, j)) = [k \in 1 .. j - i |-> <<<<m, i + k>>>>]
  BY <1>1 DEF Stream
<1>4. BytesOf(Singles(m, i, j)) = [k \in 1 .. j - i |-> <<m, i + k>>]
  BY <1>2 DEF BytesOf
<1> QED
  BY <1>3, <1>4 DEF Slice, Singles

----------------------------------------------------------------------------
(* Records under way *)

\* With no record under way all that was written was read, and nothing comes
\* after the last byte (the reads of read_ssl end where the writes did).
LEMMA CutEmpty ==
  ASSUME NEW m, NEW length \in Nat, NEW i \in Nat, NEW j \in Nat
  PROVE  /\ Cut(<<>>, m, length, i, i)
         /\ Cut(<<>>, m, length, i, j) => i = j
         /\ \A r : Cut(r, m, length, length, j) => r = <<>> /\ j = length
<1>1. <<>> \in Seq(Records(m)) /\ Len(<<>>) = 0 /\ DOMAIN <<>> = {}
  OBVIOUS
<1>2. Start(<<>>, 1, i) = i /\ Start(<<>>, 1, j) = j
  BY <1>1 DEF Start
<1>3. Cut(<<>>, m, length, i, i) /\ (Cut(<<>>, m, length, i, j) => i = j)
  BY <1>1, <1>2 DEF Cut, Records
<1>4. ASSUME NEW r, Cut(r, m, length, length, j)
      PROVE  r = <<>> /\ j = length
  <2>1. r \in Seq(Records(m)) /\ Start(r, 1, j) = length
    BY <1>4 DEF Cut, Records
  <2>2. r = <<>>
    <3>1. SUFFICES ASSUME r # <<>>
                   PROVE  FALSE
      OBVIOUS
    <3>2. 1 \in DOMAIN r
      BY <2>1, <3>1, EmptySeq, LenProperties
    <3>3. Start(r, 1, j) \in 0 .. length - 1
      BY <1>4, <3>2 DEF Cut, Records
    <3> QED
      BY <2>1, <3>3
  <2>3. j = length
    BY <1>2, <2>1, <2>2
  <2> QED
    BY <2>2, <2>3
<1> QED
  BY <1>3, <1>4

\* mbedtls_ssl_write adds a record of as many bytes as it may hold.
LEMMA CutAppend ==
  ASSUME NEW m, NEW length \in Nat, NEW i \in Nat, NEW j \in 0 .. length - 1, NEW r,
         Cut(r, m, length, i, j)
  PROVE  LET b == Smaller(j + MaxRecord, length)
         IN  Cut(Append(r, Slice(m, j, b)), m, length, i, b)
<1> DEFINE b == Smaller(j + MaxRecord, length)
           x == Slice(m, j, b)
           S == Records(m)
           n == Len(r)
           q == Append(r, x)
<1>1. b \in Nat /\ j < b /\ b <= length
  BY ChannelAssumption DEF Smaller
<1>2. r \in Seq(S) /\ n \in Nat /\ DOMAIN r = 1 .. n
  BY LenProperties DEF Cut, Records
<1>3. x \in S /\ Len(x) = b - j /\ x[1] = <<m, j + 1>>
  <2>1. j \in Nat /\ j <= b /\ 1 \in 1 .. b - j
    BY <1>1
  <2> HIDE DEF b
  <2> QED
    BY <1>1, <2>1, SliceType
<1>4. x[1][2] - 1 = j
  BY <1>3
<1> HIDE DEF x
<1>5. /\ q \in Seq(S) /\ Len(q) = n + 1 /\ q[n + 1] = x
      /\ \A k \in 1 .. n : q[k] = r[k]
  BY <1>2, <1>3, AppendProperties
<1> HIDE DEF q, S
<1>6. DOMAIN q = 1 .. n + 1
  BY <1>5, LenProperties
<1>7. \A k \in 1 .. n : Start(q, k, b) = Start(r, k, j)
  BY <1>2, <1>5 DEF Start
<1>8. Start(q, n + 1, b) = j /\ Start(r, n + 1, j) = j
  BY <1>2, <1>4, <1>5 DEF Start
<1>9. Start(q, n + 2, b) = b
  BY <1>2, <1>5 DEF Start
<1>10. \A k \in 1 .. n + 1 : Start(q, k, b) = Start(r, k, j)
  BY <1>2, <1>7, <1>8
<1>11. Start(r, 1, j) = i
  BY DEF Cut, Records
<1>12. Start(q, 1, b) = i
  BY <1>2, <1>10, <1>11
<1>13. ASSUME NEW k \in 1 .. n + 1
       PROVE  /\ Start(q, k, b) \in 0 .. length - 1
              /\ Start(q, k + 1, b) = Smaller(Start(q, k, b) + MaxRecord, length)
              /\ q[k] = Slice(m, Start(q, k, b), Start(q, k + 1, b))
  <2>1. CASE k \in 1 .. n
    <3>1. k + 1 \in 1 .. n + 1
      BY <1>2, <2>1
    <3>2. Start(q, k, b) = Start(r, k, j) /\ Start(q, k + 1, b) = Start(r, k + 1, j)
      BY <1>10, <3>1
    <3>3. /\ Start(r, k, j) \in 0 .. length - 1
          /\ Start(r, k + 1, j) = Smaller(Start(r, k, j) + MaxRecord, length)
          /\ r[k] = Slice(m, Start(r, k, j), Start(r, k + 1, j))
      BY <1>2, <2>1 DEF Cut, Records
    <3> QED
      BY <1>5, <2>1, <3>2, <3>3
  <2>2. CASE k = n + 1
    <3>1. Start(q, k, b) = j /\ Start(q, k + 1, b) = b /\ q[k] = x
      BY <1>2, <1>5, <1>8, <1>9, <2>2
    <3> QED
      BY <3>1 DEF x
  <2> QED
    BY <1>2, <2>1, <2>2
<1>14. q \in Seq(Records(m))
  BY <1>5 DEF S
<1> HIDE DEF b
<1>15. Cut(q, m, length, i, b)
  BY <1>6, <1>12, <1>13, <1>14 DEF Cut, Records
<1> QED
  BY <1>15 DEF q, x, b

\* mbedtls_ssl_read finds one whole record, and the others are those of the rest.
LEMMA CutHead ==
  ASSUME NEW m, NEW length \in Nat, NEW i \in Nat, NEW j \in Nat, NEW r,
         Cut(r, m, length, i, j), r # <<>>
  PROVE  LET b == Smaller(i + MaxRecord, length)
         IN  /\ i < length
             /\ Head(r) = Slice(m, i, b)
             /\ Cut(Tail(r), m, length, b, j)
<1> DEFINE b == Smaller(i + MaxRecord, length)
           S == Records(m)
           n == Len(r)
           q == Tail(r)
<1>1. r \in Seq(S) /\ Start(r, 1, j) = i
  BY DEF Cut, Records
<1>2. n \in Nat \ {0} /\ DOMAIN r = 1 .. n
  BY <1>1, EmptySeq, LenProperties
<1>3. ASSUME NEW k \in 1 .. n
      PROVE  /\ Start(r, k, j) \in 0 .. length - 1
             /\ Start(r, k + 1, j) = Smaller(Start(r, k, j) + MaxRecord, length)
             /\ r[k] = Slice(m, Start(r, k, j), Start(r, k + 1, j))
  BY <1>2 DEF Cut, Records
<1>4. i \in 0 .. length - 1 /\ Start(r, 2, j) = b /\ r[1] = Slice(m, i, b)
  <2>1. 1 \in 1 .. n /\ 1 + 1 = 2
    BY <1>2
  <2> QED
    BY <1>1, <1>3, <2>1
<1>5. Head(r) = r[1]
  BY <1>1, <1>2
<1>6. q \in Seq(S) /\ Len(q) = n - 1 /\ \A k \in 1 .. n - 1 : q[k] = r[k + 1]
  BY <1>1, HeadTailProperties
<1> HIDE DEF q, S
<1>7. DOMAIN q = 1 .. n - 1
  BY <1>6, LenProperties
<1>8. \A k \in 1 .. n : Start(q, k, j) = Start(r, k + 1, j)
  BY <1>2, <1>6 DEF Start
<1>9. Start(q, 1, j) = b
  <2>1. 1 \in 1 .. n /\ 1 + 1 = 2
    BY <1>2
  <2> QED
    BY <1>4, <1>8, <2>1
<1>10. ASSUME NEW k \in 1 .. n - 1
       PROVE  /\ Start(q, k, j) \in 0 .. length - 1
              /\ Start(q, k + 1, j) = Smaller(Start(q, k, j) + MaxRecord, length)
              /\ q[k] = Slice(m, Start(q, k, j), Start(q, k + 1, j))
  <2>1. k \in 1 .. n /\ k + 1 \in 1 .. n
    BY <1>2
  <2>2. Start(q, k, j) = Start(r, k + 1, j) /\ Start(q, k + 1, j) = Start(r, (k + 1) + 1, j)
    BY <1>8, <2>1
  <2>3. /\ Start(r, k + 1, j) \in 0 .. length - 1
        /\ Start(r, (k + 1) + 1, j) = Smaller(Start(r, k + 1, j) + MaxRecord, length)
        /\ r[k + 1] = Slice(m, Start(r, k + 1, j), Start(r, (k + 1) + 1, j))
    BY <1>3, <2>1
  <2> QED
    BY <1>6, <2>2, <2>3
<1>11. q \in Seq(Records(m))
  BY <1>6 DEF S
<1> HIDE DEF b
<1>12. Cut(q, m, length, b, j)
  BY <1>7, <1>9, <1>10, <1>11 DEF Cut, Records
<1>13. i < length
  BY <1>4
<1> QED
  BY <1>4, <1>5, <1>12, <1>13 DEF q, b

----------------------------------------------------------------------------
(* Writes and reads *)

\* UnderWay over either kind of connection.
LEMMA UnderWayType ==
  ASSUME NEW s, NEW r, NEW m, NEW length, NEW i \in Nat, NEW j \in Nat,
         UnderWay(s, r, m, length, i, j)
  PROVE  r \in Seq(Records(m))
<1>1. CASE s
  <2>1. i <= j /\ r = Singles(m, i, j)
    BY <1>1 DEF UnderWay
  <2>2. j - i \in Nat /\ \A k \in 1 .. j - i : <<<<m, i + k>>>> \in Records(m)
    BY <2>1 DEF Records
  <2>3. Singles(m, i, j) \in Seq(Records(m))
    BY <2>2 DEF Singles
  <2> QED
    BY <2>1, <2>3
<1>2. CASE ~s
  BY <1>2 DEF UnderWay, Cut, Records
<1> QED
  BY <1>1, <1>2

\* Nothing is under way before the first byte and after the last.
LEMMA UnderWayEmpty ==
  ASSUME NEW s, NEW m, NEW length \in Nat, NEW i \in Nat
  PROVE  /\ UnderWay(s, <<>>, m, length, i, i)
         /\ \A r : \A j \in 0 .. length :
               UnderWay(s, r, m, length, length, j) => r = <<>> /\ j = length
<1>1. CASE s
  <2>1. Singles(m, i, i) = <<>> /\ Singles(m, length, length) = <<>>
    <3>1. 1 .. i - i = {} /\ 1 .. length - length = {}
      OBVIOUS
    <3> QED
      BY <3>1 DEF Singles
  <2>2. \A j \in 0 .. length : length <= j => j = length
    OBVIOUS
  <2> QED
    BY <1>1, <2>1, <2>2 DEF UnderWay
<1>2. CASE ~s
  <2>1. \A j \in 0 .. length : j \in Nat
    OBVIOUS
  <2> QED
    BY <1>2, <2>1, CutEmpty DEF UnderWay
<1> QED
  BY <1>1, <1>2

\* One write of the loops of either end: bytes of from go on the wire.
OneWrite(s, from, wire, from2, wire2) ==
    IF s THEN \E n \in 1 .. Len(from) : wire2 = wire \o Stream(First(from, n))
                                        /\ from2 = Rest(from, n)
    ELSE wire2 = Append(wire, First(from, MaxRecord)) /\ from2 = Rest(from, MaxRecord)

\* The bytes up to some b went behind what was on the wire.
Written(s, m, length, j, from2, wire, wire2) ==
    \E b \in j + 1 .. length : \E more \in Seq(Records(m)) :
       /\ from2 = Slice(m, b, length)
       /\ wire2 = wire \o more
       /\ \A r : \A i \in Nat : UnderWay(s, r, m, length, i, j)
                                  => UnderWay(s, r \o more, m, length, i, b)

\* A write takes some of what is left, and it is under way behind the rest.
LEMMA WriteAdvances ==
  ASSUME NEW s \in BOOLEAN, NEW m, NEW length \in Nat, NEW j \in 0 .. length - 1,
         NEW h, NEW wire \in Seq(Records(m) \cup {h}), NEW from2, NEW wire2,
         OneWrite(s, Slice(m, j, length), wire, from2, wire2)
  PROVE  Written(s, m, length, j, from2, wire, wire2)
<1> DEFINE w == Slice(m, j, length)
           S == Records(m) \cup {h}
<1>1. j \in Nat /\ j < length /\ j <= length /\ MaxRecord \in Nat \ {0}
  BY ChannelAssumption
<1>2. Len(w) = length - j
  BY <1>1, SliceType
<1>3. CASE s
  <2>1. PICK n \in 1 .. length - j : wire2 = wire \o Stream(First(w, n)) /\ from2 = Rest(w, n)
    BY <1>2, <1>3 DEF OneWrite
  <2> DEFINE b == j + n
             more == Singles(m, j, b)
  <2>2. b \in j + 1 .. length /\ b \in Nat /\ j <= b /\ Smaller(j + n, length) = b /\ n \in Nat
    BY <1>1, <2>1 DEF Smaller
  <2>3. First(w, n) = Slice(m, j, b) /\ Rest(w, n) = Slice(m, b, length)
    BY <1>1, <2>2, SliceCut
  <2>4. Stream(Slice(m, j, b)) = more
    BY <1>1, <2>2, StreamOfSlice
  <2>5. more \in Seq(Records(m))
    BY <1>1, <1>3, <2>2, UnderWayType DEF UnderWay
  <2>6. ASSUME NEW r, NEW i \in Nat, UnderWay(s, r, m, length, i, j)
        PROVE  UnderWay(s, r \o more, m, length, i, b)
    <3>1. i <= j /\ r = Singles(m, i, j)
      BY <1>3, <2>6 DEF UnderWay
    <3>2. Singles(m, i, j) \o Singles(m, j, b) = Singles(m, i, b)
      BY <1>1, <2>2, <3>1, SinglesJoin
    <3>3. i <= b
      BY <1>1, <2>2, <3>1
    <3> QED
      BY <1>3, <3>1, <3>2, <3>3 DEF UnderWay
  <2>7. wire2 = wire \o more /\ from2 = Slice(m, b, length)
    BY <2>1, <2>3, <2>4
  <2> HIDE DEF b, more
  <2> QED
    BY <2>2, <2>5, <2>6, <2>7 DEF Written
<1>4. CASE ~s
  <2> DEFINE b == Smaller(j + MaxRecord, length)
             x == Slice(m, j, b)
             more == <<x>>
  <2>1. b \in j + 1 .. length /\ b \in Nat /\ j <= b
    BY <1>1 DEF Smaller
  <2>2. First(w, MaxRecord) = x /\ Rest(w, MaxRecord) = Slice(m, b, length)
    BY <1>1, SliceCut
  <2>3. wire2 = Append(wire, x) /\ from2 = Slice(m, b, length)
    BY <1>4, <2>2 DEF OneWrite
  <2>4. x \in Records(m)
    BY <1>1, <2>1, SliceType
  <2> HIDE DEF b, x
  <2>5. more \in Seq(Records(m)) /\ Append(wire, x) = wire \o more
    BY <2>4, AppendIsConcat
  <2>6. ASSUME NEW r, NEW i \in Nat, UnderWay(s, r, m, length, i, j)
        PROVE  UnderWay(s, r \o more, m, length, i, b)
    <3>1. Cut(r, m, length, i, j) /\ r \in Seq(Records(m))
      BY <1>1, <1>4, <2>6, UnderWayType DEF UnderWay
    <3>2. Append(r, x) = r \o more
      BY <2>4, <3>1, AppendIsConcat
    <3>3. Cut(Append(r, x), m, length, i, b)
      BY <3>1, CutAppend DEF x, b
    <3> QED
      BY <1>4, <3>2, <3>3 DEF UnderWay
  <2>7. wire2 = wire \o more
    BY <2>3, <2>5
  <2> QED
    BY <2>1, <2>3, <2>5, <2>6, <2>7 DEF Written
<1> QED
  BY <1>3, <1>4

\* One read of the loops of either end, into a buffer that has left bytes to come.
OneRead(s, wire, left, buffer, wire2, left2, buffer2) ==
    IF s THEN \E n \in 1 .. Smaller(Len(wire), left) :
                /\ buffer2 = buffer \o BytesOf(First(wire, n))
                /\ left2 = left - n /\ wire2 = Rest(wire, n)
    ELSE LET came == First(Head(wire), Chunk(left)) IN
         /\ wire # <<>>
         /\ buffer2 = buffer \o came
         /\ left2 = left - Len(came) /\ wire2 = Tail(wire)

\* The bytes up to some b were read, and the others are under way.
Taken(s, m, length, i, j, wire2, left2, buffer2) ==
    \E b \in i + 1 .. length :
       /\ buffer2 = Slice(m, 0, b) /\ left2 = length - b
       /\ UnderWay(s, wire2, m, length, b, j)

\* A read takes what comes next, and what it leaves is under way still.  That of a
\* record takes it whole, for both ends cut a message at the same places.
LEMMA ReadAdvances ==
  ASSUME NEW s \in BOOLEAN, NEW m, NEW length \in Nat, NEW i \in 0 .. length,
         NEW j \in 0 .. length, NEW wire, UnderWay(s, wire, m, length, i, j),
         NEW wire2, NEW left2, NEW buffer2,
         OneRead(s, wire, length - i, Slice(m, 0, i), wire2, left2, buffer2)
  PROVE  /\ Taken(s, m, length, i, j, wire2, left2, buffer2)
         /\ ~s => wire # <<>> /\ Len(Head(wire)) <= Chunk(length - i)
<1>1. i \in Nat /\ j \in Nat /\ MaxRecord \in Nat \ {0} /\ 0 <= i
  BY ChannelAssumption
<1>2. CASE s
  <2>1. i <= j /\ wire = Singles(m, i, j)
    BY <1>2 DEF UnderWay
  <2>2. Len(wire) = j - i
    <3>1. wire = Part(SingleOf(m), i, j)
      BY <1>1, <2>1, BytesAreParts
    <3> QED
      BY <1>1, <2>1, <3>1, PartType
  <2>3. PICK n \in 1 .. Smaller(Len(wire), length - i) :
               /\ buffer2 = Slice(m, 0, i) \o BytesOf(First(wire, n))
               /\ left2 = (length - i) - n /\ wire2 = Rest(wire, n)
    BY <1>2 DEF OneRead
  <2> DEFINE b == i + n
  <2>4. /\ b \in i + 1 .. length /\ b \in Nat /\ i <= b /\ b <= j /\ n \in Nat
        /\ Smaller(i + n, j) = b /\ (length - i) - n = length - b
    BY <1>1, <2>1, <2>2, <2>3 DEF Smaller
  <2>5. First(wire, n) = Singles(m, i, b) /\ Rest(wire, n) = Singles(m, b, j)
    BY <1>1, <2>1, <2>4, SinglesCut
  <2>6. BytesOf(Singles(m, i, b)) = Slice(m, i, b)
    BY <1>1, <2>4, StreamOfSlice
  <2>7. Slice(m, 0, i) \o Slice(m, i, b) = Slice(m, 0, b)
    BY <1>1, <2>4, SliceJoin
  <2>8. buffer2 = Slice(m, 0, b) /\ wire2 = Singles(m, b, j) /\ left2 = length - b
    BY <2>3, <2>4, <2>5, <2>6, <2>7
  <2>9. UnderWay(s, wire2, m, length, b, j)
    BY <1>2, <2>4, <2>8 DEF UnderWay
  <2> HIDE DEF b
  <2> QED
    BY <1>2, <2>4, <2>8, <2>9 DEF Taken
<1>3. CASE ~s
  <2> DEFINE b == Smaller(i + MaxRecord, length)
             x == Slice(m, i, b)
  <2>1. wire # <<>> /\ Cut(wire, m, length, i, j)
    BY <1>3 DEF OneRead, UnderWay
  <2>2. i < length /\ Head(wire) = x /\ Cut(Tail(wire), m, length, b, j)
    BY <1>1, <2>1, CutHead
  <2>3. b \in i + 1 .. length /\ b \in Nat /\ i <= b /\ Chunk(length - i) = b - i
    BY <1>1, <2>2 DEF Smaller, Chunk
  <2>4. Len(x) = b - i
    BY <1>1, <2>3, SliceType
  <2>5. First(x, b - i) = x
    <3>1. b - i \in Nat /\ i <= b /\ b \in Nat
      BY <1>1, <2>3
    <3> HIDE DEF b
    <3>2. First(Slice(m, i, b), b - i) = Slice(m, i, Smaller(i + (b - i), b))
      BY <1>1, <3>1, SliceCut
    <3>3. Smaller(i + (b - i), b) = b
      BY <1>1, <3>1 DEF Smaller
    <3> QED
      BY <3>2, <3>3
  <2>6. Slice(m, 0, i) \o x = Slice(m, 0, b)
    BY <1>1, <2>3, SliceJoin
  <2> HIDE DEF b, x
  <2>7. /\ buffer2 = Slice(m, 0, b) /\ left2 = (length - i) - (b - i) /\ wire2 = Tail(wire)
    BY <1>3, <2>2, <2>3, <2>4, <2>5, <2>6 DEF OneRead
  <2>8. left2 = length - b
    BY <1>1, <2>3, <2>7
  <2>9. UnderWay(s, wire2, m, length, b, j)
    BY <1>3, <2>2, <2>7 DEF UnderWay
  <2>10. Len(Head(wire)) <= Chunk(length - i)
    BY <1>1, <2>2, <2>3, <2>4
  <2> QED
    BY <2>1, <2>3, <2>7, <2>8, <2>9, <2>10 DEF Taken
<1> QED
  BY <1>2, <1>3

----------------------------------------------------------------------------
(* The length, and what follows it *)

\* A length under way is what is read first, and the bytes come behind it.
LEMMA LengthFirst ==
  ASSUME NEW s, NEW m, NEW length \in Nat, NEW j \in Nat, NEW r,
         LengthUnderWay(s, r, m, length, j)
  PROVE  /\ r # <<>> /\ Head(r) = Header(length) /\ r \in Seq(Records(m) \cup {Header(length)})
         /\ Tail(r) \in Seq(Records(m)) /\ UnderWay(s, Tail(r), m, length, 0, j)
<1> DEFINE h == Header(length)
           t == Tail(r)
           S == Records(m) \cup {h}
<1>1. r # <<>> /\ r = <<h>> \o t /\ UnderWay(s, t, m, length, 0, j)
  BY DEF LengthUnderWay
<1>2. t \in Seq(Records(m))
  BY <1>1, UnderWayType
<1> HIDE DEF h, t
<1>3. t \in Seq(S) /\ <<h>> \in Seq(S)
  BY <1>2, SeqMonotonic
<1>4. /\ <<h>> \o t \in Seq(S)
      /\ Len(<<h>> \o t) = Len(<<h>>) + Len(t)
      /\ \A i \in 1 .. Len(<<h>>) + Len(t) :
            (<<h>> \o t)[i] = IF i <= Len(<<h>>) THEN <<h>>[i] ELSE t[i - Len(<<h>>)]
  BY <1>3, ConcatProperties
<1>5. Len(<<h>>) = 1 /\ <<h>>[1] = h /\ Len(t) \in Nat
  BY <1>2
<1>6. 1 \in 1 .. 1 + Len(t) /\ 1 <= 1
  BY <1>5
<1>7. (<<h>> \o t)[1] = h
  BY <1>4, <1>5, <1>6
<1>8. Head(r) = h /\ r \in Seq(S)
  BY <1>1, <1>4, <1>7
<1> QED
  BY <1>1, <1>2, <1>8 DEF t, h

\* More of a message behind its length.
LEMMA LengthAppend ==
  ASSUME NEW s, NEW m, NEW length \in Nat, NEW j \in Nat, NEW b \in Nat, NEW r,
         LengthUnderWay(s, r, m, length, j), NEW more \in Seq(Records(m)),
         UnderWay(s, Tail(r) \o more, m, length, 0, b)
  PROVE  LengthUnderWay(s, r \o more, m, length, b)
<1> DEFINE h == Header(length)
           t == Tail(r)
           S == Records(m) \cup {h}
           u == t \o more
<1>1. r # <<>> /\ r = <<h>> \o t /\ t \in Seq(Records(m)) /\ r \in Seq(S)
  BY LengthFirst DEF LengthUnderWay
<1> HIDE DEF h, t
<1>2. t \in Seq(S) /\ more \in Seq(S) /\ <<h>> \in Seq(S)
  BY <1>1, SeqMonotonic
<1>3. r \o more = <<h>> \o u
  BY <1>1, <1>2, ConcatAssociative
<1>4. u \in Seq(S)
  BY <1>2, ConcatProperties
<1> HIDE DEF u
<1>5. r \o more # <<>> /\ Tail(r \o more) = u
  <2> DEFINE q == <<h>> \o u
  <2>1. /\ q \in Seq(S) /\ Len(q) = Len(<<h>>) + Len(u)
        /\ \A i \in 1 .. Len(<<h>>) + Len(u) :
              q[i] = IF i <= Len(<<h>>) THEN <<h>>[i] ELSE u[i - Len(<<h>>)]
    BY <1>2, <1>4, ConcatProperties
  <2>2. Len(<<h>>) = 1 /\ Len(u) \in Nat
    BY <1>4
  <2> HIDE DEF q
  <2>3. q # <<>>
    BY <2>1, <2>2
  <2>4. /\ Tail(q) \in Seq(S) /\ Len(Tail(q)) = Len(u)
        /\ \A i \in 1 .. Len(u) : Tail(q)[i] = q[i + 1]
    BY <2>1, <2>2, <2>3, HeadTailProperties
  <2>5. ASSUME NEW i \in 1 .. Len(u)
        PROVE  Tail(q)[i] = u[i]
    <3>1. i + 1 \in 1 .. 1 + Len(u) /\ ~(i + 1 <= 1) /\ (i + 1) - 1 = i
      BY <2>2
    <3> QED
      BY <2>1, <2>2, <2>4, <3>1
  <2>6. Tail(q) = u
    BY <1>4, <2>4, <2>5, SeqEqual
  <2> QED
    BY <1>3, <2>3, <2>6 DEF q
<1>6. UnderWay(s, u, m, length, 0, b)
  BY DEF u, t
<1> QED
  BY <1>3, <1>5, <1>6 DEF LengthUnderWay, h

\* The length alone.
LEMMA LengthAlone ==
  ASSUME NEW s, NEW m, NEW length \in Nat
  PROVE  LengthUnderWay(s, Append(<<>>, Header(length)), m, length, 0)
<1> DEFINE h == Header(length)
<1>1. Append(<<>>, h) = <<h>> /\ Tail(<<h>>) = <<>> /\ <<h>> # <<>> /\ <<h>> \o <<>> = <<h>>
  OBVIOUS
<1>2. UnderWay(s, <<>>, m, length, 0, 0)
  BY UnderWayEmpty
<1> HIDE DEF h
<1>3. LengthUnderWay(s, <<h>>, m, length, 0)
  BY <1>1, <1>2 DEF LengthUnderWay, h
<1> QED
  BY <1>1, <1>3 DEF h

----------------------------------------------------------------------------
(* One connection *)

\* What every step may rely on of a connection's variables.
LEMMA Types ==
  ASSUME Typed, NEW c \in Clients
  PROVE  /\ c \in DOMAIN client /\ c \in DOMAIN server
         /\ DOMAIN client = Clients /\ DOMAIN server = Clients
         /\ DOMAIN reading = Clients /\ DOMAIN to_read = Clients
         /\ DOMAIN writing = Clients /\ DOMAIN res = Clients /\ DOMAIN in_buffer = Clients
         /\ DOMAIN out = Clients /\ DOMAIN toServer = Clients /\ DOMAIN toClient = Clients
         /\ DOMAIN asked = Clients /\ DOMAIN executed = Clients /\ DOMAIN answers = Clients
         /\ asked[c] \in Seq(AllRequests) /\ executed[c] \in Seq(AllRequests)
         /\ answers[c] \in Seq(Seq(AllRequests))
         /\ {Len(asked[c]), Len(executed[c]), Len(answers[c])} \subseteq Nat
         /\ OnStream(c) \in BOOLEAN
<1>1. DOMAIN client = Clients /\ DOMAIN server = Clients
      /\ DOMAIN reading = Clients /\ DOMAIN to_read = Clients
  BY DEF Typed, ChannelTypeOK
<1>2. /\ DOMAIN writing = Clients /\ DOMAIN res = Clients /\ DOMAIN in_buffer = Clients
      /\ DOMAIN out = Clients /\ DOMAIN toServer = Clients /\ DOMAIN toClient = Clients
  BY DEF Typed, BuffersTypeOK
<1>3. /\ DOMAIN asked = Clients /\ DOMAIN executed = Clients /\ DOMAIN answers = Clients
      /\ asked[c] \in Seq(AllRequests) /\ executed[c] \in Seq(AllRequests)
      /\ answers[c] \in Seq(Seq(AllRequests))
  BY DEF Typed, RecordTypeOK
<1>4. {Len(asked[c]), Len(executed[c]), Len(answers[c])} \subseteq Nat
  BY <1>3, LenProperties
<1>5. OnStream(c) \in BOOLEAN
  <2>1. settings[c] \in Setting
    BY SettingsAssumption DEF Typed
  <2> QED
    BY <2>1 DEF OnStream, Setting
<1> QED
  BY <1>1, <1>2, <1>3, <1>4, <1>5

\* A message that was asked for has a length, and so has its answer.
LEMMA Sizes ==
  ASSUME Typed, NEW c \in Clients, Len(asked[c]) # 0
  PROVE  Current(c) \in AllRequests /\ Size(c) \in Nat \ {0} /\ AnswerSize(c) \in Nat
<1>1. asked[c] \in Seq(AllRequests) /\ Len(asked[c]) \in Nat
  BY Types
<1>2. Current(c) \in AllRequests
  BY <1>1, ElementOfSeq DEF Current
<1> QED
  BY <1>2, LengthAssumption DEF Size, AnswerSize

\* Nothing of the connection of d changes.
Same(d) ==
    /\ client'[d] = client[d] /\ writing'[d] = writing[d] /\ reading'[d] = reading[d]
    /\ res'[d] = res[d] /\ toServer'[d] = toServer[d] /\ toClient'[d] = toClient[d]
    /\ server'[d] = server[d] /\ in_buffer'[d] = in_buffer[d] /\ to_read'[d] = to_read[d]
    /\ out'[d] = out[d] /\ settings' = settings
    /\ asked'[d] = asked[d] /\ executed'[d] = executed[d] /\ answers'[d] = answers[d]

\* A step of one connection leaves another in its phase.
LEMMA Frame ==
  ASSUME NEW d \in Clients, CallInv(d), Same(d)
  PROVE  CallInv(d)'
<1>1. Current(d)' = Current(d) /\ OnStream(d)' = OnStream(d)
  BY DEF Same, Current, OnStream
<1>2. Size(d)' = Size(d) /\ AnswerSize(d)' = AnswerSize(d)
  BY <1>1 DEF Size, AnswerSize
<1>3. BetweenCalls(d) => BetweenCalls(d)'
  BY DEF Same, BetweenCalls
<1>4. Requesting(d) => Requesting(d)'
  <2>1. NotSent(d) => NotSent(d)'
    BY <1>1, <1>2 DEF Same, NotSent
  <2>2. \A j \in 0 .. Size(d) : SentTo(d, j) => SentTo(d, j)'
    BY <1>1, <1>2 DEF Same, SentTo
  <2>3. \A j \in 0 .. Size(d) : LengthComing(d, j) => LengthComing(d, j)'
    BY <1>1, <1>2 DEF Same, LengthComing
  <2>4. \A i, j \in 0 .. Size(d) : BodyComing(d, i, j) => BodyComing(d, i, j)'
    BY <1>1, <1>2 DEF Same, BodyComing
  <2> QED
    BY <1>2, <2>1, <2>2, <2>3, <2>4 DEF Same, Requesting
<1>5. Answering(d) => Answering(d)'
  <2>1. NotAnswered(d) => NotAnswered(d)'
    BY <1>1, <1>2 DEF Same, NotAnswered
  <2>2. \A j \in 0 .. AnswerSize(d) : AnsweredTo(d, j) => AnsweredTo(d, j)'
    BY <1>1, <1>2 DEF Same, AnsweredTo
  <2>3. \A j \in 0 .. AnswerSize(d) : LengthReturning(d, j) => LengthReturning(d, j)'
    BY <1>1, <1>2 DEF Same, LengthReturning
  <2>4. \A i, j \in 0 .. AnswerSize(d) : BodyReturning(d, i, j) => BodyReturning(d, i, j)'
    BY <1>1, <1>2 DEF Same, BodyReturning
  <2> QED
    BY <1>2, <2>1, <2>2, <2>3, <2>4 DEF Same, Answering
<1>6. InPhase(d)'
  BY <1>3, <1>4, <1>5 DEF CallInv, InPhase
<1>7. /\ \A k \in DOMAIN executed'[d] : executed'[d][k] = asked'[d][k]
      /\ server'[d] = "ended" => Gone(d)'
  BY DEF CallInv, Same, Gone
<1> QED
  BY <1>6, <1>7 DEF CallInv

----------------------------------------------------------------------------
(* The steps of a client *)

\* A step of c keeps the types, leaves c in a phase, and touches no other connection.
Keeps(c) == Typed' /\ CallInv(c)' /\ \A d \in Clients \ {c} : Same(d)

\* While the record and the settings stay, the call is the one it was.
LEMMA SameCall ==
  ASSUME NEW c, asked'[c] = asked[c], settings' = settings
  PROVE  /\ Current(c)' = Current(c) /\ OnStream(c)' = OnStream(c)
         /\ Size(c)' = Size(c) /\ AnswerSize(c)' = AnswerSize(c)
BY DEF Current, OnStream, Size, AnswerSize

\* The whole of a message is what Bytes has of it.
LEMMA BytesAreSlice ==
  ASSUME NEW m, NEW n \in Nat
  PROVE  Bytes(m, n) = Slice(m, 0, n)
<1>1. 1 .. n = 1 .. n - 0 /\ \A k \in 1 .. n : <<m, k>> = <<m, 0 + k>>
  OBVIOUS
<1> QED
  BY <1>1 DEF Bytes, Slice

\* iee_send begins a call when the one before is over.
LEMMA CallKeeps ==
  ASSUME Typed, NEW c \in Clients, CallInv(c), NEW m \in AllRequests, Call(c, m),
         settings' = settings
  PROVE  Keeps(c) /\ Len(answers[c]) = Len(asked[c])
<1>1. BetweenCalls(c)
  BY DEF Call, CallInv, InPhase, Requesting, Answering, NotSent, SentTo, NotAnswered,
         LengthReturning, BodyReturning
<1>2. /\ asked'[c] = Append(asked[c], m) /\ client'[c] = "write_length"
      /\ writing'[c] = Bytes(m, RequestLength(m))
      /\ UNCHANGED <<reading, res, server, in_buffer, to_read, out, toServer, toClient, up,
                     executed, answers>>
  BY Types DEF Call, serverEnd, wires
<1>3. /\ asked[c] \in Seq(AllRequests) /\ Len(asked[c]) \in Nat /\ Len(asked'[c]) = Len(asked[c]) + 1
      /\ asked'[c][Len(asked[c]) + 1] = m
      /\ \A k \in 1 .. Len(asked[c]) : asked'[c][k] = asked[c][k]
  BY <1>2, Types, AppendProperties
<1>4. RequestLength(m) \in Nat
  BY LengthAssumption
<1>5. Current(c)' = m /\ Size(c)' = RequestLength(m)
  BY <1>3 DEF Current, Size
<1>6. writing'[c] = Slice(m, 0, RequestLength(m))
  BY <1>2, <1>4, BytesAreSlice
<1>7. NotSent(c)'
  BY <1>1, <1>2, <1>5, <1>6 DEF NotSent, BetweenCalls
<1>8. Requesting(c)'
  BY <1>1, <1>2, <1>3, <1>7 DEF Requesting, BetweenCalls
<1>9. CallInv(c)'
  <2>1. server'[c] # "ended"
    BY <1>2 DEF CallInv, Call, Gone
  <2>2. DOMAIN executed[c] = 1 .. Len(asked[c])
    BY <1>1, Types, LenProperties DEF BetweenCalls
  <2>3. \A k \in DOMAIN executed'[c] : executed'[c][k] = asked'[c][k]
    BY <1>2, <1>3, <2>2 DEF CallInv
  <2> QED
    BY <1>8, <2>1, <2>3 DEF CallInv, InPhase
<1>10. Typed'
  <2>1. asked' \in [Clients -> Seq(AllRequests)]
    BY AppendProperties DEF Typed, RecordTypeOK, Call
  <2> QED
    BY <1>2, <2>1 DEF Typed, ChannelTypeOK, RecordTypeOK, BuffersTypeOK, Call
<1>11. \A d \in Clients \ {c} : Same(d)
  BY <1>2, Types DEF Same, Call
<1> QED
  BY <1>1, <1>9, <1>10, <1>11 DEF Keeps, BetweenCalls

\* A client that closes has had its last answer.
LEMMA CloseKeeps ==
  ASSUME Typed, NEW c \in Clients, CallInv(c), Close(c), settings' = settings
  PROVE  Keeps(c)
<1>1. BetweenCalls(c)
  BY DEF Close, CallInv, InPhase, Requesting, Answering, NotSent, SentTo, NotAnswered,
         LengthReturning, BodyReturning
<1>2. /\ client'[c] = "closed"
      /\ UNCHANGED <<writing, reading, res, server, in_buffer, to_read, out, toServer, toClient, up,
                     asked, executed, answers>>
  BY Types DEF Close, serverEnd, wires, record
<1>3. BetweenCalls(c)'
  BY <1>1, <1>2 DEF BetweenCalls
<1>4. CallInv(c)'
  BY <1>2, <1>3 DEF CallInv, InPhase, Gone
<1>5. Typed'
  BY <1>2 DEF Typed, ChannelTypeOK, RecordTypeOK, BuffersTypeOK, Close
<1>6. \A d \in Clients \ {c} : Same(d)
  BY <1>2, Types DEF Same, Close
<1> QED
  BY <1>4, <1>5, <1>6 DEF Keeps

\* A client may leave in any phase.
LEMMA LeaveKeeps ==
  ASSUME Typed, NEW c \in Clients, CallInv(c), Leave(c), settings' = settings
  PROVE  Keeps(c)
<1>1. /\ client'[c] = "left"
      /\ UNCHANGED <<writing, reading, res, server, in_buffer, to_read, out, toServer, toClient, up,
                     asked, executed, answers>>
  BY Types DEF Leave, serverEnd, wires, record
<1>2. /\ Current(c)' = Current(c) /\ OnStream(c)' = OnStream(c)
      /\ Size(c)' = Size(c) /\ AnswerSize(c)' = AnswerSize(c)
  BY <1>1, SameCall
<1>3. BetweenCalls(c) => BetweenCalls(c)'
  BY <1>1 DEF BetweenCalls
<1>4. Requesting(c) => Requesting(c)'
  <2>1. NotSent(c) => NotSent(c)'
    BY <1>1, <1>2 DEF NotSent
  <2>2. \A j \in 0 .. Size(c) : SentTo(c, j) => SentTo(c, j)'
    BY <1>1, <1>2 DEF SentTo
  <2>3. \A j \in 0 .. Size(c) : LengthComing(c, j) => LengthComing(c, j)'
    BY <1>1, <1>2 DEF LengthComing
  <2>4. \A i, j \in 0 .. Size(c) : BodyComing(c, i, j) => BodyComing(c, i, j)'
    BY <1>1, <1>2 DEF BodyComing
  <2> QED
    BY <1>1, <1>2, <2>1, <2>2, <2>3, <2>4 DEF Requesting
<1>5. Answering(c) => Answering(c)'
  <2>1. NotAnswered(c) => NotAnswered(c)'
    BY <1>1, <1>2 DEF NotAnswered
  <2>2. \A j \in 0 .. AnswerSize(c) : AnsweredTo(c, j) => AnsweredTo(c, j)'
    BY <1>1, <1>2 DEF AnsweredTo
  <2>3. \A j \in 0 .. AnswerSize(c) : LengthReturning(c, j) => LengthReturning(c, j)'
    BY <1>1, <1>2 DEF LengthReturning
  <2>4. \A i, j \in 0 .. AnswerSize(c) : BodyReturning(c, i, j) => BodyReturning(c, i, j)'
    BY <1>1, <1>2 DEF BodyReturning
  <2> QED
    BY <1>1, <1>2, <2>1, <2>2, <2>3, <2>4 DEF Answering
<1>6. CallInv(c)'
  BY <1>1, <1>3, <1>4, <1>5 DEF CallInv, InPhase, Gone
<1>7. Typed'
  BY <1>1 DEF Typed, ChannelTypeOK, RecordTypeOK, BuffersTypeOK, Leave
<1>8. \A d \in Clients \ {c} : Same(d)
  BY <1>1, Types DEF Same, Leave
<1> QED
  BY <1>6, <1>7, <1>8 DEF Keeps

\* The length of the request goes first.
LEMMA WriteLengthKeeps ==
  ASSUME Typed, NEW c \in Clients, CallInv(c), WriteLength(c), settings' = settings
  PROVE  Keeps(c)
<1>1. Requesting(c) /\ NotSent(c) /\ ~Gone(c)
  BY DEF WriteLength, CallInv, InPhase, BetweenCalls, Requesting, Answering, SentTo, NotAnswered,
         LengthReturning, BodyReturning, Gone
<1>2. /\ toServer'[c] = Append(toServer[c], LengthOf(writing[c])) /\ client'[c] = "write_body"
      /\ UNCHANGED <<writing, reading, res, server, in_buffer, to_read, out, toClient, up,
                     asked, executed, answers>>
  BY Types DEF WriteLength, serverEnd, record
<1>3. /\ Current(c)' = Current(c) /\ OnStream(c)' = OnStream(c) /\ Size(c)' = Size(c)
  BY <1>2, SameCall
<1>4. Size(c) \in Nat \ {0}
  <2>1. Len(asked[c]) # 0
    BY <1>1, Types DEF Requesting
  <2> QED
    BY <2>1, Sizes
<1>5. LengthOf(writing[c]) = Header(Size(c))
  <2>1. Len(writing[c]) = Size(c)
    <3>1. Len(Slice(Current(c), 0, Size(c))) = Size(c) - 0
      <4>1. Size(c) \in Nat /\ 0 <= Size(c)
        BY <1>4
      <4> QED
        BY <4>1, SliceType
    <3> QED
      BY <1>1, <1>4, <3>1 DEF NotSent
  <2> QED
    BY <2>1 DEF LengthOf, Header
<1>6. LengthUnderWay(OnStream(c), toServer'[c], Current(c), Size(c), 0)
  BY <1>1, <1>2, <1>4, <1>5, LengthAlone DEF NotSent
<1>7. LengthComing(c, 0)' /\ SentTo(c, 0)'
  BY <1>1, <1>2, <1>3, <1>4, <1>6 DEF LengthComing, SentTo, NotSent
<1>8. Requesting(c)'
  <2>1. 0 \in 0 .. Size(c)'
    BY <1>3, <1>4
  <2> QED
    BY <1>1, <1>2, <1>7, <2>1 DEF Requesting
<1>9. CallInv(c)'
  BY <1>1, <1>2, <1>8 DEF CallInv, InPhase
<1>10. Typed'
  BY <1>2 DEF Typed, ChannelTypeOK, RecordTypeOK, BuffersTypeOK, WriteLength
<1>11. \A d \in Clients \ {c} : Same(d)
  BY <1>2, Types DEF Same, WriteLength
<1> QED
  BY <1>9, <1>10, <1>11 DEF Keeps

\* Bytes of the request follow.
LEMMA WriteBodyKeeps ==
  ASSUME Typed, NEW c \in Clients, CallInv(c), settings' = settings,
         IF OnStream(c) THEN PlainWriteBody(c) ELSE WriteBody(c)
  PROVE  Keeps(c)
<1> DEFINE m == Current(c)
           L == Size(c)
           s == OnStream(c)
<1>1. client[c] = "write_body" /\ Requesting(c) /\ ~NotSent(c) /\ ~Gone(c)
  BY DEF PlainWriteBody, WriteBody, CallInv, InPhase, BetweenCalls, Requesting, Answering, NotSent,
         NotAnswered, LengthReturning, BodyReturning, Gone
<1>2. PICK j \in 0 .. L : SentTo(c, j) /\ (LengthComing(c, j) \/ \E i \in 0 .. L : BodyComing(c, i, j))
  BY <1>1 DEF Requesting
<1>3. L \in Nat \ {0}
  <2>1. Len(asked[c]) # 0
    BY <1>1, Types DEF Requesting
  <2> QED
    BY <2>1, Sizes
<1>4. j \in 0 .. L - 1 /\ j \in Nat /\ writing[c] = Slice(m, j, L)
  BY <1>1, <1>2, <1>3 DEF SentTo
<1>5. /\ OneWrite(s, Slice(m, j, L), toServer[c], writing'[c], toServer'[c])
      /\ client'[c] = IF writing'[c] = <<>> THEN "read_length" ELSE "write_body"
      /\ UNCHANGED <<reading, res, server, in_buffer, to_read, out, toClient, up,
                     asked, executed, answers>>
  <2>1. CASE s
    <3>1. PICK n \in 1 .. Len(writing[c]) :
             /\ toServer' = [toServer EXCEPT ![c] = @ \o Stream(First(writing[c], n))]
             /\ writing' = [writing EXCEPT ![c] = Rest(@, n)]
      BY <2>1 DEF PlainWriteBody
    <3>2. /\ toServer'[c] = toServer[c] \o Stream(First(writing[c], n))
          /\ writing'[c] = Rest(writing[c], n)
      BY <3>1, Types
    <3>3. OneWrite(s, writing[c], toServer[c], writing'[c], toServer'[c])
      BY <2>1, <3>2 DEF OneWrite
    <3> QED
      BY <1>1, <1>4, <2>1, <3>3, Types DEF PlainWriteBody, serverEnd, record
  <2>2. CASE ~s
    BY <1>1, <1>4, <2>2, Types DEF WriteBody, OneWrite, serverEnd, record
  <2> QED
    BY <2>1, <2>2
<1>6. toServer[c] \in Seq(Records(m) \cup {Header(L)})
  <2>1. CASE LengthComing(c, j)
    BY <1>3, <1>4, <2>1, LengthFirst DEF LengthComing
  <2>2. CASE \E i \in 0 .. L : BodyComing(c, i, j)
    <3>1. PICK i \in 0 .. L : BodyComing(c, i, j)
      BY <2>2
    <3>2. i \in Nat
      BY <1>3
    <3>3. toServer[c] \in Seq(Records(m))
      BY <1>3, <1>4, <3>1, <3>2, UnderWayType DEF BodyComing
    <3> QED
      BY <3>3, SeqMonotonic
  <2> QED
    BY <1>2, <2>1, <2>2
<1>7. s \in BOOLEAN
  BY Types
<1> HIDE DEF m, L, s
<1>8. PICK b \in j + 1 .. L, more \in Seq(Records(m)) :
            /\ writing'[c] = Slice(m, b, L)
            /\ toServer'[c] = toServer[c] \o more
            /\ \A r : \A i \in Nat : UnderWay(s, r, m, L, i, j)
                                       => UnderWay(s, r \o more, m, L, i, b)
  <2>1. L \in Nat /\ j \in 0 .. L - 1
    BY <1>3, <1>4
  <2>2. OneWrite(s, Slice(m, j, L), toServer[c], writing'[c], toServer'[c])
    BY <1>5
  <2>3. Written(s, m, L, j, writing'[c], toServer[c], toServer'[c])
    BY <1>6, <1>7, <2>1, <2>2, WriteAdvances
  <2> QED
    BY <2>3 DEF Written
<1>9. /\ Current(c)' = m /\ OnStream(c)' = s /\ Size(c)' = L
  BY <1>5, SameCall DEF m, s, L
<1>10. b \in 0 .. L /\ b \in Nat /\ b <= L
  BY <1>3, <1>4
<1>11. SentTo(c, b)'
  <2>1. writing'[c] = <<>> <=> b = L
    BY <1>3, <1>8, <1>10, SliceEmpty
  <2>2. b < L <=> writing'[c] # <<>>
    BY <1>3, <1>10, <2>1
  <2> QED
    BY <1>5, <1>8, <1>9, <2>2 DEF SentTo
<1>12. ASSUME LengthComing(c, j)
       PROVE  LengthComing(c, b)'
  <2>1. LengthUnderWay(s, toServer[c], m, L, j)
    BY <1>12 DEF LengthComing, m, L, s
  <2>2. UnderWay(s, Tail(toServer[c]), m, L, 0, j)
    BY <2>1 DEF LengthUnderWay
  <2>3. UnderWay(s, Tail(toServer[c]) \o more, m, L, 0, b)
    BY <1>8, <2>2
  <2>4. LengthUnderWay(s, toServer'[c], m, L, b)
    BY <1>3, <1>4, <1>8, <1>10, <2>1, <2>3, LengthAppend
  <2> QED
    BY <1>5, <1>9, <1>12, <2>4 DEF LengthComing
<1>13. ASSUME NEW i \in 0 .. L, BodyComing(c, i, j)
       PROVE  BodyComing(c, i, b)'
  <2>1. UnderWay(s, toServer[c], m, L, i, j) /\ i \in Nat
    BY <1>3, <1>13 DEF BodyComing, m, L, s
  <2>2. UnderWay(s, toServer'[c], m, L, i, b)
    BY <1>8, <2>1
  <2> QED
    BY <1>5, <1>9, <1>13, <2>2 DEF BodyComing, m, L
<1>14. Requesting(c)'
  <2>1. LengthComing(c, b)' \/ \E i \in 0 .. L : BodyComing(c, i, b)'
    BY <1>2, <1>12, <1>13
  <2> QED
    BY <1>1, <1>5, <1>9, <1>10, <1>11, <2>1 DEF Requesting
<1>15. CallInv(c)'
  BY <1>1, <1>5, <1>14 DEF CallInv, InPhase
<1>16. Typed'
  BY <1>1, <1>5 DEF Typed, ChannelTypeOK, RecordTypeOK, BuffersTypeOK, WriteBody, PlainWriteBody
<1>17. \A d \in Clients \ {c} : Same(d)
  BY <1>5, Types DEF Same, WriteBody, PlainWriteBody
<1> QED
  BY <1>15, <1>16, <1>17 DEF Keeps

\* A call returns the answer to the request that was executed last.
Returns(c) ==
    /\ Len(answers[c]) < Len(executed[c])
    /\ answers' = [answers EXCEPT ![c] = Append(@,
          LET m == executed[c][Len(answers[c]) + 1]
          IN  IF AnswerLength(m) = 0 THEN <<>> ELSE <<m>>)]

\* What the answer of the call is while it is being answered.
LEMMA AnswerOfCall ==
  ASSUME Typed, NEW c \in Clients, CallInv(c), Answering(c)
  PROVE  /\ Len(answers[c]) < Len(executed[c])
         /\ executed[c][Len(answers[c]) + 1] = Current(c)
<1>1. Len(executed[c]) = Len(asked[c]) /\ Len(answers[c]) + 1 = Len(asked[c])
      /\ {Len(asked[c]), Len(executed[c]), Len(answers[c])} \subseteq Nat
  BY Types DEF Answering
<1>2. DOMAIN executed[c] = 1 .. Len(executed[c])
  BY Types, LenProperties
<1>3. Len(answers[c]) + 1 \in DOMAIN executed[c]
  BY <1>1, <1>2
<1> QED
  BY <1>1, <1>3 DEF CallInv, Current

\* The call that is being answered is over with the whole answer.
LEMMA ReturnedKeeps ==
  ASSUME Typed, NEW c \in Clients, CallInv(c), Answering(c), settings' = settings,
         NEW bytes, Returned(c, bytes), bytes = Slice(Current(c), 0, AnswerSize(c)),
         NEW j \in 0 .. AnswerSize(c), AnsweredTo(c, j),
         UnderWay(OnStream(c), toClient'[c], Current(c), AnswerSize(c), AnswerSize(c), j),
         UNCHANGED <<server, toServer, asked, executed>>, ~Gone(c)
  PROVE  BetweenCalls(c)' /\ Returns(c) /\ answers' \in [Clients -> Seq(Seq(AllRequests))]
<1> DEFINE m == Current(c)
           A == AnswerSize(c)
<1>1. /\ Len(answers[c]) < Len(executed[c]) /\ executed[c][Len(answers[c]) + 1] = m
      /\ Len(executed[c]) = Len(asked[c]) /\ Len(answers[c]) + 1 = Len(asked[c])
      /\ {Len(asked[c]), Len(executed[c]), Len(answers[c])} \subseteq Nat
  BY AnswerOfCall, Types DEF Answering
<1>2. m \in AllRequests /\ A \in Nat
  BY <1>1, Sizes
<1>3. toClient'[c] = <<>> /\ j = A
  BY <1>2, UnderWayEmpty
<1>4. server[c] \in {"read_length", "ended"}
  BY <1>2, <1>3 DEF AnsweredTo
<1>5. Decoded(bytes, AnswerLength) = IF AnswerLength(m) = 0 THEN <<>> ELSE <<m>>
  <2>1. A = AnswerLength(m) /\ bytes = Slice(m, 0, A) /\ Bytes(m, A) = Slice(m, 0, A) /\ 0 <= A
    BY <1>2, BytesAreSlice DEF AnswerSize
  <2>2. CASE A = 0
    <3>1. bytes = <<>>
      BY <2>1, <2>2, SliceEmpty
    <3> QED
      BY <2>1, <2>2, <3>1 DEF Decoded
  <2>3. CASE A # 0
    <3>1. bytes # <<>>
      BY <1>2, <2>1, <2>3, SliceEmpty
    <3>2. bytes[1] = <<m, 1>>
      <4>1. 1 \in 1 .. A
        BY <1>2, <2>3
      <4> QED
        BY <2>1, <4>1 DEF Bytes
    <3>3. bytes[1][1] = m
      BY <3>2
    <3> QED
      BY <2>1, <2>3, <3>1, <3>3 DEF Decoded
  <2> QED
    BY <2>2, <2>3
<1>6. Returns(c)
  BY <1>1, <1>5 DEF Returned, Returns
<1>7. answers' \in [Clients -> Seq(Seq(AllRequests))] /\ Len(answers'[c]) = Len(answers[c]) + 1
  <2> DEFINE x == Decoded(bytes, AnswerLength)
  <2>1. x \in Seq(AllRequests)
    <3>1. m \in AllRequests
      BY <1>2
    <3> HIDE DEF m
    <3>2. <<m>> \in Seq(AllRequests) /\ <<>> \in Seq(AllRequests)
      BY <3>1
    <3> QED
      BY <1>5, <3>2
  <2>2. answers' = [answers EXCEPT ![c] = Append(@, x)]
    BY DEF Returned
  <2>3. answers \in [Clients -> Seq(Seq(AllRequests))]
    BY DEF Typed, RecordTypeOK
  <2> HIDE DEF x
  <2>4. Append(answers[c], x) \in Seq(Seq(AllRequests))
        /\ Len(Append(answers[c], x)) = Len(answers[c]) + 1
    BY <2>1, <2>3, AppendProperties
  <2> QED
    BY <2>2, <2>3, <2>4
<1>8. client'[c] = "idle" /\ res'[c] = <<>>
  BY Types DEF Returned
<1>9. toServer[c] = <<>>
  BY DEF Answering
<1>10. BetweenCalls(c)'
  BY <1>1, <1>3, <1>4, <1>7, <1>8, <1>9 DEF BetweenCalls
<1> QED
  BY <1>6, <1>7, <1>10

\* iee_recv reads the length, and has the answer at once if it is empty.
LEMMA ReadLengthKeeps ==
  ASSUME Typed, NEW c \in Clients, CallInv(c), ReadLength(c), settings' = settings
  PROVE  Keeps(c) /\ ~Gone(c) /\ (UNCHANGED answers \/ Returns(c))
<1> DEFINE m == Current(c)
           A == AnswerSize(c)
           s == OnStream(c)
<1>1. client[c] = "read_length" /\ toClient[c] # <<>> /\ Answering(c) /\ ~NotAnswered(c) /\ ~Gone(c)
  BY DEF ReadLength, Receive, CallInv, InPhase, BetweenCalls, Requesting, NotAnswered, Gone
<1>2. PICK j \in 0 .. A : AnsweredTo(c, j) /\ LengthReturning(c, j)
  BY <1>1 DEF Answering, BodyReturning
<1>3. A \in Nat /\ j \in Nat
  <2>1. Len(asked[c]) # 0
    BY <1>1, Types DEF Answering
  <2> QED
    BY <2>1, Sizes
<1>4. /\ Head(toClient[c]) = Header(A) /\ UnderWay(s, Tail(toClient[c]), m, A, 0, j)
  BY <1>2, <1>3, LengthFirst DEF LengthReturning
<1>5. Header(A)[1][1] = A /\ Len(Header(A)) = 1
  BY DEF Header
<1>6. /\ toClient'[c] = Tail(toClient[c]) /\ reading'[c] = A
      /\ IF A = 0 THEN Returned(c, <<>>)
         ELSE client' = [client EXCEPT ![c] = "read_body"] /\ UNCHANGED <<res, answers>>
      /\ UNCHANGED <<writing, server, in_buffer, to_read, out, toServer, up, asked, executed>>
  <2> DEFINE h == Head(toClient[c])
  <2>1. Len(h) = 1 /\ h[1][1] = A
    BY <1>4, <1>5
  <2>2. toClient' = [toClient EXCEPT ![c] = IF Len(h) <= 1 THEN Tail(@) ELSE <<Rest(h, 1)>> \o Tail(@)]
    BY DEF ReadLength, Receive
  <2>3. toClient'[c] = Tail(toClient[c])
    <3> HIDE DEF h
    <3>0. c \in DOMAIN toClient
      BY Types
    <3>1. Len(h) <= 1
      BY <2>1
    <3>2. toClient'[c] = IF Len(h) <= 1 THEN Tail(toClient[c]) ELSE <<Rest(h, 1)>> \o Tail(toClient[c])
      BY <2>2, <3>0
    <3> QED
      BY <3>1, <3>2
  <2>4. reading' = [reading EXCEPT ![c] = h[1][1]]
        /\ IF h[1][1] = 0 THEN Returned(c, <<>>)
           ELSE client' = [client EXCEPT ![c] = "read_body"] /\ UNCHANGED <<res, answers>>
    BY DEF ReadLength
  <2> HIDE DEF h
  <2>5. reading'[c] = A
    BY <2>1, <2>4, Types
  <2>6. UNCHANGED <<writing, server, in_buffer, to_read, out, toServer, up, asked, executed>>
    BY DEF ReadLength, serverEnd
  <2> QED
    BY <2>1, <2>3, <2>4, <2>5, <2>6
<1>7. Current(c)' = m /\ OnStream(c)' = s /\ AnswerSize(c)' = A
  BY <1>6, SameCall
<1>8. CASE A = 0
  <2>1. <<>> = Slice(m, 0, A)
    BY <1>3, <1>8, SliceEmpty
  <2>2. UnderWay(s, toClient'[c], m, A, A, j)
    BY <1>4, <1>6, <1>8
  <2>3. BetweenCalls(c)' /\ Returns(c) /\ answers' \in [Clients -> Seq(Seq(AllRequests))]
    BY <1>1, <1>2, <1>6, <1>8, <2>1, <2>2, ReturnedKeeps
  <2>4. CallInv(c)'
    BY <1>1, <1>6, <2>3 DEF CallInv, InPhase, Gone
  <2>5. Typed'
    BY <1>3, <1>6, <1>8, <2>3 DEF Typed, ChannelTypeOK, RecordTypeOK, BuffersTypeOK, ReadLength, Receive, Returned
  <2>6. \A d \in Clients \ {c} : Same(d)
    BY <1>6, <1>8, Types DEF Same, ReadLength, Receive, Returned
  <2> QED
    BY <1>1, <2>3, <2>4, <2>5, <2>6 DEF Keeps
<1>9. CASE A # 0
  <2>1. res'[c] = Slice(m, 0, 0)
    BY <1>2, <1>6, <1>9, SliceEmpty DEF LengthReturning
  <2>2. BodyReturning(c, 0, j)'
    BY <1>1, <1>3, <1>4, <1>6, <1>7, <1>9, <2>1, Types DEF BodyReturning
  <2>3. AnsweredTo(c, j)'
    BY <1>2, <1>6, <1>7 DEF AnsweredTo
  <2>4. Answering(c)'
    <3>1. 0 \in 0 .. A
      BY <1>3
    <3> QED
      BY <1>1, <1>6, <1>7, <1>9, <2>2, <2>3, <3>1 DEF Answering
  <2>5. CallInv(c)'
    BY <1>1, <1>6, <1>9, <2>4, Types DEF CallInv, InPhase, Gone
  <2>6. Typed'
    BY <1>3, <1>6, <1>9 DEF Typed, ChannelTypeOK, RecordTypeOK, BuffersTypeOK, ReadLength, Receive
  <2>7. \A d \in Clients \ {c} : Same(d)
    BY <1>6, <1>9, Types DEF Same, ReadLength, Receive
  <2> QED
    BY <1>1, <1>6, <1>9, <2>5, <2>6, <2>7 DEF Keeps
<1> QED
  BY <1>8, <1>9

\* One turn of the loop over the answer, and the end of the call after the last.
LEMMA ReadBodyKeeps ==
  ASSUME Typed, NEW c \in Clients, CallInv(c), settings' = settings,
         IF OnStream(c) THEN PlainReadBody(c) ELSE ReadBody(c)
  PROVE  Keeps(c) /\ ~Gone(c) /\ (UNCHANGED answers \/ Returns(c))
<1> DEFINE m == Current(c)
           A == AnswerSize(c)
           s == OnStream(c)
<1>1. client[c] = "read_body" /\ Answering(c) /\ ~NotAnswered(c) /\ ~Gone(c)
  BY DEF PlainReadBody, ReadBody, CallInv, InPhase, BetweenCalls, Requesting, NotSent, SentTo,
         NotAnswered, Gone
<1>2. PICK j \in 0 .. A : AnsweredTo(c, j) /\ \E i \in 0 .. A : BodyReturning(c, i, j)
  BY <1>1 DEF Answering, LengthReturning
<1>3. PICK i \in 0 .. A : BodyReturning(c, i, j)
  BY <1>2
<1>4. A \in Nat /\ j \in Nat /\ i \in Nat
  <2>1. Len(asked[c]) # 0
    BY <1>1, Types DEF Answering
  <2> QED
    BY <2>1, Sizes
<1>5. /\ res[c] = Slice(m, 0, i) /\ reading[c] = A - i
      /\ UnderWay(s, toClient[c], m, A, i, j)
  BY <1>3 DEF BodyReturning
<1>6. /\ UNCHANGED <<writing, server, in_buffer, to_read, out, toServer, up, asked, executed>>
  BY DEF ReadBody, PlainReadBody, serverEnd
<1>7. s \in BOOLEAN
  BY Types
<1>8. PICK bytes :
         /\ Taken(s, m, A, i, j, toClient'[c], reading'[c], bytes)
         /\ IF reading'[c] = 0 THEN Returned(c, bytes)
            ELSE res' = [res EXCEPT ![c] = bytes] /\ UNCHANGED <<client, answers>>
         /\ DOMAIN reading' = Clients /\ DOMAIN toClient' = Clients
         /\ \A d \in Clients \ {c} : reading'[d] = reading[d] /\ toClient'[d] = toClient[d]
  <2>1. CASE s
    <3>1. PICK n \in 1 .. Smaller(Len(toClient[c]), reading[c]) :
             LET came == BytesOf(First(toClient[c], n)) IN
             /\ toClient' = [toClient EXCEPT ![c] = Rest(@, n)]
             /\ reading' = [reading EXCEPT ![c] = @ - n]
             /\ IF reading'[c] = 0 THEN Returned(c, res[c] \o came)
                ELSE res' = [res EXCEPT ![c] = @ \o came] /\ UNCHANGED <<client, answers>>
      BY <2>1 DEF PlainReadBody
    <3> DEFINE bytes == res[c] \o BytesOf(First(toClient[c], n))
    <3>2. toClient'[c] = Rest(toClient[c], n) /\ reading'[c] = reading[c] - n
      BY <3>1, Types
    <3>3. OneRead(s, toClient[c], reading[c], res[c], toClient'[c], reading'[c], bytes)
      BY <2>1, <3>2 DEF OneRead
    <3>4. Taken(s, m, A, i, j, toClient'[c], reading'[c], bytes)
      BY <1>4, <1>5, <1>7, <3>3, ReadAdvances
    <3>5. IF reading'[c] = 0 THEN Returned(c, bytes)
          ELSE res' = [res EXCEPT ![c] = bytes] /\ UNCHANGED <<client, answers>>
      BY <3>1
    <3>6. /\ DOMAIN reading' = Clients /\ DOMAIN toClient' = Clients
          /\ \A d \in Clients \ {c} : reading'[d] = reading[d] /\ toClient'[d] = toClient[d]
      BY <3>1, Types
    <3> HIDE DEF bytes
    <3> QED
      BY <3>4, <3>5, <3>6
  <2>2. CASE ~s
    <3> DEFINE h == Head(toClient[c])
               came == First(h, Chunk(reading[c]))
               bytes == res[c] \o came
    <3>1. /\ toClient[c] # <<>>
          /\ toClient' = [toClient EXCEPT ![c] =
                 IF Len(h) <= Chunk(reading[c]) THEN Tail(@) ELSE <<Rest(h, Chunk(reading[c]))>> \o Tail(@)]
          /\ reading' = [reading EXCEPT ![c] = @ - Len(came)]
          /\ IF reading'[c] = 0 THEN Returned(c, bytes)
             ELSE res' = [res EXCEPT ![c] = bytes] /\ UNCHANGED <<client, answers>>
      BY <2>2 DEF ReadBody, Receive
    <3>2. reading'[c] = reading[c] - Len(came)
      BY <3>1, Types
    <3>3. OneRead(s, toClient[c], reading[c], res[c], Tail(toClient[c]), reading'[c], bytes)
      BY <2>2, <3>1, <3>2 DEF OneRead
    <3>4. /\ Taken(s, m, A, i, j, Tail(toClient[c]), reading'[c], bytes)
          /\ Len(h) <= Chunk(reading[c])
      BY <1>4, <1>5, <1>7, <2>2, <3>3, ReadAdvances
    <3> HIDE DEF h, came, bytes
    <3>5. toClient'[c] = IF Len(h) <= Chunk(reading[c]) THEN Tail(toClient[c])
                         ELSE <<Rest(h, Chunk(reading[c]))>> \o Tail(toClient[c])
      BY <3>1, Types
    <3>6. toClient'[c] = Tail(toClient[c])
      BY <3>4, <3>5
    <3>7. /\ DOMAIN reading' = Clients /\ DOMAIN toClient' = Clients
          /\ \A d \in Clients \ {c} : reading'[d] = reading[d] /\ toClient'[d] = toClient[d]
      BY <3>1, Types
    <3> QED
      BY <3>1, <3>4, <3>6, <3>7
  <2> QED
    BY <2>1, <2>2
<1>9. PICK b \in i + 1 .. A :
         /\ bytes = Slice(m, 0, b) /\ reading'[c] = A - b
         /\ UnderWay(s, toClient'[c], m, A, b, j)
  BY <1>8 DEF Taken
<1>10. Current(c)' = m /\ OnStream(c)' = s /\ AnswerSize(c)' = A
  BY <1>6, SameCall
<1>11. reading' \in [Clients -> Nat]
  <2>1. reading'[c] \in Nat
    BY <1>4, <1>9
  <2>2. reading \in [Clients -> Nat]
    BY DEF Typed, ChannelTypeOK
  <2>3. \A d \in Clients : reading'[d] \in Nat
    BY <1>8, <2>1, <2>2
  <2>4. \E f : reading' = [reading EXCEPT ![c] = f]
    BY DEF ReadBody, PlainReadBody
  <2> QED
    BY <2>1, <2>2, <2>4
<1>12. CASE b = A
  <2>1. reading'[c] = 0
    BY <1>4, <1>9, <1>12
  <2>2. Returned(c, bytes) /\ bytes = Slice(m, 0, A)
    BY <1>8, <1>9, <1>12, <2>1
  <2>3. UnderWay(s, toClient'[c], m, A, A, j)
    BY <1>9, <1>12
  <2>4. BetweenCalls(c)' /\ Returns(c) /\ answers' \in [Clients -> Seq(Seq(AllRequests))]
    BY <1>1, <1>2, <1>6, <2>2, <2>3, ReturnedKeeps
  <2>5. CallInv(c)'
    BY <1>1, <1>6, <2>4 DEF CallInv, InPhase, Gone
  <2>6. Typed'
    BY <1>6, <1>8, <1>11, <2>2, <2>4 DEF Typed, ChannelTypeOK, RecordTypeOK, BuffersTypeOK, Returned
  <2>7. \A d \in Clients \ {c} : Same(d)
    BY <1>6, <1>8, <2>2, Types DEF Same, Returned
  <2> QED
    BY <1>1, <2>4, <2>5, <2>6, <2>7 DEF Keeps
<1>13. CASE b # A
  <2>1. reading'[c] # 0 /\ b < A /\ b \in 0 .. A
    BY <1>4, <1>9, <1>13
  <2>2. res' = [res EXCEPT ![c] = bytes] /\ UNCHANGED <<client, answers>>
    BY <1>8, <2>1
  <2>3. BodyReturning(c, b, j)'
    BY <1>3, <1>9, <1>10, <2>1, <2>2, Types DEF BodyReturning
  <2>4. AnsweredTo(c, j)'
    BY <1>2, <1>6, <1>10 DEF AnsweredTo
  <2>5. Answering(c)'
    BY <1>1, <1>6, <1>10, <2>1, <2>2, <2>3, <2>4 DEF Answering
  <2>6. CallInv(c)'
    BY <1>1, <1>6, <2>2, <2>5 DEF CallInv, InPhase, Gone
  <2>7. Typed'
    BY <1>6, <1>8, <1>11, <2>2 DEF Typed, ChannelTypeOK, RecordTypeOK, BuffersTypeOK
  <2>8. \A d \in Clients \ {c} : Same(d)
    BY <1>6, <1>8, <2>2, Types DEF Same
  <2> QED
    BY <1>1, <2>2, <2>6, <2>7, <2>8 DEF Keeps
<1> QED
  BY <1>12, <1>13

----------------------------------------------------------------------------
(* The steps of the enclave *)

\* The enclave reads the length of a request that is under way.
LEMMA ServerReadLengthKeeps ==
  ASSUME Typed, NEW c \in Clients, CallInv(c), ServerReadLength(c), settings' = settings
  PROVE  Keeps(c)
<1> DEFINE m == Current(c)
           L == Size(c)
           s == OnStream(c)
<1>1. server[c] = "read_length" /\ toServer[c] # <<>> /\ Requesting(c) /\ ~NotSent(c)
  BY DEF ServerReadLength, CallInv, InPhase, BetweenCalls, Answering, NotSent
<1>2. PICK j \in 0 .. L : SentTo(c, j) /\ LengthComing(c, j)
  <2>1. \A i \in 0 .. L : \A j \in 0 .. L : ~BodyComing(c, i, j)
    BY <1>1 DEF BodyComing
  <2> QED
    BY <1>1, <2>1 DEF Requesting
<1>3. L \in Nat \ {0} /\ j \in Nat
  <2>1. Len(asked[c]) # 0
    BY <1>1, Types DEF Requesting
  <2> QED
    BY <2>1, Sizes
<1>4. Head(toServer[c]) = Header(L) /\ UnderWay(s, Tail(toServer[c]), m, L, 0, j)
  BY <1>2, <1>3, LengthFirst DEF LengthComing
<1>5. Header(L)[1][1] = L
  BY DEF Header
<1>6. /\ toServer'[c] = Tail(toServer[c]) /\ to_read'[c] = L /\ in_buffer'[c] = <<>>
      /\ server'[c] = "read_body"
      /\ UNCHANGED <<client, writing, reading, res, out, toClient, up, asked, executed, answers>>
  BY <1>4, <1>5, Types DEF ServerReadLength, clientEnd, record
<1>7. /\ Current(c)' = m /\ OnStream(c)' = s /\ Size(c)' = L
  BY <1>6, SameCall
<1>8. SentTo(c, j)'
  BY <1>2, <1>6, <1>7 DEF SentTo
<1>9. BodyComing(c, 0, j)'
  <2>1. in_buffer'[c] = Slice(m, 0, 0)
    BY <1>6, SliceEmpty
  <2>2. to_read'[c] = L - 0 /\ 0 < L
    BY <1>3, <1>6
  <2>3. UnderWay(s, toServer'[c], m, L, 0, j)
    BY <1>4, <1>6
  <2> HIDE DEF m, L, s
  <2> QED
    BY <1>6, <1>7, <2>1, <2>2, <2>3 DEF BodyComing
<1>10. Requesting(c)'
  <2>1. 0 \in 0 .. L
    BY <1>3
  <2> QED
    BY <1>1, <1>6, <1>7, <1>8, <1>9, <2>1 DEF Requesting
<1>11. CallInv(c)'
  BY <1>6, <1>10 DEF CallInv, InPhase
<1>12. Typed'
  <2>1. to_read' \in [Clients -> Nat]
    BY <1>3, <1>4, <1>5 DEF ServerReadLength, Typed, ChannelTypeOK
  <2> QED
    BY <1>6, <2>1 DEF Typed, ChannelTypeOK, RecordTypeOK, BuffersTypeOK, ServerReadLength
<1>13. \A d \in Clients \ {c} : Same(d)
  BY <1>6, Types DEF Same, ServerReadLength
<1> QED
  BY <1>11, <1>12, <1>13 DEF Keeps

\* The thread of a client that is gone ends, or reads for ever.
LEMMA EndKeeps ==
  ASSUME Typed, NEW c \in Clients, CallInv(c), settings' = settings,
         IF OnStream(c) THEN ReadsForEver(c) ELSE EndOfClient(c)
  PROVE  Keeps(c)
<1>1. server[c] \in {"read_length", "read_body"} /\ Gone(c)
  BY DEF ReadsForEver, EndOfClient, ReadFails
<1>2. /\ server' = [server EXCEPT ![c] = "ended"]
      /\ UNCHANGED <<client, writing, reading, res, in_buffer, to_read, out, toServer, toClient, up,
                     asked, executed, answers>>
  BY DEF ReadsForEver, EndOfClient, clientEnd, wires, record
<1>3. server'[c] = "ended"
  BY <1>2, Types
<1>4. /\ Current(c)' = Current(c) /\ OnStream(c)' = OnStream(c)
      /\ Size(c)' = Size(c) /\ AnswerSize(c)' = AnswerSize(c)
  BY <1>2, SameCall
<1>5. BetweenCalls(c) => BetweenCalls(c)'
  BY <1>2, <1>3 DEF BetweenCalls
<1>6. Requesting(c) => Requesting(c)'
  <2>1. NotSent(c) => NotSent(c)'
    BY <1>2, <1>3, <1>4 DEF NotSent
  <2>2. \A j \in 0 .. Size(c) : SentTo(c, j) => SentTo(c, j)'
    BY <1>2, <1>4 DEF SentTo
  <2>3. \A j \in 0 .. Size(c) : LengthComing(c, j) => LengthComing(c, j)'
    BY <1>2, <1>3, <1>4 DEF LengthComing
  <2>4. \A i, j \in 0 .. Size(c) : BodyComing(c, i, j) => BodyComing(c, i, j)'
    BY <1>1, <1>2, <1>3, <1>4 DEF BodyComing
  <2> QED
    BY <1>2, <1>4, <2>1, <2>2, <2>3, <2>4 DEF Requesting
<1>7. Answering(c) => Answering(c)'
  <2>1. ~NotAnswered(c)
    BY <1>1 DEF NotAnswered
  <2>2. \A j \in 0 .. AnswerSize(c) : AnsweredTo(c, j) => AnsweredTo(c, j)'
    BY <1>1, <1>2, <1>3, <1>4 DEF AnsweredTo
  <2>3. \A j \in 0 .. AnswerSize(c) : LengthReturning(c, j) => LengthReturning(c, j)'
    BY <1>2, <1>4 DEF LengthReturning
  <2>4. \A i, j \in 0 .. AnswerSize(c) : BodyReturning(c, i, j) => BodyReturning(c, i, j)'
    BY <1>2, <1>4 DEF BodyReturning
  <2> QED
    BY <1>2, <1>4, <2>1, <2>2, <2>3, <2>4 DEF Answering
<1>8. CallInv(c)'
  BY <1>1, <1>2, <1>5, <1>6, <1>7 DEF CallInv, InPhase, Gone
<1>9. Typed'
  BY <1>2 DEF Typed, ChannelTypeOK, RecordTypeOK, BuffersTypeOK
<1>10. \A d \in Clients \ {c} : Same(d)
  BY <1>2, Types DEF Same
<1> QED
  BY <1>8, <1>9, <1>10 DEF Keeps

\* One turn of the loop over the request.
LEMMA ServerReadBodyKeeps ==
  ASSUME Typed, NEW c \in Clients, CallInv(c), settings' = settings,
         IF OnStream(c) THEN PlainServerReadBody(c) ELSE ServerReadBody(c)
  PROVE  Keeps(c)
<1> DEFINE m == Current(c)
           L == Size(c)
           s == OnStream(c)
<1>1. server[c] = "read_body" /\ Requesting(c) /\ ~NotSent(c)
  BY DEF PlainServerReadBody, ServerReadBody, CallInv, InPhase, BetweenCalls, Answering, NotSent,
         NotAnswered, AnsweredTo
<1>2. PICK j \in 0 .. L : SentTo(c, j) /\ \E i \in 0 .. L : BodyComing(c, i, j)
  BY <1>1 DEF Requesting, LengthComing
<1>3. PICK i \in 0 .. L : BodyComing(c, i, j)
  BY <1>2
<1>4. L \in Nat /\ j \in Nat /\ i \in Nat
  <2>1. Len(asked[c]) # 0
    BY <1>1, Types DEF Requesting
  <2> QED
    BY <2>1, Sizes
<1>5. /\ in_buffer[c] = Slice(m, 0, i) /\ to_read[c] = L - i
      /\ UnderWay(s, toServer[c], m, L, i, j)
  BY <1>3 DEF BodyComing
<1>6. /\ UNCHANGED <<client, writing, reading, res, out, toClient, up, asked, executed, answers>>
      /\ server' = [server EXCEPT ![c] = IF to_read'[c] = 0 THEN "process" ELSE @]
  BY DEF ServerReadBody, PlainServerReadBody, clientEnd, record
<1>7. s \in BOOLEAN
  BY Types
<1>8. /\ Taken(s, m, L, i, j, toServer'[c], to_read'[c], in_buffer'[c])
      /\ DOMAIN to_read' = Clients /\ DOMAIN toServer' = Clients /\ DOMAIN in_buffer' = Clients
      /\ \A d \in Clients \ {c} : /\ to_read'[d] = to_read[d] /\ toServer'[d] = toServer[d]
                                  /\ in_buffer'[d] = in_buffer[d]
  <2>1. CASE s
    <3>1. PICK n \in 1 .. Smaller(Len(toServer[c]), to_read[c]) :
             /\ in_buffer' = [in_buffer EXCEPT ![c] = @ \o BytesOf(First(toServer[c], n))]
             /\ to_read' = [to_read EXCEPT ![c] = @ - n]
             /\ toServer' = [toServer EXCEPT ![c] = Rest(@, n)]
      BY <2>1 DEF PlainServerReadBody
    <3>2. /\ toServer'[c] = Rest(toServer[c], n) /\ to_read'[c] = to_read[c] - n
          /\ in_buffer'[c] = in_buffer[c] \o BytesOf(First(toServer[c], n))
      BY <3>1, Types
    <3>3. OneRead(s, toServer[c], to_read[c], in_buffer[c], toServer'[c], to_read'[c], in_buffer'[c])
      BY <2>1, <3>2 DEF OneRead
    <3>4. Taken(s, m, L, i, j, toServer'[c], to_read'[c], in_buffer'[c])
      BY <1>4, <1>5, <1>7, <3>3, ReadAdvances
    <3> QED
      BY <3>1, <3>4, Types
  <2>2. CASE ~s
    <3> DEFINE came == First(Head(toServer[c]), Chunk(to_read[c]))
    <3>1. /\ toServer[c] # <<>>
          /\ in_buffer' = [in_buffer EXCEPT ![c] = @ \o came]
          /\ to_read' = [to_read EXCEPT ![c] = @ - Len(came)]
          /\ toServer' = [toServer EXCEPT ![c] = Tail(@)]
      BY <2>2 DEF ServerReadBody
    <3>2. /\ toServer'[c] = Tail(toServer[c]) /\ to_read'[c] = to_read[c] - Len(came)
          /\ in_buffer'[c] = in_buffer[c] \o came
      BY <3>1, Types
    <3>3. OneRead(s, toServer[c], to_read[c], in_buffer[c], toServer'[c], to_read'[c], in_buffer'[c])
      BY <2>2, <3>1, <3>2 DEF OneRead
    <3>4. Taken(s, m, L, i, j, toServer'[c], to_read'[c], in_buffer'[c])
      BY <1>4, <1>5, <1>7, <3>3, ReadAdvances
    <3> QED
      BY <3>1, <3>4, Types
  <2> QED
    BY <2>1, <2>2
<1>9. PICK b \in i + 1 .. L :
         /\ in_buffer'[c] = Slice(m, 0, b) /\ to_read'[c] = L - b
         /\ UnderWay(s, toServer'[c], m, L, b, j)
  BY <1>8 DEF Taken
<1>10. Current(c)' = m /\ OnStream(c)' = s /\ Size(c)' = L
  BY <1>6, SameCall
<1>11. b \in 0 .. L /\ (to_read'[c] = 0 <=> ~(b < L))
  BY <1>4, <1>9
<1>12. SentTo(c, j)'
  BY <1>2, <1>6, <1>10 DEF SentTo
<1>13. BodyComing(c, b, j)'
  <2>1. server'[c] = IF b < L THEN "read_body" ELSE "process"
    BY <1>1, <1>6, <1>11, Types
  <2> HIDE DEF m, L, s
  <2> QED
    BY <1>9, <1>10, <2>1 DEF BodyComing
<1>14. Requesting(c)'
  BY <1>1, <1>6, <1>10, <1>11, <1>12, <1>13 DEF Requesting
<1>15. CallInv(c)'
  BY <1>1, <1>6, <1>14, Types DEF CallInv, InPhase
<1>16. Typed'
  <2>1. to_read' \in [Clients -> Nat]
    <3>1. to_read'[c] \in Nat
      BY <1>4, <1>9
    <3>2. to_read \in [Clients -> Nat]
      BY DEF Typed, ChannelTypeOK
    <3>3. \E f : to_read' = [to_read EXCEPT ![c] = f]
      BY DEF ServerReadBody, PlainServerReadBody
    <3> QED
      BY <3>1, <3>2, <3>3
  <2> QED
    BY <1>6, <1>8, <2>1 DEF Typed, ChannelTypeOK, RecordTypeOK, BuffersTypeOK
<1>17. \A d \in Clients \ {c} : Same(d)
  BY <1>6, <1>8, Types DEF Same
<1> QED
  BY <1>15, <1>16, <1>17 DEF Keeps

\* What process_message is called with is the request the client made last, whole.
LEMMA RequestIsWhole ==
  ASSUME Typed, NEW c \in Clients, CallInv(c), server[c] = "process"
  PROVE  /\ Requesting(c) /\ toServer[c] = <<>> /\ client[c] \in {"read_length", "left"}
         /\ in_buffer[c] = Bytes(Current(c), Size(c)) /\ Size(c) \in Nat \ {0}
         /\ Current(c) \in AllRequests /\ AnswerSize(c) \in Nat /\ Received(c) = Current(c)
<1> DEFINE m == Current(c)
           L == Size(c)
           s == OnStream(c)
<1>1. Requesting(c) /\ ~NotSent(c)
  BY DEF CallInv, InPhase, BetweenCalls, Answering, NotSent, NotAnswered, AnsweredTo
<1>2. PICK j \in 0 .. L : SentTo(c, j) /\ \E i \in 0 .. L : BodyComing(c, i, j)
  BY <1>1 DEF Requesting, LengthComing
<1>3. PICK i \in 0 .. L : BodyComing(c, i, j)
  BY <1>2
<1>4. L \in Nat \ {0} /\ m \in AllRequests /\ AnswerSize(c) \in Nat
  <2>1. Len(asked[c]) # 0
    BY <1>1, Types DEF Requesting
  <2> QED
    BY <2>1, Sizes
<1>5. i = L /\ in_buffer[c] = Slice(m, 0, i) /\ UnderWay(s, toServer[c], m, L, i, j)
  BY <1>3, <1>4 DEF BodyComing
<1>6. toServer[c] = <<>> /\ j = L
  BY <1>4, <1>5, UnderWayEmpty
<1>7. client[c] \in {"read_length", "left"}
  BY <1>2, <1>4, <1>6 DEF SentTo
<1>8. in_buffer[c] = Bytes(m, L)
  BY <1>4, <1>5, BytesAreSlice
<1>9. in_buffer[c][1][1] = m
  <2>1. 1 \in 1 .. L
    BY <1>4
  <2>2. Bytes(m, L)[1] = <<m, 1>>
    BY <2>1 DEF Bytes
  <2> QED
    BY <1>8, <2>2
<1> QED
  BY <1>1, <1>4, <1>6, <1>7, <1>8, <1>9 DEF Received

\* The request is executed, and its answer is to be sent.
LEMMA ExecuteKeeps ==
  ASSUME Typed, NEW c \in Clients, CallInv(c), server[c] = "process", Execute(c, Received(c)),
         settings' = settings
  PROVE  /\ Keeps(c) /\ Len(executed[c]) < Len(asked[c])
         /\ executed' = [executed EXCEPT ![c] = Append(@, asked[c][Len(executed[c]) + 1])]
<1> DEFINE m == Current(c)
           A == AnswerSize(c)
<1>1. /\ Requesting(c) /\ toServer[c] = <<>> /\ client[c] \in {"read_length", "left"}
      /\ m \in AllRequests /\ A \in Nat /\ Received(c) = m
  BY RequestIsWhole
<1>2. /\ Len(executed[c]) + 1 = Len(asked[c]) /\ Len(answers[c]) + 1 = Len(asked[c])
      /\ toClient[c] = <<>> /\ res[c] = <<>> /\ asked[c][Len(asked[c])] = m
      /\ {Len(executed[c]), Len(asked[c])} \subseteq Nat
  BY <1>1, Types DEF Requesting, Current
<1>3. /\ out'[c] = Bytes(m, A) /\ server'[c] = "write_length"
      /\ executed' = [executed EXCEPT ![c] = Append(@, m)]
      /\ UNCHANGED <<client, writing, reading, res, in_buffer, to_read, toServer, toClient, up,
                     asked, answers>>
  BY <1>1, Types DEF Execute, clientEnd, wires, AnswerSize
<1>4. Current(c)' = m /\ OnStream(c)' = OnStream(c) /\ AnswerSize(c)' = A
  BY <1>3, SameCall
<1>5. executed[c] \in Seq(AllRequests) /\ executed'[c] = Append(executed[c], m)
  BY <1>3, Types
<1>6. /\ executed'[c] \in Seq(AllRequests) /\ Len(executed'[c]) = Len(executed[c]) + 1
      /\ \A k \in 1 .. Len(executed[c]) : executed'[c][k] = executed[c][k]
      /\ executed'[c][Len(executed[c]) + 1] = m
  BY <1>1, <1>5, AppendProperties
<1>7. NotAnswered(c)'
  <2>1. out'[c] = Slice(m, 0, A)
    BY <1>1, <1>3, BytesAreSlice
  <2> QED
    BY <1>1, <1>2, <1>3, <1>4, <2>1 DEF NotAnswered
<1>8. Answering(c)'
  BY <1>1, <1>2, <1>3, <1>6, <1>7 DEF Answering
<1>9. CallInv(c)'
  <2>1. DOMAIN executed[c] = 1 .. Len(executed[c]) /\ DOMAIN executed'[c] = 1 .. Len(executed[c]) + 1
    BY <1>5, <1>6, LenProperties
  <2>2. \A k \in DOMAIN executed'[c] : executed'[c][k] = asked'[c][k]
    BY <1>2, <1>3, <1>6, <2>1 DEF CallInv
  <2> QED
    BY <1>3, <1>8, <2>2 DEF CallInv, InPhase
<1>10. Typed'
  <2>1. executed' \in [Clients -> Seq(AllRequests)]
    BY <1>3, <1>5, <1>6 DEF Typed, RecordTypeOK
  <2> QED
    BY <1>3, <2>1 DEF Typed, ChannelTypeOK, RecordTypeOK, BuffersTypeOK, Execute
<1>11. \A d \in Clients \ {c} : Same(d)
  BY <1>3, Types DEF Same, Execute
<1>12. Len(executed[c]) < Len(asked[c]) /\ Len(executed[c]) + 1 = Len(asked[c])
  BY <1>2
<1> QED
  BY <1>2, <1>3, <1>9, <1>10, <1>11, <1>12 DEF Keeps

\* The length of the answer.
LEMMA ServerWriteLengthKeeps ==
  ASSUME Typed, NEW c \in Clients, CallInv(c), ServerWriteLength(c), settings' = settings
  PROVE  Keeps(c)
<1> DEFINE m == Current(c)
           A == AnswerSize(c)
           s == OnStream(c)
<1>1. Answering(c) /\ NotAnswered(c)
  BY DEF ServerWriteLength, CallInv, InPhase, BetweenCalls, Requesting, NotSent, LengthComing,
         BodyComing, Answering, AnsweredTo
<1>2. A \in Nat /\ 0 <= A
  <2>1. Len(asked[c]) # 0
    BY <1>1, Types DEF Answering
  <2> QED
    BY <2>1, Sizes
<1>3. LengthOf(out[c]) = Header(A)
  <2>1. Len(out[c]) = A - 0
    BY <1>1, <1>2, SliceType DEF NotAnswered
  <2>2. A - 0 = A
    BY <1>2
  <2> QED
    BY <2>1, <2>2 DEF LengthOf, Header
<1>4. /\ toClient'[c] = Append(<<>>, Header(A))
      /\ server'[c] = IF out[c] = <<>> THEN "read_length" ELSE "write_body"
      /\ UNCHANGED <<client, writing, reading, res, in_buffer, to_read, out, toServer, up,
                     asked, executed, answers>>
  BY <1>1, <1>3, Types DEF ServerWriteLength, NotAnswered, clientEnd, record
<1>5. Current(c)' = m /\ OnStream(c)' = s /\ AnswerSize(c)' = A
  BY <1>4, SameCall
<1>6. LengthUnderWay(s, toClient'[c], m, A, 0)
  BY <1>2, <1>4, LengthAlone
<1>7. LengthReturning(c, 0)'
  BY <1>1, <1>4, <1>5, <1>6 DEF LengthReturning, NotAnswered
<1>8. AnsweredTo(c, 0)'
  <2>1. out[c] = Slice(m, 0, A)
    BY <1>1 DEF NotAnswered
  <2>2. out[c] = <<>> <=> A = 0
    BY <1>2, <2>1, SliceEmpty
  <2>3. server'[c] = IF 0 < A THEN "write_body" ELSE "read_length"
    BY <1>2, <1>4, <2>2
  <2> HIDE DEF m, A, s
  <2> QED
    BY <1>4, <1>5, <2>1, <2>3 DEF AnsweredTo
<1>9. Answering(c)'
  <2>1. 0 \in 0 .. A
    BY <1>2
  <2> QED
    BY <1>1, <1>4, <1>5, <1>7, <1>8, <2>1 DEF Answering
<1>10. CallInv(c)'
  BY <1>4, <1>9 DEF CallInv, InPhase
<1>11. Typed'
  <2>1. server' \in [Clients -> {"read_length", "read_body", "process", "write_length",
                                "write_body", "ended"}]
    BY DEF Typed, ChannelTypeOK, ServerWriteLength
  <2> QED
    BY <1>4, <2>1 DEF Typed, ChannelTypeOK, RecordTypeOK, BuffersTypeOK, ServerWriteLength
<1>12. \A d \in Clients \ {c} : Same(d)
  BY <1>4, Types DEF Same, ServerWriteLength
<1> QED
  BY <1>10, <1>11, <1>12 DEF Keeps

\* Bytes of the answer follow.
LEMMA ServerWriteBodyKeeps ==
  ASSUME Typed, NEW c \in Clients, CallInv(c), settings' = settings,
         IF OnStream(c) THEN PlainServerWriteBody(c) ELSE ServerWriteBody(c)
  PROVE  Keeps(c)
<1> DEFINE m == Current(c)
           A == AnswerSize(c)
           s == OnStream(c)
<1>1. server[c] = "write_body" /\ Answering(c) /\ ~NotAnswered(c)
  BY DEF PlainServerWriteBody, ServerWriteBody, CallInv, InPhase, BetweenCalls, Requesting, NotSent,
         LengthComing, BodyComing, NotAnswered
<1>2. PICK j \in 0 .. A : AnsweredTo(c, j)
                          /\ (LengthReturning(c, j) \/ \E i \in 0 .. A : BodyReturning(c, i, j))
  BY <1>1 DEF Answering
<1>3. A \in Nat
  <2>1. Len(asked[c]) # 0
    BY <1>1, Types DEF Answering
  <2> QED
    BY <2>1, Sizes
<1>4. j \in 0 .. A - 1 /\ j \in Nat /\ out[c] = Slice(m, j, A)
  BY <1>1, <1>2, <1>3 DEF AnsweredTo
<1>5. /\ OneWrite(s, Slice(m, j, A), toClient[c], out'[c], toClient'[c])
      /\ server'[c] = IF out'[c] = <<>> THEN "read_length" ELSE "write_body"
      /\ UNCHANGED <<client, writing, reading, res, in_buffer, to_read, toServer, up,
                     asked, executed, answers>>
  <2>1. CASE s
    <3>1. PICK n \in 1 .. Len(out[c]) :
             /\ toClient' = [toClient EXCEPT ![c] = @ \o Stream(First(out[c], n))]
             /\ out' = [out EXCEPT ![c] = Rest(@, n)]
      BY <2>1 DEF PlainServerWriteBody
    <3>2. /\ toClient'[c] = toClient[c] \o Stream(First(out[c], n))
          /\ out'[c] = Rest(out[c], n)
      BY <3>1, Types
    <3>3. OneWrite(s, out[c], toClient[c], out'[c], toClient'[c])
      BY <2>1, <3>2 DEF OneWrite
    <3> QED
      BY <1>1, <1>4, <2>1, <3>3, Types DEF PlainServerWriteBody, clientEnd, record
  <2>2. CASE ~s
    BY <1>1, <1>4, <2>2, Types DEF ServerWriteBody, OneWrite, clientEnd, record
  <2> QED
    BY <2>1, <2>2
<1>6. toClient[c] \in Seq(Records(m) \cup {Header(A)})
  <2>1. CASE LengthReturning(c, j)
    BY <1>3, <1>4, <2>1, LengthFirst DEF LengthReturning
  <2>2. CASE \E i \in 0 .. A : BodyReturning(c, i, j)
    <3>1. PICK i \in 0 .. A : BodyReturning(c, i, j)
      BY <2>2
    <3>2. i \in Nat
      BY <1>3
    <3>3. toClient[c] \in Seq(Records(m))
      BY <1>3, <1>4, <3>1, <3>2, UnderWayType DEF BodyReturning
    <3> QED
      BY <3>3, SeqMonotonic
  <2> QED
    BY <1>2, <2>1, <2>2
<1>7. s \in BOOLEAN
  BY Types
<1> HIDE DEF m, A, s
<1>8. PICK b \in j + 1 .. A, more \in Seq(Records(m)) :
            /\ out'[c] = Slice(m, b, A)
            /\ toClient'[c] = toClient[c] \o more
            /\ \A r : \A i \in Nat : UnderWay(s, r, m, A, i, j)
                                       => UnderWay(s, r \o more, m, A, i, b)
  <2>1. A \in Nat /\ j \in 0 .. A - 1
    BY <1>3, <1>4
  <2>2. OneWrite(s, Slice(m, j, A), toClient[c], out'[c], toClient'[c])
    BY <1>5
  <2>3. Written(s, m, A, j, out'[c], toClient[c], toClient'[c])
    BY <1>6, <1>7, <2>1, <2>2, WriteAdvances
  <2> QED
    BY <2>3 DEF Written
<1>9. Current(c)' = m /\ OnStream(c)' = s /\ AnswerSize(c)' = A
  BY <1>5, SameCall DEF m, s, A
<1>10. b \in 0 .. A /\ b \in Nat /\ b <= A
  BY <1>3, <1>4
<1>11. AnsweredTo(c, b)'
  <2>1. out'[c] = <<>> <=> b = A
    BY <1>3, <1>8, <1>10, SliceEmpty
  <2>2. b < A <=> out'[c] # <<>>
    BY <1>3, <1>10, <2>1
  <2> QED
    BY <1>5, <1>8, <1>9, <2>2 DEF AnsweredTo
<1>12. ASSUME LengthReturning(c, j)
       PROVE  LengthReturning(c, b)'
  <2>1. LengthUnderWay(s, toClient[c], m, A, j)
    BY <1>12 DEF LengthReturning, m, A, s
  <2>2. UnderWay(s, Tail(toClient[c]), m, A, 0, j)
    BY <2>1 DEF LengthUnderWay
  <2>3. UnderWay(s, Tail(toClient[c]) \o more, m, A, 0, b)
    BY <1>8, <2>2
  <2>4. LengthUnderWay(s, toClient'[c], m, A, b)
    BY <1>3, <1>4, <1>8, <1>10, <2>1, <2>3, LengthAppend
  <2> QED
    BY <1>5, <1>9, <1>12, <2>4 DEF LengthReturning
<1>13. ASSUME NEW i \in 0 .. A, BodyReturning(c, i, j)
       PROVE  BodyReturning(c, i, b)'
  <2>1. UnderWay(s, toClient[c], m, A, i, j) /\ i \in Nat
    BY <1>3, <1>13 DEF BodyReturning, m, A, s
  <2>2. UnderWay(s, toClient'[c], m, A, i, b)
    BY <1>8, <2>1
  <2> QED
    BY <1>5, <1>9, <1>13, <2>2 DEF BodyReturning, m, A
<1>14. Answering(c)'
  <2>1. LengthReturning(c, b)' \/ \E i \in 0 .. A : BodyReturning(c, i, b)'
    BY <1>2, <1>12, <1>13
  <2> QED
    BY <1>1, <1>5, <1>9, <1>10, <1>11, <2>1 DEF Answering
<1>15. CallInv(c)'
  BY <1>1, <1>5, <1>14 DEF CallInv, InPhase
<1>16. Typed'
  <2>1. server' \in [Clients -> {"read_length", "read_body", "process", "write_length",
                                "write_body", "ended"}]
    BY DEF Typed, ChannelTypeOK, ServerWriteBody, PlainServerWriteBody
  <2> QED
    BY <1>5, <2>1 DEF Typed, ChannelTypeOK, RecordTypeOK, BuffersTypeOK, ServerWriteBody, PlainServerWriteBody
<1>17. \A d \in Clients \ {c} : Same(d)
  BY <1>5, Types DEF Same, ServerWriteBody, PlainServerWriteBody
<1> QED
  BY <1>15, <1>16, <1>17 DEF Keeps

----------------------------------------------------------------------------
(* The requests of a session *)

IsSequence(x) == \E S : x \in Seq(S)

\* One after the other, two sequences are one.
LEMMA ConcatIsSequence ==
  ASSUME NEW x, NEW y, IsSequence(x), IsSequence(y)
  PROVE  IsSequence(x \o y)
<1>1. PICK S : x \in Seq(S)
  BY DEF IsSequence
<1>2. PICK T : y \in Seq(T)
  BY DEF IsSequence
<1>3. x \in Seq(S \cup T) /\ y \in Seq(S \cup T)
  BY <1>1, <1>2, SeqMonotonic
<1>4. x \o y \in Seq(S \cup T)
  BY <1>3, ConcatProperties
<1> QED
  BY <1>4 DEF IsSequence

\* So are no request, and one.
LEMMA ShortIsSequence ==
  ASSUME NEW x
  PROVE  IsSequence(<<>>) /\ IsSequence(<<x>>)
<1>1. <<>> \in Seq({x}) /\ <<x>> \in Seq({x})
  OBVIOUS
<1> QED
  BY <1>1 DEF IsSequence

\* A request made several times.
LEMMA TimesIsSequence ==
  ASSUME NEW n \in Nat, NEW request
  PROVE  IsSequence(Times(n, request))
<1>1. Times(n, request) \in Seq({request})
  BY DEF Times
<1> QED
  BY <1>1 DEF IsSequence

\* A request for each image.
LEMMA PhotosIsSequence ==
  ASSUME NEW op, NEW photos \in Seq(Nat)
  PROVE  IsSequence(Photos(op, photos))
<1> DEFINE S == {[op |-> op, image |-> [id |-> i, count |-> photos[i]]] : i \in DOMAIN photos}
<1>1. DOMAIN photos = 1 .. Len(photos) /\ Len(photos) \in Nat
  BY LenProperties
<1>2. \A i \in 1 .. Len(photos) : [op |-> op, image |-> [id |-> i, count |-> photos[i]]] \in S
  BY <1>1
<1> HIDE DEF S
<1>3. Photos(op, photos) \in Seq(S)
  BY <1>1, <1>2 DEF Photos
<1> QED
  BY <1>3 DEF IsSequence

\* One for each image sent for training.
LEMMA TrainAddsIsSequence ==
  ASSUME NEW s \in Setting
  PROVE  IsSequence(TrainAdds(s))
<1> DEFINE photos == Photos("TRAIN_ADD", s.photos)
           S == {photos[s.main[i]] : i \in DOMAIN s.main}
<1>1. s.photos \in Seq(Nat) /\ s.main \in Seq(Nat)
  BY DEF Setting
<1>2. IsSequence(photos)
  BY <1>1, PhotosIsSequence
<1>3. DOMAIN s.main = 1 .. Len(s.main) /\ Len(s.main) \in Nat
  BY <1>1, LenProperties
<1>4. [i \in DOMAIN s.main |-> photos[s.main[i]]] \in Seq(S)
  <2>1. \A i \in 1 .. Len(s.main) : photos[s.main[i]] \in S
    BY <1>3
  <2> HIDE DEF S, photos
  <2> QED
    BY <1>3, <2>1
<1>5. IsSequence([i \in DOMAIN s.main |-> photos[s.main[i]]])
  BY <1>4 DEF IsSequence
<1> QED
  BY <1>2, <1>5 DEF TrainAdds

\* And the training, whatever the technique.
LEMMA TrainingIsSequence ==
  ASSUME NEW s \in Setting
  PROVE  IsSequence(TrainingOf(s))
<1>1. s.technique \in {"client_kmeans", "iee_kmeans", "lsh"}
  BY DEF Setting
<1>2. TrainingOf(s) \in {Codebook, TrainAdds(s) \o <<Op("TRAIN")>>, <<Op("SET_CODEBOOK_CLIENT_LSH")>>}
  BY <1>1, Zenon DEF TrainingOf
<1>3. IsSequence(TrainAdds(s) \o <<Op("TRAIN")>>)
  BY TrainAddsIsSequence, ShortIsSequence, ConcatIsSequence
<1>4. IsSequence(Codebook) /\ IsSequence(<<Op("SET_CODEBOOK_CLIENT_LSH")>>)
  BY ShortIsSequence DEF Codebook
<1> QED
  BY <1>2, <1>3, <1>4

\* A session is a finite sequence of requests.
LEMMA RequestsAreSequence ==
  ASSUME NEW s \in Setting
  PROVE  IsSequence(RequestsOf(s))
<1>1. s.photos \in Seq(Nat) /\ {s.found, s.files, s.queries, TestFiles} \subseteq Nat
  BY SettingsAssumption DEF Setting
<1>2. /\ IsSequence(InitOf(s)) /\ IsSequence(TextSetup) /\ IsSequence(Codebook)
      /\ IsSequence(Dump(TRUE)) /\ IsSequence(Dump(FALSE)) /\ IsSequence(<<>>)
  BY ShortIsSequence DEF InitOf, TextSetup, Codebook, Dump
<1>3. IsSequence(Updates(s)) /\ IsSequence(Adds(s))
  BY <1>1, TimesIsSequence, PhotosIsSequence DEF Updates, Adds
<1>4. IsSequence(Searches(s))
  <2>1. Smaller(s.found, s.queries) \in Nat
    BY <1>1 DEF Smaller
  <2> QED
    BY <1>1, <2>1, TimesIsSequence DEF Searches, search_flickr, search_test
<1>5. \A op : IsSequence(Times(s.queries, Op(op)))
  BY <1>1, TimesIsSequence
<1>6. IsSequence(Statistics)
  <2>1. <<Op("DUMP_BENCH"), Op("CLEAR")>> \in Seq({Op("DUMP_BENCH"), Op("CLEAR")})
    OBVIOUS
  <2> QED
    BY <2>1 DEF Statistics, IsSequence
<1>7. IsSequence(<<Op("READ_MAP")>>) /\ IsSequence(<<Op("WRITE_MAP")>>)
  BY ShortIsSequence
<1>8. IsSequence(InitOf(s) \o TrainingOf(s))
  BY <1>2, TrainingIsSequence, ConcatIsSequence
<1>9. IsSequence(SimRequests(s))
  <2> DEFINE images == IF s.add_mode = "load" THEN <<Op("READ_MAP")>> ELSE Adds(s) \o <<Op("WRITE_MAP")>>
  <2>1. IsSequence(images)
    BY <1>3, <1>7, ConcatIsSequence
  <2> HIDE DEF images
  <2>2. IsSequence((InitOf(s) \o TrainingOf(s)) \o images)
    BY <1>8, <2>1, ConcatIsSequence
  <2>3. IsSequence(((InitOf(s) \o TrainingOf(s)) \o images) \o Searches(s))
    BY <1>4, <2>2, ConcatIsSequence
  <2>4. IsSequence((((InitOf(s) \o TrainingOf(s)) \o images) \o Searches(s)) \o Statistics)
    BY <1>6, <2>3, ConcatIsSequence
  <2> QED
    BY <2>4 DEF SimRequests, images
<1>10. IsSequence(TextRequests(s))
  <2>1. IsSequence(TextSetup \o Updates(s))
    BY <1>2, <1>3, ConcatIsSequence
  <2>2. IsSequence((TextSetup \o Updates(s)) \o Times(s.queries, Op("BISEN_SEARCH")))
    BY <1>5, <2>1, ConcatIsSequence
  <2> QED
    BY <1>2, <2>2, ConcatIsSequence DEF TextRequests
<1>11. IsSequence(ImageRequests(s))
  <2>1. IsSequence((InitOf(s) \o TrainingOf(s)) \o Adds(s))
    BY <1>3, <1>8, ConcatIsSequence
  <2>2. IsSequence(((InitOf(s) \o TrainingOf(s)) \o Adds(s)) \o Searches(s))
    BY <1>4, <2>1, ConcatIsSequence
  <2> QED
    BY <1>6, <2>2, ConcatIsSequence DEF ImageRequests
<1>12. IsSequence(InitOf(s) \o TextSetup \o Codebook \o Updates(s) \o Adds(s)
                  \o Times(s.queries, Op("MISEN_QUERY")) \o Dump(TRUE) \o Statistics)
  <2>1. IsSequence(InitOf(s) \o TextSetup)
    BY <1>2, ConcatIsSequence
  <2>2. IsSequence((InitOf(s) \o TextSetup) \o Codebook)
    BY <1>2, <2>1, ConcatIsSequence
  <2>3. IsSequence(((InitOf(s) \o TextSetup) \o Codebook) \o Updates(s))
    BY <1>3, <2>2, ConcatIsSequence
  <2>4. IsSequence((((InitOf(s) \o TextSetup) \o Codebook) \o Updates(s)) \o Adds(s))
    BY <1>3, <2>3, ConcatIsSequence
  <2>5. IsSequence(((((InitOf(s) \o TextSetup) \o Codebook) \o Updates(s)) \o Adds(s))
                   \o Times(s.queries, Op("MISEN_QUERY")))
    BY <1>5, <2>4, ConcatIsSequence
  <2>6. IsSequence((((((InitOf(s) \o TextSetup) \o Codebook) \o Updates(s)) \o Adds(s))
                    \o Times(s.queries, Op("MISEN_QUERY"))) \o Dump(TRUE))
    BY <1>2, <2>5, ConcatIsSequence
  <2> QED
    BY <1>6, <2>6, ConcatIsSequence
<1>13. IsSequence((IF s.use_text THEN TextRequests(s) ELSE <<>>)
                  \o (IF s.use_images THEN ImageRequests(s) ELSE <<>>))
  <2>1. /\ IsSequence(IF s.use_text THEN TextRequests(s) ELSE <<>>)
        /\ IsSequence(IF s.use_images THEN ImageRequests(s) ELSE <<>>)
    BY <1>2, <1>10, <1>11
  <2> QED
    BY <2>1, ConcatIsSequence
<1> QED
  BY <1>2, <1>9, <1>12, <1>13 DEF RequestsOf

\* What the driver calls next is one of the requests of some session.
LEMMA NextOfScript ==
  ASSUME Typed, NEW c \in Clients, Len(asked[c]) < Len(Script(c))
  PROVE  Script(c)[Len(asked[c]) + 1] \in AllRequests
<1> DEFINE script == RequestsOf(settings[c])
           n == Len(asked[c]) + 1
<1>1. settings \in Settings /\ settings[c] \in Setting
  BY SettingsAssumption DEF Typed
<1>2. PICK S : script \in Seq(S)
  BY <1>1, RequestsAreSequence DEF IsSequence
<1>3. DOMAIN script = 1 .. Len(script) /\ Len(script) \in Nat
  BY <1>2, LenProperties
<1>4. Len(asked[c]) \in Nat
  BY Types
<1>5. n \in DOMAIN script
  BY <1>3, <1>4 DEF Script
<1> DEFINE Of(s, d) == {RequestsOf(s[d])[i] : i \in DOMAIN RequestsOf(s[d])}
<1>6. script[n] \in Of(settings, c)
  BY <1>5
<1> HIDE DEF n, Of
<1>7. script[n] \in UNION {Of(settings, d) : d \in Clients}
  BY <1>6
<1>8. script[n] \in UNION {UNION {Of(s, d) : d \in Clients} : s \in Settings}
  BY <1>1, <1>7
<1>9. script[n] \in AllRequests
  BY <1>8 DEF AllRequests, Of
<1> QED
  BY <1>9 DEF Script, n

----------------------------------------------------------------------------
(* A step, and what it is of RemoteCall *)

Silent(c) == (Gone(c)' <=> Gone(c)) /\ UNCHANGED <<up, asked, executed, answers>>

Called(c) == /\ ~Gone(c) /\ ~Gone(c)' /\ Len(answers[c]) = Len(asked[c])
             /\ \E m \in AllRequests : asked' = [asked EXCEPT ![c] = Append(@, m)]
             /\ UNCHANGED <<up, executed, answers>>

Executed(c) ==
    /\ Up /\ Len(executed[c]) < Len(asked[c])
    /\ executed' = [executed EXCEPT ![c] = Append(@, asked[c][Len(executed[c]) + 1])]
    /\ UNCHANGED <<client, up, asked, answers>>

ReturnedTo(c) == /\ ~Gone(c) /\ ~Gone(c)' /\ Returns(c)
                 /\ UNCHANGED <<up, asked, executed>>

Left(c) == ~Gone(c) /\ Gone(c)' /\ UNCHANGED <<up, asked, executed, answers>>

Stopped == ~Up' /\ UNCHANGED <<client, asked, executed, answers>>

\* An enclave that stops because of c does so when c left an answer to come.
BlamesLeft(c) ==
    up' = "peer" => \/ up = "peer"
                    \/ client[c] = "left" /\ Len(answers[c]) < Len(asked[c])
                       /\ UNCHANGED <<client, asked, answers>>

LeftStays(c) == client[c] = "left" =>
    client'[c] = "left" /\ asked'[c] = asked[c] /\ answers'[c] = answers[c]

Effect(c) ==
    /\ Silent(c) \/ Called(c) \/ Executed(c) \/ ReturnedTo(c) \/ Left(c) \/ Stopped
    /\ BlamesLeft(c) /\ LeftStays(c)

\* A client's own steps, and its end.
LEMMA ClientStepEffect ==
  ASSUME Typed, NEW c \in Clients, CallInv(c), ClientActs(c) \/ Leaves(c)
  PROVE  Keeps(c) /\ Effect(c)
<1>1. settings' = settings
  BY DEF ClientActs, Drive, ClientTransfers, Leaves
<1>2. CASE Drive(c) /\ Len(asked[c]) < Len(Script(c))
  <2> DEFINE m == Script(c)[Len(asked[c]) + 1]
  <2>1. Call(c, m) /\ m \in AllRequests
    BY <1>2, NextOfScript DEF Drive
  <2> HIDE DEF m
  <2>2. Keeps(c) /\ Len(answers[c]) = Len(asked[c])
    BY <1>1, <2>1, CallKeeps
  <2>3. client[c] = "idle" /\ client'[c] = "write_length"
    BY <2>1, Types DEF Call
  <2>4. ~Gone(c) /\ ~Gone(c)'
    BY <2>3 DEF Gone
  <2>5. UNCHANGED <<up, executed, answers>> /\ asked' = [asked EXCEPT ![c] = Append(@, m)]
    BY <2>1 DEF Call
  <2>6. Called(c)
    BY <2>1, <2>2, <2>4, <2>5 DEF Called
  <2>7. BlamesLeft(c) /\ LeftStays(c)
    BY <2>3, <2>5 DEF BlamesLeft, LeftStays
  <2> QED
    BY <2>2, <2>6, <2>7 DEF Effect
<1>3. CASE Drive(c) /\ ~(Len(asked[c]) < Len(Script(c)))
  <2>1. Close(c)
    BY <1>3 DEF Drive
  <2>2. Keeps(c)
    BY <1>1, <2>1, CloseKeeps
  <2>3. client[c] = "idle" /\ client'[c] = "closed"
    BY <2>1, Types DEF Close
  <2>4. UNCHANGED <<up, asked, executed, answers>>
    BY <2>1 DEF Close, record
  <2>5. Left(c)
    BY <2>3, <2>4 DEF Left, Gone
  <2>6. BlamesLeft(c) /\ LeftStays(c)
    BY <2>3, <2>4 DEF BlamesLeft, LeftStays
  <2> QED
    BY <2>2, <2>5, <2>6 DEF Effect
<1>4. CASE Leaves(c)
  <2>1. Leave(c)
    BY <1>4 DEF Leaves
  <2>2. Keeps(c)
    BY <1>1, <2>1, LeaveKeeps
  <2>3. ~Gone(c) /\ client'[c] = "left"
    BY <2>1, Types DEF Leave
  <2>4. UNCHANGED <<up, asked, executed, answers>>
    BY <2>1 DEF Leave, record
  <2>5. Left(c)
    BY <2>3, <2>4 DEF Left, Gone
  <2>6. BlamesLeft(c) /\ LeftStays(c)
    BY <2>3, <2>4 DEF BlamesLeft, LeftStays
  <2> QED
    BY <2>2, <2>5, <2>6 DEF Effect
<1>5. CASE WriteLength(c) \/ (IF OnStream(c) THEN PlainWriteBody(c) ELSE WriteBody(c))
  <2>1. Keeps(c)
    BY <1>1, <1>5, WriteLengthKeeps, WriteBodyKeeps
  <2>2. UNCHANGED <<up, asked, executed, answers>> /\ client[c] \in {"write_length", "write_body"}
    BY <1>5 DEF WriteLength, WriteBody, PlainWriteBody, record
  <2>3. client'[c] \in {"write_body", "read_length"}
    <3>1. CASE WriteLength(c)
      BY <3>1, Types DEF WriteLength
    <3>2. CASE ~WriteLength(c)
      <4>1. client[c] = "write_body"
            /\ client' = [client EXCEPT ![c] = IF writing'[c] = <<>> THEN "read_length" ELSE @]
        BY <1>5, <3>2 DEF WriteBody, PlainWriteBody
      <4> QED
        BY <4>1, Types
    <3> QED
      BY <3>1, <3>2
  <2>4. Silent(c)
    <3>1. ~Gone(c) /\ ~Gone(c)'
      BY <2>2, <2>3 DEF Gone
    <3> QED
      BY <2>2, <3>1 DEF Silent
  <2>5. BlamesLeft(c) /\ LeftStays(c)
    BY <2>2 DEF BlamesLeft, LeftStays
  <2> QED
    BY <2>1, <2>4, <2>5 DEF Effect
<1>6. CASE ReadLength(c) \/ (IF OnStream(c) THEN PlainReadBody(c) ELSE ReadBody(c))
  <2>1. Keeps(c) /\ ~Gone(c) /\ (UNCHANGED answers \/ Returns(c))
    BY <1>1, <1>6, ReadLengthKeeps, ReadBodyKeeps
  <2>2. UNCHANGED <<up, asked, executed>> /\ client[c] \in {"read_length", "read_body"}
    BY <1>6 DEF ReadLength, ReadBody, PlainReadBody
  <2>3. client'[c] \in {"idle", "read_body"}
    <3>1. CASE ReadLength(c)
      BY <3>1, Types DEF ReadLength, Returned
    <3>2. CASE ~ReadLength(c) /\ OnStream(c)
      BY <1>6, <3>2, Types DEF PlainReadBody, Returned
    <3>3. CASE ~ReadLength(c) /\ ~OnStream(c)
      BY <1>6, <3>3, Types DEF ReadBody, Returned
    <3> QED
      BY <3>1, <3>2, <3>3
  <2>4. ~Gone(c)'
    BY <2>3 DEF Gone
  <2>5. Silent(c) \/ ReturnedTo(c)
    BY <2>1, <2>2, <2>4 DEF Silent, ReturnedTo
  <2>6. BlamesLeft(c) /\ LeftStays(c)
    BY <2>2 DEF BlamesLeft, LeftStays
  <2> QED
    BY <2>1, <2>5, <2>6 DEF Effect
<1>7. ClientTransfers(c) => \/ WriteLength(c) \/ ReadLength(c)
                            \/ IF OnStream(c) THEN PlainWriteBody(c) \/ PlainReadBody(c)
                               ELSE WriteBody(c) \/ ReadBody(c)
  BY DEF ClientTransfers, PlainClientStep, ClientStep, OnStream
<1> QED
  BY <1>2, <1>3, <1>4, <1>5, <1>6, <1>7 DEF ClientActs

\* The enclave exits, and the connections stay as they are.
LEMMA ExitKeeps ==
  ASSUME Typed, NEW c \in Clients, CallInv(c), settings' = settings,
         NEW cause \in {"peer", "assertion", "division", "file"}, Exit(cause)
  PROVE  Keeps(c) /\ Stopped
<1>1. /\ up' = cause
      /\ UNCHANGED <<client, writing, reading, res, server, in_buffer, to_read, out, toServer, toClient,
                     asked, executed, answers>>
  BY DEF Exit, clientEnd, serverEnd, wires, record
<1>2. \A d \in Clients : Same(d)
  BY <1>1 DEF Same
<1>3. CallInv(c)'
  BY <1>2, Frame
<1>4. Typed'
  BY <1>1 DEF Typed, ChannelTypeOK, RecordTypeOK, BuffersTypeOK
<1>5. Stopped
  BY <1>1 DEF Stopped, Up
<1> QED
  BY <1>2, <1>3, <1>4, <1>5 DEF Keeps

\* A thread that finds its client gone, where that ends the process, has found one
\* that left before its answer came.
LEMMA PeerLeft ==
  ASSUME Typed, NEW c \in Clients, CallInv(c),
         IF OnStream(c) THEN PlainPeerIsGone(c) ELSE PeerIsGone(c)
  PROVE  client[c] = "left" /\ Len(answers[c]) < Len(asked[c])
<1>1. {Len(answers[c]), Len(asked[c])} \subseteq Nat
  BY Types
<1>2. Gone(c) /\ server[c] # "process"
  BY DEF PlainPeerIsGone, PeerIsGone, ReadFails, Gone
<1>3. CASE BetweenCalls(c)
  BY <1>3 DEF BetweenCalls, PlainPeerIsGone, PeerIsGone
<1>4. CASE Requesting(c)
  <2>1. client[c] # "closed"
    BY <1>4 DEF Requesting, NotSent, SentTo
  <2> QED
    BY <1>1, <1>2, <1>4, <2>1 DEF Requesting, Gone
<1>5. CASE Answering(c)
  <2>1. client[c] # "closed"
    BY <1>5 DEF Answering, NotAnswered, LengthReturning, BodyReturning
  <2> QED
    BY <1>1, <1>2, <1>5, <2>1 DEF Answering, Gone
<1> QED
  BY <1>3, <1>4, <1>5 DEF CallInv, InPhase

\* A case of process_message serves its request, or the enclave exits.
LEMMA ServesOrExits ==
  ASSUME NEW c, ProcessMessage(c)
  PROVE  /\ server[c] = "process" /\ Up
         /\ Execute(c, Received(c)) \/ \E cause \in {"assertion", "division", "file"} : Exit(cause)
<1>1. server[c] = "process" /\ Up
  BY DEF ProcessMessage, HandleInit, HandleTrainAdd, HandleTrain, HandleSetCodebook, HandleAdd,
         HandleText, HandleClear, HandleMap, HandleSearch, HandleDumpBench, HandleTextDump,
         OnlyIndexes, Handling
<1>2. Served(c) \/ \E cause \in {"assertion", "division", "file"} : Fails(cause)
  BY DEF ProcessMessage, HandleInit, HandleTrainAdd, HandleTrain, HandleSetCodebook, HandleAdd,
         HandleText, HandleClear, HandleMap, HandleSearch, HandleDumpBench, HandleTextDump,
         OnlyIndexes
<1> QED
  BY <1>1, <1>2 DEF Served, Fails

\* The steps of the enclave's thread of a client.
LEMMA EnclaveStepEffect ==
  ASSUME Typed, NEW c \in Clients, CallInv(c), EnclaveActs(c)
  PROVE  Keeps(c) /\ Effect(c)
<1>1. settings' = settings
  BY DEF EnclaveActs, EnclaveTransfers, ProcessMessage, HandleInit, HandleTrainAdd, HandleTrain,
         HandleSetCodebook, HandleAdd, HandleText, HandleClear, HandleMap, HandleSearch,
         HandleDumpBench, HandleTextDump, OnlyIndexes, Served, Fails
<1>2. CASE server[c] = "process" /\ Up /\ Execute(c, Received(c))
  <2>1. /\ Keeps(c) /\ Len(executed[c]) < Len(asked[c])
        /\ executed' = [executed EXCEPT ![c] = Append(@, asked[c][Len(executed[c]) + 1])]
    BY <1>1, <1>2, ExecuteKeeps
  <2>2. UNCHANGED <<client, up, asked, answers>>
    BY <1>2 DEF Execute, clientEnd
  <2>3. Executed(c)
    BY <1>2, <2>1, <2>2 DEF Executed
  <2>4. BlamesLeft(c) /\ LeftStays(c)
    BY <2>2 DEF BlamesLeft, LeftStays
  <2> QED
    BY <2>1, <2>3, <2>4 DEF Effect
<1>3. CASE \E cause \in {"assertion", "division", "file"} : Exit(cause)
  <2>1. PICK cause \in {"assertion", "division", "file"} : Exit(cause)
    BY <1>3
  <2>2. Keeps(c) /\ Stopped
    BY <1>1, <2>1, ExitKeeps
  <2>3. up' # "peer" /\ UNCHANGED <<client, asked, answers>>
    BY <2>1 DEF Exit, clientEnd, record
  <2>4. BlamesLeft(c) /\ LeftStays(c)
    BY <2>3 DEF BlamesLeft, LeftStays
  <2> QED
    BY <2>2, <2>4 DEF Effect
<1>4. CASE IF OnStream(c) THEN PlainPeerIsGone(c) ELSE PeerIsGone(c)
  <2>1. Exit("peer")
    BY <1>4 DEF PlainPeerIsGone, PeerIsGone
  <2>2. Keeps(c) /\ Stopped
    BY <1>1, <2>1, ExitKeeps
  <2>3. UNCHANGED <<client, asked, answers>>
    BY <2>1 DEF Exit, clientEnd, record
  <2>4. client[c] = "left" /\ Len(answers[c]) < Len(asked[c])
    BY <1>4, PeerLeft
  <2>5. BlamesLeft(c) /\ LeftStays(c)
    BY <2>3, <2>4 DEF BlamesLeft, LeftStays
  <2> QED
    BY <2>2, <2>5 DEF Effect
<1>5. CASE \/ ServerReadLength(c) \/ ServerWriteLength(c)
           \/ IF OnStream(c) THEN PlainServerReadBody(c) \/ PlainServerWriteBody(c) \/ ReadsForEver(c)
              ELSE ServerReadBody(c) \/ ServerWriteBody(c) \/ EndOfClient(c)
  <2>1. Keeps(c)
    BY <1>1, <1>5, ServerReadLengthKeeps, ServerWriteLengthKeeps, ServerReadBodyKeeps,
       ServerWriteBodyKeeps, EndKeeps
  <2>2. UNCHANGED <<client, up, asked, executed, answers>>
    BY <1>5 DEF ServerReadLength, ServerWriteLength, PlainServerReadBody, PlainServerWriteBody,
                ReadsForEver, ServerReadBody, ServerWriteBody, EndOfClient, clientEnd, record
  <2>3. Silent(c)
    BY <2>2 DEF Silent, Gone
  <2>4. BlamesLeft(c) /\ LeftStays(c)
    BY <2>2 DEF BlamesLeft, LeftStays
  <2> QED
    BY <2>1, <2>3, <2>4 DEF Effect
<1>6. EnclaveTransfers(c) =>
        \/ ServerReadLength(c) \/ ServerWriteLength(c)
        \/ IF OnStream(c) THEN PlainServerReadBody(c) \/ PlainServerWriteBody(c) \/ ReadsForEver(c)
           ELSE ServerReadBody(c) \/ ServerWriteBody(c) \/ EndOfClient(c)
        \/ IF OnStream(c) THEN PlainPeerIsGone(c) ELSE PeerIsGone(c)
  BY DEF EnclaveTransfers, PlainServerStep, ServerStep, OnStream
<1> QED
  BY <1>2, <1>3, <1>4, <1>5, <1>6, ServesOrExits DEF EnclaveActs

----------------------------------------------------------------------------
(* The invariant *)

\* Between the calls of every client, with nothing on the wires.
LEMMA InitInvariant ==
  ASSUME Init
  PROVE  IInv
<1>1. ChannelInit /\ settings \in Settings
  BY DEF Init
<1>2. Typed
  <2>1. ChannelTypeOK
    BY <1>1 DEF ChannelInit, ChannelTypeOK
  <2>2. RecordTypeOK /\ BuffersTypeOK
    BY <1>1 DEF ChannelInit, Empty, RecordTypeOK, BuffersTypeOK
  <2> QED
    BY <1>1, <2>1, <2>2 DEF Typed
<1>3. ASSUME NEW c \in Clients
      PROVE  CallInv(c)
  <2>1. /\ client[c] = "idle" /\ server[c] = "read_length"
        /\ toServer[c] = <<>> /\ toClient[c] = <<>> /\ res[c] = <<>>
        /\ asked[c] = <<>> /\ executed[c] = <<>> /\ answers[c] = <<>>
    BY <1>1 DEF ChannelInit, Empty
  <2>2. BetweenCalls(c)
    BY <2>1 DEF BetweenCalls
  <2>3. DOMAIN executed[c] = {}
    BY <2>1
  <2> QED
    BY <2>1, <2>2, <2>3 DEF CallInv, InPhase
<1>4. ClosingIsHarmless
  BY <1>1 DEF ChannelInit, ClosingIsHarmless
<1> QED
  BY <1>2, <1>3, <1>4 DEF IInv

\* One client's step, or one of its thread, is all that happens.
LEMMA NextEffect ==
  ASSUME IInv, Next
  PROVE  \E c \in Clients : Keeps(c) /\ Effect(c)
<1>1. PICK c \in Clients : ClientActs(c) \/ EnclaveActs(c) \/ Leaves(c)
  BY DEF Next
<1>2. Typed /\ CallInv(c)
  BY DEF IInv
<1>3. Keeps(c) /\ Effect(c)
  BY <1>1, <1>2, ClientStepEffect, EnclaveStepEffect
<1> QED
  BY <1>3

\* Nor does another connection notice, or the enclave stop for one that closed.
LEMMA NextKeeps ==
  ASSUME IInv, NEW c \in Clients, Keeps(c), Effect(c)
  PROVE  IInv'
<1>1. Typed' /\ CallInv(c)' /\ \A d \in Clients \ {c} : Same(d)
  BY DEF Keeps
<1>2. ASSUME NEW d \in Clients
      PROVE  CallInv(d)'
  <2>1. CASE d = c
    BY <1>1, <2>1
  <2>2. CASE d # c
    <3>1. CallInv(d) /\ Same(d)
      BY <1>1, <2>2 DEF IInv
    <3> QED
      BY <3>1, Frame
  <2> QED
    BY <2>1, <2>2
<1>3. ClosingIsHarmless'
  <2>1. SUFFICES ASSUME up' = "peer"
                 PROVE  \E d \in Clients :
                          client'[d] = "left" /\ Len(answers'[d]) < Len(asked'[d])
    BY DEF ClosingIsHarmless
  <2>2. BlamesLeft(c) /\ LeftStays(c)
    BY DEF Effect
  <2>3. PICK d \in Clients : client[d] = "left" /\ Len(answers[d]) < Len(asked[d])
    BY <2>1, <2>2 DEF BlamesLeft, IInv, ClosingIsHarmless
  <2>4. client'[d] = "left" /\ asked'[d] = asked[d] /\ answers'[d] = answers[d]
    BY <1>1, <2>2, <2>3 DEF LeftStays, Same
  <2> QED
    BY <2>3, <2>4
<1> QED
  BY <1>1, <1>2, <1>3 DEF IInv

\* Where nothing changes, it stays.
LEMMA StutterKeeps ==
  ASSUME IInv, UNCHANGED sessionVars
  PROVE  IInv'
<1>1. UNCHANGED <<client, writing, reading, res, server, in_buffer, to_read, out, toServer, toClient,
                  up, asked, executed, answers, settings>>
  BY DEF sessionVars, channel, clientEnd, serverEnd, wires, record
<1>2. Typed'
  BY <1>1 DEF IInv, Typed, ChannelTypeOK, RecordTypeOK, BuffersTypeOK
<1>3. \A d \in Clients : Same(d)
  BY <1>1 DEF Same
<1>4. ASSUME NEW d \in Clients
      PROVE  CallInv(d)'
  BY <1>3, Frame DEF IInv
<1>5. ClosingIsHarmless'
  BY <1>1 DEF IInv, ClosingIsHarmless
<1> QED
  BY <1>2, <1>4, <1>5 DEF IInv

\* At every point of every session, with whoever has left, the bytes of each
\* connection are where the phase of its call (iee_comm, handle) has them.
THEOREM SessionInvariantHolds == Spec => []IInv
<1>1. Init => IInv
  BY InitInvariant
<1>2. IInv /\ [Next]_sessionVars => IInv'
  BY NextEffect, NextKeeps, StutterKeeps
<1> QED
  BY <1>1, <1>2, PTL DEF Spec

\* The types of both ends of every connection.
THEOREM ChannelTypes == Spec => []ChannelTypeOK
<1>1. IInv => ChannelTypeOK
  BY DEF IInv, Typed
<1> QED
  BY <1>1, SessionInvariantHolds, PTL

\* What handle hands to process_message is the whole of the request its client made
\* last, though read_ssl loses what it leaves of a record.
THEOREM RequestsArrive == Spec => []RequestsArriveWhole
<1>1. ASSUME IInv
      PROVE  RequestsArriveWhole
  <2>1. SUFFICES ASSUME NEW c \in Clients, server[c] = "process"
                 PROVE  /\ Decoded(in_buffer[c], RequestLength) = <<asked[c][Len(asked[c])]>>
                        /\ toServer[c] = <<>>
    BY DEF RequestsArriveWhole
  <2>2. Typed /\ CallInv(c)
    BY <1>1 DEF IInv
  <2>3. /\ toServer[c] = <<>> /\ in_buffer[c] = Bytes(Current(c), Size(c))
        /\ Size(c) \in Nat \ {0} /\ Received(c) = Current(c)
    BY <2>1, <2>2, RequestIsWhole
  <2>4. in_buffer[c] # <<>>
    <3>1. Len(Bytes(Current(c), Size(c))) = Size(c)
      BY <2>3 DEF Bytes
    <3>2. Len(<<>>) = 0
      OBVIOUS
    <3> QED
      BY <2>3, <3>1, <3>2
  <2>5. in_buffer[c][1][1] = Current(c) /\ in_buffer[c] = Bytes(Current(c), RequestLength(Current(c)))
    BY <2>3 DEF Received, Size
  <2>6. Decoded(in_buffer[c], RequestLength) = <<Current(c)>>
    BY <2>4, <2>5 DEF Decoded
  <2> QED
    BY <2>3, <2>6 DEF Current
<1> QED
  BY <1>1, SessionInvariantHolds, PTL

\* A client that closes its connection after its last call never has the enclave
\* exit, whatever the others do.
THEOREM ClosingDoesNoHarm == Spec => []ClosingIsHarmless
<1>1. IInv => ClosingIsHarmless
  BY DEF IInv
<1> QED
  BY <1>1, SessionInvariantHolds, PTL

----------------------------------------------------------------------------
(* The refinement *)

gone == [c \in Clients |-> Gone(c)]

\* Who is gone after a step.
LEMMA GoneAfter ==
  ASSUME Typed, NEW c \in Clients, \A d \in Clients \ {c} : Same(d)
  PROVE  /\ (Gone(c)' <=> Gone(c)) => gone' = gone
         /\ Gone(c)' => gone' = [gone EXCEPT ![c] = TRUE]
<1>1. \A d \in Clients \ {c} : Gone(d)' <=> Gone(d)
  BY DEF Same, Gone
<1>2. \A d \in Clients : Gone(d)' \in BOOLEAN /\ Gone(d) \in BOOLEAN
  BY DEF Gone
<1>3. ASSUME Gone(c)' <=> Gone(c)
      PROVE  gone' = gone
  <2>1. \A d \in Clients : Gone(d)' = Gone(d)
    BY <1>1, <1>2, <1>3
  <2> QED
    BY <2>1, Zenon DEF gone
<1>4. ASSUME Gone(c)'
      PROVE  gone' = [gone EXCEPT ![c] = TRUE]
  <2>1. \A d \in Clients : Gone(d)' = IF d = c THEN TRUE ELSE Gone(d)
    BY <1>1, <1>2, <1>4
  <2>2. gone' = [d \in Clients |-> IF d = c THEN TRUE ELSE Gone(d)]
    BY <2>1, Zenon DEF gone
  <2> QED
    BY <2>2 DEF gone
<1> QED
  BY <1>3, <1>4

\* What a step is of RemoteCall.
LEMMA EffectIsCall ==
  ASSUME Typed, NEW c \in Clients, Keeps(c), Effect(c)
  PROVE  [Calls!Next]_(Calls!vars)
<1>1. /\ (Gone(c)' <=> Gone(c)) => gone' = gone
      /\ Gone(c)' => gone' = [gone EXCEPT ![c] = TRUE]
  BY GoneAfter DEF Keeps
<1>2. gone[c] = Gone(c)
  BY DEF gone
<1>3. CASE Silent(c)
  <2>1. UNCHANGED <<asked, executed, answers, gone, Up>>
    BY <1>1, <1>3 DEF Silent, Up
  <2> QED
    BY <2>1 DEF Calls!vars, gone
<1>4. CASE Called(c)
  <2>1. Calls!Call(c)
    BY <1>1, <1>2, <1>4 DEF Called, Calls!Call, Up, gone
  <2> QED
    BY <2>1 DEF Calls!Next
<1>5. CASE Executed(c)
  <2>1. UNCHANGED gone
    BY <1>1, <1>5 DEF Executed, Gone
  <2>2. executed' = [executed EXCEPT ![c] = Append(@, asked[c][Len(@) + 1])]
    BY <1>5 DEF Executed
  <2>3. Calls!Execute(c)
    BY <1>5, <2>1, <2>2 DEF Executed, Calls!Execute, Up, gone
  <2> QED
    BY <2>3 DEF Calls!Next
<1>6. CASE ReturnedTo(c)
  <2>1. UNCHANGED gone /\ ~gone[c]
    BY <1>1, <1>2, <1>6 DEF ReturnedTo
  <2>2. Calls!Return(c)
    BY <1>6, <2>1 DEF ReturnedTo, Returns, Calls!Return, Up, gone
  <2> QED
    BY <2>2 DEF Calls!Next
<1>7. CASE Left(c)
  <2>1. Calls!Leave(c)
    BY <1>1, <1>7 DEF Left, Calls!Leave, Up, gone
  <2> QED
    BY <2>1 DEF Calls!Next
<1>8. CASE Stopped
  <2>1. UNCHANGED gone
    BY <1>8, <1>1 DEF Stopped, Gone
  <2>2. Calls!Stop
    BY <1>8, <2>1 DEF Stopped, Calls!Stop, Up, gone
  <2> QED
    BY <2>2 DEF Calls!Next
<1> QED
  BY <1>3, <1>4, <1>5, <1>6, <1>7, <1>8 DEF Effect

\* Every call of iee_comm is executed once, in its order, and answered with its own
\* answer, however the messages are cut and whoever leaves meanwhile.
THEOREM SessionImplementsRemoteCall == Spec => CallsAreExecutedOnce
<1>1. Init => Calls!Init
  <2>1. SUFFICES ASSUME Init PROVE Calls!Init
    OBVIOUS
  <2>2. /\ client = [c \in Clients |-> "idle"] /\ up = "up"
        /\ asked = Empty /\ executed = Empty /\ answers = Empty
    BY <2>1 DEF Init, ChannelInit
  <2>3. ASSUME NEW c \in Clients
        PROVE  Gone(c) = FALSE
    <3>1. client[c] = "idle"
      BY <2>2
    <3>2. ~Gone(c)
      BY <3>1 DEF Gone
    <3>3. Gone(c) \in BOOLEAN
      BY DEF Gone
    <3> QED
      BY <3>2, <3>3, Zenon
  <2>4. [c \in Clients |-> Gone(c)] = [c \in Clients |-> FALSE]
    BY <2>3, Zenon
  <2>5. Up = TRUE
    BY <2>2 DEF Up
  <2> QED
    BY <2>2, <2>4, <2>5 DEF Calls!Init, Empty
<1>2. IInv /\ [Next]_sessionVars => [Calls!Next]_(Calls!vars)
  <2>1. SUFFICES ASSUME IInv, [Next]_sessionVars
                 PROVE  [Calls!Next]_(Calls!vars)
    OBVIOUS
  <2>2. CASE Next
    <3>1. PICK c \in Clients : Keeps(c) /\ Effect(c)
      BY <2>1, <2>2, NextEffect
    <3> QED
      BY <2>1, <3>1, EffectIsCall DEF IInv
  <2>3. CASE UNCHANGED sessionVars
    <3>1. UNCHANGED <<client, up, asked, executed, answers>>
      BY <2>3 DEF sessionVars, channel, clientEnd, record
    <3>2. UNCHANGED <<gone, Up>>
      BY <3>1 DEF gone, Gone, Up
    <3> QED
      BY <3>1, <3>2 DEF Calls!vars, gone
  <2> QED
    BY <2>1, <2>2, <2>3
<1> QED
  BY <1>1, <1>2, SessionInvariantHolds, PTL DEF Spec, CallsAreExecutedOnce, Calls!Spec
=============================================================================
