----------------------------- MODULE MisenProofs -----------------------------
(***************************************************************************)
(* Proofs about MultimodalQuery: a multimodal search keeps the invariant   *)
(* of the text index, so that what is proved of the index holds of it too, *)
(* and no record is written past the end of its response.                  *)
(***************************************************************************)
EXTENDS MultimodalQuery, TextProofs

\* The query that a file of tags makes is a sequence of lexemes.
LEMMA QueryFromFileIs ==
    ASSUME NEW tags \in TagFiles
    PROVE  query_from_file(tags) \in Seq(Parser!Lexemes)
<1> DEFINE L == Parser!Lexemes
           Part(i) == <<" ", "|", "|", " ", tags[i + 1]>>
           parts == [i \in 1 .. Len(tags) - 1 |-> Part(i)]
<1>1. "empty" \in Forms /\ tags \in Seq(Forms)
  BY MultimodalAssumption
<1>2. "empty" \in L /\ " " \in L /\ "|" \in L /\ \A f \in Forms : f \in L
  BY <1>1, Zenon DEF Parser!Lexemes, Parser!Operators
<1>3. query_from_file(tags) = IF tags = <<>> THEN <<"empty">> ELSE <<Head(tags)>> \o FlattenSeq(parts)
  BY Zenon DEF query_from_file
<1> HIDE DEF L
<1>4. \A a \in L, b \in L, c \in L : <<a, b, b, a, c>> \in Seq(L) /\ <<c>> \in Seq(L)
  OBVIOUS
<1>5. CASE tags = <<>>
  BY <1>2, <1>3, <1>4, <1>5, Zenon DEF L
<1>6. CASE tags # <<>>
  <2>1. Len(tags) \in Nat \ {0} /\ Head(tags) \in Forms
    BY <1>1, <1>6, EmptySeq, LenProperties, HeadTailProperties
  <2>2. ASSUME NEW i \in 1 .. Len(tags) - 1 PROVE tags[i + 1] \in L
    <3>1. i + 1 \in 1 .. Len(tags)
      BY <2>1
    <3>2. tags[i + 1] \in Forms
      BY <1>1, <3>1, ElementOfSeq
    <3>3. QED
      BY <1>2, <3>2, Zenon
  <2>3. \A i \in 1 .. Len(tags) - 1 : Part(i) \in Seq(L)
    BY <1>2, <1>4, <2>2, Zenon
  <2> HIDE DEF Part
  <2>4. parts \in Seq(Seq(L))
    <3> DEFINE P == Seq(L)
    <3> HIDE DEF P
    <3>1. parts \in [1 .. Len(tags) - 1 -> P] /\ Len(tags) - 1 \in Nat
      BY <2>1, <2>3 DEF P
    <3> HIDE DEF parts
    <3>2. parts \in Seq(P)
      BY <3>1, IsASeq
    <3>3. QED
      BY <3>2 DEF P
  <2> HIDE DEF parts
  <2>5. FlattenSeq(parts) \in Seq(L)
    BY <2>4, FlattenIsSequence
  <2>6. <<Head(tags)>> \in Seq(L)
    BY <1>2, <1>4, <2>1, Zenon
  <2>7. <<Head(tags)>> \o FlattenSeq(parts) \in Seq(L)
    BY <2>5, <2>6, ConcatProperties
  <2>8. QED
    BY <1>3, <1>6, <2>7, Zenon DEF L
<1>7. QED
  BY <1>5, <1>6

\* The steps of the text index, and those of a multimodal search, keep its invariant.
LEMMA MisenNextIInv ==
    ASSUME IInv, [MisenNext]_MisenVars
    PROVE  IInv'
<1>1. CASE (Begin \/ Quit) /\ UNCHANGED joint
  BY <1>1, NextIInv DEF Next
<1>2. CASE MisenSearch
  <2> DEFINE Q == {query_from_file(tags) : tags \in TagFiles}
  <2>1. \A text \in Q : text \in Seq(Parser!Lexemes)
    BY QueryFromFileIs
  <2>2. Search(Q)
    BY <1>2 DEF MisenSearch
  <2> HIDE DEF Q
  <2>3. Q \in SUBSET Seq(Parser!Lexemes)
    BY <2>1
  <2>4. QED
    BY <2>2, <2>3, SearchIIInv
<1>3. CASE MisenProceed
  <2>1. CASE SendBatch \/ NextDocument \/ Updated \/ RequestBatch \/ ReceiveBatch \/ Evaluate \/ Answered
    BY <2>1, NextIInv DEF Next, Proceed
  <2>2. CASE Join
    BY <2>2, NextIInv DEF Join
  <2>3. CASE MisenAnswered
    BY <2>3, NextIInv DEF MisenAnswered, Next, Proceed
  <2>4. QED
    BY <1>3, <2>1, <2>2, <2>3 DEF MisenProceed
<1>4. CASE MisenServe
  BY <1>4, NextIInv DEF MisenServe, Next
<1>5. CASE UNCHANGED MisenVars
  BY <1>5, NextIInv DEF MisenVars
<1>6. QED
  BY <1>1, <1>2, <1>3, <1>4, <1>5 DEF MisenNext

\* A multimodal search takes the same steps on the text index as a search: the index's
\* invariant holds, and with it what was proved from it (trusted.cpp: OP_MISEN_QUERY).
THEOREM MisenKeepsIndex ==
    MisenSpec => [](IInv /\ CountedArePosted /\ EveryPostingOnce /\ BestAreReturned /\ StorageStaysUp
                   /\ SearchMeansQuery /\ ArticlesKeepTheirWords)
<1>1. MisenInit => IInv
  BY InitIInv DEF MisenInit
<1>2. IInv /\ [MisenNext]_MisenVars => IInv'
  BY MisenNextIInv
<1>3. IInv => CountedArePosted /\ EveryPostingOnce /\ BestAreReturned /\ StorageStaysUp
              /\ SearchMeansQuery /\ ArticlesKeepTheirWords
  BY InvariantPosted, InvariantOnce, InvariantBest, InvariantStaysUp, InvariantMeans, InvariantArticles
<1>4. QED
  BY <1>1, <1>2, <1>3, PTL DEF MisenSpec

----------------------------------------------------------------------------
(* The response *)

Responses == [n : 0 .. MaxJoined, length : Nat, records : Seq([at : Nat, doc_id : Docs \cup Images])]

LEMMA LeastIs ==
    ASSUME NEW S \in SUBSET Nat, S # {}
    PROVE  Least(S) \in S /\ \A m \in S : Least(S) <= m
BY LeastNatural DEF Least

\* A record that lies n bytes after the one before it ends within the buffer, as long as
\* there are no more records than one has bytes.
LEMMA RecordFits ==
    ASSUME NEW n \in 1 .. RecordLength, NEW i \in 1 .. n
    PROVE  (HeaderLength + (i - 1) * n) + RecordLength <= HeaderLength + n * RecordLength
<1>1. /\ RecordLength = 12 /\ HeaderLength = 4
  BY DEF RecordLength, HeaderLength
<1>2. (i - 1) * n \in Nat /\ (n - 1) * n \in Nat /\ (i - 1) * n <= (n - 1) * n
  BY <1>1
<1>3. (n - 1) * n + 12 <= n * 12
  <2>1. n = 1 \/ n = 2 \/ n = 3 \/ n = 4 \/ n = 5 \/ n = 6 \/ n = 7 \/ n = 8 \/ n = 9 \/ n = 10 \/ n = 11 \/ n = 12
    BY <1>1
  <2>2. QED
    BY <2>1
<1>4. QED
  BY <1>1, <1>2, <1>3

LEMMA JoinIs ==
    ASSUME IInv, Join
    PROVE  /\ response' \in Responses
           /\ Threshold <= RecordLength => ResponseIsWhole'
<1>1. /\ pc = "answer"
      /\ \E text \in TextScores, image \in ImageScores :
           LET all_docs == DOMAIN text \cup DOMAIN image
               n == Least({Len(answer), Cardinality(DOMAIN image), MaxJoined})
               written == Least({Cardinality(all_docs), IF n = 0 THEN 1 ELSE n})
               Before(d, e) == Joint(text, image, d) >= Joint(text, image, e)
           IN  \E ranking \in First(written, all_docs, Before) :
                   response' = [n |-> n,
                                length |-> HeaderLength + n * RecordLength,
                                records |-> [i \in 1 .. written |->
                                    [at |-> HeaderLength + (i - 1) * Stride(n),
                                     doc_id |-> ranking[i]]]]
  BY DEF Join
<1>2. PICK text \in TextScores, image \in ImageScores :
           LET all_docs == DOMAIN text \cup DOMAIN image
               n == Least({Len(answer), Cardinality(DOMAIN image), MaxJoined})
               written == Least({Cardinality(all_docs), IF n = 0 THEN 1 ELSE n})
               Before(d, e) == Joint(text, image, d) >= Joint(text, image, e)
           IN  \E ranking \in First(written, all_docs, Before) :
                   response' = [n |-> n,
                                length |-> HeaderLength + n * RecordLength,
                                records |-> [i \in 1 .. written |->
                                    [at |-> HeaderLength + (i - 1) * Stride(n),
                                     doc_id |-> ranking[i]]]]
  BY <1>1
<1> DEFINE all_docs == DOMAIN text \cup DOMAIN image
           n == Least({Len(answer), Cardinality(DOMAIN image), MaxJoined})
           written == Least({Cardinality(all_docs), IF n = 0 THEN 1 ELSE n})
<1>3. PICK ranking \in [1 .. written -> all_docs] :
          response' = [n |-> n,
                       length |-> HeaderLength + n * RecordLength,
                       records |-> [i \in 1 .. written |->
                           [at |-> HeaderLength + (i - 1) * n, doc_id |-> ranking[i]]]]
  BY <1>2 DEF First, Stride
<1>4. DOMAIN text = ToSet(answer) /\ DOMAIN image \in SUBSET Images
  BY DEF TextScores, ImageScores
<1>5. /\ answer \in Seq(Docs) /\ IsInjective(answer) /\ Len(answer) \in 0 .. Threshold
      /\ Len(answer) \in Nat /\ DOMAIN answer = 1 .. Len(answer)
  <2>1. answer \in Best(result) /\ result \in Seq(Docs)
    BY <1>1 DEF IInv, TypeOK, ResultInv
  <2>2. QED
    BY <2>1, BestIs, LenProperties
<1>6. /\ IsFiniteSet(ToSet(answer)) /\ Cardinality(ToSet(answer)) = Len(answer)
      /\ ToSet(answer) \subseteq Docs
  <2>1. IsFiniteSet(1 .. Len(answer)) /\ Cardinality(1 .. Len(answer)) = Len(answer)
    <3>1. 1 \in Int /\ Len(answer) \in Int
          /\ (IF 1 > Len(answer) THEN 0 ELSE Len(answer) - 1 + 1) = Len(answer)
      BY <1>5
    <3>2. QED
      BY <3>1, FS_Interval
  <2>2. answer \in Bijection(1 .. Len(answer), ToSet(answer))
    BY <1>5 DEF Bijection, Injection, Surjection, IsInjective, ToSet
  <2>3. ExistsBijection(1 .. Len(answer), ToSet(answer))
    BY <2>2 DEF ExistsBijection
  <2>4. ToSet(answer) \subseteq Docs
    BY <1>5, ElementOfSeq DEF ToSet
  <2>5. QED
    BY <2>1, <2>3, <2>4, FS_Bijection
<1>7. IsFiniteSet(DOMAIN image) /\ Cardinality(DOMAIN image) \in Nat
  BY <1>4, MultimodalAssumption, FS_Subset, FS_CardinalityType
<1>8. IsFiniteSet(all_docs) /\ Cardinality(all_docs) \in Nat /\ Len(answer) <= Cardinality(all_docs)
      /\ all_docs \subseteq Docs \cup Images
  <2>1. IsFiniteSet(all_docs)
    BY <1>4, <1>6, <1>7, FS_Union
  <2>2. ToSet(answer) \in SUBSET all_docs
    BY <1>4
  <2>3. Cardinality(ToSet(answer)) <= Cardinality(all_docs)
    BY <2>1, <2>2, FS_Subset
  <2>4. QED
    BY <1>4, <1>6, <2>1, <2>3, FS_CardinalityType
<1>9. /\ n \in Nat /\ n <= Len(answer) /\ n <= MaxJoined /\ n \in 0 .. MaxJoined
  <2>1. MaxJoined \in Nat
    BY MultimodalAssumption
  <2>2. {Len(answer), Cardinality(DOMAIN image), MaxJoined} \in SUBSET Nat
    BY <1>5, <1>7, <2>1
  <2>3. /\ n \in {Len(answer), Cardinality(DOMAIN image), MaxJoined}
        /\ \A m \in {Len(answer), Cardinality(DOMAIN image), MaxJoined} : n <= m
    BY <2>2, LeastIs
  <2> HIDE DEF n
  <2>4. QED
    BY <2>1, <2>2, <2>3
<1> HIDE DEF n, all_docs
<1>10. /\ written \in Nat
       /\ n > 0 => written = n
  <2> DEFINE S == {Cardinality(all_docs), IF n = 0 THEN 1 ELSE n}
  <2>1. S \in SUBSET Nat /\ S # {}
    BY <1>8, <1>9
  <2>2. written \in S /\ \A m \in S : written <= m
    BY <2>1, LeastIs
  <2>3. QED
    BY <1>5, <1>8, <1>9, <2>1, <2>2
<1> HIDE DEF written
<1>11. RecordLength = 12 /\ HeaderLength = 4
  BY DEF RecordLength, HeaderLength
<1>12. response' \in Responses
  <2> DEFINE R == [at : Nat, doc_id : Docs \cup Images]
             records == [i \in 1 .. written |->
                           [at |-> HeaderLength + (i - 1) * n, doc_id |-> ranking[i]]]
  <2>1. HeaderLength + n * RecordLength \in Nat
    BY <1>9, <1>11
  <2>2. ASSUME NEW i \in 1 .. written
        PROVE  HeaderLength + (i - 1) * n \in Nat /\ ranking[i] \in Docs \cup Images
    <3>1. i - 1 \in Nat
      BY <1>10
    <3>2. \A a \in Nat : a * n \in Nat
      BY <1>9
    <3>3. (i - 1) * n \in Nat
      BY <3>1, <3>2
    <3>4. QED
      BY <1>8, <1>11, <3>3
  <2>3. records \in [1 .. written -> R]
    BY <2>2
  <2> HIDE DEF R, records
  <2>4. records \in Seq(R)
    BY <1>10, <2>3, IsASeq
  <2>5. response' = [n |-> n, length |-> HeaderLength + n * RecordLength, records |-> records]
    BY <1>3 DEF records
  <2>6. QED
    BY <1>9, <2>1, <2>4, <2>5 DEF Responses, R
<1>13. ASSUME Threshold <= RecordLength, response'.n > 0
       PROVE  /\ Len(response'.records) = response'.n
              /\ \A i \in DOMAIN response'.records :
                    response'.records[i].at + RecordLength <= response'.length
  <2>1. n > 0 /\ written = n /\ n \in 1 .. RecordLength
    BY <1>3, <1>5, <1>9, <1>10, <1>11, <1>13, ConstantTypes
  <2>2. DOMAIN response'.records = 1 .. n /\ response'.n = n
    BY <1>3, <2>1
  <2>3. Len(response'.records) = n
    BY <1>9, <1>12, <2>2, LenProperties DEF Responses
  <2>4. ASSUME NEW i \in 1 .. n
        PROVE  response'.records[i].at + RecordLength <= response'.length
    <3>1. response'.records[i].at = HeaderLength + (i - 1) * n /\ response'.length = HeaderLength + n * RecordLength
      BY <1>3, <2>1
    <3>2. QED
      BY <2>1, <3>1, RecordFits
  <2>5. QED
    BY <2>2, <2>3, <2>4
<1>14. QED
  BY <1>12, <1>13 DEF ResponseIsWhole

ResponseInv == /\ IInv
               /\ multimodal \in BOOLEAN /\ response \in {None} \cup Responses
               /\ Threshold <= RecordLength => ResponseIsWhole

LEMMA NextResponse ==
    ASSUME ResponseInv, [MisenNext]_MisenVars
    PROVE  ResponseInv'
<1>1. IInv'
  BY MisenNextIInv DEF ResponseInv
<1>2. CASE Join
  BY <1>1, <1>2, JoinIs DEF Join, ResponseInv
<1>3. CASE MisenAnswered
  BY <1>1, <1>3 DEF MisenAnswered, ResponseInv, ResponseIsWhole
<1>4. CASE MisenSearch
  BY <1>1, <1>4 DEF MisenSearch, ResponseInv, ResponseIsWhole
<1>5. CASE UNCHANGED joint
  BY <1>1, <1>5 DEF joint, ResponseInv, ResponseIsWhole
<1>6. QED
  BY <1>2, <1>3, <1>4, <1>5 DEF MisenNext, MisenProceed, MisenServe, MisenVars

LEMMA MisenInvariant == MisenSpec => []ResponseInv
<1>1. MisenInit => ResponseInv
  BY InitIInv DEF MisenInit, ResponseInv, ResponseIsWhole
<1>2. ResponseInv /\ [MisenNext]_MisenVars => ResponseInv'
  BY NextResponse
<1>3. QED
  BY <1>1, <1>2, PTL DEF MisenSpec

\* The type invariant of the multimodal search.
THEOREM MisenTypeCorrect == MisenSpec => []MisenTypeOK
<1>1. ResponseInv => MisenTypeOK
  BY DEF ResponseInv, MisenTypeOK, IInv, Responses
<1>2. QED
  BY <1>1, MisenInvariant, PTL

\* As long as the text search returns no more documents than a record has bytes (it is 10
\* documents and 12 bytes: SseIee.cpp:642, trusted.cpp:825), a multimodal search for which
\* both searches found something fills its n places, and none of its records, which the loop
\* puts n bytes apart, reaches past the end of the response.
THEOREM NoRecordPastTheEnd ==
    ASSUME Threshold <= RecordLength
    PROVE  MisenSpec => []ResponseIsWhole
<1>1. ResponseInv => ResponseIsWhole
  BY DEF ResponseInv
<1>2. QED
  BY <1>1, MisenInvariant, PTL
=============================================================================
