-------------------------- MODULE MultimodalQuery --------------------------
(***************************************************************************)
(* The multimodal search (MISEN): the client makes a text query of a file  *)
(* of tags and sends it with an image's descriptors                        *)
(* (Framework/src/Client/misen_tests.cpp); the enclave searches its text   *)
(* index and its image index and joins what they return                    *)
(* (ImageSearch/src/trusted.cpp, OP_MISEN_QUERY).                          *)
(*                                                                         *)
(* The text search is TextIndex's.  Of the image search, which VisualIndex *)
(* models, only the response matters: any images, with any scores.         *)
(***************************************************************************)
EXTENDS TextIndex

CONSTANTS TagFiles,     \* the files of tags, each the sequence of its lines
          Images,       \* the images that may be found, which are documents too
          MaxScore,     \* bound: of a score
          MaxJoined     \* the documents that a multimodal search returns at most

ASSUME MultimodalAssumption ==
    /\ {MaxScore, MaxJoined} \subseteq Nat
    /\ "empty" \in Forms /\ TagFiles \subseteq Seq(Forms)
    /\ IsFiniteSet(Images)

VARIABLES multimodal,   \* is the search that is at pc a multimodal one?
          response      \* [n, records, length]: the response of it, or None

joint == <<multimodal, response>>

RecordLength == 12      \* an unsigned and a double
HeaderLength == 4       \* the number of the records, an unsigned

MisenInit == Init /\ multimodal = FALSE /\ response = None

----------------------------------------------------------------------------
(* The query *)

\* query_from_file: a tag is what is left of a line without its last character.
\* Without any tag, the word is "empty".
query_from_file(tags) ==
    IF tags = <<>> THEN <<"empty">>
    ELSE <<Head(tags)>> \o FlattenSeq([i \in 1 .. Len(tags) - 1 |->
                               <<" ", "|", "|", " ", tags[i + 1]>>])

MisenSearch == /\ Search({query_from_file(tags) : tags \in TagFiles})
               /\ multimodal' = TRUE
               /\ UNCHANGED response

----------------------------------------------------------------------------
(* The join *)

\* The scores the text search gives: those of a query of several words are read
\* from freed memory.
TextScores == IF Len(rpn) > 1 THEN [ToSet(answer) -> 0 .. MaxScore]
              ELSE {[d \in ToSet(answer) |-> Score(d)]}

ImageScores == UNION {[found -> 0 .. MaxScore] : found \in SUBSET Images}

\* 1 / score^2, in units of 1 / (MaxFrequency * MaxScore)^2; of 0 it is infinite.
Unit == (MaxFrequency * MaxScore) ^ 2
ISR(score) == IF score = 0 THEN 10 * Unit ELSE Unit \div (score * score)

Joint(text, image, d) ==
    CASE d \in DOMAIN text \cap DOMAIN image -> 2 * (ISR(text[d]) + ISR(image[d]))
      [] d \in DOMAIN text \ DOMAIN image -> ISR(text[d])
      [] OTHER -> ISR(image[d])

Least(S) == CHOOSE n \in S : \A m \in S : n <= m

\* Wrong: a step of the structure that the scores are kept in.
StridePadded(n) == 16

\* How far the loop moves after a record: by the number of records.
Stride(n) == n

\* The response is a buffer for n records; the loop writes at least one record if
\* there is a document at all, and n of them otherwise.
Join ==
    /\ pc = "answer" /\ multimodal /\ response = None
    /\ \E text \in TextScores, image \in ImageScores :
           LET all_docs == DOMAIN text \cup DOMAIN image
               n == Least({Len(answer), Cardinality(DOMAIN image), MaxJoined})
               written == Least({Cardinality(all_docs), IF n = 0 THEN 1 ELSE n})
               Before(d, e) == Joint(text, image, d) >= Joint(text, image, e)
           IN  \E ranking \in First(written, all_docs, Before) :
                   response' = [n |-> n,
                                length |-> HeaderLength + n * RecordLength,
                                records |-> [i \in 1 .. written |->
                                    [at |-> HeaderLength + (i - 1) * Stride(n),
                                     doc_id |-> ranking[i]]]]
    /\ UNCHANGED <<vars, multimodal>>

MisenAnswered ==
    /\ multimodal /\ response # None
    /\ Answered
    /\ multimodal' = FALSE /\ response' = None

----------------------------------------------------------------------------

\* What goes on by itself once it has begun.
MisenServe == Serve /\ UNCHANGED joint
MisenProceed ==
    \/ /\ SendBatch \/ NextDocument \/ Updated \/ RequestBatch \/ ReceiveBatch \/ Evaluate \/ (~multimodal /\ Answered)
       /\ UNCHANGED joint
    \/ Join \/ MisenAnswered

MisenNext == \/ (Begin \/ Quit) /\ UNCHANGED joint
             \/ MisenSearch
             \/ MisenProceed \/ MisenServe

MisenVars == <<vars, joint>>

MisenSpec == MisenInit /\ [][MisenNext]_MisenVars

----------------------------------------------------------------------------
(* Properties *)

MisenTypeOK ==
    /\ TypeOK
    /\ multimodal \in BOOLEAN
    /\ response \in {None} \cup
           [n : 0 .. MaxJoined, length : Nat, records : Seq([at : Nat, doc_id : Docs \cup Images])]

\* When both searches found something there is a document for each of the n places,
\* and no record is written past the end of the response, however far apart.
ResponseIsWhole ==
    response # None /\ response.n > 0 =>
        /\ Len(response.records) = response.n
        /\ \A i \in DOMAIN response.records : response.records[i].at + RecordLength <= response.length

\* The client reads the i-th record at the place of i - 1 whole records.
RankingIsRead ==
    response # None /\ response.n > 0 =>
        \A i \in 1 .. response.n :
            response.records[i].at = HeaderLength + (i - 1) * RecordLength
=============================================================================
