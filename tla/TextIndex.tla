----------------------------- MODULE TextIndex -----------------------------
(***************************************************************************)
(* The text index (BISEN): the client's half                               *)
(* (Framework/src/Client/rbisen/SseClient.cpp, bisen_tests.cpp), the       *)
(* enclave's half (ImageSearch/src/rbisen/SseIee.cpp) and the storage      *)
(* service they use.                                                       *)
(*                                                                         *)
(* The client counts the documents of every word (W) and numbers the       *)
(* documents.  The n-th posting of a word is stored under a label computed *)
(* from the word and n: a query carries the counters, and the enclave asks *)
(* the storage for all their labels.  The keys are all zero, so a label is *)
(* the pair of a word and a counter, the same for every client.            *)
(*                                                                         *)
(* One client, whose program waits for the answer to a request before it   *)
(* makes the next; it, or the enclave, may end at any moment, and the      *)
(* counters with it.  The storage keeps its map, so that of this client's  *)
(* labels any may be there from clients before it (Earlier).               *)
(***************************************************************************)
EXTENDS Integers, SequencesExt

CONSTANTS Forms, Words, Stem, StopWords,
          Files,            \* the files the client may send
          Queries,          \* the queries it may make, sequences of lexemes
          MaxBatchUpdate,   \* MAX_BATCH_UPDATE
          MaxBatchSearch,   \* MAX_BATCH_SEARCH
          Threshold,        \* documents returned at most
          MaxDocs,          \* bound: documents of a client
          MaxFrequency,     \* bound: of a word in a document
          Earlier,          \* the maps that clients before this one may have left
          None

Docs == 0 .. MaxDocs - 1
Labels == Words \X Docs
Values == Labels \X Docs \X (1 .. MaxFrequency)   \* the label, the document, the frequency
Connections == {"client"}   \* the one of this client: server_socket

ASSUME TextAssumption ==
    /\ Stem \in [Forms -> Words] /\ StopWords \subseteq Forms
    /\ (Forms \cup Words) \cap {"&", "|", "!", "(", ")", " "} = {}
    /\ {MaxBatchUpdate, MaxBatchSearch, Threshold} \subseteq Nat \ {0}
    /\ {MaxDocs, MaxFrequency} \subseteq Nat
    /\ IsFiniteSet(Words)
    /\ None \notin Values \cup (Docs \X (1 .. MaxFrequency))
    /\ Earlier \subseteq [Labels -> Values \cup {None}]

VARIABLES
    requests, replies, I, recorded, running,   \* the storage service
    W, nDocs,       \* the client's counters
    pc,             \* "new", "idle", what a request is at, or "off" when it has ended
    source,         \* the file of the update, or None
    messages,       \* update: the pairs of each document of the bulk, as far as not sent
    query, rpn,     \* search: the text, and its notation
    counter,        \* the counter of each token, 0 of an operator
    labels, label_pos,   \* the requests <<token, n>> in their order, those answered
    docs,           \* token -> its postings <<document, frequency>>, as far as read
    result,         \* what evaluate returned
    answer,         \* the documents returned, best first
    texts           \* history: the documents sent, each its words' frequencies

service == <<requests, replies, I, recorded, running>>
client == <<W, nDocs>>
update == <<source, messages>>
search == <<query, rpn, counter, labels, label_pos, docs, result, answer>>
vars == <<service, client, pc, update, search, texts>>

Storage == INSTANCE StorageService WITH Missing <- None
Parser == INSTANCE QueryParser WITH Malformed <- None
Evaluator == INSTANCE QueryEvaluator WITH Wrong <- None
Analyzer == INSTANCE KeywordExtractor

Document == [Words -> 0 .. MaxFrequency]

ASSUME InputsAssumption ==
    /\ \A file \in Files : /\ file \in Analyzer!File
                           /\ Analyzer!extractUniqueKeywords(file) \in Document
                           /\ Analyzer!extractUniqueKeywords_wiki(file) \in Seq(Document)
    /\ Queries \subseteq Seq(Parser!Lexemes)

NoWords == [w \in Words |-> 0]

Init == /\ \E map \in Earlier : Storage!InitWith(map)
        /\ W = NoWords /\ nDocs = 0
        /\ pc = "new"
        /\ source = None /\ messages = <<>>
        /\ query = <<>> /\ rpn = <<>> /\ counter = <<>>
        /\ labels = <<>> /\ label_pos = 0 /\ docs = <<>>
        /\ result = None /\ answer = <<>>
        /\ texts = <<>>

UpdateOver == source' = None /\ messages' = <<>>
SearchOver == /\ query' = <<>> /\ rpn' = <<>> /\ counter' = <<>>
              /\ labels' = <<>> /\ label_pos' = 0 /\ docs' = <<>>
              /\ result' = None /\ answer' = <<>>

----------------------------------------------------------------------------
(* Beginning and end of a client *)

\* SseClient() and bisen_setup.  The storage keeps what it has.
Setup ==
    /\ pc = "new" /\ pc' = "idle"
    /\ Storage!Send("client", Storage!InitRequest)
    /\ UNCHANGED <<client, update, search, texts>>

\* W is not persisted.
End == /\ pc' = "off"
       /\ W' = NoWords /\ nDocs' = 0
       /\ UpdateOver /\ SearchOver
       /\ texts' = <<>>
       /\ UNCHANGED service

\* The client's program or the enclave ends.  What was sent is still delivered.
Quit == pc \notin {"new", "off"} /\ End

----------------------------------------------------------------------------
(* bisen_update: a file's documents in one bulk message *)

\* new_doc and generate_add_msg: a pair for every word of the k-th document.
PairsOf(documents, k) ==
    LET Before(w) == Cardinality({h \in 1 .. k - 1 : documents[h][w] > 0})
        words == SetToSeq({w \in Words : documents[k][w] > 0})
        Pair(w) == LET label == <<w, W[w] + Before(w)>> IN
            [label |-> label, value |-> <<label, nDocs + k - 1, documents[k][w]>>]
    IN  [i \in DOMAIN words |-> Pair(words[i])]

\* A document without words is numbered all the same, and sends nothing.
Update(file, documents) ==
    /\ pc = "idle"
    /\ nDocs + Len(documents) <= MaxDocs
    /\ pc' = "update" /\ source' = [file |-> file, first |-> nDocs]
    /\ messages' = [k \in DOMAIN documents |-> PairsOf(documents, k)]
    /\ W' = [w \in Words |-> W[w] + Cardinality({k \in DOMAIN documents : documents[k][w] > 0})]
    /\ nDocs' = nDocs + Len(documents)
    /\ texts' = texts \o documents
    /\ UNCHANGED <<service, search>>

UpdateNormal(file) == Update(file, <<Analyzer!extractUniqueKeywords(file)>>)
UpdateWiki(file) == Update(file, Analyzer!extractUniqueKeywords_wiki(file))

\* Wrong: one batch of a document and no more.
SendOneBatch ==
    /\ pc = "update" /\ messages # <<>> /\ Head(messages) # <<>>
    /\ LET pairs == Head(messages)
           batch_size == IF Len(pairs) < MaxBatchUpdate THEN Len(pairs) ELSE MaxBatchUpdate
       IN  Storage!Send("client", Storage!AddRequest(SubSeq(pairs, 1, batch_size)))
    /\ messages' = [messages EXCEPT ![1] = <<>>]
    /\ UNCHANGED <<client, pc, source, search, texts>>

\* One turn of update's loop in the enclave.
SendBatch ==
    /\ pc = "update" /\ messages # <<>> /\ Head(messages) # <<>>
    /\ LET pairs == Head(messages)
           batch_size == IF Len(pairs) < MaxBatchUpdate THEN Len(pairs) ELSE MaxBatchUpdate
           left == SubSeq(pairs, batch_size + 1, Len(pairs))
       IN  /\ Storage!Send("client", Storage!AddRequest(SubSeq(pairs, 1, batch_size)))
           /\ messages' = [messages EXCEPT ![1] = left]
    /\ UNCHANGED <<client, pc, source, search, texts>>

\* The end of update, and the next document of the bulk.
NextDocument ==
    /\ pc = "update" /\ messages # <<>> /\ Head(messages) = <<>>
    /\ messages' = Tail(messages)
    /\ UNCHANGED <<service, client, pc, source, search, texts>>

Updated ==
    /\ pc = "update" /\ messages = <<>>
    /\ pc' = "idle" /\ UpdateOver
    /\ UNCHANGED <<service, client, search, texts>>

----------------------------------------------------------------------------
(* bisen_search *)

\* Wrong: what was in the first place is overwritten.
ShuffledOver(new) == IF new = <<>> THEN <<>> ELSE <<Last(new)>> \o Tail(new)

\* The vector of labels.  The random place of the shuffle is always the first: a
\* new label takes it, and what was there moves to the end.
Shuffled(new) == IF new = <<>> THEN <<>> ELSE <<Last(new)>> \o Front(new)

\* Bound: of searches and dumps, one waits at the storage.
Waiting == \E m \in DOMAIN requests["client"] :
    requests["client"][m].op \in {"start_search", "dump_bench"}

\* The client parses one of the queries and adds the counters; the enclave reads it
\* and lists the labels.  Of a query that it cannot parse the client ends.
Search(queries) ==
    /\ pc = "idle" /\ ~Waiting
    /\ \E text \in queries : \E notation \in {Parser!parse(text)} :
           LET count == [i \in DOMAIN notation |->
                            IF notation[i] \in Words THEN W[notation[i]] ELSE 0]
           IN  IF notation = None THEN End
               ELSE /\ pc' = "search"
                    /\ query' = text /\ rpn' = notation /\ counter' = count
                    /\ labels' = Shuffled(FlattenSeq(
                           [i \in DOMAIN notation |-> [n \in 1 .. count[i] |-> <<i, n - 1>>]]))
                    /\ docs' = [i \in DOMAIN notation |-> [n \in 1 .. count[i] |-> None]]
                    /\ Storage!Send("client", Storage!StartSearchRequest)
                    /\ UNCHANGED <<client, update, label_pos, result, answer, texts>>

\* Wrong: the postings of a word are numbered from 1.
LabelAfter(request) == <<rpn[request[1]], request[2] + 1>>

\* The label under which the storage has the posting of a request.
LabelOf(request) == <<rpn[request[1]], request[2]>>

Batch == LET left == Len(labels) - label_pos
             batch_size == IF left < MaxBatchSearch THEN left ELSE MaxBatchSearch
         IN  SubSeq(labels, label_pos + 1, label_pos + batch_size)

\* get_docs_from_server, one turn of its loop: the request,
RequestBatch ==
    /\ pc = "search" /\ label_pos < Len(labels)
    /\ Storage!Send("client", Storage!SearchRequest([k \in DOMAIN Batch |-> LabelOf(Batch[k])]))
    /\ pc' = "await"
    /\ UNCHANGED <<client, update, search, texts>>

\* Wrong: every batch is taken for a full one.
ReceiveFullBatch ==
    /\ pc = "await"
    /\ Storage!Receive("client")
    /\ label_pos' = label_pos + MaxBatchSearch
    /\ pc' = "search"
    /\ UNCHANGED <<client, update, query, rpn, counter, labels, docs, result, answer, texts>>

\* and the answer, whose k-th value belongs to the k-th label.  Another label in
\* it (the storage has none) would end the process.
ReceiveBatch ==
    /\ pc = "await"
    /\ Storage!Receive("client")
    /\ LET values == Head(replies["client"])
           At(i, n) == {k \in DOMAIN Batch : Batch[k] = <<i, n - 1>>}
           Posting(i, n) == LET v == values[CHOOSE k \in At(i, n) : TRUE] IN <<v[2], v[3]>>
       IN  /\ \A k \in DOMAIN Batch : values[k][1] = LabelOf(Batch[k])
           /\ docs' = [i \in DOMAIN docs |-> [n \in DOMAIN docs[i] |->
                          IF At(i, n) = {} THEN docs[i][n] ELSE Posting(i, n)]]
    /\ label_pos' = label_pos + Len(Batch)
    /\ pc' = "search"
    /\ UNCHANGED <<client, update, query, rpn, counter, labels, result, answer, texts>>

\* calc_tfidf looks the documents of every word up again, but the vectors that
\* an operator took from the stack are freed by then: unless the query is one
\* word, what it reads is undefined and a document may be given any score.
\* log10(total_docs / nr_docs), of which only the sign matters, times the frequency:
Score(d) ==
    LET n == CHOOSE n \in DOMAIN docs[1] : docs[1][n][1] = d
    IN  IF Len(docs[1]) = nDocs THEN 0 ELSE docs[1][n][2]

\* Wrong: the comparison is the wrong way round.
MayPrecedeWorse(d, e) == Len(rpn) > 1 \/ Score(d) <= Score(e)

MayPrecede(d, e) == Len(rpn) > 1 \/ Score(d) >= Score(e)

\* The first n of some documents after qsort: in any order where it sees none.
First(n, S, Before(_, _)) ==
    {a \in [1 .. n -> S] :
        /\ IsInjective(a)
        /\ \A i \in 1 .. n : \A d \in S \ {a[j] : j \in 1 .. i} : Before(a[i], d)}

Best(found) ==
    First(IF Len(found) < Threshold THEN Len(found) ELSE Threshold, ToSet(found), MayPrecede)

DocumentsOf(postings) == [n \in DOMAIN postings |-> postings[n][1]]

\* evaluate and the response, or a query with too few or too many operands, which
\* ends the enclave.
Evaluate ==
    /\ pc = "search" /\ label_pos = Len(labels)
    /\ LET found == Evaluator!evaluate(rpn, [i \in DOMAIN docs |-> DocumentsOf(docs[i])], nDocs)
       IN  IF found = None THEN End
           ELSE /\ pc' = "answer"
                /\ result' = found
                /\ answer' \in Best(found)
                /\ UNCHANGED <<service, client, update, query, rpn, counter, labels,
                               label_pos, docs, texts>>

Answered ==
    /\ pc = "answer"
    /\ pc' = "idle" /\ SearchOver
    /\ UNCHANGED <<service, client, update, texts>>

\* DUMP_BENCH.  To aggregate its own records the enclave divides by how many it
\* has, and ends if there is none: it has one when the storage has, as every
\* search of the client has been answered and its records are dropped together.
DumpBench(aggregate) ==
    /\ pc = "idle" /\ ~Waiting
    /\ IF aggregate /\ ~recorded THEN End
       ELSE /\ Storage!Send("client", Storage!DumpRequest(aggregate))
            /\ UNCHANGED <<client, pc, update, search, texts>>

Serve == /\ Storage!ServeRequest("client")
         /\ UNCHANGED <<client, pc, update, search, texts>>

\* What the client asks for,
Begin == \/ Setup
         \/ \E file \in Files : UpdateNormal(file) \/ UpdateWiki(file)
         \/ Search(Queries)
         \/ \E aggregate \in BOOLEAN : DumpBench(aggregate)

\* and what goes on by itself once it has begun.
Proceed == SendBatch \/ NextDocument \/ Updated \/ RequestBatch \/ ReceiveBatch \/ Evaluate \/ Answered

Next == Begin \/ Quit \/ Proceed \/ Serve

Spec == Init /\ [][Next]_vars

----------------------------------------------------------------------------
(* Properties *)

TypeOK ==
    /\ Storage!TypeOK
    /\ W \in [Words -> 0 .. MaxDocs] /\ nDocs \in 0 .. MaxDocs
    /\ pc \in {"new", "idle", "update", "search", "await", "answer", "off"}
    /\ source \in {None} \cup [file : Files, first : 0 .. MaxDocs]
    /\ messages \in Seq(Seq(Storage!Pairs))
    /\ query \in Seq(Parser!Lexemes)
    /\ counter \in [DOMAIN rpn -> 0 .. MaxDocs]
    /\ labels \in Seq((DOMAIN rpn) \X Docs) /\ label_pos \in 0 .. Len(labels)
    /\ docs \in [DOMAIN rpn -> Seq((Docs \X (1 .. MaxFrequency)) \cup {None})]
    /\ result \in {None} \cup Seq(Docs) /\ answer \in Seq(Docs)
    /\ texts \in Seq(Document)

\* The labels the client's counters say exist.
CountedLabels == {l \in Labels : l[2] < W[l[1]]}

\* The client raises its counters when it makes a message.  Whatever batch the
\* enclave is at, every label that is counted is in the storage, on its way on
\* this client's connection, or in the part of the message not sent yet: a later
\* search, which goes the same way, never asks for a label the storage lacks.
CountedArePosted ==
    pc # "off" => \A l \in CountedLabels :
        \/ I[l] # None
        \/ \E m \in DOMAIN requests["client"] :
               /\ requests["client"][m].op = "add"
               /\ \E k \in DOMAIN requests["client"][m].pairs : requests["client"][m].pairs[k].label = l
        \/ \E m \in DOMAIN messages : \E k \in DOMAIN messages[m] : messages[m][k].label = l

\* The shuffle moves requests while new ones come in: each posting of each word
\* is asked for once, and when the batches are over each has been answered.
EveryPostingOnce ==
    pc \in {"search", "await"} =>
        LET asked == {x \in (DOMAIN rpn) \X Docs : x[2] < counter[x[1]]}
        IN  /\ ToSet(labels) = asked /\ Len(labels) = Cardinality(asked)
            /\ \A x \in asked : docs[x[1]][x[2] + 1] = None
                   <=> \E k \in label_pos + 1 .. Len(labels) : labels[k] = x

\* A query of one word returns the documents that have it most often, and those
\* first, unless all documents have it: whatever the order its postings came in.
BestAreReturned ==
    pc = "answer" /\ Len(rpn) = 1 /\ Len(result) < nDocs =>
        LET Frequency(d) == texts[d + 1][rpn[1]]
        IN  \A i \in DOMAIN answer :
                \A d \in ToSet(result) \ {answer[j] : j \in 1 .. i} :
                    Frequency(answer[i]) >= Frequency(d)

\* The storage never exits, and an answer that the enclave waits for comes:
\* although updates are not answered, every label is there when it is asked for, and
\* although a dump drops all records, there is one when a search is served.
StorageStaysUp ==
    /\ running
    /\ pc = "await" => \/ replies["client"] # <<>>
                       \/ \E m \in DOMAIN requests["client"] : requests["client"][m].op = "search"

\* The k-th article of a file is the k-th document of its update, with every word
\* that another character follows: no line of markup shifts the articles.  (What
\* comes after them are documents without an article.)
ArticlesKeepTheirWords ==
    pc = "update" =>
        LET lines == source.file.lines
            Closed(i) == Cardinality({j \in 1 .. i - 1 : lines[j] = Analyzer!CloseArticle})
            Article(i) == texts[source.first + 1 + Closed(i)]
        IN  Len(texts) > source.first + 1 => \A i \in DOMAIN lines :
                lines[i].kind = "text" => \A k \in DOMAIN lines[i].forms :
                    \/ lines[i].forms[k] \in StopWords
                    \/ k = Len(lines[i].forms) /\ ~lines[i].followed
                    \/ Article(i)[Stem[lines[i].forms[k]]] > 0
=============================================================================
