---------------------------- MODULE TextInvariant ----------------------------
(***************************************************************************)
(* The inductive invariant of TextIndex: where the posting of each label   *)
(* is, what waits at the storage, and how far a search has come.           *)
(***************************************************************************)
EXTENDS TextIndex

Queue == requests["client"]
Replies == replies["client"]

----------------------------------------------------------------------------
(* The storage *)

NoDump(j, k) == \A m \in j .. k : Queue[m].op # "dump_bench"

\* There will be a record when all before position m is served.
RecordedAt(m) ==
    \/ recorded /\ NoDump(1, m - 1)
    \/ \E j \in 1 .. m - 1 : Queue[j].op = "start_search" /\ NoDump(j + 1, m - 1)

\* There will be a value under label l when all before position m is served.
FoundAt(l, m) ==
    \/ I[l] # None
    \/ \E j \in 1 .. m - 1 :
           Queue[j].op = "add" /\ \E k \in DOMAIN Queue[j].pairs : Queue[j].pairs[k].label = l

Servable(q, m) ==
    /\ q.op = "search" => RecordedAt(m) /\ \A k \in DOMAIN q.labels : FoundAt(q.labels[k], m)
    /\ q.op = "dump_bench" /\ q.aggregate => RecordedAt(m)

\* The storage can serve every request that it has been sent.
ServableInv == running /\ \A m \in DOMAIN Queue : Servable(Queue[m], m)

NoSearch(k) == \A m \in 1 .. k : Queue[m].op # "search"

RequestedLabels == [k \in DOMAIN Batch |-> LabelOf(Batch[k])]

\* Only the search that is at a batch has a request of it at the storage, its last,
\* or the answer to it.
AnswerInv ==
    /\ pc \notin {"await", "off"} => Replies = <<>> /\ NoSearch(Len(Queue))
    /\ pc \in {"search", "await"} => RecordedAt(Len(Queue) + 1)
    /\ pc = "await" =>
          \/ /\ Queue = <<>>
             /\ Replies = <<[k \in DOMAIN Batch |-> I[LabelOf(Batch[k])]]>>
          \/ /\ Queue # <<>> /\ Replies = <<>>
             /\ Queue[Len(Queue)] = Storage!SearchRequest(RequestedLabels)
             /\ NoSearch(Len(Queue) - 1)

----------------------------------------------------------------------------
(* The postings *)

\* Of the first k documents that were sent, those with word w.
Having(w, k) == {d \in 0 .. k - 1 : texts[d + 1][w] > 0}

\* Value v is the posting of the label's word in the document that the label counts.
Right(l, v) ==
    \E d \in Having(l[1], nDocs) :
        Cardinality(Having(l[1], d)) = l[2] /\ v = <<l, d, texts[d + 1][l[1]]>>

PendingPairs ==
    (UNION {ToSet(Queue[m].pairs) : m \in {n \in DOMAIN Queue : Queue[n].op = "add"}})
    \cup (UNION {ToSet(messages[m]) : m \in DOMAIN messages})

\* The counters count no more than there are documents, and a counted label has a
\* right posting: when it is not on its way, the storage holds one.
PostingInv ==
    /\ nDocs = Len(texts) /\ \A w \in Words : W[w] <= nDocs /\ W[w] = Cardinality(Having(w, nDocs))
    /\ pc # "off" =>
          /\ \A p \in PendingPairs : p.label \in CountedLabels /\ Right(p.label, p.value)
          /\ \A l \in CountedLabels :
                 (\E p \in PendingPairs : p.label = l) \/ Right(l, I[l])

----------------------------------------------------------------------------
(* The search *)

Tokens == Words \cup Parser!Lexemes

Searching == pc \in {"search", "await", "answer"}

Asked == {x \in (DOMAIN rpn) \X Docs : x[2] < counter[x[1]]}

LoopInv ==
    /\ pc # "update" => messages = <<>>
    /\ rpn \in Seq(Tokens)
    /\ ~Searching => rpn = <<>> /\ labels = <<>> /\ label_pos = 0
    /\ pc # "answer" => answer = <<>>
    /\ Searching =>
          /\ rpn = Parser!parse(query)
          /\ counter = [i \in DOMAIN rpn |-> IF rpn[i] \in Words THEN W[rpn[i]] ELSE 0]
          /\ \A i \in DOMAIN rpn : DOMAIN docs[i] = 1 .. counter[i]
          /\ ToSet(labels) = Asked /\ IsInjective(labels)
          /\ \A x \in Asked : docs[x[1]][x[2] + 1] = None
                 <=> \E k \in label_pos + 1 .. Len(labels) : labels[k] = x
    /\ pc = "await" => label_pos < Len(labels)
    /\ pc = "answer" => label_pos = Len(labels)

\* The documents of an update are the last that were sent.
SourceInv ==
    pc = "update" =>
        /\ source \in [file : Files, first : 0 .. MaxDocs]
        /\ \E documents \in {<<Analyzer!extractUniqueKeywords(source.file)>>,
                             Analyzer!extractUniqueKeywords_wiki(source.file)} :
               /\ source.first + Len(documents) = Len(texts)
               /\ \A k \in DOMAIN documents : texts[source.first + k] = documents[k]

\* evaluate, of sets of documents in the place of vectors.
TruthStep(stack, token) ==
    LET n == Len(stack)
        below == SubSeq(stack, 1, n - 2)
    IN  CASE token = "&" -> IF n < 2 THEN <<>> ELSE Append(below, stack[n - 1] \cap stack[n])
          [] token = "|" -> IF n < 2 THEN <<>> ELSE Append(below, stack[n - 1] \cup stack[n])
          [] token = "!" -> IF n < 1 THEN <<>> ELSE Append(Front(stack), 0 .. nDocs - 1 \ stack[n])
          [] token \in Words -> Append(stack, Having(token, nDocs))
          [] OTHER -> Append(stack, {})

\* What a notation that can be evaluated is true of: a set of documents.
Truth(notation) ==
    LET stacks[n \in 0 .. Len(notation)] ==
            IF n = 0 THEN <<>> ELSE TruthStep(stacks[n - 1], notation[n])
    IN  stacks[Len(notation)][1]

\* The postings that the search has read are right, and the answer is the best of
\* what it found, which is what the query is true of.
ResultInv ==
    /\ Searching => \A i \in DOMAIN rpn : \A n \in 1 .. counter[i] :
          docs[i][n] # None => Right(<<rpn[i], n - 1>>, <<<<rpn[i], n - 1>>, docs[i][n][1], docs[i][n][2]>>)
    /\ pc = "answer" => /\ result # None /\ answer \in Best(result)
                        /\ Len(rpn) = 1 => result = DocumentsOf(docs[1])
                        /\ ToSet(result) = Truth(rpn) /\ IsInjective(result)

IInv == TypeOK /\ ServableInv /\ AnswerInv /\ PostingInv /\ LoopInv /\ SourceInv /\ ResultInv
=============================================================================
