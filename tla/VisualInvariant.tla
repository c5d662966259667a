---------------------------- MODULE VisualInvariant ----------------------------
(***************************************************************************)
(* The inductive invariant of VisualIndex: what the counters count at      *)
(* every turn of the two loops, where each posting is, and how far a       *)
(* search has come.                                                        *)
(***************************************************************************)
EXTENDS VisualIndex

----------------------------------------------------------------------------
(* Documents and counters *)

\* The last document whose add is over.
Finished == IF pc = "add" THEN adds - 1 ELSE adds

\* A number of documents and a library that can be those of the documents added.
Plausible(total, lib) ==
    /\ \A d \in Docs : lib[d] # {} => d <= Finished
    /\ total <= Finished
    /\ Cardinality({d \in Docs : lib[d] # {}}) <= total

LibraryInv ==
    /\ pc = "add" => adds >= 1
    /\ Plausible(total_docs, library)
    /\ iee_data # None => Plausible(iee_data.total_docs, iee_data.library)

\* Has the add that is going on posted centre c?
PostedNow(c) == pc = "add" /\ c \in Posted(image) /\ c < centre_pos

HavingNow(c) == Having(library, c) \cup {d \in Docs : d = adds /\ PostedNow(c)}

\* A counter counts the documents that have a posting of the centre.
CountersInv ==
    /\ \A c \in Centres : counters[c] = Cardinality(HavingNow(c))
    /\ iee_data # None => \A c \in Centres :
          iee_data.counters[c] = Cardinality(Having(iee_data.library, c))

----------------------------------------------------------------------------
(* The loops *)

IdleInv ==
    pc \in {"idle", "write"} =>
        /\ image = {} /\ to_send = 0 /\ centre_pos = 0
        /\ req_buffer = <<>>

\* The add has as many turns left as there are centres to post.
AddInv ==
    pc = "add" =>
        /\ centre_pos \in {0, NrCentres} \cup image
        /\ to_send = Cardinality({c \in Posted(image) : c >= centre_pos})

RestInv == /\ pc \notin {"search", "await"} => counter_pos = 0 /\ scores = NoScores
           /\ pc = "await" => req_buffer # <<>>

\* The labels that a search counted, and those its loop would come to.
Wanted == {l \in Labels : l[1] \in image /\ l[2] < counters[l[1]]}
Walk == {l \in Labels : l[1] \in image /\ (l[2] = 0 \/ l[2] < counters[l[1]])}
WalkedTo(p, n) == {l \in Walk : l[1] < p \/ (l[1] = p /\ l[2] < n)}
Walked == WalkedTo(centre_pos, counter_pos)

\* The search has come to as many labels as it has counted down.
WalkInv ==
    pc \in {"search", "await"} =>
        /\ to_send + Cardinality(Walked) = Cardinality(Wanted)
        /\ centre_pos \in image \cup {NrCentres}
        /\ centre_pos \in image => <<centre_pos, counter_pos>> \in Walk
        /\ centre_pos = NrCentres => counter_pos = 0
        /\ \A k \in DOMAIN req_buffer :
              /\ req_buffer[k] \in Walked
              /\ \A h \in DOMAIN req_buffer : req_buffer[h] = req_buffer[k] => h = k

----------------------------------------------------------------------------
(* The connections *)

\* The repository's connection is the last one opened, and new ones are empty.
ConnectionInv ==
    /\ r \in {None, opened}
    /\ pc # "idle" => r # None
    /\ \A s \in Connections : s > opened => requests[s] = <<>> /\ replies[s] = <<>>

NotSearch(s, m) == requests[s][m].op # "search"

\* At most one search of a connection waits, as its last request.
AnswerInv ==
    r # None =>
        /\ pc # "await" => /\ replies[r] = <<>>
                           /\ \A m \in DOMAIN requests[r] : NotSearch(r, m)
        /\ pc = "await" =>
              \/ /\ requests[r] = <<>>
                 /\ Len(replies[r]) = 1 /\ Len(replies[r][1]) = Len(req_buffer)
              \/ /\ requests[r] # <<>> /\ replies[r] = <<>>
                 /\ requests[r][Len(requests[r])] = Storage!SearchRequest(req_buffer)
                 /\ \A m \in 1 .. Len(requests[r]) - 1 : NotSearch(r, m)
              \/ ~running /\ replies[r] = <<>>

\* There will be a record when all before position m is served, unless another
\* connection's dump took it.
RecordedAt(s, m) ==
    \/ /\ recorded \/ \E t \in dumped : t # s
       /\ \A j \in 1 .. m - 1 : requests[s][j].op # "dump_bench"
    \/ \E k \in 1 .. m - 1 : /\ requests[s][k].op = "start_search"
                             /\ \A j \in k + 1 .. m - 1 : requests[s][j].op # "dump_bench"

RecordInv ==
    /\ sound => \A s \in Connections : s # opened => requests[s] = <<>>
    /\ running => \A s \in Connections :
          /\ \A m \in DOMAIN requests[s] : ~NotSearch(s, m) => RecordedAt(s, m)
          /\ pc \in {"search", "await"} /\ s = r => RecordedAt(s, Len(requests[s]) + 1)

----------------------------------------------------------------------------
(* The postings *)

Sent(l) == I[l] # None \/ OnItsWay(l)

SentInv ==
    /\ CountedAreSent
    /\ iee_data # None =>
          \A l \in Labels : l[2] < iee_data.counters[l[1]] => Sent(l)

\* A pair of label l and value v is in a request, on its way, or also in the batch.
Carries(q, l, v) ==
    q.op = "add" /\ \E k \in DOMAIN q.pairs : q.pairs[k] = [label |-> l, value |-> v]

InRequests(l, v) ==
    \E s \in Connections : \E m \in DOMAIN requests[s] : Carries(requests[s][m], l, v)

Pending(l, v) ==
    \/ InRequests(l, v)
    \/ pc = "add" /\ \E k \in DOMAIN req_buffer : req_buffer[k] = [label |-> l, value |-> v]

\* Once all is delivered, the storage has a posting of document d under label l.
WillHold(l, d) ==
    /\ \A v \in Values : Pending(l, v) => v = <<l, d>>
    /\ (\A v \in Values : ~Pending(l, v)) => I[l] = <<l, d>>

HoldInv ==
    sound /\ r # None =>
        /\ \A l \in Labels, v \in Values : Pending(l, v) => l \in Counted
        /\ \A c \in Centres : \A d \in HavingNow(c) :
              \E n \in 0 .. counters[c] - 1 : WillHold(<<c, n>>, d)

Answered == {l \in Walked : \A k \in DOMAIN req_buffer : req_buffer[k] # l}

ScoreInv ==
    /\ sound /\ pc = "await" /\ replies[r] # <<>> =>
          \A k \in DOMAIN req_buffer : replies[r][1][k] = I[req_buffer[k]]
    /\ sound /\ pc \in {"search", "await"} /\ (\A c \in image : counters[c] > 0) =>
          \A c \in Centres, d \in Docs :
              scores[<<c, d>>] = IF \E l \in Answered : l[1] = c /\ WillHold(l, d)
                                 THEN 1 ELSE 0

IInv == /\ TypeOK
        /\ LibraryInv /\ CountersInv
        /\ IdleInv /\ AddInv /\ RestInv /\ WalkInv
        /\ ConnectionInv /\ AnswerInv /\ RecordInv
        /\ SentInv /\ HoldInv /\ ScoreInv
=============================================================================
