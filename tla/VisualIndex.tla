---------------------------- MODULE VisualIndex ----------------------------
(***************************************************************************)
(* The image index of the enclave (ImageSearch/src/trusted.cpp and         *)
(* repository.cpp), composed with the storage service.  The enclave keeps  *)
(* one counter per centre of the codebook; the n-th posting of a centre is *)
(* stored under a label computed from the centre and n, so a search asks   *)
(* for the labels that the counters tell it exist.                         *)
(*                                                                         *)
(* One operation runs at a time, and every image has a new identifier, as  *)
(* the repository's client has it.  The keys are all zero, the same for    *)
(* every repository, so a label is the pair of a centre and a counter.  An *)
(* image is the set of the centres whose frequency is not 0 (see           *)
(* FrequencyCount); a score is reduced to the postings it adds up.         *)
(***************************************************************************)
EXTENDS Naturals, Sequences, FiniteSets

CONSTANTS NrCentres,       \* cluster_count
          AddMaxBatch,     \* ADD_MAX_BATCH_LEN
          SearchMaxBatch,  \* SEARCH_MAX_BATCH_LEN
          MaxAdds,         \* bound: images added
          MaxConnections,  \* bound: repositories initialised
          MaxWaiting,      \* bound: searches, and dumps, that wait at the storage
          Abandons,        \* may a repository end without CLEAR: by a crash, or left
                           \* by its client when another is initialised?
          None             \* a null pointer, a missing label, a missing file

Centres == 0 .. NrCentres - 1
Images == SUBSET Centres
Docs == 1 .. MaxAdds
Labels == Centres \X (0 .. MaxAdds)
Values == Labels \X Docs
Connections == 1 .. MaxConnections

ASSUME VisualAssumption ==
    /\ {NrCentres, AddMaxBatch, SearchMaxBatch} \subseteq Nat \ {0}
    /\ {MaxAdds, MaxConnections, MaxWaiting} \subseteq Nat
    /\ Abandons \in BOOLEAN
    /\ None \notin Values \cup Connections

VARIABLES
    requests, replies, I, recorded, running,   \* the storage service
    r,                     \* the repository: its connection (server_socket), or None
    opened,                \* connections opened so far
    counters, total_docs,  \* of the repository
    iee_data,              \* the file of WRITE_MAP, or None
    pc, image,             \* the operation the enclave is at, and its image
    to_send, centre_pos, counter_pos,   \* its loop: labels left, and the next one
    req_buffer,            \* the batch: the pairs of an add, the labels of a search
    scores,                \* <<centre, document>> -> postings a search has added up
    adds,                  \* history: images added so far, the identifier of the last
    library,               \* history: document -> its image; {} if not in the repository
    sound,                 \* history: see RepositoryInit and ReadMap
    dumped                 \* history: the connections whose dump was served after
                           \* the last record was made

service == <<requests, replies, I, recorded, running>>
repository == <<r, opened, counters, total_docs>>
loop == <<to_send, centre_pos, counter_pos, req_buffer>>
history == <<adds, library, sound>>
vars == <<service, repository, iee_data, pc, image, loop, scores, history, dumped>>

Storage == INSTANCE StorageService WITH Missing <- None

NoCounters == [c \in Centres |-> 0]
NoScores == [p \in Centres \X Docs |-> 0]
NoLibrary == [d \in Docs |-> {}]

Init == /\ Storage!Init
        /\ r = None /\ opened = 0
        /\ counters = NoCounters /\ total_docs = 0
        /\ iee_data = None
        /\ pc = "idle" /\ image = {}
        /\ to_send = 0 /\ centre_pos = 0 /\ counter_pos = 0
        /\ req_buffer = <<>>
        /\ scores = NoScores
        /\ adds = 0 /\ library = NoLibrary /\ sound = TRUE /\ dumped = {}

----------------------------------------------------------------------------
(* What the index is meant to hold *)

\* The centres add_image makes postings of.  It counts the centres of the image,
\* but its loop begins at centre 0 whether the image has it or not: if not,
\* centre 0 takes the place of the image's last centre.
Posted(img) ==
    IF img = {} \/ 0 \in img THEN img
    ELSE {0} \cup {c \in img : \E d \in img : c < d}

\* The documents of a library with a posting of centre c.
Having(lib, c) == {d \in Docs : c \in Posted(lib[d])}

\* The storage holds, under the labels cnt counts, the postings of lib.
Holds(cnt, lib) ==
    \A c \in Centres :
        /\ cnt[c] = Cardinality(Having(lib, c))
        /\ \A d \in Having(lib, c) : \E n \in 0 .. cnt[c] - 1 : I[<<c, n>>] = <<<<c, n>>, d>>

AllServed == \A s \in Connections : requests[s] = <<>>

----------------------------------------------------------------------------
(* The repository *)

Idle == pc = "idle"
Open == Idle /\ r # None

\* Wrong: the counters of the repository before are kept.
InitKeepingCounters ==
    /\ Idle
    /\ r = None \/ Abandons
    /\ opened < MaxConnections
    /\ opened' = opened + 1
    /\ r' = opened + 1
    /\ total_docs' = 0
    /\ Storage!Send(opened + 1, Storage!InitRequest)
    /\ library' = NoLibrary
    /\ sound' = AllServed
    /\ UNCHANGED <<counters, iee_data, pc, image, loop, scores, adds, dumped>>

\* Wrong: the first connection is used again.
InitOnOldConnection ==
    /\ Idle
    /\ r = None \/ Abandons
    /\ opened < MaxConnections
    /\ opened' = opened + 1
    /\ r' = 1
    /\ counters' = NoCounters /\ total_docs' = 0
    /\ Storage!Send(1, Storage!InitRequest)
    /\ library' = NoLibrary
    /\ sound' = AllServed
    /\ UNCHANGED <<iee_data, pc, image, loop, scores, adds, dumped>>

\* INIT.  A repository that exists already is left behind.  Sound: no request of
\* an earlier connection is still on its way to the storage.
RepositoryInit ==
    /\ Idle
    /\ r = None \/ Abandons
    /\ opened < MaxConnections
    /\ opened' = opened + 1
    /\ r' = opened + 1
    /\ counters' = NoCounters /\ total_docs' = 0
    /\ Storage!Send(opened + 1, Storage!InitRequest)
    /\ library' = NoLibrary
    /\ sound' = AllServed
    /\ UNCHANGED <<iee_data, pc, image, loop, scores, adds, dumped>>

\* The memory of the repository is gone (nobody reads counters while r = None).
Forget == /\ r' = None
          /\ counters' = NoCounters /\ total_docs' = 0
          /\ library' = NoLibrary

\* CLEAR: what was sent is still delivered; the storage is told nothing.
RepositoryClear ==
    /\ Open
    /\ Forget
    /\ UNCHANGED <<service, opened, iee_data, pc, image, loop, scores, adds, sound, dumped>>

\* The enclave's process ends, at any moment, and is started again.
Crash ==
    /\ Abandons
    /\ r # None
    /\ Forget
    /\ pc' = "idle" /\ image' = {}
    /\ to_send' = 0 /\ centre_pos' = 0 /\ counter_pos' = 0
    /\ req_buffer' = <<>>
    /\ scores' = NoScores
    /\ UNCHANGED <<service, opened, iee_data, adds, sound, dumped>>

\* WRITE_MAP: opening the file empties it, then it is written.
OpenMap ==
    /\ Open
    /\ pc' = "write"
    /\ iee_data' = None
    /\ UNCHANGED <<service, repository, image, loop, scores, history, dumped>>

WriteMap ==
    /\ pc = "write"
    /\ pc' = "idle"
    /\ iee_data' = [counters |-> counters, total_docs |-> total_docs, library |-> library]
    /\ UNCHANGED <<service, repository, image, loop, scores, history, dumped>>

\* READ_MAP, of a file that was written.  Sound: the storage has, where the file
\* counts postings, those of the repository that was saved.
ReadMap ==
    /\ Open
    /\ iee_data # None
    /\ counters' = iee_data.counters
    /\ total_docs' = iee_data.total_docs
    /\ library' = iee_data.library
    /\ sound' = (AllServed /\ Holds(iee_data.counters, iee_data.library))
    /\ UNCHANGED <<service, r, opened, iee_data, pc, image, loop, scores, adds, dumped>>

NrWaiting(op) == Cardinality({m \in DOMAIN requests[r] : requests[r][m].op = op})

\* DUMP_BENCH, which the client asks for aggregated.  The enclave divides by its
\* own count of searches first, which nothing sets when a repository is new: where
\* that is 0 the enclave ends (Crash), elsewhere the storage is asked, searches or not.
DumpBench ==
    /\ Open
    /\ NrWaiting("dump_bench") < MaxWaiting
    /\ Storage!Send(r, Storage!DumpRequest(TRUE))
    /\ UNCHANGED <<repository, iee_data, pc, image, loop, scores, history, dumped>>

----------------------------------------------------------------------------
(* ADD *)

\* The centre of img after c.  Past the last one the code reads on behind the
\* histogram; its loop is over by then and nobody uses where that stopped.
NextCentre(img, c) ==
    LET later == {d \in img : c < d}
    IN  IF later = {} THEN NrCentres ELSE CHOOSE d \in later : \A e \in later : d <= e

AddImage(img) ==
    /\ Open
    /\ adds < MaxAdds
    /\ adds' = adds + 1
    /\ pc' = "add" /\ image' = img
    /\ to_send' = Cardinality(img)
    /\ centre_pos' = 0
    /\ UNCHANGED <<service, repository, iee_data, counter_pos, req_buffer, scores,
                   library, sound, dumped>>

\* Wrong: the loop stays at its centre.
AddPostingAgain ==
    /\ pc = "add" /\ to_send > 0
    /\ Len(req_buffer) < AddMaxBatch
    /\ counters[centre_pos] < MaxAdds
    /\ LET label == <<centre_pos, counters[centre_pos]>> IN
       req_buffer' = Append(req_buffer, [label |-> label, value |-> <<label, adds>>])
    /\ counters' = [counters EXCEPT ![centre_pos] = @ + 1]
    /\ to_send' = to_send - 1
    /\ UNCHANGED <<service, r, opened, total_docs, iee_data, pc, image, centre_pos,
                   counter_pos, scores, history, dumped>>

\* One turn of the loop that fills the batch.
AddPosting ==
    /\ pc = "add" /\ to_send > 0
    /\ Len(req_buffer) < AddMaxBatch
    /\ LET label == <<centre_pos, counters[centre_pos]>> IN
       req_buffer' = Append(req_buffer, [label |-> label, value |-> <<label, adds>>])
    /\ counters' = [counters EXCEPT ![centre_pos] = @ + 1]
    /\ to_send' = to_send - 1
    /\ centre_pos' = NextCentre(image, centre_pos)
    /\ UNCHANGED <<service, r, opened, total_docs, iee_data, pc, image, counter_pos,
                   scores, history, dumped>>

BatchFull(max) == req_buffer # <<>> /\ (Len(req_buffer) = max \/ to_send = 0)

\* Wrong: only full batches are sent.
SendFullBatches ==
    /\ pc = "add"
    /\ BatchFull(AddMaxBatch)
    /\ \/ /\ Len(req_buffer) = AddMaxBatch
          /\ Storage!Send(r, Storage!AddRequest(req_buffer))
       \/ Len(req_buffer) # AddMaxBatch /\ UNCHANGED service
    /\ req_buffer' = <<>>
    /\ UNCHANGED <<repository, iee_data, pc, image, to_send, centre_pos, counter_pos,
                   scores, history, dumped>>

SendAdd ==
    /\ pc = "add"
    /\ BatchFull(AddMaxBatch)
    /\ Storage!Send(r, Storage!AddRequest(req_buffer))
    /\ req_buffer' = <<>>
    /\ UNCHANGED <<repository, iee_data, pc, image, to_send, centre_pos, counter_pos,
                   scores, history, dumped>>

LoopDone == to_send = 0 /\ req_buffer = <<>>

\* Wrong: total_docs counts postings.
FinishAddOfPostings ==
    /\ pc = "add" /\ LoopDone
    /\ total_docs' = total_docs + Cardinality(image)
    /\ pc' = "idle" /\ image' = {}
    /\ centre_pos' = 0
    /\ library' = [library EXCEPT ![adds] = image]
    /\ UNCHANGED <<service, r, opened, counters, iee_data, to_send, counter_pos,
                   req_buffer, scores, adds, sound, dumped>>

FinishAdd ==
    /\ pc = "add" /\ LoopDone
    /\ total_docs' = total_docs + 1
    /\ pc' = "idle" /\ image' = {}
    /\ centre_pos' = 0
    /\ library' = [library EXCEPT ![adds] = image]
    /\ UNCHANGED <<service, r, opened, counters, iee_data, to_send, counter_pos,
                   req_buffer, scores, adds, sound, dumped>>

----------------------------------------------------------------------------
(* SEARCH *)

SearchImage(img) ==
    /\ Open
    /\ NrWaiting("start_search") < MaxWaiting
    /\ pc' = "search" /\ image' = img
    /\ to_send' = Cardinality({l \in Labels : l[1] \in img /\ l[2] < counters[l[1]]})
    /\ centre_pos' = IF 0 \in img THEN 0 ELSE NextCentre(img, 0)
    /\ counter_pos' = 0
    /\ Storage!Send(r, Storage!StartSearchRequest)
    /\ UNCHANGED <<repository, iee_data, req_buffer, scores, history, dumped>>

\* Wrong: the next centre begins where the one before ended.
RequestLabelOnwards ==
    /\ pc = "search" /\ to_send > 0
    /\ Len(req_buffer) < SearchMaxBatch
    /\ req_buffer' = Append(req_buffer, <<centre_pos, counter_pos>>)
    /\ to_send' = to_send - 1
    /\ IF counter_pos + 1 >= counters[centre_pos]
       THEN UNCHANGED counter_pos /\ centre_pos' = NextCentre(image, centre_pos)
       ELSE counter_pos' = counter_pos + 1 /\ UNCHANGED centre_pos
    /\ UNCHANGED <<service, repository, iee_data, pc, image, scores, history, dumped>>

\* One turn of the loop that fills the batch: the label is added before the
\* counter is looked at.
RequestLabel ==
    /\ pc = "search" /\ to_send > 0
    /\ Len(req_buffer) < SearchMaxBatch
    /\ req_buffer' = Append(req_buffer, <<centre_pos, counter_pos>>)
    /\ to_send' = to_send - 1
    /\ IF counter_pos + 1 >= counters[centre_pos]
       THEN counter_pos' = 0 /\ centre_pos' = NextCentre(image, centre_pos)
       ELSE counter_pos' = counter_pos + 1 /\ UNCHANGED centre_pos
    /\ UNCHANGED <<service, repository, iee_data, pc, image, scores, history, dumped>>

SendSearch ==
    /\ pc = "search"
    /\ BatchFull(SearchMaxBatch)
    /\ Storage!Send(r, Storage!SearchRequest(req_buffer))
    /\ pc' = "await"
    /\ UNCHANGED <<repository, iee_data, image, loop, scores, history, dumped>>

\* The answers are walked with the pointers the batch began with: the k-th
\* belongs to the centre of the k-th label.  An answer with another label (the
\* storage has none) would end the process.
ReceiveAnswer ==
    /\ pc = "await"
    /\ Storage!Receive(r)
    /\ LET answer == Head(replies[r])
           Of(c, d) == {k \in DOMAIN answer : req_buffer[k][1] = c /\ answer[k][2] = d}
       IN  /\ \A k \in DOMAIN answer : answer[k][1] = req_buffer[k]
           /\ scores' = [p \in DOMAIN scores |-> scores[p] + Cardinality(Of(p[1], p[2]))]
    /\ req_buffer' = <<>>
    /\ pc' = "search"
    /\ UNCHANGED <<repository, iee_data, image, to_send, centre_pos, counter_pos, history,
                   dumped>>

\* The ranked documents are returned.
Respond ==
    /\ pc = "search" /\ LoopDone
    /\ pc' = "idle" /\ image' = {}
    /\ centre_pos' = 0 /\ counter_pos' = 0
    /\ scores' = NoScores
    /\ UNCHANGED <<service, repository, iee_data, to_send, req_buffer, history, dumped>>

----------------------------------------------------------------------------
Serve == /\ \E s \in Connections :
               /\ Storage!ServeRequest(s)
               /\ dumped' = CASE Head(requests[s]).op = "dump_bench"   -> dumped \cup {s}
                              [] Head(requests[s]).op = "start_search" -> {}
                              [] OTHER                                 -> dumped
         /\ UNCHANGED <<repository, iee_data, pc, image, loop, scores, history>>

\* What goes on by itself once an operation began.
OperationStep == \/ WriteMap
                 \/ AddPosting \/ SendAdd \/ FinishAdd
                 \/ RequestLabel \/ SendSearch \/ ReceiveAnswer \/ Respond

Next == \/ RepositoryInit \/ RepositoryClear \/ Crash
        \/ OpenMap \/ ReadMap \/ DumpBench
        \/ \E img \in Images : AddImage(img) \/ SearchImage(img)
        \/ OperationStep
        \/ Serve

Spec == Init /\ [][Next]_vars

----------------------------------------------------------------------------
(* Properties *)

TypeOK ==
    /\ Storage!TypeOK
    /\ r \in Connections \cup {None}
    /\ opened \in 0 .. MaxConnections
    /\ counters \in [Centres -> 0 .. MaxAdds]
    /\ total_docs \in 0 .. MaxAdds
    /\ iee_data \in {None} \cup [counters : [Centres -> 0 .. MaxAdds],
                                total_docs : 0 .. MaxAdds,
                                library : [Docs -> Images]]
    /\ pc \in {"idle", "write", "add", "search", "await"}
    /\ image \in Images
    /\ to_send \in 0 .. NrCentres * MaxAdds
    /\ centre_pos \in 0 .. NrCentres
    /\ counter_pos \in 0 .. MaxAdds
    /\ req_buffer \in IF pc = "add" THEN Seq(Storage!Pairs) ELSE Seq(Labels)
    /\ scores \in [Centres \X Docs -> Nat]
    /\ adds \in 0 .. MaxAdds
    /\ library \in [Docs -> Images]
    /\ sound \in BOOLEAN
    /\ dumped \in SUBSET Connections

\* The labels the counters of the open repository say exist.
Counted == {l \in Labels : l[2] < counters[l[1]]}

InBatch(l) == pc = "add" /\ \E k \in DOMAIN req_buffer : req_buffer[k].label = l

OnItsWay(l) ==
    \E s \in Connections : \E m \in DOMAIN requests[s] :
        /\ requests[s][m].op = "add"
        /\ \E k \in DOMAIN requests[s][m].pairs : requests[s][m].pairs[k].label = l

\* The counters, raised before anything is sent, never count a label that the
\* storage will not have: it is stored, on its way, or in the batch, whatever
\* was cleared, crashed or reloaded in between.
CountedAreSent ==
    \A l \in Counted : I[l] # None \/ OnItsWay(l) \/ InBatch(l)

\* A search adds up exactly the postings of its repository's documents for the
\* centres of the query, each once: no batch boundary loses or repeats one and
\* none of an earlier repository comes back.  (Of queries all of whose centres
\* have a posting; OnlyCountedRequested is about the others.)
SearchIsExact ==
    pc = "search" /\ LoopDone /\ sound /\ (\A c \in image : counters[c] > 0) =>
        scores = [p \in Centres \X Docs |->
                    IF p[1] \in image /\ p[2] \in Having(library, p[1]) THEN 1 ELSE 0]

\* A centre has no more postings than there are documents: the weight
\* log10(total_docs / counter) of calc_idf is never negative.
WeightsNotNegative == Open => \A c \in Centres : counters[c] <= total_docs

\* A search that waits has its answer, of the batch it sent and no other, or
\* its request is the one the connection still has to serve last: unless the
\* storage exits, it does not wait for ever, and no batch is taken for another.
AnswerIsComing ==
    pc = "await" /\ running =>
        LET sent == requests[r] IN
        \/ /\ sent = <<>>
           /\ Len(replies[r]) = 1 /\ Len(replies[r][1]) = Len(req_buffer)
        \/ /\ sent # <<>> /\ replies[r] = <<>>
           /\ sent[Len(sent)] = Storage!SearchRequest(req_buffer)

\* The storage serves a search that has no record to be measured in only if another
\* connection's dump took it since: nothing a connection does itself, its crashes and
\* reloads included, leads there.
SearchesAreRecorded ==
    running => \A s \in Connections :
        requests[s] # <<>> /\ Head(requests[s]).op = "search" =>
            recorded \/ \E t \in dumped : t # s

\* "calc size of request; ie sum of counters" (trusted.cpp:344): a search asks for
\* the labels that were counted.
OnlyCountedRequested ==
    pc \in {"search", "await"} => \A k \in DOMAIN req_buffer : req_buffer[k] \in Counted

\* "increase the centre's counter, if present" (trusted.cpp:65): the counter of
\* a centre is at most the number of images that have the centre.
CountersOfPresent ==
    Open /\ sound => \A c \in Centres : counters[c] <= Cardinality({d \in Docs : c \in library[d]})

\* "clear uee and close connection" (repository.cpp:79): a search returns
\* documents of the repository it is made in.
NothingOfClearedRepositories ==
    pc = "search" /\ LoopDone => \A p \in DOMAIN scores : scores[p] > 0 => library[p[2]] # {}
=============================================================================
