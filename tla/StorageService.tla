--------------------------- MODULE StorageService ---------------------------
(***************************************************************************)
(* The storage service (Framework/src/StorageService/SseServer.cpp): a map *)
(* from labels to values, kept in memory (STORAGE_MAP), and one thread per *)
(* connection (process_client) that serves the connection's requests in    *)
(* the order they were sent.  Nothing orders the requests of two           *)
(* connections.  INIT and ADD are not answered: whoever sends them goes on *)
(* at once.                                                                *)
(*                                                                         *)
(* What the enclave does to it (Send, Receive) are operators for the       *)
(* modules that compose with it.  Of the benchmark records, which all      *)
(* connections share, only this is kept: is there one?  The measures of a  *)
(* search are written into the last.                                       *)
(***************************************************************************)
EXTENDS Naturals, Sequences

CONSTANTS Labels, Values,
          Missing,       \* the null pointer of a label that is not in the map
          Connections

VARIABLES requests,      \* connection -> the requests sent and not yet served
          replies,       \* connection -> the answers sent and not yet received
          I,             \* the map
          recorded,      \* search_results is not empty
          running        \* FALSE once the service has exited

vars == <<requests, replies, I, recorded, running>>

Pairs == [label : Labels, value : Values]

InitWith(map) ==
        /\ requests = [c \in Connections |-> <<>>]
        /\ replies = [c \in Connections |-> <<>>]
        /\ I = map
        /\ recorded = FALSE
        /\ running = TRUE

Init == InitWith([l \in Labels |-> Missing])

----------------------------------------------------------------------------
(* What its clients do *)

InitRequest == [op |-> "init"]
StartSearchRequest == [op |-> "start_search"]
DumpRequest(aggregate) == [op |-> "dump_bench", aggregate |-> aggregate]
AddRequest(pairs) == [op |-> "add", pairs |-> pairs]
SearchRequest(labels) == [op |-> "search", labels |-> labels]

\* socket_send: the bytes are the kernel's to deliver, in order.  To a service
\* that has exited nothing is sent: the sender's process ends.
Send(c, request) ==
    /\ running
    /\ requests' = [requests EXCEPT ![c] = Append(@, request)]
    /\ UNCHANGED <<replies, I, recorded, running>>

\* socket_receive: waits for the answer.
Receive(c) ==
    /\ replies[c] # <<>>
    /\ replies' = [replies EXCEPT ![c] = Tail(@)]
    /\ UNCHANGED <<requests, I, recorded, running>>

----------------------------------------------------------------------------
(* process_client *)

Serve(c, op) ==
    /\ running
    /\ requests[c] # <<>>
    /\ Head(requests[c]).op = op
    /\ requests' = [requests EXCEPT ![c] = Tail(@)]

\* The code that would empty the map is commented out.
ServeInit(c) ==
    /\ Serve(c, "init")
    /\ UNCHANGED <<replies, I, recorded, running>>

\* Wrong: no record is made.
ServeStartUnrecorded(c) ==
    /\ Serve(c, "start_search")
    /\ recorded' = recorded
    /\ UNCHANGED <<replies, I, running>>

\* '5': a record for the search that follows.
ServeStartSearch(c) ==
    /\ Serve(c, "start_search")
    /\ recorded' = TRUE
    /\ UNCHANGED <<replies, I, running>>

\* The records are printed and dropped: those of every connection.  Aggregated,
\* their sums are divided by how many there are.
ServeDump(c) ==
    /\ Serve(c, "dump_bench")
    /\ Head(requests[c]).aggregate => recorded
    /\ recorded' = FALSE
    /\ UNCHANGED <<replies, I, running>>

\* The pairs are stored one after the other: of two with a label, the later stays.
ServeAdd(c) ==
    /\ Serve(c, "add")
    /\ LET pairs == Head(requests[c]).pairs
           At(l) == {k \in DOMAIN pairs : pairs[k].label = l}
           Latest(l) == CHOOSE k \in At(l) : \A h \in At(l) : h <= k
       IN  I' = [l \in Labels |-> IF At(l) = {} THEN I[l] ELSE pairs[Latest(l)].value]
    /\ UNCHANGED <<replies, recorded, running>>

Found(c) == \A k \in DOMAIN Head(requests[c]).labels : I[Head(requests[c]).labels[k]] # Missing

ServeSearch(c) ==
    /\ Serve(c, "search")
    /\ Found(c)
    /\ LET labels == Head(requests[c]).labels IN
       replies' = [replies EXCEPT ![c] = Append(@, [k \in DOMAIN labels |-> I[labels[k]]])]
    /\ UNCHANGED <<I, recorded, running>>

\* "Label not found! Exit": the whole service ends, with the map.  Without a
\* record, search_results.back() is undefined and the service may end there too;
\* a dump divides by 0.
ServeAndExit(c) ==
    /\ \/ Serve(c, "search") /\ (~Found(c) \/ ~recorded)
       \/ Serve(c, "dump_bench") /\ Head(requests[c]).aggregate /\ ~recorded
    /\ running' = FALSE
    /\ UNCHANGED <<replies, I, recorded>>

ServeRequest(c) == \/ ServeInit(c) \/ ServeStartSearch(c) \/ ServeDump(c)
                   \/ ServeAdd(c) \/ ServeSearch(c) \/ ServeAndExit(c)

Request == {InitRequest, StartSearchRequest} \cup [op : {"dump_bench"}, aggregate : BOOLEAN]
           \cup [op : {"add"}, pairs : Seq(Pairs)] \cup [op : {"search"}, labels : Seq(Labels)]

TypeOK ==
    /\ requests \in [Connections -> Seq(Request)]
    /\ replies \in [Connections -> Seq(Seq(Values))]
    /\ I \in [Labels -> Values \cup {Missing}]
    /\ {recorded, running} \subseteq BOOLEAN
=============================================================================
