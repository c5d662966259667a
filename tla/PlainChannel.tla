----------------------------- MODULE PlainChannel -----------------------------
(***************************************************************************)
(* The connections of the simulation framework (SimFramework), which runs  *)
(* the enclave's code in an ordinary process and its protocol over plain   *)
(* sockets: process_client (SimFramework/src/IeeComm/App.cpp) and the      *)
(* client's iee_send and iee_recv over receive_all and send_all            *)
(* (LibUntrusted/untrusted_util.cpp).                                      *)
(*                                                                         *)
(* The two ends do what those of SecureChannel do, over a stream: a write  *)
(* and a read may take any part of what there is, wherever it was cut      *)
(* before.  The stream is a sequence of records of one byte.               *)
(***************************************************************************)
EXTENDS SecureChannel

Stream(bytes) == [k \in DOMAIN bytes |-> <<bytes[k]>>]
BytesOf(records) == [k \in DOMAIN records |-> records[k][1]]

\* One write of send_all.
PlainWriteBody(c) ==
    /\ client[c] = "write_body"
    /\ \E n \in 1 .. Len(writing[c]) :
           /\ toServer' = [toServer EXCEPT ![c] = @ \o Stream(First(writing[c], n))]
           /\ writing' = [writing EXCEPT ![c] = Rest(@, n)]
    /\ client' = [client EXCEPT ![c] = IF writing'[c] = <<>> THEN "read_length" ELSE @]
    /\ UNCHANGED <<reading, res, serverEnd, toClient, up, record>>

\* One read of receive_all.
PlainReadBody(c) ==
    /\ client[c] = "read_body"
    /\ \E n \in 1 .. Smaller(Len(toClient[c]), reading[c]) :
           LET came == BytesOf(First(toClient[c], n)) IN
           /\ toClient' = [toClient EXCEPT ![c] = Rest(@, n)]
           /\ reading' = [reading EXCEPT ![c] = @ - n]
           /\ IF reading'[c] = 0 THEN Returned(c, res[c] \o came)
              ELSE res' = [res EXCEPT ![c] = @ \o came] /\ UNCHANGED <<client, answers>>
    /\ UNCHANGED <<writing, serverEnd, toServer, up, asked, executed>>

PlainServerReadBody(c) ==
    /\ Up /\ server[c] = "read_body"
    /\ \E n \in 1 .. Smaller(Len(toServer[c]), to_read[c]) :
           /\ in_buffer' = [in_buffer EXCEPT ![c] = @ \o BytesOf(First(toServer[c], n))]
           /\ to_read' = [to_read EXCEPT ![c] = @ - n]
           /\ toServer' = [toServer EXCEPT ![c] = Rest(@, n)]
    /\ server' = [server EXCEPT ![c] = IF to_read'[c] = 0 THEN "process" ELSE @]
    /\ UNCHANGED <<clientEnd, out, toClient, up, record>>

PlainServerWriteBody(c) ==
    /\ Up /\ server[c] = "write_body"
    /\ \E n \in 1 .. Len(out[c]) :
           /\ toClient' = [toClient EXCEPT ![c] = @ \o Stream(First(out[c], n))]
           /\ out' = [out EXCEPT ![c] = Rest(@, n)]
    /\ server' = [server EXCEPT ![c] = IF out'[c] = <<>> THEN "read_length" ELSE @]
    /\ UNCHANGED <<clientEnd, in_buffer, to_read, toServer, up, record>>

\* receive_all does not know the end of a stream: read gives it no bytes, and it
\* goes on reading.  The thread never ends, and does nothing more.
ReadsForEver(c) ==
    /\ Up /\ server[c] \in {"read_length", "read_body"}
    /\ Gone(c) /\ toServer[c] = <<>>
    /\ server' = [server EXCEPT ![c] = "ended"]
    /\ UNCHANGED <<clientEnd, in_buffer, to_read, out, wires, up, record>>

\* The connection of a client that left an answer unread is reset, which a read
\* exits of; a write to a client that is gone ends the process by a signal.
PlainPeerIsGone(c) ==
    /\ Up
    /\ \/ server[c] = "read_length" /\ client[c] = "left" /\ toClient[c] # <<>>
       \/ server[c] \in {"write_length", "write_body"} /\ Gone(c)
    /\ Exit("peer")

\* The lengths are sent and received as SecureChannel's are.
PlainClientStep(c) == WriteLength(c) \/ PlainWriteBody(c) \/ ReadLength(c) \/ PlainReadBody(c)

PlainServerStep(c) ==
    \/ ServerReadLength(c) \/ PlainServerReadBody(c) \/ ServerWriteLength(c)
    \/ PlainServerWriteBody(c) \/ ReadsForEver(c) \/ PlainPeerIsGone(c)
=============================================================================
