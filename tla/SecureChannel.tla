---------------------------- MODULE SecureChannel ----------------------------
(***************************************************************************)
(* The connections of clients to the enclave: iee_send and iee_recv        *)
(* (Framework/src/Client/util.cpp) over ssl_send_all and ssl_receive_all   *)
(* (LibUntrusted/secure_conn.cpp) on the client's side, and the thread     *)
(* the enclave runs for each connection, TLSConnectionHandler::handle with *)
(* read_ssl and write_ssl (Iee/mbedtls/ssl_conn_hdlr.cpp).  A message is   *)
(* its length, then its bytes cut into TLS records of at most MaxRecord.   *)
(*                                                                         *)
(* read_ssl is given the TLS context by value.  What it leaves of a record *)
(* is noted in the copy alone, so the next read starts at the next record: *)
(* the protocol works because both ends cut a message at the same places.  *)
(* The client's context is passed by pointer and keeps the rest.           *)
(*                                                                         *)
(* What process_message does with a request is the part of the module that *)
(* extends this one, which fires Execute or Exit.  A byte is a pair of     *)
(* the message it belongs to and its position; a length, eight bytes in    *)
(* the code, is one that holds the number.  mbedtls itself is external.    *)
(***************************************************************************)
EXTENDS Naturals, Sequences

CONSTANTS Clients,
          MaxRecord,         \* 16384, the largest plaintext of a record
          RequestLength(_),  \* the bytes of a request, at least 1
          AnswerLength(_)    \* the bytes of its answer, 0 where the handler gives none

ASSUME ChannelAssumption == MaxRecord \in Nat \ {0}

VARIABLES
    client,      \* client -> "idle", the write or the read it is at, "closed" or "left"
    writing,     \* client -> the bytes of its request it has still to write
    reading,     \* client -> the bytes of the answer still to come (res_len - r)
    res,         \* client -> the bytes of the answer that came
    toServer, toClient,   \* client -> the records under way
    server,      \* client -> what its thread of the enclave is at; "ended"
    in_buffer,   \* client -> the bytes of the request read so far
    to_read,     \* client -> the bytes of the request still to read
    out,         \* client -> the bytes of the answer still to send
    up,          \* "up", or why the enclave exited: "peer", "assertion", "division", "file"
    asked, executed, answers   \* history: see RemoteCall

clientEnd == <<client, writing, reading, res>>
serverEnd == <<server, in_buffer, to_read, out>>
wires == <<toServer, toClient>>
record == <<asked, executed, answers>>
channel == <<clientEnd, serverEnd, wires, up, record>>

Empty == [c \in Clients |-> <<>>]

ChannelInit ==
    /\ client = [c \in Clients |-> "idle"]
    /\ writing = Empty /\ reading = [c \in Clients |-> 0] /\ res = Empty
    /\ toServer = Empty /\ toClient = Empty
    /\ server = [c \in Clients |-> "read_length"]
    /\ in_buffer = Empty /\ to_read = [c \in Clients |-> 0] /\ out = Empty
    /\ up = "up"
    /\ asked = Empty /\ executed = Empty /\ answers = Empty

Bytes(what, n) == [k \in 1 .. n |-> <<what, k>>]
LengthOf(bytes) == <<<<Len(bytes)>>>>

\* What the bytes say if they are a whole message, or nothing.
Decoded(bytes, Length(_)) ==
    IF bytes # <<>> /\ bytes = Bytes(bytes[1][1], Length(bytes[1][1]))
      THEN <<bytes[1][1]>> ELSE <<>>

Smaller(m, n) == IF m < n THEN m ELSE n
First(bytes, n) == SubSeq(bytes, 1, Smaller(n, Len(bytes)))
Rest(bytes, n) == SubSeq(bytes, Smaller(n, Len(bytes)) + 1, Len(bytes))
Chunk(n) == Smaller(n, MaxRecord)

Gone(c) == client[c] \in {"closed", "left"}
Up == up = "up"

----------------------------------------------------------------------------
(* The client *)

\* iee_send begins with a request.
Call(c, m) ==
    /\ client[c] = "idle"
    /\ client' = [client EXCEPT ![c] = "write_length"]
    /\ writing' = [writing EXCEPT ![c] = Bytes(m, RequestLength(m))]
    /\ asked' = [asked EXCEPT ![c] = Append(@, m)]
    /\ UNCHANGED <<reading, res, serverEnd, wires, up, executed, answers>>

WriteLength(c) ==
    /\ client[c] = "write_length"
    /\ toServer' = [toServer EXCEPT ![c] = Append(@, LengthOf(writing[c]))]
    /\ client' = [client EXCEPT ![c] = "write_body"]
    /\ UNCHANGED <<writing, reading, res, serverEnd, toClient, up, record>>

\* Wrong: the client's records are one byte longer than those the enclave reads.
WriteBodyLonger(c) ==
    /\ client[c] = "write_body"
    /\ toServer' = [toServer EXCEPT ![c] = Append(@, First(writing[c], MaxRecord + 1))]
    /\ writing' = [writing EXCEPT ![c] = Rest(@, MaxRecord + 1)]
    /\ client' = [client EXCEPT ![c] = IF writing'[c] = <<>> THEN "read_length" ELSE @]
    /\ UNCHANGED <<reading, res, serverEnd, toClient, up, record>>

\* One mbedtls_ssl_write of ssl_send_all.
WriteBody(c) ==
    /\ client[c] = "write_body"
    /\ toServer' = [toServer EXCEPT ![c] = Append(@, First(writing[c], MaxRecord))]
    /\ writing' = [writing EXCEPT ![c] = Rest(@, MaxRecord)]
    /\ client' = [client EXCEPT ![c] = IF writing'[c] = <<>> THEN "read_length" ELSE @]
    /\ UNCHANGED <<reading, res, serverEnd, toClient, up, record>>

\* mbedtls_ssl_read of at most n bytes: the rest of the record is kept.
Receive(c, n) ==
    /\ toClient[c] # <<>>
    /\ toClient' = [toClient EXCEPT ![c] =
           IF Len(Head(@)) <= n THEN Tail(@) ELSE <<Rest(Head(@), n)>> \o Tail(@)]

\* The call returns: the answer is whole.
Returned(c, bytes) ==
    /\ client' = [client EXCEPT ![c] = "idle"]
    /\ res' = [res EXCEPT ![c] = <<>>]
    /\ answers' = [answers EXCEPT ![c] = Append(@, Decoded(bytes, AnswerLength))]

\* iee_recv: an answer of length 0 has no body.
ReadLength(c) ==
    /\ client[c] = "read_length"
    /\ Receive(c, 1)
    /\ LET n == Head(toClient[c])[1][1] IN
       /\ reading' = [reading EXCEPT ![c] = n]
       /\ IF n = 0 THEN Returned(c, <<>>)
          ELSE client' = [client EXCEPT ![c] = "read_body"] /\ UNCHANGED <<res, answers>>
    /\ UNCHANGED <<writing, serverEnd, toServer, up, asked, executed>>

\* Wrong: one read is taken for the whole answer.
ReadBodyOnce(c) ==
    /\ client[c] = "read_body"
    /\ Receive(c, Chunk(reading[c]))
    /\ reading' = [reading EXCEPT ![c] = 0]
    /\ Returned(c, First(Head(toClient[c]), Chunk(reading[c])))
    /\ UNCHANGED <<writing, serverEnd, toServer, up, asked, executed>>

\* One turn of the loop of ssl_receive_all.
ReadBody(c) ==
    /\ client[c] = "read_body"
    /\ Receive(c, Chunk(reading[c]))
    /\ LET came == First(Head(toClient[c]), Chunk(reading[c])) IN
       /\ reading' = [reading EXCEPT ![c] = @ - Len(came)]
       /\ IF reading'[c] = 0 THEN Returned(c, res[c] \o came)
          ELSE res' = [res EXCEPT ![c] = @ \o came] /\ UNCHANGED <<client, answers>>
    /\ UNCHANGED <<writing, serverEnd, toServer, up, asked, executed>>

\* Wrong: the answer of the last call is not waited for.
CloseAtOnce(c) ==
    /\ client[c] \in {"idle", "read_length"}
    /\ client' = [client EXCEPT ![c] = "closed"]
    /\ UNCHANGED <<writing, reading, res, serverEnd, wires, up, record>>

\* close_secure_connection, after the last call.
Close(c) ==
    /\ client[c] = "idle"
    /\ client' = [client EXCEPT ![c] = "closed"]
    /\ UNCHANGED <<writing, reading, res, serverEnd, wires, up, record>>

\* The client's process ends where it is: killed, or by one of its exit(1).
Leave(c) ==
    /\ ~Gone(c)
    /\ client' = [client EXCEPT ![c] = "left"]
    /\ UNCHANGED <<writing, reading, res, serverEnd, wires, up, record>>

----------------------------------------------------------------------------
(* The enclave *)

\* outside_util::exit: every thread of the enclave ends with the process.
Exit(cause) ==
    /\ up' = cause
    /\ UNCHANGED <<clientEnd, serverEnd, wires, record>>

\* A read finds the end of the connection.  That of a client that closed comes
\* after all it sent; that of one that left may come as a reset before it.
ReadFails(c) == Gone(c) /\ (client[c] = "left" \/ toServer[c] = <<>>)

\* Wrong: the request is read behind the one before.
ServerReadLengthOnto(c) ==
    /\ Up /\ server[c] = "read_length"
    /\ toServer[c] # <<>>
    /\ toServer' = [toServer EXCEPT ![c] = Tail(@)]
    /\ to_read' = [to_read EXCEPT ![c] = Head(toServer[c])[1][1]]
    /\ server' = [server EXCEPT ![c] = "read_body"]
    /\ UNCHANGED <<clientEnd, in_buffer, out, toClient, up, record>>

ServerReadLength(c) ==
    /\ Up /\ server[c] = "read_length"
    /\ toServer[c] # <<>>
    /\ toServer' = [toServer EXCEPT ![c] = Tail(@)]
    /\ to_read' = [to_read EXCEPT ![c] = Head(toServer[c])[1][1]]
    /\ in_buffer' = [in_buffer EXCEPT ![c] = <<>>]
    /\ server' = [server EXCEPT ![c] = "read_body"]
    /\ UNCHANGED <<clientEnd, out, toClient, up, record>>

\* "end of client thread"
EndOfClient(c) ==
    /\ Up /\ server[c] = "read_length"
    /\ ReadFails(c)
    /\ server' = [server EXCEPT ![c] = "ended"]
    /\ UNCHANGED <<clientEnd, in_buffer, to_read, out, wires, up, record>>

\* Wrong: every read is taken for a full one.
ServerReadBodyFull(c) ==
    /\ Up /\ server[c] = "read_body"
    /\ toServer[c] # <<>>
    /\ in_buffer' = [in_buffer EXCEPT ![c] = @ \o First(Head(toServer[c]), Chunk(to_read[c]))]
    /\ to_read' = [to_read EXCEPT ![c] = @ - MaxRecord]
    /\ toServer' = [toServer EXCEPT ![c] = Tail(@)]
    /\ server' = [server EXCEPT ![c] = IF to_read'[c] = 0 THEN "process" ELSE @]
    /\ UNCHANGED <<clientEnd, out, toClient, up, record>>

\* One turn of the loop over to_read; what is left of the record is lost.
ServerReadBody(c) ==
    /\ Up /\ server[c] = "read_body"
    /\ toServer[c] # <<>>
    /\ LET came == First(Head(toServer[c]), Chunk(to_read[c])) IN
       /\ in_buffer' = [in_buffer EXCEPT ![c] = @ \o came]
       /\ to_read' = [to_read EXCEPT ![c] = @ - Len(came)]
    /\ toServer' = [toServer EXCEPT ![c] = Tail(@)]
    /\ server' = [server EXCEPT ![c] = IF to_read'[c] = 0 THEN "process" ELSE @]
    /\ UNCHANGED <<clientEnd, out, toClient, up, record>>

\* process_message has been called with m and has returned.
Execute(c, m) ==
    /\ out' = [out EXCEPT ![c] = Bytes(m, AnswerLength(m))]
    /\ server' = [server EXCEPT ![c] = "write_length"]
    /\ executed' = [executed EXCEPT ![c] = Append(@, m)]
    /\ UNCHANGED <<clientEnd, in_buffer, to_read, wires, up, asked, answers>>

ServerWriteLength(c) ==
    /\ Up /\ server[c] = "write_length"
    /\ toClient' = [toClient EXCEPT ![c] = Append(@, LengthOf(out[c]))]
    /\ server' = [server EXCEPT ![c] = IF out[c] = <<>> THEN "read_length" ELSE "write_body"]
    /\ UNCHANGED <<clientEnd, in_buffer, to_read, out, toServer, up, record>>

ServerWriteBody(c) ==
    /\ Up /\ server[c] = "write_body"
    /\ toClient' = [toClient EXCEPT ![c] = Append(@, First(out[c], MaxRecord))]
    /\ out' = [out EXCEPT ![c] = Rest(@, MaxRecord)]
    /\ server' = [server EXCEPT ![c] = IF out'[c] = <<>> THEN "read_length" ELSE @]
    /\ UNCHANGED <<clientEnd, in_buffer, to_read, toServer, up, record>>

\* A read of a body, or a write, to a client that is gone: exit(1).
PeerIsGone(c) ==
    /\ Up
    /\ \/ server[c] = "read_body" /\ ReadFails(c)
       \/ server[c] \in {"write_length", "write_body"} /\ Gone(c)
    /\ Exit("peer")

ClientStep(c) == WriteLength(c) \/ WriteBody(c) \/ ReadLength(c) \/ ReadBody(c)

ServerStep(c) == \/ ServerReadLength(c) \/ EndOfClient(c) \/ ServerReadBody(c)
                 \/ ServerWriteLength(c) \/ ServerWriteBody(c) \/ PeerIsGone(c)

----------------------------------------------------------------------------
(* Properties *)

ChannelTypeOK ==
    /\ client \in [Clients -> {"idle", "write_length", "write_body", "read_length",
                               "read_body", "closed", "left"}]
    /\ server \in [Clients -> {"read_length", "read_body", "process", "write_length",
                               "write_body", "ended"}]
    /\ reading \in [Clients -> Nat] /\ to_read \in [Clients -> Nat]
    /\ up \in {"up", "peer", "assertion", "division", "file"}

\* When a request is handed to process_message it is the whole of the one its
\* client made last, and nothing the client sent is left to be read in its place.
RequestsArriveWhole ==
    \A c \in Clients : server[c] = "process" =>
        /\ Decoded(in_buffer[c], RequestLength) = <<asked[c][Len(asked[c])]>>
        /\ toServer[c] = <<>>
=============================================================================
