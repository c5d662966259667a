--------------------------- MODULE SessionInvariant ---------------------------
(***************************************************************************)
(* The inductive invariant of Session: how far the call a client is making *)
(* has come, and where every byte of its request and of its answer is.     *)
(* A message is somewhere between three places: what its sender has still  *)
(* to write, the records under way, and what its receiver has read.        *)
(***************************************************************************)
EXTENDS Session

----------------------------------------------------------------------------
(* Messages under way *)

\* The bytes of m from position i + 1 to j.
Slice(m, i, j) == [k \in 1 .. j - i |-> <<m, i + k>>]
Header(n) == <<<<n>>>>

\* After how many bytes of its message record k begins, and the one behind the last.
Start(records, k, j) == IF k > Len(records) THEN j ELSE records[k][1][2] - 1

\* TLS records hold the bytes of m from i + 1 to j, and each is as long as it can be.
Cut(records, m, length, i, j) ==
    /\ records \in Seq(Seq({m} \X Nat))
    /\ Start(records, 1, j) = i
    /\ \A k \in DOMAIN records :
          LET a == Start(records, k, j)
              b == Start(records, k + 1, j)
          IN  a \in 0 .. length - 1 /\ b = Smaller(a + MaxRecord, length)
              /\ records[k] = Slice(m, a, b)

\* The same bytes on a stream.
Singles(m, i, j) == [k \in 1 .. j - i |-> <<<<m, i + k>>>>]

UnderWay(stream, records, m, length, i, j) ==
    IF stream THEN i <= j /\ records = Singles(m, i, j) ELSE Cut(records, m, length, i, j)

\* The length of the message is under way, and behind it its first j bytes.
LengthUnderWay(stream, records, m, length, j) ==
    /\ records # <<>>
    /\ records = <<Header(length)>> \o Tail(records)
    /\ UnderWay(stream, Tail(records), m, length, 0, j)

----------------------------------------------------------------------------
(* The phases of a call *)

OnStream(c) == settings[c].simulated
Current(c) == asked[c][Len(asked[c])]
Size(c) == RequestLength(Current(c))
AnswerSize(c) == AnswerLength(Current(c))

BetweenCalls(c) ==
    /\ Len(executed[c]) = Len(asked[c]) /\ Len(answers[c]) = Len(asked[c])
    /\ client[c] \in {"idle", "closed", "left"}
    /\ server[c] \in {"read_length", "ended"}
    /\ toServer[c] = <<>> /\ toClient[c] = <<>> /\ res[c] = <<>>

NotSent(c) ==
    /\ client[c] \in {"write_length", "left"}
    /\ writing[c] = Slice(Current(c), 0, Size(c))
    /\ toServer[c] = <<>>
    /\ server[c] \in {"read_length", "ended"}

\* The client has written j bytes of the request.
SentTo(c, j) ==
    /\ writing[c] = Slice(Current(c), j, Size(c))
    /\ client[c] \in {"left", IF j < Size(c) THEN "write_body" ELSE "read_length"}

LengthComing(c, j) ==
    /\ server[c] \in {"read_length", "ended"}
    /\ LengthUnderWay(OnStream(c), toServer[c], Current(c), Size(c), j)

\* The enclave has read i of them.
BodyComing(c, i, j) ==
    /\ server[c] \in IF i < Size(c) THEN {"read_body", "ended"} ELSE {"process"}
    /\ in_buffer[c] = Slice(Current(c), 0, i) /\ to_read[c] = Size(c) - i
    /\ UnderWay(OnStream(c), toServer[c], Current(c), Size(c), i, j)

Requesting(c) ==
    /\ Len(executed[c]) + 1 = Len(asked[c]) /\ Len(answers[c]) + 1 = Len(asked[c])
    /\ toClient[c] = <<>> /\ res[c] = <<>>
    /\ \/ NotSent(c)
       \/ \E j \in 0 .. Size(c) :
             /\ SentTo(c, j)
             /\ LengthComing(c, j) \/ \E i \in 0 .. Size(c) : BodyComing(c, i, j)

NotAnswered(c) ==
    /\ server[c] = "write_length"
    /\ out[c] = Slice(Current(c), 0, AnswerSize(c))
    /\ toClient[c] = <<>>
    /\ client[c] \in {"read_length", "left"} /\ res[c] = <<>>

\* The enclave has written j bytes of the answer.
AnsweredTo(c, j) ==
    /\ out[c] = Slice(Current(c), j, AnswerSize(c))
    /\ server[c] \in IF j < AnswerSize(c) THEN {"write_body"} ELSE {"read_length", "ended"}

LengthReturning(c, j) ==
    /\ client[c] \in {"read_length", "left"} /\ res[c] = <<>>
    /\ LengthUnderWay(OnStream(c), toClient[c], Current(c), AnswerSize(c), j)

\* The client has read i of them.
BodyReturning(c, i, j) ==
    /\ i < AnswerSize(c)
    /\ client[c] \in {"read_body", "left"}
    /\ res[c] = Slice(Current(c), 0, i) /\ reading[c] = AnswerSize(c) - i
    /\ UnderWay(OnStream(c), toClient[c], Current(c), AnswerSize(c), i, j)

Answering(c) ==
    /\ Len(executed[c]) = Len(asked[c]) /\ Len(answers[c]) + 1 = Len(asked[c])
    /\ toServer[c] = <<>>
    /\ \/ NotAnswered(c)
       \/ \E j \in 0 .. AnswerSize(c) :
             /\ AnsweredTo(c, j)
             /\ LengthReturning(c, j) \/ \E i \in 0 .. AnswerSize(c) : BodyReturning(c, i, j)

----------------------------------------------------------------------------
(* The invariant *)

RecordTypeOK ==
    /\ asked \in [Clients -> Seq(AllRequests)] /\ executed \in [Clients -> Seq(AllRequests)]
    /\ answers \in [Clients -> Seq(Seq(AllRequests))]

BuffersTypeOK ==
    {DOMAIN writing, DOMAIN res, DOMAIN in_buffer, DOMAIN out,
     DOMAIN toServer, DOMAIN toClient} = {Clients}

Typed == ChannelTypeOK /\ settings \in Settings /\ RecordTypeOK /\ BuffersTypeOK

InPhase(c) == BetweenCalls(c) \/ Requesting(c) \/ Answering(c)

CallInv(c) ==
    /\ \A k \in DOMAIN executed[c] : executed[c][k] = asked[c][k]
    /\ server[c] = "ended" => Gone(c)
    /\ InPhase(c)

\* The bytes of each connection are where the phase of its call has them, at every
\* point of the calls (iee_send and iee_recv on one side, handle on the other).
IInv == Typed /\ (\A c \in Clients : CallInv(c)) /\ ClosingIsHarmless
=============================================================================
