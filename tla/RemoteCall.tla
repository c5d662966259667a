----------------------------- MODULE RemoteCall -----------------------------
(***************************************************************************)
(* What iee_comm promises a client (Framework/src/Client/util.cpp): the    *)
(* enclave executes each request it is sent once, in the order they are    *)
(* sent, and the client gets the answer to the request it made.  A client  *)
(* that leaves may have its last request executed or not; an enclave that  *)
(* stops executes nothing more.  SecureChannel implements this.            *)
(***************************************************************************)
EXTENDS Naturals, Sequences

CONSTANTS Clients, Requests,
          Answer(_)   \* the answer to a request

VARIABLES asked,      \* client -> the requests it has made
          executed,   \* client -> the requests the enclave has executed for it
          answers,    \* client -> the answers it has received
          gone,       \* client -> has it left?
          running     \* is the enclave up?

vars == <<asked, executed, answers, gone, running>>

Init == /\ asked = [c \in Clients |-> <<>>]
        /\ executed = [c \in Clients |-> <<>>]
        /\ answers = [c \in Clients |-> <<>>]
        /\ gone = [c \in Clients |-> FALSE]
        /\ running = TRUE

\* A client calls when it has the answer to its call before.
Call(c) ==
    /\ ~gone[c]
    /\ Len(answers[c]) = Len(asked[c])
    /\ \E m \in Requests : asked' = [asked EXCEPT ![c] = Append(@, m)]
    /\ UNCHANGED <<executed, answers, gone, running>>

Execute(c) ==
    /\ running
    /\ Len(executed[c]) < Len(asked[c])
    /\ executed' = [executed EXCEPT ![c] = Append(@, asked[c][Len(@) + 1])]
    /\ UNCHANGED <<asked, answers, gone, running>>

Return(c) ==
    /\ ~gone[c]
    /\ Len(answers[c]) < Len(executed[c])
    /\ answers' = [answers EXCEPT ![c] = Append(@, Answer(executed[c][Len(@) + 1]))]
    /\ UNCHANGED <<asked, executed, gone, running>>

Leave(c) == /\ gone' = [gone EXCEPT ![c] = TRUE]
            /\ UNCHANGED <<asked, executed, answers, running>>

Stop == running' = FALSE /\ UNCHANGED <<asked, executed, answers, gone>>

Next == Stop \/ \E c \in Clients : Call(c) \/ Execute(c) \/ Return(c) \/ Leave(c)

Spec == Init /\ [][Next]_vars
=============================================================================
