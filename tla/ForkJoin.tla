------------------------------ MODULE ForkJoin ------------------------------
(***************************************************************************)
(* What a caller of trusted_util::thread_add_work / thread_do_work is      *)
(* promised, whatever the worker threads do meanwhile: the work it added   *)
(* runs after it calls thread_do_work, each piece exactly once, and the    *)
(* call returns only when all of it has run.  ThreadHandler implements     *)
(* this when one client thread at a time dispatches work.                  *)
(***************************************************************************)
EXTENDS Naturals

CONSTANTS Callers,  \* client threads inside the enclave
          Tasks     \* pieces of work, each a pair <<caller, index>>

VARIABLES phase,    \* caller -> "idle", "open" (adding work) or "join" (in thread_do_work)
          queued,   \* work accepted in its caller's current operation
          runs      \* how often each piece ran in its caller's current operation

vars == <<phase, queued, runs>>

TasksOf(c) == {t \in Tasks : t[1] = c}

Init == /\ phase = [c \in Callers |-> "idle"]
        /\ queued = {}
        /\ runs = [t \in Tasks |-> 0]

Open(c) == /\ phase[c] = "idle"
           /\ phase' = [phase EXCEPT ![c] = "open"]
           /\ queued' = queued \ TasksOf(c)
           /\ runs' = [t \in Tasks |-> IF t \in TasksOf(c) THEN 0 ELSE runs[t]]

Accept(t) == /\ phase[t[1]] = "open"
             /\ queued' = queued \cup {t}
             /\ UNCHANGED <<phase, runs>>

Join(c) == /\ phase[c] = "open"
           /\ phase' = [phase EXCEPT ![c] = "join"]
           /\ UNCHANGED <<queued, runs>>

Run(t) == /\ t \in queued
          /\ phase[t[1]] = "join"
          /\ runs[t] = 0
          /\ runs' = [runs EXCEPT ![t] = 1]
          /\ UNCHANGED <<phase, queued>>

Return(c) == /\ phase[c] = "join"
             /\ \A t \in queued \cap TasksOf(c) : runs[t] = 1
             /\ phase' = [phase EXCEPT ![c] = "idle"]
             /\ UNCHANGED <<queued, runs>>

Next == \/ \E c \in Callers : Open(c) \/ Join(c) \/ Return(c)
        \/ \E t \in Tasks : Accept(t) \/ Run(t)

TypeOK == /\ phase \in [Callers -> {"idle", "open", "join"}]
          /\ queued \subseteq Tasks
          /\ runs \in [Tasks -> {0, 1}]

Spec == Init /\ [][Next]_vars
=============================================================================
