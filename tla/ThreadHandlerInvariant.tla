------------------------ MODULE ThreadHandlerInvariant ------------------------
(***************************************************************************)
(* The inductive invariant of ThreadHandler for one client thread, with    *)
(* registrations free to overlap: the life of a slot within an operation,  *)
(* and that each piece of work finds one.                                  *)
(* A slot is pending once work was put in it, signalled once its ready     *)
(* flag was set, and clear before and after.                               *)
(***************************************************************************)
EXTENDS ThreadHandler

Pending(c, s) ==
    /\ s < nr_tasks
    /\ \/ cpc[c] = "add"
       \/ cpc[c] = "signal" /\ s >= i[c]
       \/ cpc[c] = "notify" /\ s > i[c]

Signalled(c, s) ==
    /\ s < nr_tasks
    /\ \/ cpc[c] = "signal" /\ s < i[c]
       \/ cpc[c] = "notify" /\ s <= i[c]
       \/ cpc[c] \in {"await", "reset"} /\ s >= i[c]

\* The worker holding the slot's mutex has run the task.
Finishing(s) == lock[s] # Nobody /\ wpc[lock[s]] = "finish"

\* entered_threads, and every value of it held in a register, is at most the
\* number of workers that have incremented it: no slot lies outside threads[].
EntryInv ==
    /\ entered_threads <= Cardinality(Registered)
    /\ \A w \in Workers : wpc[w] = "store" => slot[w] <= Cardinality(Registered)
    /\ \A w \in Registered : slot[w] < NrThreads

\* A worker is in the critical section of its slot iff it holds the mutex.
LockInv ==
    /\ \A w \in Workers : wpc[w] \in {"run", "finish"} => lock[slot[w]] = w
    /\ \A s \in Slots : lock[s] # Nobody =>
          wpc[lock[s]] \in {"run", "finish"} /\ slot[lock[s]] = s /\ ready[s]

Clear(s) == task_args[s] = NoTask /\ ~ready[s] /\ ~done[s]

Waiting(s) == /\ task_args[s] # NoTask
              /\ runs[task_args[s]] = 0
              /\ ~ready[s] /\ ~done[s]

InHand(s) == /\ task_args[s] # NoTask
             /\ runs[task_args[s]] = IF done[s] \/ Finishing(s) THEN 1 ELSE 0
             /\ ready[s] <=> ~done[s]

\* The flags and the count of a slot's piece agree with the slot's stage.
SlotInv ==
    \A c \in Callers, s \in Slots :
        /\ Pending(c, s) => Waiting(s)
        /\ Signalled(c, s) => InHand(s)
        /\ Pending(c, s) \/ Signalled(c, s) \/ Clear(s)

\* The piece in a slot is one its caller added, and no two slots hold the same.
TaskInv ==
    /\ \A s \in Slots : task_args[s] # NoTask =>
          /\ task_args[s] \in queued
          /\ task_args[s] # main_task
          /\ \A r \in Slots : task_args[r] = task_args[s] => r = s
    /\ \A c \in Callers : \A t \in queued : cpc[c] # "idle" => t[2] < next[c]

MainInv ==
    \A c \in Callers :
        /\ cpc[c] = "idle" => nr_tasks = 0 /\ main_task = NoTask
        /\ cpc[c] = "add" => /\ 1 <= count[c] /\ next[c] <= count[c]
                             /\ next[c] = 0 => nr_tasks = 0
        /\ cpc[c] # "idle" => (main_task = NoTask <=> next[c] = 0)
        /\ cpc[c] \notin {"idle", "add"} => main_task # NoTask
        /\ main_task # NoTask =>
              /\ main_task \in queued
              /\ runs[main_task] = IF cpc[c] \in {"await", "reset"} THEN 1 ELSE 0

\* Accepted work is done, or still to be done by whoever has it.
WorkInv ==
    /\ \A t \in Tasks : runs[t] \in {0, 1} /\ (t \notin queued => runs[t] = 0)
    /\ \A t \in queued : runs[t] = 1 \/ t = main_task \/ \E s \in Slots : task_args[s] = t

IndexInv ==
    \A c \in Callers :
        /\ cpc[c] \in {"notify", "reset"} => i[c] < nr_tasks
        /\ cpc[c] \in {"signal", "await"} => i[c] <= nr_tasks
        /\ cpc[c] = "reset" => done[i[c]]

StageInv == /\ TypeOK
            /\ EntryInv
            /\ LockInv
            /\ SlotInv
            /\ TaskInv
            /\ MainInv
            /\ WorkInv
            /\ IndexInv

\* As long as no two workers share a slot, no increment of entered_threads was
\* lost: one registration is going on at a time, and its copy is up to date.
EntryCounts ==
    ~Shared =>
        /\ \A v, w \in Workers : wpc[v] = "store" /\ wpc[w] = "store" => v = w
        /\ \A w \in Workers : wpc[w] = "store" => slot[w] = entered_threads

\* Nobody registers any more during an operation that is settled.
SettledInv == \A c \in Callers : settled[c] => Registered = Workers

\* There is then a slot for each piece a caller adds, and it has been put there.
Accepted ==
    \A c \in Callers : cpc[c] # "idle" /\ (settled[c] \/ ~Shared) =>
        /\ count[c] <= entered_threads + 1
        /\ cpc[c] = "add" /\ next[c] > 0 => nr_tasks = next[c] - 1
        /\ cpc[c] # "add" => next[c] = count[c]
        /\ \A j \in 0 .. next[c] - 1 : <<c, j>> \in queued

AcceptInv == EntryCounts /\ SettledInv /\ Accepted

IInv == StageInv /\ AcceptInv
=============================================================================
