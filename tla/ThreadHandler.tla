---------------------------- MODULE ThreadHandler ----------------------------
(***************************************************************************)
(* The enclave's work dispatcher (Framework/src/Iee/thread_handler.cpp)    *)
(* with the loop of its worker threads (ecall_thread_enter, Enclave.cpp).  *)
(*                                                                         *)
(* Each worker registers once for a slot of the array threads[] and then   *)
(* waits on the slot's condition variable.  A caller, the client thread    *)
(* running an operation, adds one piece of work per thread it counted,     *)
(* then thread_do_work signals the slots, runs the main thread's piece     *)
(* itself and waits on each slot in turn.                                  *)
(*                                                                         *)
(* A step is one critical section of a slot's mutex, or one access to the  *)
(* globals, which nothing protects.  entered_threads++ is a data race      *)
(* among the registering workers: it is a load and a store.  One call of   *)
(* thread_add_work is one step: no worker reads what it writes before the  *)
(* slot is signalled (with several callers that leaves interleavings out). *)
(* A condition variable is the set of threads blocked on it.               *)
(***************************************************************************)
EXTENDS Naturals, FiniteSets

CONSTANTS Workers,      \* threads of the pool (init_thread_pool)
          Callers,      \* client threads that dispatch work
          NoTask,       \* a null pointer
          Nobody        \* the holder of a free mutex

NrThreads == Cardinality(Workers)
Slots == 0 .. NrThreads - 1
Threads == Workers \cup Callers
Tasks == Callers \X (0 .. NrThreads)

ASSUME ThreadsAssumption ==
    /\ IsFiniteSet(Workers)
    /\ Callers # {}
    /\ Workers \cap Callers = {}
    /\ Nobody \notin Workers
    /\ NoTask \notin Tasks

VARIABLES
    entered_threads, nr_tasks,
    main_task,                 \* NoTask iff has_main_thread = 0
    task_args, ready, done,    \* the fields of threads[s]
    lock,                      \* slot -> the worker that holds its mutex
    blocked,                   \* slot -> the threads blocked on its cond_var
    wpc, slot,                 \* worker: control state; the slot it got
    cpc, count, next, i,       \* caller: control state; threads counted; work added; loop index
    queued, runs,              \* history: work accepted, and how often each piece
                               \* ran, in its caller's current operation
    settled                    \* history: had every worker registered when the
                               \* caller's current operation counted them?

handler == <<nr_tasks, main_task, task_args>>
flags   == <<ready, done, lock, blocked>>
workers == <<wpc, slot>>
callers == <<cpc, count, next, i>>
history == <<queued, runs, settled>>
vars == <<entered_threads, handler, flags, workers, callers, history>>

Init == /\ entered_threads = 0
        /\ nr_tasks = 0
        /\ main_task = NoTask
        /\ task_args = [s \in Slots |-> NoTask]
        /\ ready = [s \in Slots |-> FALSE]
        /\ done = [s \in Slots |-> FALSE]
        /\ lock = [s \in Slots |-> Nobody]
        /\ blocked = [s \in Slots |-> {}]
        /\ wpc = [w \in Workers |-> "enter"]
        /\ slot = [w \in Workers |-> 0]
        /\ cpc = [c \in Callers |-> "idle"]
        /\ count = [c \in Callers |-> 0]
        /\ next = [c \in Callers |-> 0]
        /\ i = [c \in Callers |-> 0]
        /\ queued = {}
        /\ runs = [t \in Tasks |-> 0]
        /\ settled = [c \in Callers |-> FALSE]

----------------------------------------------------------------------------
(* Condition variables *)

\* notify_one: one blocked thread, if there is one, goes on to retake the mutex.
NotifyOne(s) == \/ /\ blocked[s] = {}
                   /\ UNCHANGED blocked
                \/ \E t \in blocked[s] : blocked' = [blocked EXCEPT ![s] = @ \ {t}]

\* wait: the predicate was false under the mutex, which is released.
Block(s, t) == blocked' = [blocked EXCEPT ![s] = @ \cup {t}]

\* A wait may also end without a notification.
SpuriousWakeup(s) ==
    /\ \E t \in blocked[s] : blocked' = [blocked EXCEPT ![s] = @ \ {t}]
    /\ UNCHANGED <<entered_threads, handler, ready, done, lock, workers, callers, history>>

----------------------------------------------------------------------------
(* Workers *)

\* Workers that have incremented entered_threads.
Registered == {w \in Workers : wpc[w] \notin {"enter", "store"}}

GoW(w, from, to) == wpc[w] = from /\ wpc' = [wpc EXCEPT ![w] = to]

\* thread_handler_add: the load of entered_threads++.
LoadEntered(w) ==
    /\ GoW(w, "enter", "store")
    /\ slot' = [slot EXCEPT ![w] = entered_threads]
    /\ UNCHANGED <<entered_threads, handler, flags, callers, history>>

\* thread_handler_add: the store of entered_threads++.
StoreEntered(w) ==
    /\ GoW(w, "store", "wait")
    /\ entered_threads' = slot[w] + 1
    /\ UNCHANGED <<handler, flags, slot, callers, history>>

\* Take the slot's mutex and test its ready flag: keep the mutex or block.
AwaitReady(w) ==
    /\ w \notin blocked[slot[w]]
    /\ lock[slot[w]] = Nobody
    /\ \/ /\ ready[slot[w]]
          /\ GoW(w, "wait", "run")
          /\ lock' = [lock EXCEPT ![slot[w]] = w]
          /\ UNCHANGED blocked
       \/ /\ ~ready[slot[w]]
          /\ wpc[w] = "wait"
          /\ Block(slot[w], w)
          /\ UNCHANGED <<wpc, lock>>
    /\ UNCHANGED <<entered_threads, handler, ready, done, slot, callers, history>>

\* The task itself, run with the mutex held.
RunTask(w) ==
    /\ task_args[slot[w]] # NoTask
    /\ GoW(w, "run", "finish")
    /\ runs' = [runs EXCEPT ![task_args[slot[w]]] = @ + 1]
    /\ UNCHANGED <<entered_threads, handler, flags, slot, callers, queued, settled>>

\* Wrong: the slot stays ready.
FinishTaskStillReady(w) ==
    /\ GoW(w, "finish", "notify")
    /\ done' = [done EXCEPT ![slot[w]] = TRUE]
    /\ lock' = [lock EXCEPT ![slot[w]] = Nobody]
    /\ UNCHANGED <<entered_threads, handler, ready, blocked, slot, callers, history>>

FinishTask(w) ==
    /\ GoW(w, "finish", "notify")
    /\ ready' = [ready EXCEPT ![slot[w]] = FALSE]
    /\ done' = [done EXCEPT ![slot[w]] = TRUE]
    /\ lock' = [lock EXCEPT ![slot[w]] = Nobody]
    /\ UNCHANGED <<entered_threads, handler, blocked, slot, callers, history>>

\* Wrong: the caller is not notified.
NotifyDoneForgotten(w) ==
    /\ GoW(w, "notify", "wait")
    /\ UNCHANGED <<entered_threads, handler, flags, slot, callers, history>>

NotifyDone(w) ==
    /\ GoW(w, "notify", "wait")
    /\ NotifyOne(slot[w])
    /\ UNCHANGED <<entered_threads, handler, ready, done, lock, slot, callers, history>>

----------------------------------------------------------------------------
(* Callers *)

GoC(c, from, to) == cpc[c] = from /\ cpc' = [cpc EXCEPT ![c] = to]

\* Wrong: the main thread is counted twice.
CountThreadsTwice(c) ==
    /\ GoC(c, "idle", "add")
    /\ count' = [count EXCEPT ![c] = entered_threads + 2]
    /\ next' = [next EXCEPT ![c] = 0]
    /\ queued' = {t \in queued : t[1] # c}
    /\ runs' = [t \in Tasks |-> IF t[1] = c THEN 0 ELSE runs[t]]
    /\ settled' = [settled EXCEPT ![c] = Registered = Workers]
    /\ UNCHANGED <<entered_threads, handler, flags, workers, i>>

\* An operation counts the threads (thread_get_count) to split its work.
CountThreads(c) ==
    /\ GoC(c, "idle", "add")
    /\ count' = [count EXCEPT ![c] = entered_threads + 1]
    /\ next' = [next EXCEPT ![c] = 0]
    /\ queued' = {t \in queued : t[1] # c}
    /\ runs' = [t \in Tasks |-> IF t[1] = c THEN 0 ELSE runs[t]]
    /\ settled' = [settled EXCEPT ![c] = Registered = Workers]
    /\ UNCHANGED <<entered_threads, handler, flags, workers, i>>

\* One call of thread_add_work, and its three outcomes.
AddWork(c) ==
    /\ cpc[c] = "add"
    /\ next[c] < count[c]
    /\ next' = [next EXCEPT ![c] = @ + 1]
    /\ UNCHANGED <<entered_threads, flags, workers, cpc, count, i, runs, settled>>

AddMain(c) ==
    /\ AddWork(c)
    /\ main_task = NoTask
    /\ main_task' = <<c, next[c]>>
    /\ queued' = queued \cup {<<c, next[c]>>}
    /\ UNCHANGED <<nr_tasks, task_args>>

AddTask(c) ==
    /\ AddWork(c)
    /\ main_task # NoTask
    /\ nr_tasks < entered_threads
    /\ task_args' = [task_args EXCEPT ![nr_tasks] = <<c, next[c]>>]
    /\ nr_tasks' = nr_tasks + 1
    /\ queued' = queued \cup {<<c, next[c]>>}
    /\ UNCHANGED main_task

\* Returns 1, which no caller looks at: the work is lost.
AddRefused(c) ==
    /\ AddWork(c)
    /\ main_task # NoTask
    /\ nr_tasks >= entered_threads
    /\ UNCHANGED <<handler, queued>>

DoWork(c) ==
    /\ next[c] = count[c]
    /\ GoC(c, "add", "signal")
    /\ i' = [i EXCEPT ![c] = 0]
    /\ UNCHANGED <<entered_threads, handler, flags, workers, count, next, history>>

SignalReady(c) ==
    /\ i[c] < nr_tasks
    /\ GoC(c, "signal", "notify")
    /\ lock[i[c]] = Nobody
    /\ ready' = [ready EXCEPT ![i[c]] = TRUE]
    /\ UNCHANGED <<entered_threads, handler, done, lock, blocked, workers, count, next, i, history>>

NotifyReady(c) ==
    /\ GoC(c, "notify", "signal")
    /\ NotifyOne(i[c])
    /\ i' = [i EXCEPT ![c] = @ + 1]
    /\ UNCHANGED <<entered_threads, handler, ready, done, lock, workers, count, next, history>>

\* Calling a null main_task would end the process: there is no such step.
RunMain(c) ==
    /\ i[c] >= nr_tasks
    /\ main_task # NoTask
    /\ GoC(c, "signal", "await")
    /\ runs' = [runs EXCEPT ![main_task] = @ + 1]
    /\ i' = [i EXCEPT ![c] = 0]
    /\ UNCHANGED <<entered_threads, handler, flags, workers, count, next, queued, settled>>

\* Wrong: the slot's done flag is not waited for.
AwaitNothing(c) ==
    /\ i[c] < nr_tasks
    /\ GoC(c, "await", "reset")
    /\ UNCHANGED <<entered_threads, handler, flags, workers, count, next, i, history>>

AwaitDone(c) ==
    /\ i[c] < nr_tasks
    /\ c \notin blocked[i[c]]
    /\ lock[i[c]] = Nobody
    /\ \/ /\ done[i[c]]
          /\ GoC(c, "await", "reset")
          /\ UNCHANGED blocked
       \/ /\ ~done[i[c]]
          /\ cpc[c] = "await"
          /\ Block(i[c], c)
          /\ UNCHANGED cpc
    /\ UNCHANGED <<entered_threads, handler, ready, done, lock, workers, count, next, i, history>>

\* Wrong: the done flag is not reset.
ResetSlotStillDone(c) ==
    /\ GoC(c, "reset", "await")
    /\ task_args' = [task_args EXCEPT ![i[c]] = NoTask]
    /\ i' = [i EXCEPT ![c] = @ + 1]
    /\ UNCHANGED <<entered_threads, nr_tasks, main_task, flags, workers, count, next, history>>

\* The slot is reset after its mutex was released.
ResetSlot(c) ==
    /\ GoC(c, "reset", "await")
    /\ done' = [done EXCEPT ![i[c]] = FALSE]
    /\ task_args' = [task_args EXCEPT ![i[c]] = NoTask]
    /\ i' = [i EXCEPT ![c] = @ + 1]
    /\ UNCHANGED <<entered_threads, nr_tasks, main_task, ready, lock, blocked, workers, count, next, history>>

\* Wrong: nr_tasks is not reset.
ReturnKeepsTasks(c) ==
    /\ i[c] >= nr_tasks
    /\ GoC(c, "await", "idle")
    /\ main_task' = NoTask
    /\ UNCHANGED <<entered_threads, nr_tasks, task_args, flags, workers, count, next, i, history>>

Return(c) ==
    /\ i[c] >= nr_tasks
    /\ GoC(c, "await", "idle")
    /\ nr_tasks' = 0
    /\ main_task' = NoTask
    /\ UNCHANGED <<entered_threads, task_args, flags, workers, count, next, i, history>>

----------------------------------------------------------------------------
WorkerStep(w) == \/ LoadEntered(w) \/ StoreEntered(w) \/ AwaitReady(w)
                 \/ RunTask(w) \/ FinishTask(w) \/ NotifyDone(w)

\* The steps of an operation once it has begun.
OperationStep(c) == \/ AddMain(c) \/ AddTask(c) \/ AddRefused(c) \/ DoWork(c)
                    \/ SignalReady(c) \/ NotifyReady(c) \/ RunMain(c)
                    \/ AwaitDone(c) \/ ResetSlot(c) \/ Return(c)

Next == \/ \E w \in Workers : WorkerStep(w)
        \/ \E c \in Callers : CountThreads(c) \/ OperationStep(c)
        \/ \E s \in Slots : SpuriousWakeup(s)

Spec == Init /\ [][Next]_vars

\* A thread that can run is scheduled; nobody is obliged to begin an operation.
FairSpec == /\ Spec
            /\ \A w \in Workers : WF_vars(WorkerStep(w))
            /\ \A c \in Callers : WF_vars(OperationStep(c))

----------------------------------------------------------------------------
(* Properties *)

TypeOK ==
    /\ entered_threads \in 0 .. NrThreads
    /\ nr_tasks \in 0 .. NrThreads
    /\ main_task \in Tasks \cup {NoTask}
    /\ task_args \in [Slots -> Tasks \cup {NoTask}]
    /\ ready \in [Slots -> BOOLEAN]
    /\ done \in [Slots -> BOOLEAN]
    /\ lock \in [Slots -> Workers \cup {Nobody}]
    /\ blocked \in [Slots -> SUBSET Threads]
    /\ wpc \in [Workers -> {"enter", "store", "wait", "run", "finish", "notify"}]
    /\ slot \in [Workers -> 0 .. NrThreads]
    /\ cpc \in [Callers -> {"idle", "add", "signal", "notify", "await", "reset"}]
    /\ count \in [Callers -> 0 .. NrThreads + 1]
    /\ next \in [Callers -> 0 .. NrThreads + 1]
    /\ i \in [Callers -> 0 .. NrThreads]
    /\ queued \in SUBSET Tasks
    /\ runs \in [Tasks -> Nat]
    /\ settled \in [Callers -> BOOLEAN]

OneCaller == \A c, d \in Callers : c = d

\* The race on entered_threads gave two workers one slot: this lasts.
Shared == \E v, w \in Workers :
             v # w /\ wpc[v] # "enter" /\ wpc[w] # "enter" /\ slot[v] = slot[w]

\* Tasks of a slot are written (thread_add_work, and the reset of
\* thread_do_work) without its mutex.  No worker is ever inside the critical
\* section of a slot that such a write may touch: a caller adding work, or
\* between seeing done and resetting the slot.
UnlockedWritesAreExclusive ==
    \A c \in Callers, w \in Workers :
        wpc[w] \in {"run", "finish"} =>
            /\ cpc[c] # "add"
            /\ ~(cpc[c] = "reset" /\ slot[w] = i[c])

\* Nothing of an operation is left behind when thread_do_work returns: a
\* stale ready would run a task twice, a stale done would end the next wait
\* before its work ran, a stale main_task would send the next operation's
\* first piece to a worker.
QuietBetweenOperations ==
    (\A c \in Callers : cpc[c] = "idle") =>
        /\ nr_tasks = 0 /\ main_task = NoTask
        /\ \A s \in Slots : ~ready[s] /\ ~done[s] /\ task_args[s] = NoTask
        /\ \A w \in Workers : wpc[w] \notin {"run", "finish"}

\* thread_do_work returns only once every piece its caller added has run (the
\* comment "wait for completion of other threads").
ReturnsAfterWork ==
    \A c \in Callers : cpc[c] = "idle" =>
        \A t \in queued : t[1] = c => runs[t] >= 1

\* Every piece of work an operation split off was accepted when it starts to run:
\* thread_add_work returns 1, which nobody looks at, only if registrations raced
\* and some were still going on when the operation counted the threads.
NothingRefused ==
    \A c \in Callers : cpc[c] \in {"signal", "notify"} /\ (settled[c] \/ ~Shared) =>
        \A j \in 0 .. count[c] - 1 : <<c, j>> \in queued

\* An operation that began ends, unless the race gave two workers one slot: no
\* other interleaving loses a notification that thread_do_work waits for.
OperationEnds == \A c \in Callers : cpc[c] = "add" ~> cpc[c] = "idle" \/ Shared

\* "wait for completion of other threads" (thread_handler.cpp:74): thread_do_work
\* waits until they are done, and then returns.
DoWorkReturns == \A c \in Callers : cpc[c] = "add" ~> cpc[c] = "idle"

\* What a caller is at, as ForkJoin sees it.
Phase == [c \in Callers |-> IF cpc[c] = "idle" THEN "idle"
                            ELSE IF cpc[c] = "add" THEN "open"
                            ELSE "join"]

Promise == INSTANCE ForkJoin WITH phase <- Phase

\* Each piece added runs exactly once, after thread_do_work was called and
\* before it returns.
ImplementsForkJoin == Promise!Spec
=============================================================================
