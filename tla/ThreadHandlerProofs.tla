------------------------- MODULE ThreadHandlerProofs -------------------------
(***************************************************************************)
(* What holds of the dispatcher for any number of workers, however their   *)
(* registrations overlap, as long as one client thread dispatches work.    *)
(***************************************************************************)
EXTENDS ThreadHandlerInvariant, FiniteSetTheorems, TLAPS

\* Workers that registered are finitely many, at most NrThreads, and fewer as
\* long as some worker has not registered.
LEMMA RegisteredCount ==
    /\ NrThreads \in Nat
    /\ IsFiniteSet(Registered)
    /\ Cardinality(Registered) \in 0 .. NrThreads
    /\ \A w \in Workers \ Registered : Cardinality(Registered) < NrThreads
<1>1. Registered \subseteq Workers
  BY DEF Registered
<1>2. IsFiniteSet(Workers) /\ NrThreads \in Nat
  BY ThreadsAssumption, FS_CardinalityType DEF NrThreads
<1>3. IsFiniteSet(Registered) /\ Cardinality(Registered) <= NrThreads
  BY <1>1, <1>2, FS_Subset DEF NrThreads
<1>4. Cardinality(Registered) \in Nat
  BY <1>3, FS_CardinalityType
<1>5. ASSUME NEW w \in Workers \ Registered
      PROVE  Cardinality(Registered) < NrThreads
  <2>1. Registered # Workers
    BY <1>5
  <2>2. Cardinality(Registered) # Cardinality(Workers)
    BY <1>1, <1>2, <2>1, FS_Subset
  <2>3. QED
    BY <1>2, <1>3, <1>4, <2>2 DEF NrThreads
<1>6. QED
  BY <1>2, <1>3, <1>4, <1>5

\* Initially nothing is dispatched.
LEMMA InitStageInv == Init => StageInv
<1> SUFFICES ASSUME Init PROVE StageInv
  OBVIOUS
<1> USE RegisteredCount, ThreadsAssumption DEF Init
<1>1. TypeOK
  BY DEF TypeOK, Slots
<1>2. EntryInv
  BY DEF EntryInv, Registered
<1>3. LockInv /\ SlotInv
  BY DEF LockInv, SlotInv, Pending, Signalled, Clear, Slots
<1>4. TaskInv /\ MainInv /\ WorkInv /\ IndexInv
  BY DEF TaskInv, MainInv, WorkInv, IndexInv
<1>5. QED
  BY <1>1, <1>2, <1>3, <1>4 DEF StageInv

\* A worker that registered has a slot of the array.
LEMMA SlotOfWorker ==
    ASSUME StageInv, NEW w \in Workers, wpc[w] \notin {"enter", "store"}
    PROVE  slot[w] \in Slots
BY RegisteredCount DEF StageInv, TypeOK, EntryInv, Registered, Slots

\* The index of a caller that signals, awaits or resets a slot is a slot.
LEMMA SlotOfCaller ==
    ASSUME StageInv, NEW c \in Callers, i[c] < nr_tasks
    PROVE  i[c] \in Slots
BY RegisteredCount DEF StageInv, TypeOK, Slots

\* notify_one and wait leave sets of threads on the condition variables.
LEMMA BlockedType ==
    ASSUME blocked \in [Slots -> SUBSET Threads], NEW s \in Slots, NEW t \in Threads
    PROVE  NotifyOne(s) \/ Block(s, t) => blocked' \in [Slots -> SUBSET Threads]
BY DEF NotifyOne, Block

\* A slot is pending or signalled, not both.
LEMMA PendingOrSignalled ==
    ASSUME TypeOK, NEW c \in Callers, NEW s \in Slots, Signalled(c, s)
    PROVE  ~Pending(c, s)
BY DEF TypeOK, Slots, Pending, Signalled

\* Whoever is in the critical section of a slot found it signalled.
LEMMA HolderSignalled ==
    ASSUME StageInv, NEW w \in Workers, wpc[w] \in {"run", "finish"}, NEW c \in Callers
    PROVE  /\ lock[slot[w]] = w
           /\ Signalled(c, slot[w])
           /\ ready[slot[w]] /\ ~done[slot[w]]
<1>1. slot[w] \in Slots /\ lock[slot[w]] = w
  BY SlotOfWorker DEF StageInv, LockInv
<1>2. ready[slot[w]]
  BY <1>1, ThreadsAssumption DEF StageInv, LockInv
<1>3. QED
  BY <1>1, <1>2 DEF StageInv, SlotInv, Waiting, InHand, Clear

\* A worker loads entered_threads: its copy obeys the bound too.
LEMMA LoadEnteredStageInv ==
    ASSUME StageInv, OneCaller, NEW w \in Workers, LoadEntered(w)
    PROVE  StageInv'
<1> USE DEF LoadEntered, GoW, handler, flags, callers, history
<1>1. TaskInv' /\ MainInv' /\ WorkInv' /\ IndexInv'
  BY DEF StageInv, TaskInv, MainInv, WorkInv, IndexInv
<1>2. TypeOK'
  BY DEF StageInv, TypeOK
<1>3. EntryInv'
  BY DEF StageInv, TypeOK, EntryInv, Registered
<1>4. LockInv'
  BY DEF StageInv, LockInv
<1>5. SlotInv'
  BY DEF StageInv, SlotInv, Pending, Signalled, Waiting, InHand, Clear, Finishing
<1>6. QED
  BY <1>1, <1>2, <1>3, <1>4, <1>5 DEF StageInv

\* The worker that stores was not registered, so its copy was below NrThreads.
LEMMA StoreEnteredStageInv ==
    ASSUME StageInv, OneCaller, NEW w \in Workers, StoreEntered(w)
    PROVE  StageInv'
<1> USE DEF StoreEntered, GoW, handler, flags, callers, history
<1>1. TaskInv' /\ MainInv' /\ WorkInv' /\ IndexInv'
  BY DEF StageInv, TaskInv, MainInv, WorkInv, IndexInv
<1>2. TypeOK'
  <2>1. slot[w] <= Cardinality(Registered) /\ Cardinality(Registered) < NrThreads
    BY RegisteredCount DEF StageInv, EntryInv, Registered
  <2>2. QED
    BY <2>1, RegisteredCount DEF StageInv, TypeOK, Registered
<1>3. EntryInv'
  <2>1. Registered' = Registered \cup {w} /\ w \notin Registered
    BY DEF StageInv, TypeOK, Registered
  <2>2. Cardinality(Registered') = Cardinality(Registered) + 1
    BY <2>1, RegisteredCount, FS_AddElement
  <2>3. slot[w] <= Cardinality(Registered) /\ slot[w] < NrThreads
    BY <2>1, RegisteredCount DEF StageInv, TypeOK, EntryInv
  <2>4. \A v \in Workers : wpc'[v] = "store" => wpc[v] = "store"
    BY DEF StageInv, TypeOK
  <2>5. entered_threads' <= Cardinality(Registered')
    BY <2>1, <2>2, <2>3, RegisteredCount DEF StageInv, TypeOK
  <2>6. \A v \in Workers : wpc'[v] = "store" => slot[v] <= Cardinality(Registered')
    BY <2>2, <2>4, RegisteredCount DEF StageInv, TypeOK, EntryInv
  <2>7. \A v \in Registered' : slot[v] < NrThreads
    BY <2>1, <2>3 DEF StageInv, EntryInv
  <2>8. QED
    BY <2>5, <2>6, <2>7 DEF EntryInv
<1>4. LockInv'
  BY DEF StageInv, LockInv
<1>5. SlotInv'
  BY DEF StageInv, SlotInv, Pending, Signalled, Waiting, InHand, Clear, Finishing
<1>6. QED
  BY <1>1, <1>2, <1>3, <1>4, <1>5 DEF StageInv

\* A worker takes the mutex of a slot that is ready.
LEMMA AwaitReadyStageInv ==
    ASSUME StageInv, OneCaller, NEW w \in Workers, AwaitReady(w)
    PROVE  StageInv'
<1> USE DEF AwaitReady, GoW, Block, handler, callers, history
<1>1. TaskInv' /\ MainInv' /\ WorkInv' /\ IndexInv'
  BY DEF StageInv, TaskInv, MainInv, WorkInv, IndexInv
<1>2. TypeOK'
  <2>1. slot[w] \in Slots /\ w \in Threads
    BY SlotOfWorker DEF Threads
  <2>2. QED
    BY <2>1, BlockedType DEF StageInv, TypeOK
<1>3. EntryInv'
  <2>1. Registered' = Registered
    BY DEF StageInv, TypeOK, Registered
  <2>2. \A v \in Workers : wpc'[v] = "store" => wpc[v] = "store"
    BY DEF StageInv, TypeOK
  <2>3. QED
    BY <2>1, <2>2 DEF StageInv, EntryInv
<1>4. LockInv'
  BY SlotOfWorker, ThreadsAssumption DEF StageInv, TypeOK, LockInv
<1>5. SlotInv'
  <2>1. \A s \in Slots : Finishing(s)' = Finishing(s)
    BY SlotOfWorker, ThreadsAssumption DEF StageInv, TypeOK, LockInv, Finishing
  <2>2. QED
    BY <2>1 DEF StageInv, SlotInv, Pending, Signalled, Waiting, InHand, Clear
<1>6. QED
  BY <1>1, <1>2, <1>3, <1>4, <1>5 DEF StageInv

\* The slot is signalled, its piece in no other slot and not the main thread's.
LEMMA RunTaskStageInv ==
    ASSUME StageInv, OneCaller, NEW w \in Workers, RunTask(w)
    PROVE  StageInv'
<1> USE DEF RunTask, GoW, handler, flags, callers
<1>1. TaskInv' /\ IndexInv'
  BY DEF StageInv, TaskInv, IndexInv
<1>2. TypeOK'
  <2>1. slot[w] \in Slots
    BY SlotOfWorker
  <2>2. QED
    BY <2>1 DEF StageInv, TypeOK
<1>3. EntryInv'
  <2>1. Registered' = Registered
    BY DEF StageInv, TypeOK, Registered
  <2>2. \A v \in Workers : wpc'[v] = "store" => wpc[v] = "store"
    BY DEF StageInv, TypeOK
  <2>3. QED
    BY <2>1, <2>2 DEF StageInv, EntryInv
<1>4. LockInv'
  BY DEF StageInv, LockInv
<1>5. SlotInv'
  <2>1. slot[w] \in Slots /\ task_args[slot[w]] \in Tasks
    BY SlotOfWorker DEF StageInv, TypeOK
  <2>2. PICK c \in Callers :
        /\ lock[slot[w]] = w
        /\ ~done[slot[w]]
        /\ Signalled(c, slot[w])
    BY <2>1, HolderSignalled DEF Tasks
  <2>3. runs[task_args[slot[w]]] = 0
    BY <2>1, <2>2 DEF StageInv, TypeOK, SlotInv, InHand, Finishing
  <2>4. \A s \in Slots :
        s # slot[w] =>
          /\ task_args[s] # task_args[slot[w]]
          /\ Finishing(s)' = Finishing(s)
    BY <2>1, <2>2, <2>3, ThreadsAssumption DEF StageInv, TypeOK, LockInv, TaskInv,
       Finishing
  <2>5. Finishing(slot[w])'
    BY <2>2, ThreadsAssumption DEF StageInv, TypeOK, Finishing
  <2>6. InHand(slot[w])'
    BY <2>1, <2>2, <2>3, <2>5 DEF StageInv, TypeOK, SlotInv, InHand
  <2>7. \A s \in Slots :
        s # slot[w] =>
          /\ (Waiting(s) => Waiting(s)')
          /\ (InHand(s) => InHand(s)')
          /\ (Clear(s) => Clear(s)')
    BY <2>1, <2>4 DEF StageInv, TypeOK, Waiting, InHand, Clear
  <2>8. \A d \in Callers, s \in Slots :
        /\ (Pending(d, s)' <=> Pending(d, s))
        /\ (Signalled(d, s)' <=> Signalled(d, s))
    BY DEF Pending, Signalled
  <2>9. QED
    BY <2>1, <2>2, <2>6, <2>7, <2>8, PendingOrSignalled DEF StageInv, SlotInv, OneCaller
<1>6. MainInv'
  <2>1. slot[w] \in Slots /\ task_args[slot[w]] \in Tasks
    BY SlotOfWorker DEF StageInv, TypeOK
  <2>2. PICK c \in Callers :
        /\ lock[slot[w]] = w
        /\ ~done[slot[w]]
        /\ Signalled(c, slot[w])
    BY <2>1, HolderSignalled DEF Tasks
  <2>3. runs[task_args[slot[w]]] = 0
    BY <2>1, <2>2 DEF StageInv, TypeOK, SlotInv, InHand, Finishing
  <2>4. task_args[slot[w]] # main_task
    BY <2>1, <2>2, <2>3, ThreadsAssumption DEF StageInv, TypeOK, TaskInv
  <2>5. QED
    BY <2>1, <2>3, <2>4 DEF StageInv, TypeOK, MainInv
<1>7. WorkInv'
  <2>1. slot[w] \in Slots /\ task_args[slot[w]] \in Tasks
    BY SlotOfWorker DEF StageInv, TypeOK
  <2>2. PICK c \in Callers :
        /\ lock[slot[w]] = w
        /\ ~done[slot[w]]
        /\ Signalled(c, slot[w])
    BY <2>1, HolderSignalled DEF Tasks
  <2>3. runs[task_args[slot[w]]] = 0
    BY <2>1, <2>2 DEF StageInv, TypeOK, SlotInv, InHand, Finishing
  <2>4. task_args[slot[w]] \in queued
    BY <2>1, <2>2, <2>3, ThreadsAssumption DEF StageInv, TaskInv
  <2>5. QED
    BY <2>1, <2>3, <2>4 DEF StageInv, TypeOK, WorkInv
<1>8. QED
  BY <1>1, <1>2, <1>3, <1>4, <1>5, <1>6, <1>7 DEF StageInv

\* The worker raises done and drops ready: the slot stays signalled.
LEMMA FinishTaskStageInv ==
    ASSUME StageInv, OneCaller, NEW w \in Workers, FinishTask(w)
    PROVE  StageInv'
<1> USE DEF FinishTask, GoW, handler, callers, history
<1>1. TaskInv' /\ MainInv' /\ WorkInv'
  BY DEF StageInv, TaskInv, MainInv, WorkInv
<1>2. TypeOK'
  BY DEF StageInv, TypeOK
<1>3. EntryInv'
  <2>1. Registered' = Registered
    BY DEF StageInv, TypeOK, Registered
  <2>2. \A v \in Workers : wpc'[v] = "store" => wpc[v] = "store"
    BY DEF StageInv, TypeOK
  <2>3. QED
    BY <2>1, <2>2 DEF StageInv, EntryInv
<1>4. LockInv'
  BY DEF StageInv, TypeOK, LockInv
<1>5. SlotInv'
  <2>1. slot[w] \in Slots /\ lock[slot[w]] = w
    BY SlotOfWorker, HolderSignalled DEF StageInv, LockInv
  <2>2. \A s \in Slots : s # slot[w] => Finishing(s)' = Finishing(s)
    BY <2>1, ThreadsAssumption DEF StageInv, TypeOK, LockInv, Finishing
  <2>3. Finishing(slot[w]) /\ ~Finishing(slot[w])'
    BY <2>1, ThreadsAssumption DEF StageInv, TypeOK, Finishing
  <2>4. \A c \in Callers : Signalled(c, slot[w]) /\ ~Pending(c, slot[w])
    BY <2>1, HolderSignalled, PendingOrSignalled DEF StageInv
  <2>5. \A c \in Callers : InHand(slot[w])'
    BY <2>1, <2>3, <2>4 DEF StageInv, TypeOK, SlotInv, InHand
  <2>6. \A s \in Slots :
        s # slot[w] =>
          /\ (Waiting(s) => Waiting(s)')
          /\ (InHand(s) => InHand(s)')
          /\ (Clear(s) => Clear(s)')
    BY <2>2 DEF StageInv, TypeOK, Waiting, InHand, Clear
  <2>7. \A c \in Callers, s \in Slots :
        /\ (Pending(c, s)' <=> Pending(c, s))
        /\ (Signalled(c, s)' <=> Signalled(c, s))
    BY DEF Pending, Signalled
  <2>8. QED
    BY <2>4, <2>5, <2>6, <2>7 DEF StageInv, SlotInv
<1>6. IndexInv'
  BY DEF StageInv, IndexInv
<1>7. QED
  BY <1>1, <1>2, <1>3, <1>4, <1>5, <1>6 DEF StageInv

\* Notifying changes nobody's flags.
LEMMA NotifyDoneStageInv ==
    ASSUME StageInv, OneCaller, NEW w \in Workers, NotifyDone(w)
    PROVE  StageInv'
<1> USE DEF NotifyDone, GoW, NotifyOne, handler, callers, history
<1>1. TaskInv' /\ MainInv' /\ WorkInv' /\ IndexInv'
  BY DEF StageInv, TaskInv, MainInv, WorkInv, IndexInv
<1>2. TypeOK'
  <2>1. slot[w] \in Slots /\ w \in Threads
    BY SlotOfWorker DEF Threads
  <2>2. QED
    BY <2>1, BlockedType DEF StageInv, TypeOK
<1>3. EntryInv'
  <2>1. Registered' = Registered
    BY DEF StageInv, TypeOK, Registered
  <2>2. \A v \in Workers : wpc'[v] = "store" => wpc[v] = "store"
    BY DEF StageInv, TypeOK
  <2>3. QED
    BY <2>1, <2>2 DEF StageInv, EntryInv
<1>4. LockInv'
  BY DEF StageInv, LockInv
<1>5. SlotInv'
  BY DEF StageInv, SlotInv, Pending, Signalled, Waiting, InHand, Clear, Finishing
<1>6. QED
  BY <1>1, <1>2, <1>3, <1>4, <1>5 DEF StageInv

\* An operation begins with every slot clear.
LEMMA CountThreadsStageInv ==
    ASSUME StageInv, OneCaller, NEW c \in Callers, CountThreads(c)
    PROVE  StageInv'
<1> USE DEF CountThreads, GoC, handler, flags, workers
<1>1. EntryInv' /\ LockInv'
  BY DEF StageInv, EntryInv, Registered, LockInv
<1>2. TypeOK'
  BY RegisteredCount DEF StageInv, TypeOK
<1>3. SlotInv'
  BY DEF StageInv, Slots, SlotInv, MainInv, Pending, Signalled, Clear
<1>4. TaskInv'
  BY DEF StageInv, OneCaller, TypeOK, Tasks, SlotInv, TaskInv, Pending, Signalled, Clear
<1>5. MainInv'
  BY DEF StageInv, TypeOK, MainInv
<1>6. WorkInv'
  BY DEF StageInv, TypeOK, WorkInv
<1>7. IndexInv'
  BY DEF OneCaller, IndexInv
<1>8. QED
  BY <1>1, <1>2, <1>3, <1>4, <1>5, <1>6, <1>7 DEF StageInv

\* The main thread's piece is the operation's first.
LEMMA AddMainStageInv ==
    ASSUME StageInv, OneCaller, NEW c \in Callers, AddMain(c)
    PROVE  StageInv'
<1> USE DEF AddMain, AddWork, flags, workers
<1>1. EntryInv' /\ LockInv' /\ SlotInv' /\ IndexInv'
  BY DEF StageInv, EntryInv, Registered, LockInv, SlotInv, Pending, Signalled,
     Waiting, InHand, Clear, Finishing, IndexInv
<1>2. TypeOK'
  BY RegisteredCount DEF StageInv, TypeOK, Tasks
<1>3. TaskInv'
  BY DEF StageInv, OneCaller, TypeOK, Tasks, TaskInv
<1>4. MainInv'
  BY ThreadsAssumption DEF StageInv, OneCaller, TypeOK, Tasks, TaskInv, MainInv, WorkInv
<1>5. WorkInv'
  BY DEF StageInv, TypeOK, Tasks, LockInv, TaskInv, MainInv, WorkInv
<1>6. QED
  BY <1>1, <1>2, <1>3, <1>4, <1>5 DEF StageInv

\* The slot at nr_tasks was clear and becomes pending.
LEMMA AddTaskStageInv ==
    ASSUME StageInv, OneCaller, NEW c \in Callers, AddTask(c)
    PROVE  StageInv'
<1> USE DEF AddTask, AddWork, flags, workers
<1>1. EntryInv' /\ LockInv'
  BY DEF StageInv, EntryInv, Registered, LockInv
<1>2. TypeOK'
  <2>1. nr_tasks \in Slots /\ <<c, next[c]>> \in Tasks
    BY RegisteredCount DEF StageInv, TypeOK, MainInv, Slots, Tasks
  <2>2. QED
    BY <2>1, RegisteredCount DEF StageInv, TypeOK
<1>3. SlotInv'
  BY RegisteredCount, ThreadsAssumption DEF StageInv, OneCaller, TypeOK, Slots, Tasks,
     SlotInv, TaskInv, MainInv, WorkInv, Pending, Signalled, Waiting, Clear
<1>4. TaskInv'
  BY DEF StageInv, OneCaller, TypeOK, Tasks, TaskInv, MainInv
<1>5. MainInv'
  BY DEF StageInv, TypeOK, MainInv
<1>6. WorkInv'
  BY RegisteredCount, ThreadsAssumption DEF StageInv, TypeOK, Slots, SlotInv, WorkInv,
     Pending, Signalled, Clear
<1>7. IndexInv'
  BY DEF OneCaller, IndexInv
<1>8. QED
  BY <1>1, <1>2, <1>3, <1>4, <1>5, <1>6, <1>7 DEF StageInv

\* A refused piece is in no slot.
LEMMA AddRefusedStageInv ==
    ASSUME StageInv, OneCaller, NEW c \in Callers, AddRefused(c)
    PROVE  StageInv'
<1> USE DEF AddRefused, AddWork, handler, flags, workers, history
<1>1. EntryInv' /\ LockInv' /\ SlotInv' /\ WorkInv' /\ IndexInv'
  BY DEF StageInv, EntryInv, Registered, LockInv, SlotInv, Pending, Signalled,
     Waiting, InHand, Clear, Finishing, WorkInv, IndexInv
<1>2. TypeOK'
  BY RegisteredCount DEF StageInv, TypeOK
<1>3. TaskInv'
  BY DEF StageInv, TypeOK, Tasks, TaskInv
<1>4. MainInv'
  BY DEF StageInv, TypeOK, MainInv
<1>5. QED
  BY <1>1, <1>2, <1>3, <1>4 DEF StageInv

\* Adding ends: all slots in use are pending.
LEMMA DoWorkStageInv ==
    ASSUME StageInv, OneCaller, NEW c \in Callers, DoWork(c)
    PROVE  StageInv'
<1> USE DEF DoWork, GoC, handler, flags, workers, history
<1>1. EntryInv' /\ LockInv' /\ WorkInv'
  BY DEF StageInv, EntryInv, Registered, LockInv, WorkInv
<1>2. TypeOK'
  BY RegisteredCount DEF StageInv, TypeOK
<1>3. SlotInv'
  BY DEF StageInv, TypeOK, Slots, SlotInv, Pending, Signalled, Waiting, InHand, Clear
<1>4. TaskInv'
  BY DEF StageInv, TaskInv
<1>5. MainInv'
  BY DEF StageInv, MainInv
<1>6. IndexInv'
  BY DEF StageInv, TypeOK, IndexInv
<1>7. QED
  BY <1>1, <1>2, <1>3, <1>4, <1>5, <1>6 DEF StageInv

\* The slot at i goes from pending to signalled.
LEMMA SignalReadyStageInv ==
    ASSUME StageInv, OneCaller, NEW c \in Callers, SignalReady(c)
    PROVE  StageInv'
<1> USE DEF SignalReady, GoC, handler, workers, history
<1>1. EntryInv' /\ WorkInv'
  BY DEF StageInv, EntryInv, Registered, WorkInv
<1>2. TypeOK'
  BY DEF StageInv, TypeOK
<1>3. LockInv'
  BY DEF StageInv, LockInv
<1>4. SlotInv'
  <2>1. i[c] \in Slots /\ Pending(c, i[c]) /\ ~Finishing(i[c])
    BY SlotOfCaller DEF StageInv, TypeOK, Pending, Finishing
  <2>2. \A s \in Slots :
        s # i[c] =>
          /\ (Pending(c, s)' <=> Pending(c, s))
          /\ (Signalled(c, s)' <=> Signalled(c, s))
    BY RegisteredCount DEF StageInv, TypeOK, Slots, Pending, Signalled
  <2>3. Signalled(c, i[c])' /\ ~Pending(c, i[c])'
    BY DEF StageInv, TypeOK, Pending, Signalled
  <2>4. \A s \in Slots : Finishing(s)' = Finishing(s)
    BY DEF Finishing
  <2>5. Waiting(i[c]) /\ InHand(i[c])'
    BY <2>1, <2>4 DEF StageInv, TypeOK, SlotInv, Waiting, InHand
  <2>6. \A s \in Slots :
        s # i[c] =>
          /\ (Waiting(s) => Waiting(s)')
          /\ (InHand(s) => InHand(s)')
          /\ (Clear(s) => Clear(s)')
    BY <2>4 DEF StageInv, TypeOK, Waiting, InHand, Clear
  <2>7. QED
    BY <2>1, <2>2, <2>3, <2>5, <2>6 DEF StageInv, SlotInv, OneCaller
<1>5. TaskInv'
  BY DEF StageInv, TaskInv
<1>6. MainInv'
  BY DEF StageInv, MainInv
<1>7. IndexInv'
  BY DEF StageInv, IndexInv
<1>8. QED
  BY <1>1, <1>2, <1>3, <1>4, <1>5, <1>6, <1>7 DEF StageInv

\* The index moves past a signalled slot.
LEMMA NotifyReadyStageInv ==
    ASSUME StageInv, OneCaller, NEW c \in Callers, NotifyReady(c)
    PROVE  StageInv'
<1> USE DEF NotifyReady, GoC, NotifyOne, handler, workers, history
<1>1. EntryInv' /\ LockInv' /\ WorkInv'
  BY DEF StageInv, EntryInv, Registered, LockInv, WorkInv
<1>2. TypeOK'
  <2>1. i[c] < nr_tasks /\ i[c] + 1 \in 0 .. NrThreads
    BY RegisteredCount DEF StageInv, TypeOK, IndexInv
  <2>2. i[c] \in Slots /\ c \in Threads
    BY <2>1, SlotOfCaller DEF Threads
  <2>3. QED
    BY <2>1, <2>2, BlockedType DEF StageInv, TypeOK
<1>3. SlotInv'
  BY DEF StageInv, TypeOK, Slots, SlotInv, Pending, Signalled, Waiting, InHand, Clear,
     Finishing
<1>4. TaskInv'
  BY DEF StageInv, TaskInv
<1>5. MainInv'
  BY DEF StageInv, MainInv
<1>6. IndexInv'
  BY DEF StageInv, TypeOK, IndexInv
<1>7. QED
  BY <1>1, <1>2, <1>3, <1>4, <1>5, <1>6 DEF StageInv

\* Every slot in use is signalled when the main thread's piece runs.
LEMMA RunMainStageInv ==
    ASSUME StageInv, OneCaller, NEW c \in Callers, RunMain(c)
    PROVE  StageInv'
<1> USE DEF RunMain, GoC, handler, flags, workers
<1>1. EntryInv' /\ LockInv'
  BY DEF StageInv, EntryInv, Registered, LockInv
<1>2. TypeOK'
  <2>1. main_task \in Tasks
    BY DEF StageInv, TypeOK
  <2>2. QED
    BY <2>1, RegisteredCount DEF StageInv, TypeOK
<1>3. SlotInv'
  BY DEF StageInv, TypeOK, Slots, SlotInv, TaskInv, Pending, Signalled, Waiting,
     InHand, Clear, Finishing
<1>4. TaskInv'
  BY DEF StageInv, TaskInv
<1>5. MainInv'
  BY DEF StageInv, OneCaller, TypeOK, MainInv
<1>6. WorkInv'
  BY DEF StageInv, MainInv, WorkInv
<1>7. IndexInv'
  BY DEF StageInv, TypeOK, IndexInv
<1>8. QED
  BY <1>1, <1>2, <1>3, <1>4, <1>5, <1>6, <1>7 DEF StageInv

\* The caller sees done, or blocks.
LEMMA AwaitDoneStageInv ==
    ASSUME StageInv, OneCaller, NEW c \in Callers, AwaitDone(c)
    PROVE  StageInv'
<1> USE DEF AwaitDone, GoC, Block, handler, workers, history
<1>1. EntryInv' /\ LockInv' /\ WorkInv'
  BY DEF StageInv, EntryInv, Registered, LockInv, WorkInv
<1>2. TypeOK'
  <2>1. i[c] \in Slots /\ c \in Threads
    BY SlotOfCaller DEF Threads
  <2>2. QED
    BY <2>1, BlockedType DEF StageInv, TypeOK
<1>3. SlotInv'
  BY DEF StageInv, TypeOK, SlotInv, Pending, Signalled, Waiting, InHand, Clear,
     Finishing
<1>4. TaskInv'
  BY DEF StageInv, OneCaller, TaskInv
<1>5. MainInv'
  BY DEF StageInv, OneCaller, TypeOK, MainInv
<1>6. IndexInv'
  BY DEF StageInv, TypeOK, IndexInv
<1>7. QED
  BY <1>1, <1>2, <1>3, <1>4, <1>5, <1>6 DEF StageInv

\* The slot at i was done: it is cleared and the index passes it.
LEMMA ResetSlotStageInv ==
    ASSUME StageInv, OneCaller, NEW c \in Callers, ResetSlot(c)
    PROVE  StageInv'
<1> USE DEF ResetSlot, GoC, workers, history
<1>1. EntryInv' /\ LockInv'
  BY DEF StageInv, EntryInv, Registered, LockInv
<1>2. TypeOK'
  <2>1. i[c] < nr_tasks /\ i[c] + 1 \in 0 .. NrThreads
    BY RegisteredCount DEF StageInv, TypeOK, IndexInv
  <2>2. i[c] \in Slots
    BY <2>1, SlotOfCaller
  <2>3. QED
    BY <2>1, <2>2 DEF StageInv, TypeOK
<1>3. SlotInv'
  BY DEF StageInv, OneCaller, TypeOK, Slots, SlotInv, IndexInv, Pending, Signalled,
     InHand, Clear, Finishing
<1>4. TaskInv'
  BY DEF StageInv, TaskInv
<1>5. MainInv'
  BY DEF StageInv, MainInv
<1>6. WorkInv'
  BY DEF StageInv, SlotInv, WorkInv, IndexInv, Pending, InHand, Clear
<1>7. IndexInv'
  BY DEF StageInv, OneCaller, TypeOK, IndexInv
<1>8. QED
  BY <1>1, <1>2, <1>3, <1>4, <1>5, <1>6, <1>7 DEF StageInv

\* The index passed every slot in use: all are clear.
LEMMA ReturnStageInv ==
    ASSUME StageInv, OneCaller, NEW c \in Callers, Return(c)
    PROVE  StageInv'
<1> USE DEF Return, GoC, flags, workers, history
<1>1. EntryInv' /\ LockInv'
  BY DEF StageInv, EntryInv, Registered, LockInv
<1>2. TypeOK'
  BY RegisteredCount DEF StageInv, TypeOK
<1>3. SlotInv'
  <2>1. \A s \in Slots : ~Pending(c, s) /\ ~Signalled(c, s)
    BY RegisteredCount DEF StageInv, TypeOK, IndexInv, Slots, Pending, Signalled
  <2>2. \A s \in Slots : Clear(s) /\ Clear(s)'
    BY <2>1 DEF StageInv, SlotInv, Clear
  <2>3. \A d \in Callers, s \in Slots : ~Pending(d, s)' /\ ~Signalled(d, s)'
    BY RegisteredCount DEF StageInv, TypeOK, Slots, Pending, Signalled
  <2>4. QED
    BY <2>1, <2>2, <2>3 DEF SlotInv
<1>4. TaskInv'
  BY DEF StageInv, TaskInv
<1>5. MainInv'
  BY DEF StageInv, OneCaller, TypeOK, MainInv
<1>6. WorkInv'
  BY DEF StageInv, MainInv, WorkInv
<1>7. IndexInv'
  BY DEF StageInv, OneCaller, TypeOK, IndexInv
<1>8. QED
  BY <1>1, <1>2, <1>3, <1>4, <1>5, <1>6, <1>7 DEF StageInv

\* A wake-up changes no flag.
LEMMA SpuriousWakeupStageInv ==
    ASSUME StageInv, OneCaller, NEW s \in Slots, SpuriousWakeup(s)
    PROVE  StageInv'
<1> USE DEF SpuriousWakeup, handler, workers, callers, history
<1>1. EntryInv' /\ LockInv' /\ SlotInv' /\ TaskInv' /\ MainInv' /\ WorkInv' /\ IndexInv'
  BY DEF StageInv, EntryInv, Registered, LockInv, SlotInv, Pending, Signalled,
     Waiting, InHand, Clear, Finishing, TaskInv, MainInv, WorkInv, IndexInv
<1>2. TypeOK'
  BY DEF StageInv, TypeOK
<1>3. QED
  BY <1>1, <1>2 DEF StageInv

----------------------------------------------------------------------------
(* The work that is accepted *)

\* Two workers on a slot stay there.
LEMMA SharedLasts ==
    ASSUME StageInv, [Next]_vars
    PROVE  Shared => Shared'
<1>1. CASE UNCHANGED <<wpc, slot>>
  BY <1>1 DEF Shared
<1>2. ASSUME NEW w \in Workers, WorkerStep(w)
      PROVE  \A v \in Workers :
                wpc[v] # "enter" => wpc'[v] # "enter" /\ slot'[v] = slot[v]
  BY <1>2 DEF WorkerStep, LoadEntered, StoreEntered, AwaitReady, RunTask, FinishTask,
     NotifyDone, GoW, StageInv, TypeOK
<1>3. CASE \E w \in Workers : WorkerStep(w)
  BY <1>2, <1>3 DEF Shared
<1>4. CASE \E c \in Callers : CountThreads(c) \/ OperationStep(c)
  BY <1>1, <1>4 DEF CountThreads, OperationStep, AddMain, AddTask, AddRefused, AddWork, DoWork,
     SignalReady, NotifyReady, RunMain, AwaitDone, ResetSlot, Return, workers
<1>5. CASE (\E s \in Slots : SpuriousWakeup(s)) \/ UNCHANGED vars
  BY <1>1, <1>5 DEF SpuriousWakeup, workers, vars
<1>6. QED
  BY <1>3, <1>4, <1>5 DEF Next

\* A worker that loads entered_threads while another is about to store it gets the
\* other's slot; it was not registered, and is not yet.
LEMMA LoadEnteredAcceptInv ==
    ASSUME StageInv, AcceptInv, NEW w \in Workers, LoadEntered(w), Shared => Shared'
    PROVE  AcceptInv'
<1>1. /\ wpc[w] = "enter"
      /\ wpc' = [wpc EXCEPT ![w] = "store"] /\ slot' = [slot EXCEPT ![w] = entered_threads]
      /\ UNCHANGED <<entered_threads, nr_tasks, cpc, count, next, queued, settled>>
  BY DEF LoadEntered, GoW, handler, callers, history
<1>2. /\ wpc \in [Workers -> {"enter", "store", "wait", "run", "finish", "notify"}]
      /\ slot \in [Workers -> 0 .. NrThreads]
  BY DEF StageInv, TypeOK
<1>3. EntryCounts'
  <2>1. SUFFICES ASSUME ~Shared'
                 PROVE  \A v \in Workers : wpc'[v] = "store" => v = w /\ slot'[v] = entered_threads'
    BY DEF EntryCounts
  <2>2. ASSUME NEW v \in Workers, v # w PROVE wpc'[v] # "store"
    <3>1. SUFFICES ASSUME wpc'[v] = "store" PROVE FALSE
      OBVIOUS
    <3>2. wpc[v] = "store" /\ slot'[v] = slot[v] /\ slot'[w] = entered_threads /\ wpc'[w] = "store"
      BY <1>1, <1>2, <2>2, <3>1
    <3>3. slot[v] = entered_threads
      BY <2>1, <3>2 DEF AcceptInv, EntryCounts
    <3> QED
      BY <2>1, <2>2, <3>1, <3>2, <3>3 DEF Shared
  <2> QED
    BY <1>1, <1>2, <2>2
<1>4. Registered' = Registered
  BY <1>1, <1>2 DEF Registered
<1>5. SettledInv' /\ Accepted'
  BY <1>1, <1>4 DEF AcceptInv, SettledInv, Accepted
<1>6. QED
  BY <1>3, <1>5 DEF AcceptInv

\* A worker that stores was not registered: no operation is settled.
LEMMA StoreEnteredAcceptInv ==
    ASSUME StageInv, AcceptInv, NEW w \in Workers, StoreEntered(w), Shared => Shared'
    PROVE  AcceptInv'
<1>1. /\ wpc[w] = "store" /\ wpc' = [wpc EXCEPT ![w] = "wait"]
      /\ slot' = slot /\ entered_threads' = slot[w] + 1
      /\ UNCHANGED <<nr_tasks, cpc, count, next, queued, settled>>
  BY DEF StoreEntered, GoW, handler, callers, history
<1>2. wpc \in [Workers -> {"enter", "store", "wait", "run", "finish", "notify"}]
  BY DEF StageInv, TypeOK
<1>3. \A c \in Callers : ~settled[c]
  BY <1>1 DEF AcceptInv, SettledInv, Registered
<1>4. SettledInv'
  BY <1>1, <1>3 DEF SettledInv
<1>5. ~Shared => slot[w] = entered_threads /\ \A v \in Workers : wpc[v] = "store" => v = w
  BY <1>1 DEF AcceptInv, EntryCounts
<1>6. EntryCounts'
  BY <1>1, <1>2, <1>5 DEF EntryCounts
<1>7. /\ entered_threads \in Nat
      /\ \A c \in Callers : count[c] \in Nat
  BY RegisteredCount DEF StageInv, TypeOK
<1>8. Accepted'
  BY <1>1, <1>3, <1>5, <1>7 DEF AcceptInv, Accepted
<1>9. QED
  BY <1>4, <1>6, <1>8 DEF AcceptInv

\* No other step of a worker changes what AcceptInv is about.
LEMMA WorkerAcceptInv ==
    ASSUME StageInv, AcceptInv, NEW w \in Workers, WorkerStep(w), Shared => Shared'
    PROVE  AcceptInv'
<1>1. CASE AwaitReady(w) \/ RunTask(w) \/ FinishTask(w) \/ NotifyDone(w)
  <2>1. UNCHANGED <<entered_threads, nr_tasks, cpc, count, next, queued, slot, settled>>
    BY <1>1 DEF AwaitReady, RunTask, FinishTask, NotifyDone, handler, callers, history
  <2>2. /\ \A v \in Workers : wpc'[v] = "store" => wpc[v] = "store"
        /\ Registered' = Registered
    BY <1>1 DEF AwaitReady, RunTask, FinishTask, NotifyDone, GoW, StageInv, TypeOK, Registered
  <2>3. EntryCounts'
    BY <2>1, <2>2 DEF AcceptInv, EntryCounts
  <2>4. SettledInv' /\ Accepted'
    BY <2>1, <2>2 DEF AcceptInv, SettledInv, Accepted
  <2> QED
    BY <2>3, <2>4 DEF AcceptInv
<1>2. QED
  BY <1>1, LoadEnteredAcceptInv, StoreEnteredAcceptInv DEF WorkerStep

\* A caller finds a slot for each piece it adds.
LEMMA CallerAcceptInv ==
    ASSUME OneCaller, StageInv, AcceptInv, NEW c \in Callers, CountThreads(c) \/ OperationStep(c)
    PROVE  AcceptInv'
<1>1. UNCHANGED <<entered_threads, wpc, slot>>
  BY DEF CountThreads, OperationStep, AddMain, AddTask, AddRefused, AddWork, DoWork, SignalReady,
         NotifyReady, RunMain, AwaitDone, ResetSlot, Return, workers
<1>2. (Shared' <=> Shared) /\ Registered' = Registered
  BY <1>1 DEF Shared, Registered
<1>3. EntryCounts'
  BY <1>1, <1>2 DEF AcceptInv, EntryCounts
<1>4. Callers = {c}
  BY DEF OneCaller
<1>5. /\ NrThreads \in Nat /\ entered_threads \in Nat /\ nr_tasks \in Nat
      /\ cpc \in [Callers -> {"idle", "add", "signal", "notify", "await", "reset"}]
      /\ count \in [Callers -> Nat] /\ next \in [Callers -> Nat] /\ queued \in SUBSET Tasks
      /\ settled \in [Callers -> BOOLEAN]
  BY RegisteredCount DEF StageInv, TypeOK
<1> DEFINE Sound == settled[c] \/ ~Shared
<1>6. cpc[c] # "idle" /\ Sound =>
        /\ count[c] <= entered_threads + 1
        /\ cpc[c] = "add" /\ next[c] > 0 => nr_tasks = next[c] - 1
        /\ cpc[c] # "add" => next[c] = count[c]
        /\ \A j \in 0 .. next[c] - 1 : <<c, j>> \in queued
  BY DEF AcceptInv, Accepted
<1> DEFINE Kept == cpc'[c] # "idle" =>
        /\ count'[c] <= entered_threads' + 1
        /\ cpc'[c] = "add" /\ next'[c] > 0 => nr_tasks' = next'[c] - 1
        /\ cpc'[c] # "add" => next'[c] = count'[c]
        /\ \A j \in 0 .. next'[c] - 1 : <<c, j>> \in queued'
<1>7. CASE CountThreads(c)
  <2>1. /\ cpc'[c] = "add" /\ count'[c] = entered_threads + 1 /\ next'[c] = 0
        /\ settled'[c] = (Registered = Workers)
    BY <1>5, <1>7 DEF CountThreads, GoC
  <2>2. Kept
    BY <1>1, <1>5, <2>1
  <2>3. Accepted'
    BY <1>4, <2>2 DEF Accepted
  <2>4. SettledInv'
    BY <1>2, <1>4, <2>1 DEF SettledInv
  <2> QED
    BY <1>3, <2>3, <2>4 DEF AcceptInv
<1>8. CASE OperationStep(c)
  <2>1. settled' = settled
    BY <1>8 DEF OperationStep, AddMain, AddTask, AddRefused, AddWork, DoWork, SignalReady,
       NotifyReady, RunMain, AwaitDone, ResetSlot, Return, history
  <2>2. SettledInv'
    BY <1>2, <2>1 DEF AcceptInv, SettledInv
  <2>3. (Sound => Kept) => Accepted'
    BY <1>2, <1>4, <2>1 DEF Accepted
  <2>4. SUFFICES ASSUME Sound PROVE Kept
    BY <1>3, <2>2, <2>3 DEF AcceptInv
  <2>5. CASE AddMain(c) \/ AddTask(c)
    <3>1. /\ cpc[c] = "add" /\ next[c] < count[c] /\ cpc' = cpc /\ count' = count
          /\ next'[c] = next[c] + 1
          /\ queued' = queued \cup {<<c, next[c]>>}
      BY <1>5, <2>5 DEF AddMain, AddTask, AddWork
    <3>2. nr_tasks' = next[c]
      <4>1. CASE AddMain(c)
        <5>1. next[c] = 0 /\ nr_tasks = 0
          BY <3>1, <4>1 DEF StageInv, MainInv, AddMain
        <5> QED
          BY <4>1, <5>1 DEF AddMain
      <4>2. CASE AddTask(c)
        <5>1. next[c] # 0 /\ nr_tasks' = nr_tasks + 1
          BY <3>1, <4>2 DEF StageInv, MainInv, AddTask
        <5> QED
          BY <1>5, <1>6, <2>4, <3>1, <5>1
      <4> QED
        BY <2>5, <4>1, <4>2
    <3>3. \A j \in 0 .. next'[c] - 1 : <<c, j>> \in queued'
      <4>1. \A j \in 0 .. next'[c] - 1 : j \in 0 .. next[c] - 1 \/ j = next[c]
        BY <1>5, <3>1
      <4> QED
        BY <1>6, <2>4, <3>1, <4>1
    <3> QED
      BY <1>1, <1>5, <1>6, <2>4, <3>1, <3>2, <3>3
  <2>6. ~AddRefused(c)
    <3>1. SUFFICES ASSUME AddRefused(c) PROVE FALSE
      OBVIOUS
    <3>2. /\ cpc[c] = "add" /\ next[c] < count[c] /\ main_task # NoTask
          /\ nr_tasks >= entered_threads
      BY <3>1 DEF AddRefused, AddWork
    <3>3. next[c] # 0
      BY <3>2 DEF StageInv, MainInv
    <3> QED
      BY <1>5, <1>6, <2>4, <3>2, <3>3
  <2>7. CASE DoWork(c)
    <3>1. /\ cpc[c] = "add" /\ next[c] = count[c] /\ cpc'[c] = "signal"
          /\ UNCHANGED <<count, next, queued>>
      BY <1>5, <2>7 DEF DoWork, GoC, history
    <3> QED
      BY <1>1, <1>6, <2>4, <3>1
  <2>8. CASE \/ SignalReady(c) \/ NotifyReady(c) \/ RunMain(c)
             \/ AwaitDone(c) \/ ResetSlot(c) \/ Return(c)
    <3>1. /\ cpc[c] \notin {"idle", "add"} /\ cpc'[c] # "add"
          /\ UNCHANGED <<count, next, queued>>
      BY <1>5, <2>8 DEF SignalReady, NotifyReady, RunMain, AwaitDone, ResetSlot, Return, GoC, history
    <3> QED
      BY <1>1, <1>6, <2>4, <3>1
  <2> QED
    BY <1>8, <2>5, <2>6, <2>7, <2>8 DEF OperationStep
<1>9. QED
  BY <1>7, <1>8

\* AcceptInv is inductive relative to StageInv.
LEMMA NextAcceptInv ==
    ASSUME OneCaller, StageInv, AcceptInv, [Next]_vars
    PROVE  AcceptInv'
<1>1. CASE (\E s \in Slots : SpuriousWakeup(s)) \/ UNCHANGED vars
  <2>1. UNCHANGED <<entered_threads, nr_tasks, wpc, slot, cpc, count, next, queued, settled>>
    BY <1>1 DEF SpuriousWakeup, vars, handler, workers, callers, history
  <2> QED
    BY <2>1 DEF AcceptInv, EntryCounts, SettledInv, Accepted, Shared, Registered
<1>2. QED
  BY <1>1, SharedLasts, WorkerAcceptInv, CallerAcceptInv DEF Next

----------------------------------------------------------------------------
(* Theorems *)

\* The invariant is inductive as long as one client thread dispatches work.
LEMMA NextStageInv == OneCaller /\ StageInv /\ [Next]_vars => StageInv'
<1> SUFFICES ASSUME OneCaller, StageInv, [Next]_vars PROVE StageInv'
  OBVIOUS
<1>1. ASSUME NEW w \in Workers, WorkerStep(w) PROVE StageInv'
  BY <1>1, LoadEnteredStageInv, StoreEnteredStageInv, AwaitReadyStageInv, RunTaskStageInv,
     FinishTaskStageInv, NotifyDoneStageInv DEF WorkerStep
<1>2. ASSUME NEW c \in Callers, CountThreads(c) \/ OperationStep(c) PROVE StageInv'
  BY <1>2, CountThreadsStageInv, AddMainStageInv, AddTaskStageInv, AddRefusedStageInv, DoWorkStageInv,
     SignalReadyStageInv, NotifyReadyStageInv, RunMainStageInv, AwaitDoneStageInv, ResetSlotStageInv,
     ReturnStageInv DEF OperationStep
<1>3. ASSUME NEW s \in Slots, SpuriousWakeup(s) PROVE StageInv'
  BY <1>3, SpuriousWakeupStageInv
<1>4. ASSUME UNCHANGED vars PROVE StageInv'
  BY <1>4 DEF vars, handler, flags, workers, callers, history, StageInv, TypeOK,
     EntryInv,
     Registered, LockInv, SlotInv, Pending, Signalled, Waiting, InHand, Clear,
     Finishing, TaskInv, MainInv, WorkInv, IndexInv
<1>5. QED
  BY <1>1, <1>2, <1>3, <1>4 DEF Next

\* The life of a slot, whatever the workers do, and that no piece of work is without one.
THEOREM DispatchInvariant == OneCaller => (Spec => []IInv)
<1> SUFFICES ASSUME OneCaller PROVE Spec => []IInv
  OBVIOUS
<1>1. Init => IInv
  <2>1. Init => AcceptInv
    BY DEF Init, AcceptInv, EntryCounts, SettledInv, Accepted
  <2> QED
    BY <2>1, InitStageInv DEF IInv
<1>2. IInv /\ [Next]_vars => IInv'
  BY NextStageInv, NextAcceptInv DEF IInv
<1>3. QED
  BY <1>1, <1>2, PTL DEF Spec

\* Every index of threads[] stays inside the array and every variable in its
\* type, for any number of workers and any overlap of their registrations.
THEOREM TypeCorrect == OneCaller => (Spec => []TypeOK)
<1>1. IInv => TypeOK
  BY DEF IInv, StageInv
<1>2. QED
  BY <1>1, DispatchInvariant, PTL

\* The writes thread_add_work and thread_do_work make without the slot's mutex
\* never meet a worker in that slot's critical section.
THEOREM UnlockedWritesSafe == OneCaller => (Spec => []UnlockedWritesAreExclusive)
<1>1. IInv => UnlockedWritesAreExclusive
  <2> SUFFICES ASSUME StageInv, NEW c \in Callers, NEW w \in Workers,
                      wpc[w] \in {"run", "finish"}
               PROVE  cpc[c] # "add" /\ ~(cpc[c] = "reset" /\ slot[w] = i[c])
    BY DEF IInv, UnlockedWritesAreExclusive
  <2>1. Signalled(c, slot[w]) /\ ~done[slot[w]]
    BY HolderSignalled
  <2>2. QED
    BY <2>1 DEF StageInv, IndexInv, Signalled
<1>2. QED
  BY <1>1, DispatchInvariant, PTL

\* thread_do_work leaves nothing behind for the next operation.
THEOREM QuietAfterReturn == OneCaller => (Spec => []QuietBetweenOperations)
<1>1. IInv => QuietBetweenOperations
  <2> SUFFICES ASSUME StageInv, \A c \in Callers : cpc[c] = "idle"
               PROVE  /\ nr_tasks = 0 /\ main_task = NoTask
                      /\ \A s \in Slots : ~ready[s] /\ ~done[s] /\ task_args[s] = NoTask
                      /\ \A w \in Workers : wpc[w] \notin {"run", "finish"}
    BY DEF IInv, QuietBetweenOperations
  <2>1. PICK c \in Callers : cpc[c] = "idle"
    BY ThreadsAssumption
  <2>2. nr_tasks = 0 /\ main_task = NoTask
    BY <2>1 DEF StageInv, MainInv
  <2>3. \A s \in Slots : Clear(s)
    BY <2>1, <2>2 DEF StageInv, SlotInv, Pending, Signalled
  <2>4. \A w \in Workers : wpc[w] \notin {"run", "finish"}
    BY <2>1, HolderSignalled DEF Signalled
  <2>5. QED
    BY <2>2, <2>3, <2>4 DEF Clear
<1>2. QED
  BY <1>1, DispatchInvariant, PTL

\* Steps that change neither phases nor history are stutters of ForkJoin.
LEMMA StutterStep ==
    ASSUME UNCHANGED history, UNCHANGED Phase
    PROVE  UNCHANGED Promise!vars
BY DEF history, Promise!vars

\* What each step that matters to the caller does, as ForkJoin sees it.
LEMMA RunTaskRefines ==
    ASSUME StageInv, NEW w \in Workers, RunTask(w)
    PROVE  \E t \in Tasks : Promise!Run(t)
<1> DEFINE t == task_args[slot[w]]
<1> USE DEF RunTask, GoW, callers
<1>1. slot[w] \in Slots /\ t \in Tasks
  BY SlotOfWorker DEF StageInv, TypeOK
<1>2. t[1] \in Callers
  BY <1>1 DEF Tasks
<1>3. Signalled(t[1], slot[w]) /\ lock[slot[w]] = w /\ ~done[slot[w]]
  BY <1>2, HolderSignalled
<1>4. runs[t] = 0 /\ t \in queued
  BY <1>1, <1>2, <1>3, ThreadsAssumption DEF StageInv, TypeOK, SlotInv, InHand,
     Finishing, TaskInv
<1>5. Phase[t[1]] = "join"
  BY <1>2, <1>3 DEF Phase, Signalled
<1>6. UNCHANGED <<Phase, queued>> /\ runs' = [runs EXCEPT ![t] = 1]
  BY <1>4 DEF Phase
<1>7. QED
  BY <1>1, <1>4, <1>5, <1>6 DEF Promise!Run

LEMMA RunMainRefines ==
    ASSUME StageInv, OneCaller, NEW c \in Callers, RunMain(c)
    PROVE  \E t \in Tasks : Promise!Run(t)
<1> USE DEF RunMain, GoC
<1>1. main_task \in Tasks /\ main_task \in queued /\ runs[main_task] = 0
  BY DEF StageInv, TypeOK, MainInv
<1>2. main_task[1] = c
  BY <1>1 DEF Tasks, OneCaller
<1>3. Phase[c] = "join" /\ Phase' = Phase
  BY DEF StageInv, TypeOK, Phase
<1>4. runs' = [runs EXCEPT ![main_task] = 1]
  BY <1>1
<1>5. QED
  BY <1>1, <1>2, <1>3, <1>4 DEF Promise!Run

LEMMA CountThreadsRefines ==
    ASSUME StageInv, NEW c \in Callers, CountThreads(c)
    PROVE  Promise!Open(c)
<1> USE DEF CountThreads, GoC
<1>1. Phase[c] = "idle" /\ Phase' = [Phase EXCEPT ![c] = "open"]
  BY DEF StageInv, TypeOK, Phase
<1>2. queued' = queued \ Promise!TasksOf(c)
  BY DEF StageInv, TypeOK, Promise!TasksOf
<1>3. runs' = [t \in Tasks |-> IF t \in Promise!TasksOf(c) THEN 0 ELSE runs[t]]
  BY DEF Promise!TasksOf
<1>4. QED
  BY <1>1, <1>2, <1>3 DEF Promise!Open

LEMMA AddRefines ==
    ASSUME StageInv, NEW c \in Callers, AddMain(c) \/ AddTask(c)
    PROVE  \E t \in Tasks : Promise!Accept(t)
<1> USE DEF AddMain, AddTask, AddWork
<1>1. <<c, next[c]>> \in Tasks
  BY RegisteredCount DEF StageInv, TypeOK, MainInv, Tasks
<1>2. Phase[c] = "open" /\ Phase' = Phase /\ runs' = runs
  BY DEF Phase
<1>3. Promise!Accept(<<c, next[c]>>)
  BY <1>2 DEF Promise!Accept
<1>4. QED
  BY <1>1, <1>3

LEMMA DoWorkRefines ==
    ASSUME StageInv, NEW c \in Callers, DoWork(c)
    PROVE  Promise!Join(c)
BY DEF DoWork, GoC, history, StageInv, TypeOK, Phase, Promise!Join

LEMMA ReturnRefines ==
    ASSUME StageInv, OneCaller, NEW c \in Callers, Return(c)
    PROVE  Promise!Return(c)
<1> USE DEF Return, GoC, history
<1>1. \A s \in Slots : task_args[s] = NoTask
  <2>1. \A s \in Slots : ~Pending(c, s) /\ ~Signalled(c, s)
    BY RegisteredCount DEF StageInv, TypeOK, IndexInv, Slots, Pending, Signalled
  <2>2. QED
    BY <2>1 DEF StageInv, SlotInv, Clear
<1>2. main_task # NoTask => runs[main_task] = 1
  BY DEF StageInv, MainInv
<1>3. \A t \in queued : runs[t] = 1
  BY <1>1, <1>2, ThreadsAssumption DEF StageInv, TypeOK, WorkInv
<1>4. Phase[c] = "join" /\ Phase' = [Phase EXCEPT ![c] = "idle"]
  BY DEF StageInv, TypeOK, Phase
<1>5. QED
  BY <1>3, <1>4 DEF Promise!Return

\* Every other step of a worker or a caller is a stutter.
LEMMA OtherStepsStutter ==
    ASSUME StageInv,
           \/ \E w \in Workers : \/ LoadEntered(w) \/ StoreEntered(w) \/ AwaitReady(w)
                                 \/ FinishTask(w) \/ NotifyDone(w)
           \/ \E c \in Callers : \/ AddRefused(c) \/ SignalReady(c) \/ NotifyReady(c)
                                 \/ AwaitDone(c) \/ ResetSlot(c)
           \/ \E s \in Slots : SpuriousWakeup(s)
           \/ UNCHANGED vars
    PROVE  UNCHANGED Promise!vars
<1>1. UNCHANGED history
  BY DEF LoadEntered, StoreEntered, AwaitReady, FinishTask, NotifyDone, AddRefused,
     AddWork, SignalReady, NotifyReady, AwaitDone, ResetSlot, SpuriousWakeup, vars, history
<1>2. UNCHANGED Phase
  <2>1. CASE UNCHANGED cpc
    BY <2>1 DEF Phase
  <2>2. ASSUME NEW c \in Callers,
               \/ SignalReady(c) \/ NotifyReady(c) \/ AwaitDone(c) \/ ResetSlot(c)
        PROVE  UNCHANGED Phase
    BY <2>2 DEF SignalReady, NotifyReady, AwaitDone, ResetSlot, GoC, StageInv, TypeOK,
       Phase
  <2>3. QED
    BY <2>1, <2>2 DEF LoadEntered, StoreEntered, AwaitReady, FinishTask, NotifyDone,
       AddRefused, AddWork, SpuriousWakeup, vars, callers
<1>3. QED
  BY <1>1, <1>2, StutterStep

\* With one client thread the dispatcher implements fork and join: work that was
\* added runs exactly once, inside thread_do_work, which returns after all of
\* it.  It does so however many workers registered, and whatever slots the race
\* on entered_threads gave them.
THEOREM Implements == OneCaller => (Spec => ImplementsForkJoin)
<1> SUFFICES ASSUME OneCaller PROVE Spec => Promise!Spec
  BY DEF ImplementsForkJoin
<1>1. Init => Promise!Init
  BY DEF Init, Promise!Init, Phase
<1>2. StageInv /\ [Next]_vars => [Promise!Next]_(Promise!vars)
  <2> SUFFICES ASSUME StageInv, [Next]_vars PROVE Promise!Next \/ UNCHANGED Promise!vars
    OBVIOUS
  <2>1. ASSUME NEW w \in Workers, WorkerStep(w)
        PROVE  Promise!Next \/ UNCHANGED Promise!vars
    BY <2>1, RunTaskRefines, OtherStepsStutter DEF WorkerStep, Promise!Next
  <2>2. ASSUME NEW c \in Callers, CountThreads(c) \/ OperationStep(c)
        PROVE  Promise!Next \/ UNCHANGED Promise!vars
    BY <2>2, CountThreadsRefines, AddRefines, DoWorkRefines, RunMainRefines,
       ReturnRefines,
       OtherStepsStutter DEF OperationStep, Promise!Next
  <2>3. CASE (\E s \in Slots : SpuriousWakeup(s)) \/ UNCHANGED vars
    BY <2>3, OtherStepsStutter
  <2>4. QED
    BY <2>1, <2>2, <2>3 DEF Next
<1>3. Spec => []StageInv
  <2>1. IInv => StageInv
    BY DEF IInv
  <2> QED
    BY <2>1, DispatchInvariant, PTL
<1>4. QED
  BY <1>1, <1>2, <1>3, PTL DEF Spec, Promise!Spec

\* thread_add_work returns 1, which nobody looks at, to no operation that began when
\* every worker had registered, however their registrations raced; and to none at
\* all as long as the race has not given two workers one slot.
THEOREM AllWorkAccepted == OneCaller => (Spec => []NothingRefused)
<1>1. IInv => NothingRefused
  BY DEF IInv, AcceptInv, Accepted, NothingRefused
<1>2. QED
  BY <1>1, DispatchInvariant, PTL
=============================================================================
