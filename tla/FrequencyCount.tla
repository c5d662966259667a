---------------------------- MODULE FrequencyCount ----------------------------
(***************************************************************************)
(* process_new_image (ImageSearch/src/img_processing.cpp) and, for the     *)
(* LSH, calc_freq (training/lsh/lsh.cpp): the histogram of an image over   *)
(* the codebook.  The descriptors are cut into one range per thread, each  *)
(* thread finds the centre closest to each descriptor of its range (the    *)
(* vector with the largest product, for the LSH) and increments that       *)
(* centre's frequency, which all threads share without a lock.  An         *)
(* increment is a load and a store; that of calc_freq looks first whether  *)
(* the frequency is 0, which as none decreases changes nothing.            *)
(*                                                                         *)
(* The dispatcher is what ForkJoin promises of it: this module composes    *)
(* with it through its variables.  Distances are abstracted to the centre  *)
(* they make closest, an input.                                            *)
(***************************************************************************)
EXTENDS Naturals, FiniteSets

CONSTANTS Centres,      \* positions of the codebook
          MaxThreads,   \* threads thread_get_count may count, the caller included
          MaxDesc,      \* bound: descriptors of an image
          Nothing       \* what a thread holds between two increments

ASSUME FrequencyAssumption ==
    MaxThreads \in Nat \ {0} /\ MaxDesc \in Nat /\ Nothing \notin Nat

Client == "client"

VARIABLES
    phase, queued, runs,    \* the dispatcher's promise (ForkJoin)
    closest,                \* the image: descriptor -> its closest centre
    nr_threads,             \* threads counted for this image
    frequencies,            \* the shared histogram
    args_len,               \* threads the args of calc_freq were allocated for, 0 before
    pos, reg                \* per thread: loop index; the frequency it loaded, or Nothing

vars == <<phase, queued, runs, closest, nr_threads, frequencies, args_len, pos, reg>>

Threads == 0 .. MaxThreads - 1
Work == {Client} \X Threads

Dispatch == INSTANCE ForkJoin WITH Callers <- {Client}, Tasks <- Work

\* Images of up to MaxDesc descriptors.
Images == UNION {[0 .. d - 1 -> Centres] : d \in 0 .. MaxDesc}

nr_desc == Cardinality(DOMAIN closest)

\* Wrong: the ranges after the first begin in the one before.
StartOverlapping(j, n, d) == IF j = 0 THEN 0 ELSE (j - 1) * (d \div n) + 1

\* The range of thread j, half open, for n threads and d descriptors.
Start(j, n, d) == IF j = 0 THEN 0 ELSE j * (d \div n) + 1
End(j, n, d) == IF j # 0 /\ j + 1 = n THEN d ELSE j * (d \div n) + d \div n

Init == /\ Dispatch!Init
        /\ closest = [i \in {} |-> 0]
        /\ nr_threads = 1
        /\ frequencies = [c \in Centres |-> 0]
        /\ args_len = 0
        /\ pos = [j \in Threads |-> 0]
        /\ reg = [j \in Threads |-> Nothing]

\* Wrong: the histogram of the image before is kept.
ProcessOntoOld ==
    /\ Dispatch!Open(Client)
    /\ closest' \in Images
    /\ nr_threads' \in 1 .. MaxThreads
    /\ UNCHANGED <<frequencies, args_len, pos, reg>>

\* A new image: the histogram is zeroed and the threads counted.
ProcessNewImage ==
    /\ Dispatch!Open(Client)
    /\ closest' \in Images
    /\ nr_threads' \in 1 .. MaxThreads
    /\ frequencies' = [c \in Centres |-> 0]
    /\ UNCHANGED <<args_len, pos, reg>>

\* The same for the LSH, in a new histogram.  args is kept from the first image: of
\* more threads than were counted then, the last would be given what is behind it,
\* which is not modelled.
CalcFreq ==
    /\ Dispatch!Open(Client)
    /\ closest' \in Images
    /\ nr_threads' \in 1 .. IF args_len = 0 THEN MaxThreads ELSE args_len
    /\ args_len' = IF args_len = 0 THEN nr_threads' ELSE args_len
    /\ frequencies' = [c \in Centres |-> 0]
    /\ UNCHANGED <<pos, reg>>

\* The next thread's range is computed and handed to thread_add_work.
AddRange(j) ==
    /\ j < nr_threads
    /\ \A h \in 0 .. j : <<Client, h>> \in queued <=> h < j
    /\ Dispatch!Accept(<<Client, j>>)
    /\ pos' = [pos EXCEPT ![j] = Start(j, nr_threads, nr_desc)]
    /\ UNCHANGED <<closest, nr_threads, frequencies, args_len, reg>>

DoWork ==
    /\ Cardinality(queued) = nr_threads
    /\ Dispatch!Join(Client)
    /\ UNCHANGED <<closest, nr_threads, frequencies, args_len, pos, reg>>

Running(j) == /\ phase[Client] = "join"
              /\ <<Client, j>> \in queued
              /\ runs[<<Client, j>>] = 0

\* frequencies[pos]++ of parallel_process, in two steps.
LoadFrequency(j) ==
    /\ Running(j)
    /\ pos[j] < End(j, nr_threads, nr_desc)
    /\ reg[j] = Nothing
    /\ reg' = [reg EXCEPT ![j] = frequencies[closest[pos[j]]]]
    /\ UNCHANGED <<phase, queued, runs, closest, nr_threads, frequencies, args_len, pos>>

StoreFrequency(j) ==
    /\ Running(j)
    /\ reg[j] # Nothing
    /\ frequencies' = [frequencies EXCEPT ![closest[pos[j]]] = reg[j] + 1]
    /\ reg' = [reg EXCEPT ![j] = Nothing]
    /\ pos' = [pos EXCEPT ![j] = @ + 1]
    /\ UNCHANGED <<phase, queued, runs, closest, nr_threads, args_len>>

\* Wrong: the range's last descriptor is left out.
FinishEarly(j) ==
    /\ Running(j)
    /\ reg[j] = Nothing
    /\ pos[j] + 1 >= End(j, nr_threads, nr_desc)
    /\ Dispatch!Run(<<Client, j>>)
    /\ UNCHANGED <<closest, nr_threads, frequencies, args_len, pos, reg>>

\* The thread's piece of work has run.
FinishRange(j) ==
    /\ Running(j)
    /\ reg[j] = Nothing
    /\ pos[j] >= End(j, nr_threads, nr_desc)
    /\ Dispatch!Run(<<Client, j>>)
    /\ UNCHANGED <<closest, nr_threads, frequencies, args_len, pos, reg>>

Return ==
    /\ Dispatch!Return(Client)
    /\ UNCHANGED <<closest, nr_threads, frequencies, args_len, pos, reg>>

Next == \/ ProcessNewImage
        \/ CalcFreq
        \/ DoWork
        \/ Return
        \/ \E j \in Threads : \/ AddRange(j) \/ LoadFrequency(j)
                              \/ StoreFrequency(j) \/ FinishRange(j)

Spec == Init /\ [][Next]_vars

----------------------------------------------------------------------------
(* Properties *)

TypeOK == /\ Dispatch!TypeOK
          /\ closest \in Images
          /\ nr_threads \in 1 .. MaxThreads
          /\ frequencies \in [Centres -> 0 .. MaxDesc]
          /\ args_len \in 0 .. MaxThreads
          /\ pos \in [Threads -> 0 .. MaxDesc + 1]
          /\ reg \in [Threads -> {Nothing} \cup 0 .. MaxDesc]

ClosestTo(c) == {i \in DOMAIN closest : closest[i] = c}

\* The descriptors some thread's range holds.
Taken == {i \in DOMAIN closest :
            \E j \in 0 .. nr_threads - 1 :
                Start(j, nr_threads, nr_desc) <= i /\ i < End(j, nr_threads, nr_desc)}

\* No descriptor is counted twice, at any moment: the ranges do not overlap.
NeverOvercounts == \A c \in Centres : frequencies[c] <= Cardinality(ClosestTo(c))

\* The unlocked increments may lose counts, but never a centre: once the
\* histogram is returned, exactly the centres of the descriptors in some range
\* have a frequency above 0 (what add_image makes postings of).
RaceKeepsCentres ==
    phase[Client] = "idle" =>
        \A c \in Centres : frequencies[c] > 0 <=> Taken \cap ClosestTo(c) # {}

\* With the main thread alone the histogram is exact.
ExactWhenAlone ==
    phase[Client] = "idle" /\ nr_threads = 1 =>
        \A c \in Centres : frequencies[c] = Cardinality(ClosestTo(c))

\* "for each descriptor, calculate its closest centre" (img_processing.cpp:81,
\* the sequential form of the loop): every descriptor's centre is counted.
EveryDescriptorCounts ==
    phase[Client] = "idle" =>
        \A c \in Centres : ClosestTo(c) # {} => frequencies[c] > 0
=============================================================================
