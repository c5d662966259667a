-------------------------- MODULE FrequencyInvariant --------------------------
(***************************************************************************)
(* The inductive invariant of FrequencyCount: at every moment, the         *)
(* histogram agrees with the descriptors that the threads have counted.    *)
(***************************************************************************)
EXTENDS FrequencyCount

Queued(j) == <<Client, j>> \in queued

InRange(j, i) == /\ Start(j, nr_threads, nr_desc) <= i
                 /\ i < End(j, nr_threads, nr_desc)

\* The descriptors whose increment is finished.
Counted == {i \in DOMAIN closest :
              \E j \in Threads : Queued(j) /\ InRange(j, i) /\ i < pos[j]}

CountedTo(c) == {i \in Counted : closest[i] = c}

\* Work is handed out in an open operation only, and runs in a joined one only.
PhaseInv ==
    /\ \A j \in Threads : Queued(j) => j < nr_threads
    /\ phase[Client] = "join" => \A j \in 0 .. nr_threads - 1 : Queued(j)
    /\ phase[Client] = "idle" => \/ DOMAIN closest = {}
                                 \/ \A j \in 0 .. nr_threads - 1 : Queued(j)
    /\ phase[Client] = "open" => \A j \in Threads : runs[<<Client, j>>] = 0
    /\ phase[Client] = "idle" => \A j \in Threads : Queued(j) => runs[<<Client, j>>] = 1

\* A thread is at the start of its range, within it, or just behind it.
PosInv ==
    \A j \in Threads : Queued(j) =>
        /\ Start(j, nr_threads, nr_desc) <= pos[j]
        /\ \/ pos[j] <= End(j, nr_threads, nr_desc)
           \/ pos[j] = Start(j, nr_threads, nr_desc)
        /\ phase[Client] = "open" => pos[j] = Start(j, nr_threads, nr_desc)
        /\ runs[<<Client, j>>] = 1 => pos[j] >= End(j, nr_threads, nr_desc)

\* A frequency between its load and its store was true of the histogram once.
RegInv ==
    \A j \in Threads : reg[j] # Nothing =>
        /\ Running(j)
        /\ InRange(j, pos[j])
        /\ reg[j] <= Cardinality(CountedTo(closest[pos[j]]))

\* Some counts are lost, but not all those of a centre.
FreqInv ==
    \A c \in Centres : /\ frequencies[c] <= Cardinality(CountedTo(c))
                       /\ frequencies[c] = 0 <=> CountedTo(c) = {}

\* A thread alone loses none.
AloneInv ==
    nr_threads = 1 =>
        /\ \A c \in Centres : frequencies[c] = Cardinality(CountedTo(c))
        /\ \A j \in Threads : reg[j] # Nothing => reg[j] = frequencies[closest[pos[j]]]

IInv == /\ TypeOK
        /\ PhaseInv
        /\ PosInv
        /\ RegInv
        /\ FreqInv
        /\ AloneInv
=============================================================================
