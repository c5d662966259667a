---------------------------- MODULE FrequencyProofs ----------------------------
(***************************************************************************)
(* What holds of the parallel histogram for any codebook, any number of    *)
(* threads and any image: the ranges handed to the threads, and what the   *)
(* unlocked increments may and may not do to the frequencies.              *)
(***************************************************************************)
EXTENDS FrequencyInvariant, FiniteSetTheorems, TLAPS

----------------------------------------------------------------------------
(* The ranges *)

\* The size of a range is a natural number, and n ranges fit into d descriptors.
LEMMA RangeSize ==
    ASSUME NEW n \in Nat \ {0}, NEW d \in Nat
    PROVE  /\ d \div n \in Nat
           /\ n * (d \div n) <= d
           /\ d < n * (d \div n) + n
OBVIOUS

\* Ranges of the same size follow each other.
LEMMA Monotone ==
    ASSUME NEW q \in Nat, NEW a \in Nat, NEW b \in Nat, a < b
    PROVE  /\ a * q + q = (a + 1) * q
           /\ a * q + q <= b * q
           /\ a * q \in Nat /\ b * q \in Nat
<1>1. PICK e \in Nat : b = a + 1 + e
  BY b - a - 1 \in Nat
<1>2. e * q \in Nat /\ a * q \in Nat
  OBVIOUS
<1>3. b * q = a * q + q + e * q
  BY <1>1
<1>4. QED
  BY <1>2, <1>3

\* A range's bounds are natural numbers, it begins at most one behind the last
\* descriptor and ends with it or before.
LEMMA RangeType ==
    ASSUME NEW n \in Nat \ {0}, NEW d \in Nat, NEW j \in 0 .. n - 1
    PROVE  /\ Start(j, n, d) \in Nat
           /\ End(j, n, d) \in Nat
           /\ Start(j, n, d) <= d + 1
           /\ End(j, n, d) <= d
<1> DEFINE q == d \div n
<1>1. q \in Nat /\ n * q <= d
  BY RangeSize
<1>2. j * q + q <= n * q /\ j * q \in Nat
  <2> HIDE DEF q
  <2>1. QED
    BY <1>1, Monotone
<1> HIDE DEF q
<1>3. n * q \in Nat
  BY <1>1
<1>4. Start(j, n, d) = (IF j = 0 THEN 0 ELSE j * q + 1)
  BY DEF Start, q
<1>5. End(j, n, d) = (IF j # 0 /\ j + 1 = n THEN d ELSE j * q + q)
  BY DEF End, q
<1>6. QED
  BY <1>1, <1>2, <1>3, <1>4, <1>5

\* No descriptor is in two ranges (the bounds of parallel_process's threads).
THEOREM RangesAreDisjoint ==
    ASSUME NEW n \in Nat \ {0}, NEW d \in Nat,
           NEW j \in 0 .. n - 1, NEW h \in 0 .. n - 1, NEW i \in Nat,
           Start(j, n, d) <= i, i < End(j, n, d),
           Start(h, n, d) <= i, i < End(h, n, d)
    PROVE  j = h
<1> DEFINE q == d \div n
<1>1. q \in Nat
  BY RangeSize
<1>2. ASSUME NEW a \in 0 .. n - 1, NEW b \in 0 .. n - 1, a < b
      PROVE  End(a, n, d) < Start(b, n, d)
  <2>1. End(a, n, d) = a * q + q /\ Start(b, n, d) = b * q + 1
    BY <1>2 DEF Start, End
  <2> HIDE DEF q
  <2>2. a * q + q <= b * q /\ a * q \in Nat /\ b * q \in Nat
    BY <1>1, <1>2, Monotone
  <2>3. QED
    BY <1>1, <2>1, <2>2
<1>3. /\ Start(j, n, d) \in Nat /\ End(j, n, d) \in Nat
      /\ Start(h, n, d) \in Nat /\ End(h, n, d) \in Nat
  BY RangeType
<1>4. ~(j < h)
  <2>1. SUFFICES ASSUME j < h PROVE FALSE
    OBVIOUS
  <2>2. End(j, n, d) < Start(h, n, d)
    BY <1>2, <2>1
  <2>3. QED
    BY <1>3, <2>2
<1>5. ~(h < j)
  <2>1. SUFFICES ASSUME h < j PROVE FALSE
    OBVIOUS
  <2>2. End(h, n, d) < Start(j, n, d)
    BY <1>2, <2>1
  <2>3. QED
    BY <1>3, <2>2
<1>6. QED
  BY <1>4, <1>5

\* The descriptors in no range are the first of each range but the first one's:
\* with n threads, n - 1 descriptors of an image are left out.
THEOREM BoundariesAreLeftOut ==
    ASSUME NEW n \in Nat \ {0}, NEW d \in Nat, NEW i \in 0 .. d - 1
    PROVE  (\E j \in 0 .. n - 1 : Start(j, n, d) <= i /\ i < End(j, n, d))
             <=> ~ \E j \in 1 .. n - 1 : i = j * (d \div n)
<1> DEFINE q == d \div n
           In(j) == Start(j, n, d) <= i /\ i < End(j, n, d)
<1>1. q \in Nat /\ n * q <= d
  BY RangeSize
<1>2. ASSUME NEW j \in 0 .. n - 1, In(j), NEW h \in 1 .. n - 1, i = h * q
      PROVE  FALSE
  <2>1. Start(j, n, d) = IF j = 0 THEN 0 ELSE j * q + 1
    BY DEF Start
  <2>2. End(j, n, d) = IF j # 0 /\ j + 1 = n THEN d ELSE j * q + q
    BY DEF End
  <2> HIDE DEF q
  <2>3. j * q \in Nat /\ h * q \in Nat
    BY <1>1
  <2>4. CASE j < h
    <3>1. j * q + q <= h * q
      BY <1>1, <2>4, Monotone
    <3>2. j + 1 # n
      BY <2>4
    <3>3. QED
      BY <1>1, <1>2, <2>2, <2>3, <3>1, <3>2
  <2>5. CASE h < j
    <3>1. h * q + q <= j * q
      BY <1>1, <2>5, Monotone
    <3>2. QED
      BY <1>1, <1>2, <2>1, <2>3, <2>5, <3>1
  <2>6. CASE h = j
    BY <1>2, <2>1, <2>3, <2>6
  <2>7. QED
    BY <2>4, <2>5, <2>6
<1>3. ASSUME \A h \in 1 .. n - 1 : i # h * q
      PROVE  \E j \in 0 .. n - 1 : In(j)
  <2>1. CASE n = 1
    <3>1. Start(0, n, d) = 0 /\ End(0, n, d) = 0 * q + q
      BY <2>1 DEF Start, End
    <3>2. q = d
      BY <2>1
    <3> HIDE DEF q
    <3>3. In(0)
      BY <3>1, <3>2
    <3>4. QED
      BY <3>3
  <2>2. CASE n > 1 /\ (n - 1) * q < i
    <3>1. Start(n - 1, n, d) = (n - 1) * q + 1 /\ End(n - 1, n, d) = d
      BY <2>2 DEF Start, End
    <3> HIDE DEF q
    <3>2. (n - 1) * q \in Nat
      BY <1>1
    <3>3. In(n - 1)
      BY <2>2, <3>1, <3>2
    <3>4. QED
      BY <3>3
  <2>3. CASE n > 1 /\ i <= (n - 1) * q
    <3> HIDE DEF q
    <3>1. i < (n - 1) * q
      BY <1>1, <1>3, <2>3
    <3>2. q # 0
      BY <3>1
    <3> DEFINE j == i \div q
    <3>3. j \in Nat /\ j * q <= i /\ i < j * q + q
      BY <1>1, <3>2
    <3> HIDE DEF j
    <3>4. j < n - 1
      <4>1. SUFFICES ASSUME n - 1 <= j PROVE FALSE
        BY <3>3
      <4>2. (n - 1) * q <= j * q
        <5>1. CASE j = n - 1
          BY <5>1, <1>1
        <5>2. CASE n - 1 < j
          BY <5>2, <1>1, <3>3, Monotone
        <5>3. QED
          BY <5>1, <5>2, <4>1, <3>3
      <4>3. QED
        BY <3>1, <3>3, <4>2, <1>1
    <3>5. j # 0 => j * q < i
      <4>1. SUFFICES ASSUME j # 0 PROVE j * q < i
        OBVIOUS
      <4>2. j \in 1 .. n - 1
        BY <3>3, <3>4, <4>1
      <4>3. i # j * q
        BY <1>3, <4>2
      <4>4. QED
        BY <1>1, <3>3, <4>3
    <3>6. Start(j, n, d) = IF j = 0 THEN 0 ELSE j * q + 1
      BY DEF Start, q
    <3>7. End(j, n, d) = j * q + q
      <4>1. j + 1 # n
        BY <3>3, <3>4
      <4>2. QED
        BY <4>1 DEF End, q
    <3>8. In(j)
      BY <3>3, <3>5, <3>6, <3>7, <1>1
    <3>9. QED
      BY <3>3, <3>4, <3>8
  <2>4. QED
    BY <1>1, <2>1, <2>2, <2>3
<1>4. QED
  BY <1>2, <1>3
----------------------------------------------------------------------------
(* Images and what is counted of them *)

\* The descriptors of an image are numbered from 0, and finitely many.
LEMMA ImageType ==
    ASSUME closest \in Images
    PROVE  /\ nr_desc \in 0 .. MaxDesc
           /\ DOMAIN closest = 0 .. nr_desc - 1
           /\ IsFiniteSet(DOMAIN closest)
           /\ closest \in [0 .. nr_desc - 1 -> Centres]
<1>1. PICK d \in 0 .. MaxDesc : closest \in [0 .. d - 1 -> Centres]
  BY DEF Images
<1>2. d \in Nat /\ DOMAIN closest = 0 .. d - 1
  BY <1>1, FrequencyAssumption
<1>3. IsFiniteSet(0 .. d - 1) /\ Cardinality(0 .. d - 1) = d
  BY <1>2, FS_Interval
<1>4. QED
  BY <1>1, <1>2, <1>3 DEF nr_desc

\* A centre's counted descriptors are among the image's.
LEMMA CountedType ==
    ASSUME closest \in Images, NEW c
    PROVE  /\ IsFiniteSet(CountedTo(c)) /\ IsFiniteSet(ClosestTo(c))
           /\ CountedTo(c) \subseteq ClosestTo(c)
           /\ Cardinality(CountedTo(c)) \in Nat
           /\ Cardinality(ClosestTo(c)) \in Nat
           /\ Cardinality(CountedTo(c)) <= Cardinality(ClosestTo(c))
           /\ Cardinality(ClosestTo(c)) <= MaxDesc
<1>1. /\ nr_desc \in 0 .. MaxDesc
      /\ IsFiniteSet(DOMAIN closest)
      /\ nr_desc = Cardinality(DOMAIN closest)
  BY ImageType DEF nr_desc
<1>2. CountedTo(c) \subseteq ClosestTo(c) /\ ClosestTo(c) \subseteq DOMAIN closest
  BY DEF CountedTo, ClosestTo, Counted
<1>3. /\ IsFiniteSet(ClosestTo(c))
      /\ Cardinality(ClosestTo(c)) <= Cardinality(DOMAIN closest)
  BY <1>1, <1>2, FS_Subset
<1>4. /\ IsFiniteSet(CountedTo(c))
      /\ Cardinality(CountedTo(c)) <= Cardinality(ClosestTo(c))
  BY <1>2, <1>3, FS_Subset
<1>5. Cardinality(CountedTo(c)) \in Nat /\ Cardinality(ClosestTo(c)) \in Nat
  BY <1>3, <1>4, FS_CardinalityType
<1>6. QED
  BY <1>1, <1>2, <1>3, <1>4, <1>5, FrequencyAssumption

\* All work is the one client thread's.
LEMMA WorkIsTheClients == Dispatch!TasksOf(Client) = Work
BY DEF Dispatch!TasksOf, Work

\* As many pieces as threads are one piece for each thread.
LEMMA OneRangeEach ==
    ASSUME TypeOK, PhaseInv, Cardinality(queued) = nr_threads
    PROVE  \A j \in 0 .. nr_threads - 1 : Queued(j)
<1> DEFINE All == {<<Client, j>> : j \in 0 .. nr_threads - 1}
<1>1. nr_threads \in Nat \ {0} /\ 0 .. nr_threads - 1 \subseteq Threads
  BY FrequencyAssumption DEF TypeOK, Threads
<1>2. queued \subseteq All
  BY <1>1 DEF TypeOK, PhaseInv, Queued, Dispatch!TypeOK, Work, Threads
<1>3. IsFiniteSet(All) /\ Cardinality(All) = nr_threads
  <2> DEFINE f == [j \in 0 .. nr_threads - 1 |-> <<Client, j>>]
  <2>1. f \in Bijection(0 .. nr_threads - 1, All)
    BY DEF Bijection, Injection, IsInjective, Surjection
  <2>2. ExistsBijection(0 .. nr_threads - 1, All)
    BY <2>1 DEF ExistsBijection
  <2>3. IsFiniteSet(0 .. nr_threads - 1) /\ Cardinality(0 .. nr_threads - 1) = nr_threads
    BY <1>1, FS_Interval
  <2>4. QED
    BY <2>2, <2>3, FS_Bijection
<1>4. queued = All
  BY <1>2, <1>3, FS_Subset
<1>5. QED
  BY <1>4 DEF Queued

----------------------------------------------------------------------------
(* The invariant *)

\* Initially no image has been processed.
LEMMA InitIInv == Init => IInv
<1> SUFFICES ASSUME Init PROVE IInv
  OBVIOUS
<1> USE FrequencyAssumption DEF Init, Dispatch!Init
<1>1. closest \in Images /\ DOMAIN closest = {}
  <2>1. closest \in [0 .. 0 - 1 -> Centres]
    OBVIOUS
  <2>2. QED
    BY <2>1 DEF Images
<1>2. TypeOK
  BY <1>1 DEF TypeOK, Dispatch!TypeOK
<1>3. Counted = {}
  BY <1>1 DEF Counted
<1>4. \A c : CountedTo(c) = {} /\ Cardinality(CountedTo(c)) = 0
  BY <1>3, FS_EmptySet DEF CountedTo
<1>5. PhaseInv /\ PosInv
  BY <1>1 DEF PhaseInv, PosInv, Queued
<1>6. RegInv
  BY DEF RegInv
<1>7. FreqInv /\ AloneInv
  BY <1>4 DEF FreqInv, AloneInv
<1>8. QED
  BY <1>2, <1>5, <1>6, <1>7 DEF IInv

\* A new image begins with an empty histogram and no work.
LEMMA NewImage ==
    ASSUME IInv, Dispatch!Open(Client), closest' \in Images,
           nr_threads' \in 1 .. MaxThreads,
           frequencies' = [c \in Centres |-> 0],
           args_len' \in 0 .. MaxThreads, UNCHANGED <<pos, reg>>
    PROVE  IInv'
<1> USE FrequencyAssumption, WorkIsTheClients DEF Dispatch!Open
<1>1. queued' = {} /\ runs' = [t \in Work |-> 0] /\ phase[Client] = "idle"
  BY DEF IInv, TypeOK, Dispatch!TypeOK
<1>2. TypeOK'
  BY <1>1 DEF IInv, TypeOK, Dispatch!TypeOK
<1>3. phase'[Client] = "open" /\ \A j : ~Queued(j)'
  BY <1>1 DEF IInv, TypeOK, Dispatch!TypeOK, Queued
<1>4. PhaseInv' /\ PosInv'
  BY <1>1, <1>3 DEF PhaseInv, PosInv, Work
<1>5. RegInv'
  BY <1>1 DEF IInv, RegInv, Running
<1>6. Counted' = {}
  BY <1>3 DEF Counted
<1>7. \A c : CountedTo(c)' = {} /\ Cardinality(CountedTo(c))' = 0
  BY <1>6, FS_EmptySet DEF CountedTo
<1>8. FreqInv'
  BY <1>7 DEF FreqInv
<1>9. AloneInv'
  BY <1>1, <1>7 DEF IInv, AloneInv, RegInv, Running
<1>10. QED
  BY <1>2, <1>4, <1>5, <1>8, <1>9 DEF IInv

\* A thread's range begins empty: nothing more is counted.
LEMMA StepAddRange ==
    ASSUME IInv, NEW j \in Threads, AddRange(j)
    PROVE  IInv'
<1> USE FrequencyAssumption DEF AddRange, Dispatch!Accept
<1>1. /\ phase[Client] = "open" /\ phase' = phase /\ runs' = runs
      /\ queued' = queued \cup {<<Client, j>>} /\ ~Queued(j)
      /\ j \in 0 .. nr_threads - 1 /\ <<Client, j>> \in Work
  <2>1. j \in Nat /\ j \in 0 .. j /\ nr_threads \in Nat
    BY DEF Threads, IInv, TypeOK
  <2>2. ~Queued(j)
    BY <2>1 DEF Queued
  <2>3. QED
    BY <2>1, <2>2 DEF Work
<1>2. nr_threads \in Nat \ {0} /\ nr_desc \in Nat /\ nr_desc <= MaxDesc /\ nr_desc' = nr_desc
  BY ImageType DEF IInv, TypeOK, nr_desc
<1>3. /\ Start(j, nr_threads, nr_desc) \in Nat
      /\ Start(j, nr_threads, nr_desc) <= nr_desc + 1
  BY <1>1, <1>2, RangeType
<1>4. \A h \in Threads : /\ Queued(h)' <=> Queued(h) \/ h = j
                         /\ h # j => pos'[h] = pos[h]
  BY <1>1 DEF IInv, TypeOK, Queued
<1>5. pos'[j] = Start(j, nr_threads, nr_desc)
  BY DEF IInv, TypeOK
<1>6. TypeOK'
  <2>1. Dispatch!TypeOK'
    BY <1>1 DEF IInv, TypeOK, Dispatch!TypeOK
  <2>2. pos' \in [Threads -> 0 .. MaxDesc + 1]
    BY <1>2, <1>3 DEF IInv, TypeOK
  <2>3. QED
    BY <2>1, <2>2 DEF IInv, TypeOK
<1>7. \A h \in Threads : reg[h] = Nothing /\ reg'[h] = Nothing
  BY <1>1 DEF IInv, RegInv, Running
<1>8. \A h \in Threads : Queued(h) => pos[h] = Start(h, nr_threads, nr_desc)
  BY <1>1 DEF IInv, PosInv
<1>9. Counted' = Counted
  <2>1. \A h \in Threads, i \in DOMAIN closest :
            (Queued(h) /\ InRange(h, i) /\ i < pos[h])'
               <=> Queued(h) /\ InRange(h, i) /\ i < pos[h]
    <3> SUFFICES ASSUME NEW h \in Threads, NEW i \in DOMAIN closest
                 PROVE  (Queued(h) /\ InRange(h, i) /\ i < pos[h])'
                          <=> Queued(h) /\ InRange(h, i) /\ i < pos[h]
      OBVIOUS
    <3>1. InRange(h, i)' <=> InRange(h, i)
      BY <1>2 DEF InRange
    <3>2. CASE h = j
      <4>1. ~Queued(h)
        BY <1>1, <3>2
      <4>2. i \in Nat
        BY ImageType DEF IInv, TypeOK
      <4>3. ~(InRange(h, i) /\ i < pos[h])'
        BY <1>3, <1>5, <3>1, <3>2, <4>2 DEF InRange
      <4>4. QED
        BY <4>1, <4>3
    <3>3. CASE h # j
      BY <1>4, <3>1, <3>3
    <3>4. QED
      BY <3>2, <3>3
  <2>2. QED
    BY <2>1 DEF Counted
<1>10. \A c : CountedTo(c)' = CountedTo(c)
  BY <1>9 DEF CountedTo
<1>11. PhaseInv'
  BY <1>1, <1>4 DEF IInv, PhaseInv
<1>12. PosInv'
  <2> SUFFICES ASSUME NEW h \in Threads, Queued(h)'
               PROVE  /\ pos'[h] = Start(h, nr_threads, nr_desc)
                      /\ runs'[<<Client, h>>] = 0
    <3>1. \A h \in Threads : Queued(h)' => h \in 0 .. nr_threads - 1
      BY <1>1, <1>2, <1>4 DEF IInv, PhaseInv, Threads
    <3>2. \A h \in Threads : Queued(h)' => Start(h, nr_threads, nr_desc) \in Nat
      BY <1>2, <3>1, RangeType
    <3>3. nr_threads' = nr_threads
      OBVIOUS
    <3>4. QED
      BY <1>2, <3>2, <3>3 DEF PosInv
  <2>1. QED
    BY <1>1, <1>4, <1>5, <1>8 DEF IInv, PhaseInv
<1>13. RegInv'
  BY <1>7 DEF RegInv
<1>14. FreqInv'
  BY <1>10 DEF IInv, FreqInv
<1>15. AloneInv'
  BY <1>7, <1>10 DEF IInv, AloneInv
<1>16. QED
  BY <1>6, <1>11, <1>12, <1>13, <1>14, <1>15 DEF IInv

\* What does not change the image, the work or the indices changes nothing counted.
LEMMA SameCounted ==
    ASSUME UNCHANGED <<closest, nr_threads, queued, pos>>
    PROVE  /\ nr_desc' = nr_desc
           /\ \A j : Queued(j)' <=> Queued(j)
           /\ \A j, i : InRange(j, i)' <=> InRange(j, i)
           /\ Counted' = Counted
           /\ \A c : CountedTo(c)' = CountedTo(c)
<1>1. /\ nr_desc' = nr_desc
      /\ \A j : Queued(j)' <=> Queued(j)
      /\ \A j, i : InRange(j, i)' <=> InRange(j, i)
  BY DEF nr_desc, Queued, InRange
<1>2. Counted' = Counted
  BY <1>1 DEF Counted
<1>3. QED
  BY <1>1, <1>2 DEF CountedTo

\* The work begins when every thread has a range.
LEMMA StepDoWork == ASSUME IInv, DoWork PROVE IInv'
<1> USE DEF DoWork, Dispatch!Join
<1>1. /\ phase[Client] = "open" /\ phase'[Client] = "join"
      /\ UNCHANGED <<queued, runs, closest, nr_threads, frequencies, args_len, pos, reg>>
  BY DEF IInv, TypeOK, Dispatch!TypeOK
<1>2. \A j \in 0 .. nr_threads - 1 : Queued(j)
  BY OneRangeEach DEF IInv
<1>3. TypeOK'
  BY DEF IInv, TypeOK, Dispatch!TypeOK
<1>4. PhaseInv' /\ PosInv'
  BY <1>1, <1>2, SameCounted DEF IInv, PhaseInv, PosInv
<1>5. \A j \in Threads : reg[j] = Nothing /\ reg'[j] = Nothing
  BY <1>1 DEF IInv, RegInv, Running
<1>6. RegInv' /\ FreqInv' /\ AloneInv'
  BY <1>1, <1>5, SameCounted DEF IInv, RegInv, FreqInv, AloneInv
<1>7. QED
  BY <1>3, <1>4, <1>6 DEF IInv

\* The loaded frequency is one of the histogram's: at most what is counted.
LEMMA StepLoad ==
    ASSUME IInv, NEW j \in Threads, LoadFrequency(j)
    PROVE  IInv'
<1> USE FrequencyAssumption DEF LoadFrequency
<1> DEFINE c == closest[pos[j]]
<1>1. /\ Queued(j) /\ Running(j)
      /\ UNCHANGED <<phase, queued, runs, closest, nr_threads, frequencies, args_len, pos>>
  BY DEF Running, Queued
<1>2. InRange(j, pos[j]) /\ j \in 0 .. nr_threads - 1
  <2>1. j < nr_threads /\ Start(j, nr_threads, nr_desc) <= pos[j]
    BY <1>1 DEF IInv, PosInv, PhaseInv
  <2>2. nr_threads \in Nat /\ j \in Nat
    BY DEF IInv, TypeOK, Threads
  <2>3. QED
    BY <2>1, <2>2 DEF InRange
<1>3. pos[j] \in DOMAIN closest /\ c \in Centres
  <2>1. nr_threads \in Nat \ {0} /\ nr_desc \in Nat
    BY ImageType DEF IInv, TypeOK
  <2>2. End(j, nr_threads, nr_desc) \in Nat /\ End(j, nr_threads, nr_desc) <= nr_desc
    BY <1>2, <2>1, RangeType
  <2>3. pos[j] \in 0 .. nr_desc - 1
    BY <1>2, <2>1, <2>2 DEF InRange, IInv, TypeOK
  <2>4. QED
    BY <2>3, ImageType DEF IInv, TypeOK
<1>4. /\ frequencies[c] \in 0 .. MaxDesc
      /\ frequencies[c] <= Cardinality(CountedTo(c))
  BY <1>3 DEF IInv, TypeOK, FreqInv
<1>5. /\ reg'[j] = frequencies[c]
      /\ \A h \in Threads : h # j => reg'[h] = reg[h]
  BY DEF IInv, TypeOK
<1>6. TypeOK'
  BY <1>4 DEF IInv, TypeOK, Dispatch!TypeOK
<1>7. PhaseInv' /\ PosInv'
  BY <1>1, SameCounted DEF IInv, PhaseInv, PosInv
<1>8. RegInv'
  <2> SUFFICES ASSUME NEW h \in Threads, reg'[h] # Nothing
               PROVE  /\ Running(h)'
                      /\ InRange(h, pos[h])'
                      /\ reg'[h] <= Cardinality(CountedTo(closest[pos[h]]))'
    BY DEF RegInv
  <2>1. CASE h = j
    BY <1>1, <1>2, <1>4, <1>5, <2>1, SameCounted DEF Running
  <2>2. CASE h # j
    BY <1>1, <1>5, <2>2, SameCounted DEF IInv, RegInv, Running
  <2>3. QED
    BY <2>1, <2>2
<1>9. FreqInv'
  BY <1>1, SameCounted DEF IInv, FreqInv
<1>10. AloneInv'
  BY <1>1, <1>5, SameCounted DEF IInv, AloneInv
<1>11. QED
  BY <1>6, <1>7, <1>8, <1>9, <1>10 DEF IInv

\* The descriptor at a thread's index is the image's, in no other thread's range.
LEMMA AtIndex ==
    ASSUME IInv, NEW j \in Threads, reg[j] # Nothing
    PROVE  /\ Running(j) /\ Queued(j) /\ j \in 0 .. nr_threads - 1
           /\ InRange(j, pos[j]) /\ pos[j] < End(j, nr_threads, nr_desc)
           /\ pos[j] \in DOMAIN closest /\ pos[j] \in 0 .. MaxDesc
           /\ closest[pos[j]] \in Centres
           /\ reg[j] \in Nat
           /\ reg[j] <= Cardinality(CountedTo(closest[pos[j]]))
           /\ \A h \in Threads : Queued(h) /\ InRange(h, pos[j]) => h = j
           /\ pos[j] \notin Counted
<1> USE FrequencyAssumption
<1>1. /\ Running(j) /\ Queued(j) /\ InRange(j, pos[j])
      /\ reg[j] <= Cardinality(CountedTo(closest[pos[j]]))
  BY DEF IInv, RegInv, Running, Queued
<1>2. reg[j] \in Nat /\ pos[j] \in Nat
  BY DEF IInv, TypeOK
<1>3. nr_threads \in Nat \ {0} /\ nr_desc \in Nat /\ nr_desc <= MaxDesc
  BY ImageType DEF IInv, TypeOK
<1>4. \A h \in Threads : Queued(h) => h \in 0 .. nr_threads - 1
  BY <1>3 DEF IInv, PhaseInv, Threads
<1>5. /\ End(j, nr_threads, nr_desc) \in Nat
      /\ End(j, nr_threads, nr_desc) <= nr_desc
      /\ pos[j] < End(j, nr_threads, nr_desc)
  BY <1>1, <1>3, <1>4, RangeType DEF InRange
<1>6. pos[j] \in 0 .. nr_desc - 1 /\ pos[j] \in 0 .. MaxDesc
  BY <1>2, <1>3, <1>5
<1>7. pos[j] \in DOMAIN closest /\ closest[pos[j]] \in Centres
  BY <1>6, ImageType DEF IInv, TypeOK
<1>8. \A h \in Threads : Queued(h) /\ InRange(h, pos[j]) => h = j
  BY <1>1, <1>2, <1>3, <1>4, RangesAreDisjoint DEF InRange
<1>9. pos[j] \notin Counted
  BY <1>2, <1>8 DEF Counted
<1>10. QED
  BY <1>1, <1>2, <1>4, <1>5, <1>6, <1>7, <1>8, <1>9

\* An increment that is stored counts one descriptor more, of one centre.
LEMMA CountsOneMore ==
    ASSUME IInv, NEW j \in Threads, StoreFrequency(j), NEW c \in Centres
    PROVE  /\ Counted' = Counted \cup {pos[j]}
           /\ closest[pos[j]] # c => CountedTo(c)' = CountedTo(c)
           /\ closest[pos[j]] = c =>
                 /\ CountedTo(c)' = CountedTo(c) \cup {pos[j]}
                 /\ Cardinality(CountedTo(c)') = Cardinality(CountedTo(c)) + 1
<1>1. reg[j] # Nothing /\ UNCHANGED <<queued, closest, nr_threads>>
  BY DEF StoreFrequency
<1>2. /\ Queued(j) /\ InRange(j, pos[j]) /\ pos[j] \in Nat
      /\ pos[j] \in DOMAIN closest /\ pos[j] \notin Counted
      /\ \A h \in Threads : Queued(h) /\ InRange(h, pos[j]) => h = j
  BY <1>1, AtIndex
<1>3. pos'[j] = pos[j] + 1 /\ \A h \in Threads : h # j => pos'[h] = pos[h]
  BY DEF StoreFrequency, IInv, TypeOK
<1>4. \A h \in Threads : \A i : (Queued(h)' <=> Queued(h)) /\ (InRange(h, i)' <=> InRange(h, i))
  BY <1>1 DEF Queued, InRange, nr_desc
<1>5. DOMAIN closest \subseteq Nat
  BY ImageType DEF IInv, TypeOK
<1>6. \A i \in DOMAIN closest : (i < pos'[j]) <=> (i < pos[j] \/ i = pos[j])
  BY <1>2, <1>3, <1>5
<1>7. Counted' = Counted \cup {pos[j]}
  <2>1. \A i \in DOMAIN closest, h \in Threads :
            (Queued(h) /\ InRange(h, i) /\ i < pos[h])'
              <=> \/ Queued(h) /\ InRange(h, i) /\ i < pos[h]
                  \/ h = j /\ i = pos[j]
    BY <1>2, <1>3, <1>4, <1>6
  <2>2. QED
    BY <1>1, <1>2, <2>1 DEF Counted
<1>8. closest[pos[j]] # c => CountedTo(c)' = CountedTo(c)
  BY <1>1, <1>7 DEF CountedTo
<1>9. ASSUME closest[pos[j]] = c
      PROVE  /\ CountedTo(c)' = CountedTo(c) \cup {pos[j]}
             /\ Cardinality(CountedTo(c)') = Cardinality(CountedTo(c)) + 1
  <2>1. CountedTo(c)' = CountedTo(c) \cup {pos[j]} /\ pos[j] \notin CountedTo(c)
    BY <1>1, <1>2, <1>7, <1>9 DEF CountedTo
  <2>2. IsFiniteSet(CountedTo(c))
    BY CountedType DEF IInv, TypeOK
  <2>3. QED
    BY <2>1, <2>2, FS_AddElement
<1>10. QED
  BY <1>7, <1>8, <1>9

\* The store writes at least 1 and at most what is counted with it.
LEMMA StepStore ==
    ASSUME IInv, NEW j \in Threads, StoreFrequency(j)
    PROVE  IInv'
<1> USE FrequencyAssumption
<1>1. /\ reg[j] # Nothing
      /\ UNCHANGED <<phase, queued, runs, closest, nr_threads, args_len>>
  BY DEF StoreFrequency
<1>b. PICK b \in Centres : b = closest[pos[j]]
  BY <1>1, AtIndex
<1>2. /\ Running(j) /\ Queued(j) /\ j \in 0 .. nr_threads - 1
      /\ InRange(j, pos[j]) /\ pos[j] < End(j, nr_threads, nr_desc)
      /\ pos[j] \in DOMAIN closest /\ pos[j] \in 0 .. MaxDesc
      /\ reg[j] \in Nat
      /\ reg[j] <= Cardinality(CountedTo(b))
  BY <1>1, <1>b, AtIndex
<1>3. /\ pos'[j] = pos[j] + 1 /\ reg'[j] = Nothing
      /\ \A h \in Threads : h # j => pos'[h] = pos[h] /\ reg'[h] = reg[h]
      /\ frequencies'[b] = reg[j] + 1
      /\ \A c \in Centres : c # b => frequencies'[c] = frequencies[c]
  BY <1>2, <1>b DEF StoreFrequency, IInv, TypeOK
<1>4. \A c \in Centres :
         /\ c # b => CountedTo(c)' = CountedTo(c)
         /\ c = b => /\ CountedTo(c)' = CountedTo(c) \cup {pos[j]}
                     /\ Cardinality(CountedTo(c)') = Cardinality(CountedTo(c)) + 1
         /\ Cardinality(CountedTo(c)) \in Nat
         /\ Cardinality(CountedTo(c)') \in Nat
         /\ Cardinality(CountedTo(c)') <= MaxDesc
         /\ Cardinality(CountedTo(c)) <= Cardinality(CountedTo(c)')
  <2> SUFFICES ASSUME NEW c \in Centres
               PROVE  /\ c # b => CountedTo(c)' = CountedTo(c)
                      /\ c = b => /\ CountedTo(c)' = CountedTo(c) \cup {pos[j]}
                                  /\ Cardinality(CountedTo(c)') = Cardinality(CountedTo(c)) + 1
                      /\ Cardinality(CountedTo(c)) \in Nat
                      /\ Cardinality(CountedTo(c)') \in Nat
                      /\ Cardinality(CountedTo(c)') <= MaxDesc
                      /\ Cardinality(CountedTo(c)) <= Cardinality(CountedTo(c)')
    OBVIOUS
  <2>1. CountedTo(c)' \subseteq ClosestTo(c)
    BY <1>1 DEF CountedTo, ClosestTo, Counted
  <2>2. /\ IsFiniteSet(ClosestTo(c)) /\ Cardinality(ClosestTo(c)) \in Nat
        /\ Cardinality(ClosestTo(c)) <= MaxDesc
        /\ Cardinality(CountedTo(c)) \in Nat
    BY CountedType DEF IInv, TypeOK
  <2>3. IsFiniteSet(CountedTo(c)') /\ Cardinality(CountedTo(c)') <= Cardinality(ClosestTo(c))
    BY <2>1, <2>2, FS_Subset
  <2>4. Cardinality(CountedTo(c)') \in Nat
    BY <2>3, FS_CardinalityType
  <2>5. QED
    BY <1>b, <2>2, <2>3, <2>4, CountsOneMore
<1>5. /\ reg[j] + 1 <= Cardinality(CountedTo(b)')
      /\ reg[j] + 1 \in 0 .. MaxDesc /\ reg[j] + 1 # 0
      /\ CountedTo(b)' # {}
  <2>1. Cardinality(CountedTo(b)) \in Nat /\ Cardinality(CountedTo(b)') \in Nat
    BY <1>2, <1>4
  <2>2. /\ Cardinality(CountedTo(b)') = Cardinality(CountedTo(b)) + 1
        /\ Cardinality(CountedTo(b)') <= MaxDesc
        /\ CountedTo(b)' = CountedTo(b) \cup {pos[j]}
    BY <1>2, <1>4
  <2>3. QED
    BY <1>2, <2>1, <2>2
<1>6. TypeOK'
  BY <1>1, <1>2, <1>5, <1>b DEF StoreFrequency, IInv, TypeOK, Dispatch!TypeOK
<1>7. /\ nr_desc' = nr_desc
      /\ \A h : Queued(h)' <=> Queued(h)
      /\ \A h, i : InRange(h, i)' <=> InRange(h, i)
  BY <1>1 DEF nr_desc, Queued, InRange
<1>8. PhaseInv'
  BY <1>1, <1>7 DEF IInv, PhaseInv
<1>9. PosInv'
  <2> SUFFICES ASSUME NEW h \in Threads, Queued(h)
               PROVE  /\ Start(h, nr_threads, nr_desc) <= pos'[h]
                      /\ \/ pos'[h] <= End(h, nr_threads, nr_desc)
                         \/ pos'[h] = Start(h, nr_threads, nr_desc)
                      /\ phase[Client] = "open" => pos'[h] = Start(h, nr_threads, nr_desc)
                      /\ runs[<<Client, h>>] = 1 => pos'[h] >= End(h, nr_threads, nr_desc)
    BY <1>1, <1>7 DEF PosInv
  <2>1. CASE h = j
    <3>1. nr_threads \in Nat \ {0} /\ nr_desc \in Nat
      BY ImageType DEF IInv, TypeOK
    <3>2. Start(j, nr_threads, nr_desc) \in Nat /\ End(j, nr_threads, nr_desc) \in Nat
      BY <1>2, <3>1, RangeType
    <3>3. phase[Client] = "join" /\ runs[<<Client, j>>] = 0
      BY <1>2 DEF Running
    <3>4. QED
      BY <1>2, <1>3, <2>1, <3>2, <3>3 DEF InRange
  <2>2. CASE h # j
    BY <1>3, <2>2 DEF IInv, PosInv
  <2>3. QED
    BY <2>1, <2>2
<1>10. RegInv'
  <2> SUFFICES ASSUME NEW h \in Threads, reg'[h] # Nothing
               PROVE  /\ Running(h)'
                      /\ InRange(h, pos[h])'
                      /\ reg'[h] <= Cardinality(CountedTo(closest[pos[h]]))'
    BY DEF RegInv
  <2>1. h # j /\ reg'[h] = reg[h] /\ pos'[h] = pos[h]
    BY <1>3
  <2>2. /\ Running(h) /\ InRange(h, pos[h]) /\ closest[pos[h]] \in Centres
        /\ reg[h] \in Nat /\ reg[h] <= Cardinality(CountedTo(closest[pos[h]]))
    BY <2>1, AtIndex
  <2>3. Running(h)' /\ InRange(h, pos[h])'
    BY <1>1, <1>7, <2>1, <2>2 DEF Running
  <2>4. reg'[h] <= Cardinality(CountedTo(closest[pos[h]]))'
    <3>1. PICK e \in Centres : e = closest[pos[h]]
      BY <2>2
    <3>2. /\ Cardinality(CountedTo(e)) \in Nat /\ Cardinality(CountedTo(e)') \in Nat
          /\ Cardinality(CountedTo(e)) <= Cardinality(CountedTo(e)')
      BY <1>4
    <3>3. e = closest'[pos'[h]]
      BY <1>1, <2>1, <3>1
    <3>4. QED
      BY <2>1, <2>2, <3>1, <3>2, <3>3
  <2>5. QED
    BY <1>1, <2>1, <2>3, <2>4
<1>11. FreqInv'
  <2> SUFFICES ASSUME NEW c \in Centres
               PROVE  /\ frequencies'[c] <= Cardinality(CountedTo(c)')
                      /\ frequencies'[c] = 0 <=> CountedTo(c)' = {}
    BY DEF FreqInv
  <2>1. CASE c = b
    BY <1>3, <1>5, <2>1
  <2>2. CASE c # b
    BY <1>3, <1>4, <2>2 DEF IInv, FreqInv
  <2>3. QED
    BY <2>1, <2>2
<1>12. AloneInv'
  <2> SUFFICES ASSUME nr_threads = 1
               PROVE  /\ \A c \in Centres : frequencies'[c] = Cardinality(CountedTo(c)')
                      /\ \A h \in Threads : reg'[h] = Nothing
    BY <1>1 DEF AloneInv
  <2>1. j = 0
    BY <1>2
  <2>2. ASSUME NEW h \in Threads, reg'[h] # Nothing PROVE FALSE
    <3>1. h # j /\ reg[h] # Nothing
      BY <1>3, <2>2
    <3>2. h \in 0 .. nr_threads - 1
      BY <3>1, AtIndex
    <3>3. QED
      BY <2>1, <3>1, <3>2
  <2>3. reg[j] = Cardinality(CountedTo(b))
    BY <1>1, <1>2, <1>b DEF IInv, AloneInv
  <2>4. ASSUME NEW c \in Centres PROVE frequencies'[c] = Cardinality(CountedTo(c)')
    BY <1>2, <1>3, <1>4, <2>3 DEF IInv, AloneInv
  <2>5. QED
    BY <2>2, <2>4
<1>13. QED
  BY <1>6, <1>8, <1>9, <1>10, <1>11, <1>12 DEF IInv

\* A piece of work ends behind its range.
LEMMA StepFinish ==
    ASSUME IInv, NEW j \in Threads, FinishRange(j)
    PROVE  IInv'
<1> USE DEF FinishRange, Dispatch!Run
<1>1. /\ Running(j) /\ Queued(j) /\ reg[j] = Nothing
      /\ pos[j] >= End(j, nr_threads, nr_desc)
      /\ phase[Client] = "join" /\ <<Client, j>> \in Work
      /\ UNCHANGED <<phase, queued, closest, nr_threads, frequencies, args_len, pos, reg>>
  BY DEF Running, Queued, Work
<1>2. /\ runs'[<<Client, j>>] = 1
      /\ \A h \in Threads : h # j => runs'[<<Client, h>>] = runs[<<Client, h>>]
  BY <1>1 DEF IInv, TypeOK, Dispatch!TypeOK, Work
<1>3. TypeOK'
  BY <1>1 DEF IInv, TypeOK, Dispatch!TypeOK
<1>4. PhaseInv'
  BY <1>1, SameCounted DEF IInv, PhaseInv
<1>5. PosInv'
  BY <1>1, <1>2, SameCounted DEF IInv, PosInv
<1>6. RegInv'
  <2> SUFFICES ASSUME NEW h \in Threads, reg'[h] # Nothing
               PROVE  /\ Running(h)'
                      /\ InRange(h, pos[h])'
                      /\ reg'[h] <= Cardinality(CountedTo(closest[pos[h]]))'
    BY DEF RegInv
  <2>1. h # j /\ reg[h] # Nothing
    BY <1>1
  <2>2. QED
    BY <1>1, <1>2, <2>1, SameCounted DEF IInv, RegInv, Running
<1>7. FreqInv' /\ AloneInv'
  BY <1>1, SameCounted DEF IInv, FreqInv, AloneInv
<1>8. QED
  BY <1>3, <1>4, <1>5, <1>6, <1>7 DEF IInv

\* The histogram is returned when every range was worked off.
LEMMA StepReturn == ASSUME IInv, Return PROVE IInv'
<1> USE WorkIsTheClients DEF Return, Dispatch!Return
<1>1. /\ phase[Client] = "join" /\ phase'[Client] = "idle"
      /\ UNCHANGED <<queued, runs, closest, nr_threads, frequencies, args_len, pos, reg>>
  BY DEF IInv, TypeOK, Dispatch!TypeOK
<1>2. \A j \in Threads : Queued(j) => runs[<<Client, j>>] = 1
  BY DEF Queued, Work
<1>3. TypeOK'
  BY DEF IInv, TypeOK, Dispatch!TypeOK
<1>4. PhaseInv' /\ PosInv'
  BY <1>1, <1>2, SameCounted DEF IInv, PhaseInv, PosInv
<1>5. \A j \in Threads : reg[j] = Nothing
  <2> SUFFICES ASSUME NEW j \in Threads, reg[j] # Nothing PROVE FALSE
    OBVIOUS
  <2>1. Queued(j) /\ Running(j)
    BY AtIndex
  <2>2. QED
    BY <1>2, <2>1 DEF Running
<1>6. RegInv' /\ FreqInv' /\ AloneInv'
  BY <1>1, <1>5, SameCounted DEF IInv, RegInv, FreqInv, AloneInv
<1>7. QED
  BY <1>3, <1>4, <1>6 DEF IInv

\* Every step keeps the invariant.
LEMMA NextIInv == ASSUME IInv, [Next]_vars PROVE IInv'
<1>1. CASE ProcessNewImage
  <2>1. args_len' \in 0 .. MaxThreads
    BY <1>1 DEF ProcessNewImage, IInv, TypeOK
  <2>2. QED
    BY <1>1, <2>1, NewImage DEF ProcessNewImage
<1>2. CASE CalcFreq
  <2>1. args_len' \in 0 .. MaxThreads /\ nr_threads' \in 1 .. MaxThreads
    BY <1>2, FrequencyAssumption DEF CalcFreq, IInv, TypeOK
  <2>2. QED
    BY <1>2, <2>1, NewImage DEF CalcFreq
<1>3. ASSUME NEW j \in Threads,
             AddRange(j) \/ LoadFrequency(j) \/ StoreFrequency(j) \/ FinishRange(j)
      PROVE  IInv'
  BY <1>3, StepAddRange, StepLoad, StepStore, StepFinish
<1>4. CASE UNCHANGED vars
  <2>1. UNCHANGED <<phase, queued, runs, closest, nr_threads, frequencies, args_len, pos, reg>>
    BY <1>4 DEF vars
  <2>2. TypeOK'
    BY <2>1 DEF IInv, TypeOK, Dispatch!TypeOK
  <2>3. PhaseInv' /\ PosInv'
    BY <2>1, SameCounted DEF IInv, PhaseInv, PosInv
  <2>4. RegInv'
    BY <2>1, SameCounted DEF IInv, RegInv, Running
  <2>5. FreqInv' /\ AloneInv'
    BY <2>1, SameCounted DEF IInv, FreqInv, AloneInv
  <2>6. QED
    BY <2>2, <2>3, <2>4, <2>5 DEF IInv
<1>5. QED
  BY <1>1, <1>2, <1>3, <1>4, StepDoWork, StepReturn DEF Next

----------------------------------------------------------------------------
(* Theorems *)

\* The histogram agrees with the counted descriptors at every moment.
THEOREM HistogramInvariant == Spec => []IInv
<1>1. QED
  BY InitIInv, NextIInv, PTL DEF Spec

\* Indices stay within the image or just behind it, and no frequency exceeds the
\* number of its descriptors.
THEOREM HistogramIsTyped == Spec => []TypeOK
<1>1. IInv => TypeOK
  BY DEF IInv
<1>2. QED
  BY <1>1, HistogramInvariant, PTL

\* No descriptor is counted twice, however many threads there are and however their
\* increments interleave.
THEOREM NothingIsCountedTwice == Spec => []NeverOvercounts
<1>1. IInv => NeverOvercounts
  <2> SUFFICES ASSUME IInv, NEW c \in Centres
               PROVE  frequencies[c] <= Cardinality(ClosestTo(c))
    BY DEF NeverOvercounts
  <2>1. /\ Cardinality(CountedTo(c)) \in Nat /\ Cardinality(ClosestTo(c)) \in Nat
        /\ Cardinality(CountedTo(c)) <= Cardinality(ClosestTo(c))
    BY CountedType DEF IInv, TypeOK
  <2>2. frequencies[c] \in Nat /\ frequencies[c] <= Cardinality(CountedTo(c))
    BY FrequencyAssumption DEF IInv, TypeOK, FreqInv
  <2>3. QED
    BY <2>1, <2>2
<1>2. QED
  BY <1>1, HistogramInvariant, PTL

\* A returned histogram counts the descriptors of all ranges.
LEMMA AllRangesCounted ==
    ASSUME IInv, phase[Client] = "idle"
    PROVE  Counted = Taken
<1>1. CASE DOMAIN closest = {}
  BY <1>1 DEF Counted, Taken
<1>2. CASE \A j \in 0 .. nr_threads - 1 : Queued(j)
  <2>1. nr_threads \in Nat \ {0} /\ nr_desc \in Nat
    BY ImageType, FrequencyAssumption DEF IInv, TypeOK
  <2>2. \A j \in Threads : Queued(j) <=> j \in 0 .. nr_threads - 1
    BY <1>2, <2>1 DEF IInv, PhaseInv, Threads
  <2>3. 0 .. nr_threads - 1 \subseteq Threads
    BY FrequencyAssumption DEF IInv, TypeOK, Threads
  <2>4. ASSUME NEW j \in 0 .. nr_threads - 1, NEW i \in DOMAIN closest, InRange(j, i)
        PROVE  i < pos[j]
    <3>1. pos[j] >= End(j, nr_threads, nr_desc) /\ pos[j] \in Nat
      <4>1. j \in Threads /\ Queued(j)
        BY <2>2, <2>3
      <4>2. runs[<<Client, j>>] = 1
        BY <4>1 DEF IInv, PhaseInv
      <4>3. QED
        BY <4>1, <4>2 DEF IInv, PosInv, TypeOK
    <3>2. End(j, nr_threads, nr_desc) \in Nat
      BY <2>1, RangeType
    <3>3. i \in Nat
      BY ImageType DEF IInv, TypeOK
    <3>4. QED
      BY <2>4, <3>1, <3>2, <3>3 DEF InRange
  <2>5. QED
    BY <2>2, <2>3, <2>4 DEF Counted, Taken, InRange
<1>3. QED
  BY <1>1, <1>2 DEF IInv, PhaseInv

\* Lost increments lose no centre: a centre has a frequency above 0 iff one of its
\* descriptors is in some thread's range.
THEOREM NoCentreIsLost == Spec => []RaceKeepsCentres
<1>1. IInv => RaceKeepsCentres
  <2> SUFFICES ASSUME IInv, phase[Client] = "idle", NEW c \in Centres
               PROVE  frequencies[c] > 0 <=> Taken \cap ClosestTo(c) # {}
    BY DEF RaceKeepsCentres
  <2>1. CountedTo(c) = Taken \cap ClosestTo(c)
    BY AllRangesCounted DEF CountedTo, ClosestTo, Taken
  <2>2. frequencies[c] \in Nat /\ (frequencies[c] = 0 <=> CountedTo(c) = {})
    BY FrequencyAssumption DEF IInv, TypeOK, FreqInv
  <2>3. QED
    BY <2>1, <2>2
<1>2. QED
  BY <1>1, HistogramInvariant, PTL

\* With one thread no increment is lost and no descriptor left out.
THEOREM AloneIsExact == Spec => []ExactWhenAlone
<1>1. IInv => ExactWhenAlone
  <2> SUFFICES ASSUME IInv, phase[Client] = "idle", nr_threads = 1, NEW c \in Centres
               PROVE  frequencies[c] = Cardinality(ClosestTo(c))
    BY DEF ExactWhenAlone
  <2>1. nr_desc \in Nat /\ DOMAIN closest = 0 .. nr_desc - 1
    BY ImageType DEF IInv, TypeOK
  <2>2. \A i \in DOMAIN closest : \E j \in 0 .. nr_threads - 1 :
            Start(j, nr_threads, nr_desc) <= i /\ i < End(j, nr_threads, nr_desc)
    <3>1. \A i \in 0 .. nr_desc - 1 : \E j \in 0 .. 1 - 1 :
              Start(j, 1, nr_desc) <= i /\ i < End(j, 1, nr_desc)
      BY <2>1, BoundariesAreLeftOut
    <3>2. QED
      BY <2>1, <3>1
  <2>3. Taken = DOMAIN closest
    BY <2>2 DEF Taken
  <2>4. CountedTo(c) = ClosestTo(c)
    BY <2>3, AllRangesCounted DEF CountedTo, ClosestTo
  <2>5. QED
    BY <2>4 DEF IInv, AloneInv
<1>2. QED
  BY <1>1, HistogramInvariant, PTL
=============================================================================
