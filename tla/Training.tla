------------------------------ MODULE Training ------------------------------
(***************************************************************************)
(* The codebook of a repository: BagOfWordsTrainer                         *)
(* (ImageSearch/src/training/bagofwords.cpp), the k-means it runs          *)
(* (training/seq-kmeans/kmeans.cpp) and what training.cpp does with them.  *)
(* The trainer keeps the descriptors of the images it is sent until there  *)
(* are MaxDescriptorsMem of them, and then clusters that batch: the first  *)
(* batch gives the centres their values, the later ones move them.         *)
(*                                                                         *)
(* A descriptor is the pair of its image and its place in it; distances,   *)
(* which choose the centre that moves, are abstracted to the choice.       *)
(***************************************************************************)
EXTENDS Naturals, SequencesExt

CONSTANTS NrCentres,          \* k
          MaxDescriptorsMem,  \* MAX_DESCRIPTORS_MEM
          MaxThreads          \* threads thread_get_count may count

ASSUME TrainingAssumption ==
    /\ {NrCentres, MaxDescriptorsMem, MaxThreads} \subseteq Nat \ {0}

VARIABLES kmeans,   \* kmeans_data: centres, counters, started
          pending   \* descriptors: the images of the batch, with their counts

Centres == 0 .. NrCentres - 1

\* What a centre can be that no image sent for training has: what malloc gave,
\* a centre from the client, memory behind the batch.
Unset == <<0, 0>>
FromClient == <<0, 1>>
Beyond == <<0, 2>>

\* The constructor.
NewTrainer == [centres |-> [c \in Centres |-> Unset],
               counters |-> [c \in Centres |-> 0],
               started |-> FALSE]

\* The descriptors of images, one after the other.
Descriptors(images) ==
    FlattenSeq([i \in DOMAIN images |->
                   [d \in 1 .. images[i].count |-> <<images[i].id, d>>]])

total_descriptors == Len(Descriptors(pending))

\* Wrong: one descriptor too early.
IsFullEarly(count) == total_descriptors + count + 1 >= MaxDescriptorsMem

is_full_after(count) == total_descriptors + count >= MaxDescriptorsMem

\* The assertion of train_kmeans_init, of a batch that is not empty.
TooFew == pending # <<>> /\ ~kmeans.started /\ total_descriptors < NrCentres

\* Wrong: the last k descriptors become the centres.
train_kmeans_init_last(batch) ==
    [centres |-> [c \in Centres |-> batch[Len(batch) - c]],
     counters |-> [c \in Centres |-> 0],
     started |-> TRUE]

\* The first k descriptors become the centres.
train_kmeans_init(batch) ==
    [centres |-> [c \in Centres |-> batch[c + 1]],
     counters |-> [c \in Centres |-> 0],
     started |-> TRUE]

\* The centres in the range of some thread, of n: as in process_new_image the
\* ranges skip centres.  Where no thread has any, centre 0 is taken.
Compared(n) ==
    LET per == NrCentres \div n IN
    {0} \cup {c \in Centres : \E j \in 0 .. n - 1 :
                /\ (IF j = 0 THEN 0 ELSE j * per + 1) <= c
                /\ c < (IF j # 0 /\ j + 1 = n THEN NrCentres ELSE (j + 1) * per)}

\* Wrong: a batch is counted as one descriptor.
train_kmeans_uncounted(batch, closest) ==
    [kmeans EXCEPT
        !.counters[closest] = @ + 1,
        !.centres[closest] =
            IF kmeans.counters[closest] > 0 \/ batch = <<>> THEN @
            ELSE IF closest < Len(batch) THEN batch[closest + 1] ELSE Beyond]

\* The distance compared is that of centre j to descriptor j of the batch, for
\* every descriptor i: the same centre is the closest for all.  It moves, all the
\* way as 1 / counters is an integer, when its counter becomes 1, to the
\* descriptor with its own number, which the batch may not have; after that its
\* distance is 0.
train_kmeans(batch, closest) ==
    [kmeans EXCEPT
        !.counters[closest] = @ + Len(batch),
        !.centres[closest] =
            IF kmeans.counters[closest] > 0 \/ batch = <<>> THEN @
            ELSE IF closest < Len(batch) THEN batch[closest + 1] ELSE Beyond]

\* The trainer after cluster().
Clustered ==
    LET batch == Descriptors(pending) IN
    IF pending = <<>> THEN {kmeans}
    ELSE IF ~kmeans.started THEN {train_kmeans_init(batch)}
    ELSE {train_kmeans(batch, c) : c \in UNION {Compared(n) : n \in 1 .. MaxThreads}}

\* train_add_image, unless cluster() fails.
train_add_image(image) ==
    IF is_full_after(image.count)
      THEN ~TooFew /\ kmeans' \in Clustered /\ pending' = <<image>>
      ELSE pending' = Append(pending, image) /\ UNCHANGED kmeans

\* Wrong: the batch is kept.
TrainKmeansKeepsBatch == ~TooFew /\ kmeans' \in Clustered /\ UNCHANGED pending

\* TRAIN, unless cluster() fails; it also writes the file "centres".
TrainKmeans == ~TooFew /\ kmeans' \in Clustered /\ pending' = <<>>

\* train_kmeans_set
SetCentres ==
    /\ kmeans' = [kmeans EXCEPT !.centres = [c \in Centres |-> FromClient]]
    /\ UNCHANGED pending

Trained == \A c \in Centres : kmeans.centres[c] # Unset
=============================================================================
