--------------------------- MODULE DriverInvariant ---------------------------
(***************************************************************************)
(* What the enclave holds at each point of a client's script: which        *)
(* requests have been executed decides what is known of the trainer, of    *)
(* the vectors of the LSH and of the counts of searches.  The requests of  *)
(* a script come in stages, each of which needs those before it.           *)
(***************************************************************************)
EXTENDS SessionInvariant

----------------------------------------------------------------------------
(* The order of the requests *)

\* A client with text and images sends all about text first; a multimodal one mixes
\* them.
Stage(s, op) ==
    CASE op = "BISEN_SEARCH" -> 0
      [] op = "INIT" -> 1
      [] op = "BISEN_SETUP" -> IF Multimodal(s) THEN 2 ELSE 0
      [] op = "TRAIN_ADD" -> 3
      [] op \in {"TRAIN", "SET_CODEBOOK_CLIENT_KMEANS", "SET_CODEBOOK_CLIENT_LSH"} -> 4
      [] op = "BISEN_BULK" -> IF Multimodal(s) THEN 5 ELSE 0
      [] op \in {"ADD", "READ_MAP"} -> 6
      [] op = "WRITE_MAP" -> 7
      [] op \in {"SEARCH", "MISEN_QUERY"} -> 8
      [] op = "BISEN_DUMP" -> IF Multimodal(s) THEN 9 ELSE 0
      [] op = "DUMP_BENCH" -> 10
      [] op = "CLEAR" -> 11

FollowsScript(c) ==
    /\ Len(asked[c]) <= Len(Script(c))
    /\ \A k \in DOMAIN asked[c] : asked[c][k] = Script(c)[k]

Done(c) == {executed[c][k].op : k \in DOMAIN executed[c]}

----------------------------------------------------------------------------
(* The invariant *)

TrainerType ==
    [centres : [Centres -> Nat \X Nat], counters : [Centres -> Nat], started : BOOLEAN]

EnclaveTypeOK ==
    /\ kmeans \in TrainerType
    /\ pending \in Seq([id : Nat \ {0}, count : Nat])
    /\ train_technique \in {"none", "client_kmeans", "iee_kmeans", "lsh"}
    /\ lsh \in {"wild", "set"}
    /\ count_searches \in Nat /\ search_results \in Nat /\ map_file \in BOOLEAN

\* A batch was clustered when it was full, and if that never happened, by TRAIN.
TrainerInv(c) ==
    /\ "TRAIN" \in Done(c) => pending = <<>>
    /\ IF kmeans.started
         THEN /\ Trained /\ "TRAIN_ADD" \in Done(c)
              /\ \/ "SET_CODEBOOK_CLIENT_KMEANS" \in Done(c)
                 \/ Len(Given(c)) >= MaxDescriptorsMem
                 \/ /\ "TRAIN" \in Done(c) /\ Len(Given(c)) >= NrCentres
                    /\ \A k \in Centres : kmeans.centres[k] = Given(c)[k + 1]
         ELSE /\ Descriptors(pending) = Given(c)
              /\ pending # <<>> <=> "TRAIN_ADD" \in Done(c)
              /\ Trained <=> "SET_CODEBOOK_CLIENT_KMEANS" \in Done(c)

RepositoryInv(c) ==
    "INIT" \in Done(c) =>
        /\ train_technique = settings[c].technique
        /\ lsh = "set" <=> "SET_CODEBOOK_CLIENT_LSH" \in Done(c)
        /\ {"SEARCH", "MISEN_QUERY"} \cap Done(c) # {} => count_searches > 0

IndexInv(c) == "MISEN_QUERY" \in Done(c) /\ "BISEN_DUMP" \notin Done(c) => search_results > 0

ScriptInv(c) ==
    /\ FollowsScript(c)
    /\ UsesRepository(settings[c]) => TrainerInv(c) /\ RepositoryInv(c)
    /\ Multimodal(settings[c]) => IndexInv(c)

\* Behind fewer descriptors than there are centres an image fits in the batch.
BatchHasRoom ==
    \A s \in Settings : \A c \in Clients : \A i \in DOMAIN s[c].photos :
        NrCentres + s[c].photos[i] <= MaxDescriptorsMem

\* The client whose request failed waits for an answer, so it sends no more.
AssertionInv ==
    up = "assertion" /\ BatchHasRoom =>
        \E c \in Clients :
            /\ settings[c].technique = "iee_kmeans" /\ Len(SentForTraining(c)) < NrCentres
            /\ server[c] = "process"

\* What the requests executed so far have made of the enclave (process_message), for
\* each driver's script (separated_tests, multimodal_tests).
DriverInv ==
    /\ EnclaveTypeOK
    /\ \A c \in Clients : ScriptInv(c)
    /\ AssertionInv /\ DumpsFollowSearches
=============================================================================
