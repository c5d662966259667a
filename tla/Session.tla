------------------------------- MODULE Session -------------------------------
(***************************************************************************)
(* Whole sessions of the repository's client with the enclave: the         *)
(* requests separated_tests and multimodal_tests make, in the order the    *)
(* settings ask for (Framework/src/Client/Client.cpp with visen_tests.cpp, *)
(* bisen_tests.cpp and misen_tests.cpp), sent over a SecureChannel, and    *)
(* the cases of process_message (ImageSearch/src/trusted.cpp) that serve   *)
(* them.  A client of the simulation framework (SimFramework) uses images  *)
(* only, and its requests go over a PlainChannel.  Of what a case does,    *)
(* this module has what decides whether the next can succeed: the codebook *)
(* (Training), the vectors of the LSH, the counts of searches that the     *)
(* statistics are divided by.  The indexes are in VisualIndex, TextIndex   *)
(* and MultimodalQuery.                                                    *)
(*                                                                         *)
(* There is one repository r in the enclave and one text index, so at most *)
(* one of the clients uses images, and one text (OneRepositoryAssumption). *)
(***************************************************************************)
EXTENDS PlainChannel, Training

CONSTANTS Settings,   \* what the configuration files of the clients may hold
          TestFiles,  \* 500, the images search_test searches for
          Leftovers   \* values the memory of the benchmark may hold when it is new

\* photos: the descriptors of each image; main, found, files, queries: see RequestsOf.
Setting ==
    [simulated : BOOLEAN, use_text : BOOLEAN, use_images : BOOLEAN, use_multimodal : BOOLEAN,
     technique : {"client_kmeans", "iee_kmeans", "lsh"}, add_mode : {"normal", "load"},
     photos : Seq(Nat), main : Seq(Nat), found : Nat, files : Nat, queries : Nat]

ASSUME SettingsAssumption ==
    /\ \A s \in Settings : s \in [Clients -> Setting]
    /\ \A s \in Settings : \A c \in Clients : \A i \in DOMAIN s[c].main :
          s[c].main[i] \in DOMAIN s[c].photos
    /\ TestFiles \in Nat \ {0} /\ Leftovers \subseteq Nat

\* The simulation's main calls separated_tests whatever use_multimodal says.
Multimodal(s) == ~s.simulated /\ s.use_multimodal
UsesRepository(s) == s.use_images \/ Multimodal(s)
UsesIndex(s) == ~s.simulated /\ (s.use_text \/ s.use_multimodal)

ASSUME OneRepositoryAssumption ==
    \A s \in Settings : \A c, d \in Clients :
        \/ UsesRepository(s[c]) /\ UsesRepository(s[d])
        \/ UsesIndex(s[c]) /\ UsesIndex(s[d])
        => c = d

VARIABLES
    settings,         \* the configuration of this run
    train_technique,  \* of r
    lsh,              \* r->lsh: "wild" until it is set
    count_searches,   \* of the benchmark b
    search_results,   \* the length of the vector of the text index
    map_file          \* is there a file "iee_data"?

enclave == <<kmeans, pending, train_technique, lsh, count_searches, search_results, map_file>>
sessionVars == <<channel, enclave, settings>>

----------------------------------------------------------------------------
(* The client's drivers *)

Op(op) == [op |-> op]
Times(n, request) == [i \in 1 .. n |-> request]

\* An image's descriptors go with it; photos are their numbers, image by image.
Photos(op, photos) ==
    [i \in DOMAIN photos |-> [op |-> op, image |-> [id |-> i, count |-> photos[i]]]]

\* The simulation sends only its main images, whose names end in "00", for training.
TrainAdds(s) ==
    LET photos == Photos("TRAIN_ADD", s.photos)
    IN  IF s.simulated THEN [i \in DOMAIN s.main |-> photos[s.main[i]]] ELSE photos

InitOf(s) == <<[op |-> "INIT", technique |-> s.technique]>>
Codebook == <<Op("SET_CODEBOOK_CLIENT_KMEANS")>>

\* Wrong: the training is left out when the enclave is to do it.
TrainingSkipped(s) ==
    CASE s.technique = "client_kmeans" -> Codebook
      [] s.technique = "iee_kmeans" -> TrainAdds(s)
      [] s.technique = "lsh" -> <<Op("SET_CODEBOOK_CLIENT_LSH")>>

\* visen_train_client_kmeans, visen_train_iee_kmeans, visen_train_client_lsh.  Any
\* other technique is not trained for.
TrainingOf(s) ==
    CASE s.technique = "client_kmeans" -> Codebook
      [] s.technique = "iee_kmeans" -> TrainAdds(s) \o <<Op("TRAIN")>>
      [] s.technique = "lsh" -> <<Op("SET_CODEBOOK_CLIENT_LSH")>>

Adds(s) == Photos("ADD", s.photos)

\* The first of the images found, as many as the queries asked for; without any
\* asked for, a list of images of its own.
search_flickr(s) == Times(Smaller(s.found, s.queries), Op("SEARCH"))
search_test == Times(TestFiles, Op("SEARCH"))
Searches(s) == IF s.queries > 0 THEN search_flickr(s) ELSE search_test

Statistics == <<Op("DUMP_BENCH"), Op("CLEAR")>>

TextSetup == <<Op("BISEN_SETUP")>>
Updates(s) == Times(s.files, Op("BISEN_BULK"))
Dump(aggregate) == <<[op |-> "BISEN_DUMP", aggregate |-> aggregate]>>

TextRequests(s) ==
    TextSetup \o Updates(s) \o Times(s.queries, Op("BISEN_SEARCH")) \o Dump(FALSE)

ImageRequests(s) ==
    InitOf(s) \o TrainingOf(s) \o Adds(s) \o Searches(s) \o Statistics

\* The simulation's separated_tests saves the map, or loads it in place of adding.
SimRequests(s) ==
    InitOf(s) \o TrainingOf(s)
    \o (IF s.add_mode = "load" THEN <<Op("READ_MAP")>> ELSE Adds(s) \o <<Op("WRITE_MAP")>>)
    \o Searches(s) \o Statistics

\* separated_tests, or multimodal_tests, which always sends the client's centres.
RequestsOf(s) ==
    IF s.simulated THEN (IF s.use_images THEN SimRequests(s) ELSE <<>>)
    ELSE IF Multimodal(s)
      THEN InitOf(s) \o TextSetup \o Codebook \o Updates(s) \o Adds(s)
           \o Times(s.queries, Op("MISEN_QUERY")) \o Dump(TRUE)
           \o Statistics
      ELSE (IF s.use_text THEN TextRequests(s) ELSE <<>>)
           \o (IF s.use_images THEN ImageRequests(s) ELSE <<>>)

AllRequests == UNION {UNION {{RequestsOf(s[c])[i] : i \in DOMAIN RequestsOf(s[c])} :
                             c \in Clients} : s \in Settings}

\* A request holds its operation at least.
ASSUME LengthAssumption ==
    \A m \in AllRequests : RequestLength(m) \in Nat \ {0} /\ AnswerLength(m) \in Nat

Script(c) == RequestsOf(settings[c])

\* The driver's next call, or the end of main.
Drive(c) ==
    /\ IF Len(asked[c]) < Len(Script(c)) THEN Call(c, Script(c)[Len(asked[c]) + 1])
       ELSE Close(c)
    /\ UNCHANGED <<enclave, settings>>

----------------------------------------------------------------------------
(* process_message *)

\* The request a thread has read.
Received(c) == in_buffer[c][1][1]

Handling(c, op) == Up /\ server[c] = "process" /\ Received(c).op = op

\* It has been served.
Served(c) == Execute(c, Received(c)) /\ UNCHANGED settings

\* The enclave exits while it serves it.
Fails(cause) == Exit(cause) /\ UNCHANGED <<enclave, settings>>

\* A new repository and, by malloc, a new benchmark.
HandleInit(c) ==
    /\ Handling(c, "INIT")
    /\ train_technique' = Received(c).technique
    /\ kmeans' = NewTrainer /\ pending' = <<>>
    /\ lsh' = "wild"
    /\ count_searches' \in Leftovers
    /\ UNCHANGED <<search_results, map_file>>
    /\ Served(c)

HandleTrainAdd(c) ==
    /\ Handling(c, "TRAIN_ADD")
    /\ LET image == Received(c).image IN
       IF TooFew /\ is_full_after(image.count) THEN Fails("assertion")
       ELSE /\ train_add_image(image)
            /\ UNCHANGED <<train_technique, lsh, count_searches, search_results, map_file>>
            /\ Served(c)

HandleTrain(c) ==
    /\ Handling(c, "TRAIN")
    /\ IF TooFew THEN Fails("assertion")
       ELSE /\ TrainKmeans
            /\ UNCHANGED <<train_technique, lsh, count_searches, search_results, map_file>>
            /\ Served(c)

HandleSetCodebook(c) ==
    /\ \/ Handling(c, "SET_CODEBOOK_CLIENT_KMEANS") /\ SetCentres /\ UNCHANGED lsh
       \/ Handling(c, "SET_CODEBOOK_CLIENT_LSH") /\ lsh' = "set" /\ UNCHANGED <<kmeans, pending>>
    /\ UNCHANGED <<train_technique, count_searches, search_results, map_file>>
    /\ Served(c)

\* The messages whose effect is in the indexes alone.
OnlyIndexes(c, op) == Handling(c, op) /\ UNCHANGED enclave /\ Served(c)

HandleAdd(c) == OnlyIndexes(c, "ADD")
HandleText(c) == \E op \in {"BISEN_SETUP", "BISEN_BULK"} : OnlyIndexes(c, op)

\* It frees the repository and its codebook; nothing is read of either before the
\* next INIT.
HandleClear(c) == OnlyIndexes(c, "CLEAR")

\* WRITE_MAP, and READ_MAP, which exits without the file.
HandleMap(c) ==
    \/ /\ Handling(c, "WRITE_MAP")
       /\ map_file' = TRUE
       /\ UNCHANGED <<kmeans, pending, train_technique, lsh, count_searches, search_results>>
       /\ Served(c)
    \/ /\ Handling(c, "READ_MAP")
       /\ IF map_file THEN UNCHANGED enclave /\ Served(c) ELSE Fails("file")

\* Wrong: a multimodal query is counted as a text search only.
HandleSearchOnce(c) ==
    /\ \E op \in {"SEARCH", "BISEN_SEARCH", "MISEN_QUERY"} : Handling(c, op)
    /\ count_searches' = count_searches + (IF Received(c).op = "SEARCH" THEN 1 ELSE 0)
    /\ search_results' = search_results + (IF Received(c).op = "SEARCH" THEN 0 ELSE 1)
    /\ UNCHANGED <<kmeans, pending, train_technique, lsh, map_file>>
    /\ Served(c)

HandleSearch(c) ==
    /\ \E op \in {"SEARCH", "BISEN_SEARCH", "MISEN_QUERY"} : Handling(c, op)
    /\ count_searches' = count_searches + (IF Received(c).op = "BISEN_SEARCH" THEN 0 ELSE 1)
    /\ search_results' = search_results + (IF Received(c).op = "SEARCH" THEN 0 ELSE 1)
    /\ UNCHANGED <<kmeans, pending, train_technique, lsh, map_file>>
    /\ Served(c)

\* Integer divisions by count_searches.
HandleDumpBench(c) ==
    /\ Handling(c, "DUMP_BENCH")
    /\ IF count_searches = 0 THEN Fails("division") ELSE UNCHANGED enclave /\ Served(c)

\* Integer divisions by nr_searches when the statistics are aggregated.
HandleTextDump(c) ==
    /\ Handling(c, "BISEN_DUMP")
    /\ IF Received(c).aggregate /\ search_results = 0 THEN Fails("division")
       ELSE /\ search_results' = 0
            /\ UNCHANGED <<kmeans, pending, train_technique, lsh, count_searches, map_file>>
            /\ Served(c)

ProcessMessage(c) ==
    \/ HandleInit(c) \/ HandleTrainAdd(c) \/ HandleTrain(c) \/ HandleSetCodebook(c)
    \/ HandleAdd(c) \/ HandleText(c) \/ HandleClear(c) \/ HandleMap(c)
    \/ HandleSearch(c) \/ HandleDumpBench(c) \/ HandleTextDump(c)

----------------------------------------------------------------------------
Init ==
    /\ ChannelInit
    /\ settings \in Settings
    /\ kmeans = NewTrainer /\ pending = <<>>
    /\ train_technique = "none" /\ lsh = "wild"
    /\ count_searches = 0 /\ search_results = 0
    /\ map_file \in BOOLEAN

\* A message comes or goes, by the channel of the client's framework.
ClientTransfers(c) ==
    /\ IF settings[c].simulated THEN PlainClientStep(c) ELSE ClientStep(c)
    /\ UNCHANGED <<enclave, settings>>

EnclaveTransfers(c) ==
    /\ IF settings[c].simulated THEN PlainServerStep(c) ELSE ServerStep(c)
    /\ UNCHANGED <<enclave, settings>>

ClientActs(c) == Drive(c) \/ ClientTransfers(c)
EnclaveActs(c) == ProcessMessage(c) \/ EnclaveTransfers(c)

Leaves(c) == Leave(c) /\ UNCHANGED <<enclave, settings>>

Next == \E c \in Clients : ClientActs(c) \/ EnclaveActs(c) \/ Leaves(c)

\* Each process and each thread of the enclave goes on while it can.
Spec == /\ Init /\ [][Next]_sessionVars
        /\ \A c \in Clients : WF_sessionVars(ClientActs(c)) /\ WF_sessionVars(EnclaveActs(c))

----------------------------------------------------------------------------
(* Properties *)

TypeOK ==
    /\ ChannelTypeOK
    /\ settings \in Settings
    /\ DOMAIN kmeans.centres = Centres /\ kmeans.counters \in [Centres -> Nat]
    /\ train_technique \in {"none", "client_kmeans", "iee_kmeans", "lsh"}
    /\ lsh \in {"wild", "set"}
    /\ {count_searches, search_results} \subseteq Nat /\ map_file \in BOOLEAN

\* Every call of iee_comm is executed once, in its order, and answered with its
\* own answer, however the messages are cut and whoever leaves meanwhile.
Calls == INSTANCE RemoteCall
           WITH Requests <- AllRequests,
                Answer <- LAMBDA m : IF AnswerLength(m) = 0 THEN <<>> ELSE <<m>>,
                gone <- [c \in Clients |-> Gone(c)],
                running <- Up

CallsAreExecutedOnce == Calls!Spec

\* A session comes to its end, or the enclave does.
SessionsEnd == \A c \in Clients : <>(Gone(c) \/ ~Up)

\* The images of the requests that send one for training; the others have none.
NoImage == [id |-> 0, count |-> 0]
TrainingImages(requests) ==
    [i \in DOMAIN requests |->
        IF requests[i].op = "TRAIN_ADD" THEN requests[i].image ELSE NoImage]

\* The descriptors sent for training so far.
SentForTraining(c) == Descriptors(TrainingImages(asked[c]))

\* An image is added or searched with the codebook of the repository's technique,
\* and that has been set - but for a multimodal session configured with "lsh",
\* which sets the centres and has the enclave use vectors nobody set, and for one
\* that has no image to train with, and searches all the same.
CodebookIsSet ==
    \A c \in Clients :
        (\E op \in {"ADD", "SEARCH", "MISEN_QUERY"} : Handling(c, op)) =>
            CASE train_technique = "lsh" -> lsh = "set" <=> ~Multimodal(settings[c])
              [] train_technique = "iee_kmeans" /\ ~Multimodal(settings[c]) ->
                     Trained <=> \E i \in DOMAIN asked[c] : asked[c][i].op = "TRAIN_ADD"
              [] OTHER -> Trained

\* While all the descriptors fit in one batch, the centres are the first k of them.
CodebookIsTheFirstDescriptors ==
    \A c \in Clients :
        /\ kmeans.started /\ settings[c].use_images /\ settings[c].technique = "iee_kmeans"
        /\ Len(SentForTraining(c)) < MaxDescriptorsMem
        => \A k \in Centres : kmeans.centres[k] = SentForTraining(c)[k + 1]

\* The descriptors the enclave was given, and those of the images that its first
\* batch has room for.
Given(c) == Descriptors(TrainingImages(executed[c]))
InitialBatch(c) ==
    LET images == TrainingImages(executed[c])
        Upto(n) == Descriptors(SubSeq(images, 1, n))
    IN  Upto(Max({n \in 0 .. Len(images) : Len(Upto(n)) < MaxDescriptorsMem}))

\* What the k-means of this code does with the batches after the first, in which
\* centres are compared with descriptors of their own number.  Each descriptor is in
\* the first batch, or counted by one centre, or still waits: none is dropped where
\* one batch follows another.  A centre that counted none is its descriptor of the
\* first batch; one that did is, for good, its descriptor of the batch that moved it,
\* an image's first descriptor or a later one, or is what lies behind that batch.
CentresFollowBatches ==
    \A c \in Clients :
        kmeans.started /\ settings[c].use_images /\ settings[c].technique = "iee_kmeans" =>
            /\ Len(InitialBatch(c)) + total_descriptors
                 + FoldFunction(+, 0, kmeans.counters) = Len(Given(c))
            /\ \A k \in Centres :
                  IF kmeans.counters[k] = 0 THEN kmeans.centres[k] = InitialBatch(c)[k + 1]
                  ELSE \/ k > 0 /\ kmeans.centres[k] = Beyond
                       \/ \E n \in Len(InitialBatch(c)) .. Len(Given(c)) - k - 1 :
                             /\ Given(c)[n + 1][2] = 1
                             /\ kmeans.centres[k] = Given(c)[n + k + 1]

\* The enclave gives up training only if the client sent fewer descriptors than
\* there are centres: a batch is never cut too short for them.
TrainingHasEnough ==
    up = "assertion" => \E c \in Clients :
        settings[c].technique = "iee_kmeans" /\ Len(SentForTraining(c)) < NrCentres

\* The statistics are divided by a number of searches that is 0 only if a multimodal
\* configuration asks for none, or one of images has some to make but no image.
DumpsFollowSearches ==
    up = "division" => \E c \in Clients :
        IF Multimodal(settings[c]) THEN settings[c].queries = 0
        ELSE settings[c].use_images /\ settings[c].queries > 0 /\ settings[c].found = 0

\* A client takes the enclave down only by leaving in the middle of its session:
\* one that makes all its calls and closes never does, at whatever moment.
ClosingIsHarmless ==
    up = "peer" => \E c \in Clients :
        client[c] = "left" /\ Len(answers[c]) < Len(asked[c])
=============================================================================
