# MISEN in TLA+

MISEN is a searchable-encryption server. A *client* extracts features from
documents (words, image descriptors) and sends them over TLS to an *enclave*
(IEE), which keeps the counters of two indexes, text (BISEN) and images
(VISEN); the postings lie encrypted in a *storage service* (UEE), under labels
that only the enclave can compute. The repository has two builds of the
enclave's frame, `Framework` (SGX) and `SimFramework` (without); the files
modelled here are the same in both, or are named in `Framework`, unless said otherwise.

All paths below are relative to `src/`. `PROJECT.json` maps every definition to
its lines.

## The system

| Component | State it keeps | Operations | Module |
|---|---|---|---|
| Work dispatcher, `Framework/src/Iee/thread_handler.cpp`, worker loop in `Enclave.cpp` | `threads[]` (mutex, condition variable, `ready`, `done`, task), `entered_threads`, `nr_tasks`, the main thread's task | register a worker, count threads, add work, do work | `ThreadHandler`, promise `ForkJoin` |
| Image processing, `ImageSearch/src/img_processing.cpp`, `training/lsh/lsh.cpp` | the shared histogram `frequencies` | histogram of an image over the codebook or the LSH's vectors, in parallel | `FrequencyCount` |
| Image index, `ImageSearch/src/trusted.cpp`, `repository.cpp`, `scoring.cpp` | `r`: counter per centre, `total_docs`, connection; the file `iee_data`; benchmark records | INIT, ADD, SEARCH, CLEAR, READ_MAP, WRITE_MAP, DUMP_BENCH | `VisualIndex` |
| Storage service, `Framework/src/StorageService/SseServer.cpp` | the map `I`, one thread per connection, benchmark records | INIT, ADD, SEARCH, '5', DUMP_BENCH | `StorageService` |
| Text index, `ImageSearch/src/rbisen/SseIee.cpp` | connection, label buffer, `search_results` | setup, update, search, DUMP_BENCH | `TextIndex` |
| Query evaluation, `rbisen/QueryEvaluator.cpp`, `rbisen/util/`; parser `Framework/src/Client/rbisen/QueryParser.cpp` | none | parse to postfix, evaluate to a set of documents | `QueryParser`, `QueryEvaluator` |
| Text client, `Framework/src/Client/rbisen/SseClient.cpp`, `EnglishAnalyzer.cpp` | counter per word `W`, number of documents | documents of a file, add, search | `TextIndex`, `KeywordExtractor` |
| Multimodal query, `trusted.cpp` (`OP_MISEN_QUERY`), `Framework/src/Client/misen_tests.cpp` | none | make the query, join the two rankings, fill the response | `MultimodalQuery` |
| Secure channel, `Framework/src/Iee/mbedtls/ssl_conn_hdlr.cpp`, `LibUntrusted/secure_conn.cpp`, `Client/util.cpp` | TLS session, one enclave thread per client | send, receive, end of a connection | `SecureChannel`, promise `RemoteCall` |
| Training, `ImageSearch/src/training.cpp`, `training/bagofwords.cpp`, `training/seq-kmeans/` | batch of descriptors, centres, counters | add an image, train, set the client's codebook | `Training` |
| Client drivers, `Framework/src/Client/Client.cpp`, `*_tests.cpp`, `ImageSearch.cpp` | the configuration | the requests of a session, in their order | `Session` |
| Simulation framework, `SimFramework/src/` | as above, over plain sockets | as above, and saving and loading the map | `PlainChannel`, `Session` |
| Cryptography, SGX and TLS glue | none of their own | | not modelled |

How they interact: `App.cpp` starts one thread per client, with nothing between
the threads and the enclave's global state; a thread reads a message, runs
`process_message` and writes the answer; an operation splits
its work with `thread_add_work` and runs it with `thread_do_work`; the indexes
speak to the storage over sockets, with unanswered ADDs and answered SEARCHes;
every repository opens a connection of its own, and nothing orders the requests
of two connections.

What is hard: the flags and condition variables of the dispatcher and its
unlocked writes; unlocked increments of a shared histogram; ranges and batches
cut by index arithmetic; counters that run ahead of a storage which answers a
missing label by exiting; requests of a closed connection still on their way;
crashes and reloads of counters whose postings live elsewhere; messages that two
ends must cut at the same places; exits of a process that others share; a protocol
whose steps only the drivers' order makes safe. `PROJECT.json`
lists these hazards, each at its line, with the properties that watch over it.

What makes each component correct: the dispatcher runs each piece of work it
accepted once, within the call that asked for it; the histogram has the centres
of the image and no others; the image index returns the postings of its
repository, each once; the storage always has the labels that the counters
count; a text search returns the documents the query is true of; a call is
executed once and gets its own answer; an image is only added or searched with a codebook
that has been set; a session ends.

## The modules

How they are composed:

```
ThreadHandler --implements--> ForkJoin <--composed with-- FrequencyCount
StorageService <--composed with-- VisualIndex
               <--composed with-- TextIndex --uses--> QueryParser, QueryEvaluator, KeywordExtractor
                                      ^--extended by-- MultimodalQuery <-- MCTextIndex
                                      ^--extended by-- QueryMeaning <-------'
SecureChannel <--extended by-- PlainChannel <--extended by-- Session <-- MCSession
                          Training <--extended by------'  '--implements--> RemoteCall
```

Beside a component `M` lie `MInvariant`, which extends it with its inductive invariant `IInv`, and
`MProofs`, which extends that with the theorems and their proofs (`ThreadHandler`,
`Frequency` for `FrequencyCount`, `Visual` for `VisualIndex` (its proofs are `VisualIndexProofs`), `Session`, `Text` for
`TextIndex`). `MisenProofs` has those about `MultimodalQuery`, from the same invariant. Of `Session`, `SessionInvariant` and
`SessionProofs` have what concerns the channel, and `DriverInvariant` and `DriverProofs`, which extend them, what concerns the
drivers' scripts and what the enclave holds. `SequenceLemmas` has the lemmas that more than one of them needs: induction and
recursion on natural numbers and over a depth, what `FlattenSeq` computes, and what reads a sequence step by step.

**`ForkJoin`** is what a caller is promised of `thread_add_work` and
`thread_do_work`: added work runs once, after the call and before its return.

**`ThreadHandler`** is the dispatcher and the worker loop. A step is one critical
section of a slot's mutex or one access to the unprotected globals;
`entered_threads++` is a load and a store. A condition variable is the set of
threads blocked on it; `notify_one` takes one out, and a wait may end without
a notification. The operations of the code are the actions of a worker (`LoadEntered`,
`StoreEntered`, `AwaitReady`, `RunTask`, `FinishTask`, `NotifyDone`) and of a
caller (`CountThreads`, `AddMain`/`AddTask`/`AddRefused`, `DoWork`,
`SignalReady`, `NotifyReady`, `RunMain`, `AwaitDone`, `ResetSlot`, `Return`). The
history variables `queued` and `runs` say what was accepted and how often it ran,
`settled` whether every worker had registered when the operation that runs counted them.
`Shared` says that the race on `entered_threads` has given two workers one slot: nothing keeps
it from that, as the pool starts its workers in a loop that waits for no registration.
The field `task` is not kept apart from `task_args`. One call of
`thread_add_work` is one step.

**`FrequencyCount`** is `process_new_image` with `parallel_process`, and
`calc_freq`, which does the same for the LSH, composed with
`ForkJoin` through its variables: `AddRange` is an `Accept` of the dispatcher,
`FinishRange` a `Run`. `Start` and `End` are the code's bounds. An increment is a
load and a store. Which centre is closest to a descriptor is an input. `args_len`
is the number of threads that `calc_freq` allocated its arguments for, once;
`CalcFreq`'s guard leaves out the images for which they are too few (the code writes
past its buffer then).

**`StorageService`** is the in-memory storage: the map, and requests served in
order on each connection and in any order between connections. A search for a missing
label ends the service. Of the benchmark records only whether there is one is kept: a
search writes into the last, and an aggregated dump divides by their number. Its `Send` and
`Receive` are what its clients do.

**`VisualIndex`** is the enclave's side of the image index, composed with
`StorageService`. A label is the pair of a centre and a counter, since the keys
are all zero; a posting's value carries its label and the document. `AddPosting`
and `RequestLabel` are one turn each of the loops that fill a batch, `SendAdd`
and `SendSearch` send it, `ReceiveAnswer` walks the answers. `DumpBench` sends the
storage's dump on the repository's connection. `Crash` ends the
enclave's process at any moment; what was sent is still delivered, and
`iee_data` stays, though `OpenMap` empties it before `WriteMap` fills it. An image
is the set of its centres, so weights and their sums are not modelled: `scores`
counts the postings a score adds up. History variables: `library`, the images
that were added to the repository, and `sound`, which is FALSE when a repository is
opened while requests of an earlier one are on their way, or when `READ_MAP`
loads counters of postings that the storage no longer has; `dumped`, the connections whose
dump the storage has served since it last made a record.

**`QueryParser`** and **`QueryEvaluator`** are pure: `parse` takes a sequence of
lexemes through `tokenize` and `shunting_yard`, `evaluate` takes the notation
through the stack of vectors of documents. A vector has the room that the code gives
it, and what does not fit is dropped. **`KeywordExtractor`** makes
documents of a file, one of the whole or one per article (lines of markup open and close them); a line of text says whether a
character follows its last word, and the file whether a newline ends it, because the code counts
a word when it sees what follows.

**`TextIndex`** is the client's counters, the enclave's `update` and `search`,
and the storage (`INSTANCE StorageService`). `Update` is the client's bulk
message, `SendBatch` a turn of `update`'s loop, `NextDocument` its end and the next document of
the bulk (`OP_IEE_BISEN_BULK`), `Updated` the answer to it; `Search` parses the query and lists
the labels in the order the shuffle leaves them; `RequestBatch` and
`ReceiveBatch` are the two halves of a turn of `get_docs_from_server`, `Evaluate` the rest of
`search`. `Quit` ends the client or the enclave at any moment, and with it
the counters; the storage keeps what it has and serves what was sent. Of a
weight only the order it gives documents is kept; for a query of more than one word `calc_tfidf`
reads vectors that were freed, so any order may result. History: `texts`, the documents the client has sent.

**`MultimodalQuery`** extends it with a query made of a file of tags, the join of
the text's ranking with any ranking of images, and the response: its length, and the
place of every record in it. **`MCTextIndex`** gives the instance.

**`QueryMeaning`** models no code: it is the reference that the stemming, the parser, the counters, the batches and the evaluator
are held against. `Expressions` is any set of Boolean expressions over words, closed under operands; `Render` is the query that is written for one,
with parentheses only where the precedences of `QueryParser.cpp` ask for them and around a negated negation, and `Meaning` the set of documents that
it is true of. `Depth` gives every expression a number above those of its operands, at most `MaxDepth`, which is what makes the two recursive functions
functions; `ExpressionsAssumption` says this and that `None` is no state of the parser.

**`RemoteCall`** is what `iee_comm` promises: requests executed once, in their order,
each answered with its own answer.

**`SecureChannel`** is both ends of the connection, one action per `mbedtls_ssl_write` or
`mbedtls_ssl_read`. A message is its length in a record of its own, one byte here that holds the number, then
records of at most `MaxRecord` bytes. The enclave's `read_ssl` has the TLS context by value and
loses what it leaves of a record (`ServerReadBody`); the client's read keeps it
(`Receive`). A client closes after its last call or leaves at any moment, and
what the enclave's thread then finds, the end of the connection or a reset,
decides whether the thread ends or the enclave does. `up` says why the
enclave exited. **`PlainChannel`** is the same protocol over the plain sockets of
`SimFramework`: a read or a write takes any part of what there is. There
`receive_all` goes on reading at the end of the stream (`ReadsForEver`), and,
as nothing ignores `SIGPIPE`, a write to a client that is gone ends the process.

**`Training`** is the trainer: the batch that is clustered when the next image would fill it,
the assertion on its size, the first centres, and which centre the k-means moves.
Distances are abstracted to the choice of that centre among those that
some thread's range compares.

**`Session`** is the composition: for a configuration (`settings`), `RequestsOf` is the
sequence of requests of the drivers; the driver makes them as calls over the channel, and one action per
group of cases of `process_message` serves them (`HandleInit`, `HandleTrainAdd`, `HandleTrain`, ...).
Of what a case does, `Session` keeps what decides whether a later request can
succeed: the codebook, the LSH's vectors, the counts of searches that statistics are
divided by, the file of the map. What ADD and SEARCH do to the indexes is in the other modules. A client is multimodal
(`Multimodal`) if `use_multimodal` is set, but for the simulation's, whose `main` calls `separated_tests` whatever it says.
At most one client uses the repository, and at most one the text index (`OneRepositoryAssumption`): there is one of each in the enclave.
**`MCSession`** gives the configurations and the lengths of the messages.

Definitions introduced by a comment "Wrong:" are plausible mistakes of the code.
None is part of a specification: each stands in for a definition near
it in `PROJECT.json`'s `mutants`, and TLC then finds the named property violated.

## The runs

| Run | Module, configuration | Instance | What it shows |
|---|---|---|---|
| `thr_race` | `ThreadHandlerInvariant`, `ThreadHandler_race.cfg` | 3 workers, 1 caller, registrations that overlap, fair | `TypeOK`; the inductive invariant `IInv`; `UnlockedWritesAreExclusive`; `QuietBetweenOperations`; `NothingRefused`; the refinement `ImplementsForkJoin`; every operation ends while no slot is shared (`OperationEnds`) |
| `thr_wakeup` | `ThreadHandler`, `ThreadHandler_wakeup.cfg` | 2 workers, 1 caller, fair | `DoWorkReturns` is violated |
| `thr_clients` | `ThreadHandler`, `ThreadHandler_clients.cfg` | 1 worker, 2 callers | `ReturnsAfterWork` is violated |
| `freq_race` | `FrequencyInvariant`, `Frequency_race.cfg` | 2 centres, 1 to 3 threads, up to 5 descriptors | `IInv`, `NeverOvercounts`, `RaceKeepsCentres`, `ExactWhenAlone` |
| `freq_skip` | `FrequencyCount`, `Frequency_skip.cfg` | as above, up to 4 descriptors | `EveryDescriptorCounts` is violated |
| `vindex` | `VisualInvariant`, `VisualIndex.cfg` | 2 centres, 2 images, 2 repositories, batches of 2, a search and a dump that wait on a connection | `IInv`, `CountedAreSent`, `SearchIsExact`, `WeightsNotNegative`, `AnswerIsComing`, `SearchesAreRecorded` |
| `vindex_query` | `VisualIndex`, `VisualIndex_query.cfg` | 1 image, 1 repository | `OnlyCountedRequested` is violated |
| `vindex_add` | `VisualIndex`, `VisualIndex_add.cfg` | 1 image, 1 repository | `CountersOfPresent` is violated |
| `vindex_clear` | `VisualIndex`, `VisualIndex_clear.cfg` | 2 images, 2 repositories, each cleared | `NothingOfClearedRepositories` is violated |
| `text` | `MCTextIndex`, `TextIndex.cfg` | 4 words, 3 documents, 4 files, 22 expressions and 4 texts that are none, update batches of 1, search batches of 2, 3 files of tags | `IInv`, `CountedArePosted`, `EveryPostingOnce`, `SearchMeansQuery`, `BestAreReturned`, `StorageStaysUp`, `ArticlesKeepTheirWords`, `ResponseIsWhole` |
| `misen_response` | `MCTextIndex`, `TextIndex_misen.cfg` | as above, update batches of 2 | `RankingIsRead` is violated |
| `session` | `MCSession`, `Session.cfg` | 2 clients, 26 configurations, records of 2 bytes, 2 centres, batches of 4 descriptors, fair | `TypeOK`; the inductive invariants `IInv` of the channel and `DriverInv` of the scripts; `RequestsArriveWhole`, `CodebookIsSet`, `CodebookIsTheFirstDescriptors`, `CentresFollowBatches`, `TrainingHasEnough`, `DumpsFollowSearches`, `ClosingIsHarmless`; the refinement `CallsAreExecutedOnce`; every session ends (`SessionsEnd`) |

The runs that expect a violation are findings, quoted in `PROJECT.json`:

* two clients that dispatch work together: one's `thread_do_work` returns before
  its work has run;
* two workers whose registrations overlap share a slot: the notification that one
  means for the caller wakes the other, and `thread_do_work` waits for ever;
* the descriptor at the boundary of two ranges belongs to no thread, so a centre
  may be missing from an image;
* a query with a centre that has no posting yet asks for a label that does not exist, and
  leaves out the last that does;
* an image without centre 0 is posted under it, and not under its own last centre;
* an add of a cleared repository that is served late replaces a posting of
  the next repository;
* the response of a multimodal query has its records at distances of the number
  of documents, where the client reads them at whole records.

Some properties hold with an exception that the code makes, and name it:
`NothingRefused` (an operation that counted the threads while registrations raced may have work refused,
which nobody looks at), `OperationEnds` (two workers that share a slot), `SearchesAreRecorded` (a dump of another
connection may take the record that a search is about to write into),
`CodebookIsSet` (a multimodal session configured with "lsh" uses vectors nobody set; one
that sends no image for training uses centres nobody set), `DumpsFollowSearches` (the sessions that
divide by 0 searches), `TrainingHasEnough` (fewer descriptors than centres),
`ClosingIsHarmless` (a client that leaves in mid-call may end the enclave),
`BestAreReturned` (queries of one word), `ResponseIsWhole` (both searches found something: otherwise the
loop writes a record behind the response), `ArticlesKeepTheirWords` (the last word of a line).

**Bounds.** Three workers let two share a slot while another works alone, or all three share one, and leave slots
unused. Three threads and up to five descriptors give ranges that are empty,
of one and of several descriptors, a remainder, and fewer descriptors than
threads. Two centres are a first and a last one (`vindex_query` has one between), and images have none, one or both;
batches of two with up to four labels give full and partial batches, and a batch that ends within a centre. A
search and a dump that wait (`MaxWaiting` = 1 of each on a connection) let a dump of one repository come between the
requests of another.
Two repositories are enough for one to leave requests to the next, and, with the
file, for every order of saving, clearing, adding and loading. `MaxAdds`,
`MaxConnections` and `MaxDesc` bound the behaviours of these runs.

In `text`, three documents (`MaxDocs`) give words of no, one, two and all documents; a threshold
of 2 cuts off a ranking; update batches of one cut every document of two words, search
batches of two leave full and partial ones, and the shuffle moves requests across them.
`MaxFrequency` = 2 orders documents, `MaxScore` = 1 gives ties and the score 0. `Earlier` are the maps an
earlier client may have left: none, and one with other documents under this client's labels. At most one
search or dump waits at the storage (`Waiting`): more would be served one after the other.
The expressions have up to two operators (and the shapes that tell `&`, `|` and `!`
apart by precedence), enough for every pair of operators to meet on the stack.

In `session`, messages take one to three records of `MaxRecord` = 2 bytes, with a full last
one among them; one more byte makes no new case, as every turn of a loop depends on what is left only.
`NrCentres` = 2 and `MaxDescriptorsMem` = 4 keep the code's relation that a batch has room for the
centres and the largest image (2 descriptors), and images of 0, 1 and 2 descriptors give batches flushed early, exactly full,
and too small, and sessions of up to three batches, one of them with fewer descriptors than centres. `Leftovers` = {0, 1} is what fresh memory holds, as far as a division tells
it apart. `TestFiles` = 1 stands for the 500 images of `search_test`. Each configuration has one client that works and
one that closes at once, or one with images beside one with text: the enclave has one repository and one
text index, and what two clients of the same one do to each other is not part of the run.

**Deadlock.** `thr_race` does not check it: two workers that share a slot can leave `thread_do_work`
waiting for ever, as `thr_wakeup` shows, and `OperationEnds` says that nothing else can.
The frequency runs do check it. The `VisualIndex` runs end when their bounds are reached, or
when the storage has exited; `text` ends when its client has; `session` ends when all clients are gone or the
enclave is (`SessionsEnd` says that it does not end before).

**Fairness.** `FairSpec` of `ThreadHandler` assumes weak fairness of each worker's steps
and of each operation that began: the operating system schedules every
thread that can run. No client is obliged to begin an operation.
No fairness is assumed of the choice of the thread that `notify_one` wakes, of the mutex, or of
spurious wakeups. `Session`'s `Spec` assumes weak fairness of each client's process
and of each of the enclave's threads: the drivers are straight-line programs and each call
blocks only on its answer. Leaving is never obliged. `SessionsEnd` promises the end of a session up to the end of the enclave: `ssl_receive_all`
takes the end of the connection for a read of no bytes, so the client of an enclave that has ended
reads for ever. `TextIndex` and `VisualIndex` assume none; that an answer comes is an
invariant there (`AnswerIsComing`, `StorageStaysUp`).

**Refinement.** `CallsAreExecutedOnce` maps both channels, with everything
`process_message` does between a request and its answer, to `RemoteCall`: `gone` is a client that closed or left, `running`
that the enclave is up, the histories `asked`, `executed` and `answers` are its own. An
answer enters the history as what its bytes decode to, so that a message mixed of two would be no step of `RemoteCall`.

## What is proved

All proofs are of the specifications the runs check, for every value of the constants that
the named assumptions allow; the runs check the same invariants, the inductive ones (`IInv`)
included, on small instances.

**The dispatcher.** `ThreadHandlerProofs` proves, for every finite set of workers and one caller
(from `ThreadsAssumption` and `OneCaller`):

* `DispatchInvariant`: `Spec => []IInv`, and from it `TypeCorrect` (`TypeOK`),
  `UnlockedWritesSafe` (`UnlockedWritesAreExclusive`) and `QuietAfterReturn` (`QuietBetweenOperations`),
  however registrations overlap;
* `Implements`: `Spec => ImplementsForkJoin`;
* `AllWorkAccepted` (`NothingRefused`): no work is refused in an operation that began when every worker had
  registered, or as long as no slot is shared.

The invariant has two parts. `StageInv` follows a slot through an
operation: *pending* once work was put in it (waiting, with neither flag set),
*signalled* once `ready` was set (exactly one of `ready` and `done` is set, and the
piece has run iff it is done or its worker is finishing), and *clear* otherwise
(`SlotInv`). `EntryInv` bounds every value that the racing `entered_threads++`
can hold in a register by the number of workers that have registered, which keeps every slot
within `threads[]`; `LockInv` says that a worker in its critical section holds
its slot's mutex and that the slot is ready, hence signalled, hence not one that the caller may
write; `TaskInv`, `MainInv` and `WorkInv` say where the accepted work is;
`IndexInv` bounds the caller's loop index. There is one lemma per action, and `NextIInv`
puts them together. The refinement shows for each action the
step of `ForkJoin` it makes, or that it stutters. `AcceptInv`, the second part, is about the count of threads that
an operation read when it began, which must still bound the slots it fills. A store of an old value takes
`entered_threads` back, and then fewer slots are given out than were counted. If everyone had
registered no such store is left (`SettledInv`); and while no two workers have one slot, each store is
of the value that was loaded, as two that both had yet to store would have one slot (`EntryCounts`). In both
cases the count stands, and there is a slot for each piece (`Accepted`).

**The histogram.** `FrequencyProofs` proves, for every number of threads, centres and descriptors
(from `FrequencyAssumption`):

* `RangesAreDisjoint` and `BoundariesAreLeftOut`, about the code's bounds `Start` and `End` alone: no descriptor is
  in two threads' ranges, and those in none are the multiples of the range's size between two ranges;
* `HistogramInvariant` (`IInv`), `HistogramIsTyped` (`TypeOK`), `NothingIsCountedTwice` (`NeverOvercounts`),
  `NoCentreIsLost` (`RaceKeepsCentres`) and `AloneIsExact` (`ExactWhenAlone`).

Nothing protects the increments, so a frequency may be less than the number of the descriptors counted so far (`Counted`).
`FreqInv` says that it is never more, and 0 only when that number is; a step that stores an old value
keeps this because a loaded frequency was true once (`RegInv`) and the counted descriptors only grow. `PosInv` ties each thread's
index to its range; `RangesAreDisjoint` is what makes a finished increment count a descriptor nobody else counts.

**The image index.** `VisualIndexProofs` proves, for every codebook, sizes of the batches and bounds
(from `VisualAssumption`): `IndexInvariant` (`IInv`), `IndexIsTyped` (`TypeOK`), `NoCountWithoutPosting`
(`CountedAreSent`), `SearchesAreExact` (`SearchIsExact`), `NoNegativeWeight` (`WeightsNotNegative`), `AnswersAreOwn`
(`AnswerIsComing`) and `NoSearchUnrecorded` (`SearchesAreRecorded`).

The invariant counts. `CountersInv`: a counter is the number of documents of the library, and of the add
that is going on as far as its loop has come, that have a posting of the centre; the saved counters are those of the saved library.
`AddInv` and `WalkInv`: what a loop has counted down is what lies behind it, so that a search has come to
every label it wanted (`Wanted`) when nothing is left, if each of its centres has a posting. `HoldInv`: each posting lies
where the storage will have it once all that is on its way is served (`WillHold`), although adds are not
answered and the requests of two connections are served in any order; it needs `sound`.
`ScoreInv` says that the scores are the postings answered so far. `AnswerInv` and `RecordInv` follow the one search
that may wait, and the record it is going to find, through the queue of its connection: each search has a record already,
or a `start_search` before it, and no dump of its own connection in between (`RecordedAt`). This needs no `sound`, since the
queue of one connection is served in order, whatever is left in it; `dumped` says what other connections took.

**The channels and the sessions.** `SessionProofs` proves, for any number of clients, configurations,
lengths of messages (`LengthAssumption`) and of records (`MaxRecord`), over TLS records and over a stream (from
`SettingsAssumption` and the assumptions of the modules `Session` extends):

* `SessionInvariantHolds` (`IInv`), `ChannelTypes` (`ChannelTypeOK`, the channel's part of `TypeOK`);
* `RequestsArrive` (`RequestsArriveWhole`) and `ClosingDoesNoHarm` (`ClosingIsHarmless`);
* `SessionImplementsRemoteCall`: `Spec => CallsAreExecutedOnce`.

The invariant has each client in one of three phases (`InPhase`): between calls, with nothing under way;
requesting; or answering. In the last two it says of every byte of the message where it is: still to be written, in a record
under way, or read. On TLS, `Cut` says that the records under way are the ones that a loop of `ssl_write` makes of
the message from any point on, each as long as it can be: this is why `read_ssl` loses nothing by taking the TLS
context by value, since a read never leaves part of a record. A lemma says what reading and writing one record does to
`UnderWay`, each action's lemma cites it, and in the phase that follows the receiver has the whole message.
The refinement of `RemoteCall` reads an answer's bytes back through `IInv`.

**The drivers.** What a session relies on beyond the channel (that a codebook is there, that the first batch has its
descriptors, that statistics have their searches) no single handler provides: only the order of a driver's requests does.
`DriverProofs` proves, from `TrainingAssumption`, `SettingsAssumption` and `OneRepositoryAssumption` too, for all settings:

* `DriverInvariantHolds` (`DriverInv`) and `SessionTypes` (`TypeOK`);
* `CodebookIsThere` (`CodebookIsSet`) and `CodebookIsTheFirst` (`CodebookIsTheFirstDescriptors`);
* `DumpsHaveSearches` (`DumpsFollowSearches`);
* `EnoughForTraining` (`TrainingHasEnough`), under the hypothesis `BatchHasRoom`: fewer descriptors than centres and those of one
  image fit in a batch. The code's batch has room for 100000 (`MAX_DESCRIPTORS_MEM`), and nothing checks a configuration against
  it. Where it does not hold, a batch may be flushed before there is a descriptor for every centre.

`DriverInv` says what the enclave holds as a function of the requests it has executed (`Done`): before the first clustering the batch
has all descriptors that were sent (`Given`), and after it either the first centres are those of one batch, or one was full, or a client set them
(`TrainerInv`); technique, vectors and counts follow the requests since `INIT` (`RepositoryInv`, `IndexInv`); `AssertionInv` says
whose request ended the enclave. By itself this is not inductive: that a request finds what it needs is a fact about
scripts. A script is built of blocks of requests, in the order of `Stage` (`FollowsScript` ties what was asked to it); the
request a handler serves is the next of the script, so all of the earlier stages were executed before it, and none of
the later ones (`ServedInTurn`). There is one lemma per handler, and by `OneRepositoryAssumption` the others' requests leave a client's part alone.

**The text index.** `TextProofs` proves, for any words, files, queries, sizes of the batches and maps left by
earlier clients (from `TextAssumption`, and `InputsAssumption`, which says that the files and queries are typed, each document's counts within `MaxFrequency`):
`IndexInvariant` (`IInv`), `TypeCorrect` (`TypeOK`), `Posted` (`CountedArePosted`), `EachPostingOnce` (`EveryPostingOnce`),
`BestReturned` (`BestAreReturned`), `StaysUp` (`StorageStaysUp`), `ArticlesKept` (`ArticlesKeepTheirWords`), and, from
`ExpressionsAssumption` too, `SearchMeans` (`SearchMeansQuery`).

The invariant has six parts beside the types. `ServableInv`: each request that waits at the storage can be served
when those before it have been, as the values it asks for are there or are added before it, and a record is there or made
before it. A request that is sent needs this at the end of the queue only, and serving the first shifts all
others by one place (`ServeAhead`). `PostingInv`: a word's counter is the number of documents that have it (`Having`); what is on
its way, in the queue or in the unsent part of the message, is a right posting of a counted label, and a counted label that has nothing
on its way has a right posting in the map. A posting is right under a label (`Right`) if its document is the one with as many before it
as the label says: the ranks that a bulk gives the documents of a word (`RankIs`) keep this from update to update.
This is why a search cannot miss: its labels are counted ones (`AskedIs`), its request
comes behind all additions (`CountedFound`), and by the time of the answer the map has the postings of this client's documents, not
those that an earlier client left under the same labels. `AnswerInv` says that a search has one request at the storage,
the last, or its answer. `LoopInv` has the labels as an arrangement of what is to be asked for (`Arranges`: every element
once), which concatenation and the shuffle keep (`LabelsArranged`, `ShuffledArranges`), and the postings read as those
before `label_pos`. `SourceInv` ties the last documents sent to the file of the update. `ResultInv` has the postings right, the
answer the best of the result, and the result, each document once, the set that the parsed query is true of (`Truth`, the
evaluator's loop with sets in the place of its vectors). When all labels were read, the documents read for a word are those that
have it (`AllFound`), and then every step of the evaluator keeps its stack of vectors a representation of the stack of sets (`StepMeans`):
this is where the room of a vector and the removal of doubles matter.

*The articles.* `ArticlesKept` follows the extractor through the lines of a file: after m lines there is one article more than
lines that closed one, and the k-th has the words of the lines that k - 1 closing ones come before (`ReadingSteps`).

*The queries.* `SearchMeans` says of any expression, however deep, that the search for the query written for it returns exactly the documents
it is true of, each once. What is left beside `ResultInv` is about the parser alone: the notation that it makes of `Render[e]` is true of `Meaning[e]`.
Recursive functions are shown to be functions by `Recursion` and `DepthRecursion`, and what a loop does to a text that is put together of parts is
reduced to what it does to the parts: a loop is a set of steps, and the steps that read one part lead to where those of the next begin (`Leads`, `LeadsJoin`).
`tokenize` decides by the parity of a run of equal lexemes which of them are tokens; its steps need the last lexeme and that parity only (`TokenizeCuts`), and
a text cuts into tokens (`CutsInto`) wherever it stands. The shunting yard's and the evaluator's steps run together (`Reaches`): of the operators that wait, those popped
are applied to the stack at once. `Strict` and `Equal` say what tokens do to any yard below:
tokens that mean M at level p leave, where only operators of lower levels wait on top, operators of level p or above that end in M on the stack; where an operator of the same
level waits, which they may pop, what ends on the stack is M joined to the set that it waits on, as `&` and `|` are associative. A word and a nested sequence are of level 4, above every operator, a
negation of level 3, a conjunction of 2, a disjunction of 1 (`Means`), and induction on the depth (`RenderMeans`) follows the precedences: `&` may take operands of level 2,
`|` of level 1, and only these need no parentheses.

**The multimodal query.** `MisenProofs` proves, from `MultimodalAssumption` too: `MisenKeepsIndex`, that the invariant and the
six properties hold with multimodal searches, whatever the files of tags; `MisenTypeCorrect` (`MisenTypeOK`); and
`NoRecordPastTheEnd` (`ResponseIsWhole`) under the hypothesis `Threshold <= RecordLength`, which the code meets with 10
and 12. The hypothesis is needed: records n bytes apart stay within n * 12 bytes only for n of at most 12.

**Only model-checked.**

* Liveness (`OperationEnds`, `SessionsEnd`), which is out of the prover's reach.
* `CentresFollowBatches`, what the k-means does with the batches after the first: each descriptor is clustered once, and a
  centre moves at most once, to the descriptor of its own number, which may lie behind the batch.
  Every other property that a passing run checks is stated by a theorem.
* With more than one caller the dispatcher's `IInv` is false (`thr_clients` shows it).

## Not modelled

* Cryptography, SGX and TLS glue (`LibTrusted`, `sgx_handler`, `ocall`, mbedtls and its error texts and
  certificates): vendored, or wrappers without state.
* Feature extraction and floating point: distances, weights, the values of centres and of the LSH's vectors.
* The Porter stemmer and the table of stop words, which are constants of `TextIndex` (`Stem`, `StopWords`).
* Writes past a buffer and reads behind one, where nothing bounds the outcome: the kept `args` of `calc_freq`,
  the `idf` of a repository with more centres than the first, the pool walked with another thread count.
* The messages that no driver sends: `LOAD`, `TRAIN_LSH`. `Framework`'s client with
  `add_mode` "load" makes its calls up to the training and exits where it would add (`Client.cpp:118`): to the enclave it is a client
  that leaves between two calls, as any may (`Leaves`). The file "centres".
* Two clients that use the same index at once, beyond the dispatcher: their bytes may mix on the shared socket.
* A crash of the storage service, which loses the map.
* The Cassandra and Redis storages, `StorageServer_old.cpp`, the unused `kmeans/`, `w-kmeans/`
  and `training/kmeans-partial/`, and `SimFramework`'s copies of `Framework`'s files, for which the models of
  `Framework`'s stand.

Of the repository's 19309 lines about 4100 are one table of certificates, 1000 are mbedtls's own files, 1000 the
stemmer and the stop words, 2700 `SimFramework`'s copies, and 2000 code that is not compiled. The map covers about
half of what is left; the other half are headers, the set-up of TLS and of SGX, the calls through the enclave's
boundary, configuration, feature extraction and measurements.
