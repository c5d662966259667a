------------------------------ MODULE MCSession ------------------------------
(***************************************************************************)
(* Settings for TLC: a client with images (each technique, images of no,   *)
(* one or two descriptors, with and without queries) or a multimodal one,  *)
(* beside one that calls nothing; one with images beside one with text;    *)
(* and the simulation's.  Messages take one to three records, some with a  *)
(* full last one.                                                          *)
(***************************************************************************)
EXTENDS DriverInvariant

Quiet ==
    [simulated |-> FALSE, use_text |-> FALSE, use_images |-> FALSE, use_multimodal |-> FALSE,
     technique |-> "client_kmeans", add_mode |-> "normal",
     photos |-> <<>>, main |-> <<>>, found |-> 1, files |-> 1, queries |-> 1]

OnlyText == [Quiet EXCEPT !.use_text = TRUE]
OnlyImages(t, p) == [Quiet EXCEPT !.use_images = TRUE, !.technique = t, !.photos = p]
MultimodalSetting(t, q) ==
    [Quiet EXCEPT !.use_multimodal = TRUE, !.technique = t, !.photos = <<1>>, !.queries = q]

TrainingSettings ==
    {OnlyImages("iee_kmeans", p) :
        p \in {<<2>>, <<0, 1>>, <<1, 2>>, <<2, 2>>, <<2, 1, 1>>, <<2, 2, 2>>, <<1, 2, 2, 1>>}}

\* No images, with searches for those of search_test, or for none.
EmptySettings ==
    {[OnlyImages("iee_kmeans", <<>>) EXCEPT !.found = 0, !.queries = q] : q \in 0 .. 1}

\* One image, and the codebook from the client.
ClientSettings ==
    {OnlyImages(t, <<1>>) : t \in {"client_kmeans", "lsh"}}
    \cup {MultimodalSetting(t, q) : t \in {"client_kmeans", "lsh"}, q \in 0 .. 1}
    \cup {[OnlyImages("client_kmeans", <<1>>) EXCEPT !.use_text = TRUE]}

\* Of two images, the first is trained with, or none.  use_multimodal does nothing.
Simulated ==
    {[OnlyImages(t, <<2, 1>>) EXCEPT !.simulated = TRUE, !.use_multimodal = TRUE,
                                     !.main = m, !.add_mode = a] :
        t \in {"iee_kmeans", "lsh"}, m \in {<<>>, <<1>>}, a \in {"normal", "load"}}

MCSettings ==
    {<<s, Quiet>> : s \in TrainingSettings \cup EmptySettings \cup ClientSettings}
    \cup {<<s, OnlyText>> : s \in {OnlyImages("iee_kmeans", <<1>>), OnlyImages("lsh", <<1>>)}}
    \cup {<<s, [Quiet EXCEPT !.simulated = TRUE]>> : s \in Simulated}

MCRequestLength(m) ==
    CASE m.op \in {"TRAIN_ADD", "ADD"} -> 3
      [] m.op \in {"SEARCH", "MISEN_QUERY"} -> 4
      [] m.op = "BISEN_BULK" -> 5
      [] OTHER -> 1

\* SET_CODEBOOK_CLIENT_LSH and the text index's DUMP_BENCH set no out_len.
MCAnswerLength(m) ==
    CASE m.op \in {"SEARCH", "MISEN_QUERY"} -> 3
      [] m.op = "BISEN_SEARCH" -> 4
      [] m.op \in {"SET_CODEBOOK_CLIENT_LSH", "BISEN_DUMP"} -> 0
      [] OTHER -> 1
=============================================================================
