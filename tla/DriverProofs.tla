----------------------------- MODULE DriverProofs -----------------------------
(***************************************************************************)
(* What a session relies on and the drivers' scripts alone provide: the    *)
(* codebook is there when it is used, training has its descriptors, and    *)
(* the statistics their searches.  The proof goes by the stages of a       *)
(* script: a request finds the stages before its own executed, and none    *)
(* behind it.                                                              *)
(***************************************************************************)
EXTENDS DriverInvariant, SessionProofs, SequenceLemmas

----------------------------------------------------------------------------
(* The requests of a script *)

RepositoryOps ==
    {"INIT", "TRAIN_ADD", "TRAIN", "SET_CODEBOOK_CLIENT_KMEANS", "SET_CODEBOOK_CLIENT_LSH",
     "ADD", "READ_MAP", "WRITE_MAP", "SEARCH", "MISEN_QUERY", "DUMP_BENCH", "CLEAR"}
IndexOps == {"BISEN_SETUP", "BISEN_BULK", "BISEN_SEARCH", "BISEN_DUMP", "MISEN_QUERY"}
Operations == RepositoryOps \cup IndexOps

Techniques == {"client_kmeans", "iee_kmeans", "lsh"}
Image == [id : Nat \ {0}, count : Nat]

Request ==
    [op : Operations] \cup [op : {"INIT"}, technique : Techniques]
    \cup [op : {"TRAIN_ADD", "ADD"}, image : Image]
    \cup [op : {"BISEN_DUMP"}, aggregate : BOOLEAN]

\* What a client configured with s may send.
Suits(s, m) ==
    /\ m.op \in Operations
    /\ m.op \in RepositoryOps => UsesRepository(s)
    /\ m.op \in IndexOps => UsesIndex(s)
    /\ m.op = "INIT" => m.technique = s.technique
    /\ m.op \in {"TRAIN_ADD", "TRAIN"} => ~Multimodal(s) /\ s.technique = "iee_kmeans"
    /\ m.op = "TRAIN_ADD" =>
          m.image \in Image /\ \E i \in DOMAIN s.photos : m.image.count = s.photos[i]
    /\ m.op = "SET_CODEBOOK_CLIENT_KMEANS" => Multimodal(s) \/ s.technique = "client_kmeans"
    /\ m.op = "SET_CODEBOOK_CLIENT_LSH" => ~Multimodal(s) /\ s.technique = "lsh"
    /\ m.op = "MISEN_QUERY" => Multimodal(s)
    /\ m.op = "BISEN_DUMP" => m.aggregate = Multimodal(s)

Suiting(s) == {m \in Request : Suits(s, m)}

Ops(t) == {t[i].op : i \in DOMAIN t}

\* Of two requests, one behind the other; the dump of a multimodal client, which
\* begins its counts anew, comes once.
InOrder(s, op, later) ==
    \/ Stage(s, op) < Stage(s, later)
    \/ Stage(s, op) = Stage(s, later) /\ Stage(s, op) # 9

\* A part of a script, with the stages from a to b in their order.
Block(s, t, a, b) ==
    /\ a \in Nat /\ b \in Nat /\ a <= b
    /\ t \in Seq(Suiting(s))
    /\ \A i \in 1 .. Len(t) : Stage(s, t[i].op) \in a .. b
    /\ \A i, j \in 1 .. Len(t) : i < j => InOrder(s, t[i].op, t[j].op)

\* The stages of the operations.
LEMMA StageIs ==
  ASSUME NEW s
  PROVE  /\ Stage(s, "BISEN_SEARCH") = 0 /\ Stage(s, "INIT") = 1 /\ Stage(s, "TRAIN_ADD") = 3
         /\ Stage(s, "BISEN_SETUP") = IF Multimodal(s) THEN 2 ELSE 0
         /\ Stage(s, "BISEN_BULK") = IF Multimodal(s) THEN 5 ELSE 0
         /\ Stage(s, "BISEN_DUMP") = IF Multimodal(s) THEN 9 ELSE 0
         /\ Stage(s, "TRAIN") = 4 /\ Stage(s, "SET_CODEBOOK_CLIENT_KMEANS") = 4
         /\ Stage(s, "SET_CODEBOOK_CLIENT_LSH") = 4
         /\ Stage(s, "ADD") = 6 /\ Stage(s, "READ_MAP") = 6 /\ Stage(s, "WRITE_MAP") = 7
         /\ Stage(s, "SEARCH") = 8 /\ Stage(s, "MISEN_QUERY") = 8
         /\ Stage(s, "DUMP_BENCH") = 10 /\ Stage(s, "CLEAR") = 11
BY DEF Stage

\* A part with one operation only.
LEMMA UniformBlock ==
  ASSUME NEW s, NEW t \in Seq(Suiting(s)), NEW op, \A i \in 1 .. Len(t) : t[i].op = op,
         NEW a \in Nat, NEW b \in Nat, Stage(s, op) \in a .. b, Stage(s, op) # 9 \/ Len(t) = 1
  PROVE  Block(s, t, a, b)
<1>1. \A i \in 1 .. Len(t) : Stage(s, t[i].op) \in a .. b
  OBVIOUS
<1>2. \A i, j \in 1 .. Len(t) : i < j => InOrder(s, t[i].op, t[j].op)
  <2>1. CASE Len(t) = 1
    BY <2>1
  <2>2. CASE Stage(s, op) # 9
    BY <2>2 DEF InOrder
  <2> QED
    BY <2>1, <2>2
<1>3. a <= b
  BY DEF Block
<1> QED
  BY <1>1, <1>2, <1>3 DEF Block

LEMMA TimesBlock ==
  ASSUME NEW s, NEW n \in Nat, NEW m \in Suiting(s), NEW a \in Nat, NEW b \in Nat,
         Stage(s, m.op) \in a .. b, Stage(s, m.op) # 9
  PROVE  Block(s, Times(n, m), a, b) /\ Ops(Times(n, m)) = IF n = 0 THEN {} ELSE {m.op}
<1> DEFINE t == Times(n, m)
<1>1. t \in [1 .. n -> Suiting(s)] /\ DOMAIN t = 1 .. n /\ \A i \in 1 .. n : t[i] = m
  BY DEF Times
<1> HIDE DEF t
<1>2. t \in Seq(Suiting(s)) /\ Len(t) = n
  BY <1>1, IsASeq, LenProperties
<1>3. \A i \in 1 .. Len(t) : t[i].op = m.op
  BY <1>1, <1>2
<1>4. Block(s, t, a, b)
  BY <1>2, <1>3, UniformBlock
<1>5. Ops(t) = IF n = 0 THEN {} ELSE {m.op}
  <2>1. n # 0 => 1 \in 1 .. n
    OBVIOUS
  <2>2. n = 0 => 1 .. n = {}
    OBVIOUS
  <2> QED
    BY <1>1, <2>1, <2>2 DEF Ops
<1> QED
  BY <1>4, <1>5 DEF t

LEMMA SingleBlock ==
  ASSUME NEW s, NEW m \in Suiting(s), NEW a \in Nat, NEW b \in Nat, Stage(s, m.op) \in a .. b
  PROVE  Block(s, <<m>>, a, b) /\ Ops(<<m>>) = {m.op}
<1>1. <<m>> \in Seq(Suiting(s)) /\ Len(<<m>>) = 1 /\ \A i \in 1 .. Len(<<m>>) : <<m>>[i].op = m.op
  OBVIOUS
<1>2. Block(s, <<m>>, a, b)
  BY <1>1, UniformBlock
<1>3. DOMAIN <<m>> = {1} /\ <<m>>[1] = m
  OBVIOUS
<1> QED
  BY <1>2, <1>3 DEF Ops

\* Two parts, one behind the other.
LEMMA OpsJoin ==
  ASSUME NEW S, NEW t \in Seq(S), NEW u \in Seq(S)
  PROVE  Ops(t \o u) = Ops(t) \cup Ops(u)
<1> DEFINE v == t \o u
           n == Len(t)
           k == Len(u)
<1>1. /\ n \in Nat /\ k \in Nat /\ Len(v) = n + k /\ v \in Seq(S)
      /\ \A i \in 1 .. n : v[i] = t[i]
      /\ \A i \in 1 .. k : v[n + i] = u[i]
  BY ConcatProperties, LenProperties
<1>2. DOMAIN t = 1 .. n /\ DOMAIN u = 1 .. k /\ DOMAIN v = 1 .. n + k
  BY <1>1, LenProperties
<1> HIDE DEF v, n, k
<1>3. \A i \in 1 .. n + k : i \in 1 .. n \/ \E j \in 1 .. k : i = n + j
  <2>1. ASSUME NEW i \in 1 .. n + k, i \notin 1 .. n
        PROVE  i - n \in 1 .. k /\ i = n + (i - n)
    BY <1>1, <2>1
  <2> QED
    BY <2>1
<1>4. \A i \in 1 .. n : i \in 1 .. n + k
  BY <1>1
<1>5. \A j \in 1 .. k : n + j \in 1 .. n + k
  BY <1>1
<1>6. Ops(v) \subseteq Ops(t) \cup Ops(u)
  <2>1. ASSUME NEW i \in 1 .. n + k
        PROVE  v[i].op \in Ops(t) \cup Ops(u)
    <3>1. CASE i \in 1 .. n
      BY <1>1, <1>2, <3>1 DEF Ops
    <3>2. CASE i \notin 1 .. n
      <4>1. PICK j \in 1 .. k : i = n + j
        BY <1>3, <3>2
      <4>2. v[i] = u[j]
        BY <1>1, <4>1
      <4> QED
        BY <1>2, <4>2 DEF Ops
    <3> QED
      BY <3>1, <3>2
  <2> QED
    BY <1>2, <2>1 DEF Ops
<1>7. Ops(t) \subseteq Ops(v)
  BY <1>1, <1>2, <1>4 DEF Ops
<1>8. Ops(u) \subseteq Ops(v)
  <2>1. ASSUME NEW j \in 1 .. k
        PROVE  u[j].op \in Ops(v)
    <3>1. v[n + j] = u[j] /\ n + j \in DOMAIN v
      BY <1>1, <1>2, <1>5
    <3> QED
      BY <3>1 DEF Ops
  <2> QED
    BY <1>2, <2>1 DEF Ops
<1> QED
  BY <1>6, <1>7, <1>8 DEF v

Adjoin(s, t, u, a, b, p, q) == Block(s, t, a, b) /\ Block(s, u, p, q)
                               /\ (b < p \/ (b = p /\ b # 9))

LEMMA BlockJoin ==
  ASSUME NEW s, NEW t, NEW u, NEW a, NEW b, NEW p, NEW q, Adjoin(s, t, u, a, b, p, q)
  PROVE  Block(s, t \o u, a, q) /\ Ops(t \o u) = Ops(t) \cup Ops(u)
<1>0. Block(s, t, a, b) /\ Block(s, u, p, q) /\ (b < p \/ (b = p /\ b # 9))
  BY DEF Adjoin
<1> DEFINE v == t \o u
           n == Len(t)
           k == Len(u)
           S == Suiting(s)
           At(w, i) == Stage(s, w[i].op)
<1>1. t \in Seq(S) /\ u \in Seq(S) /\ {a, b, p, q} \subseteq Nat /\ a <= b /\ b <= p /\ p <= q
  BY <1>0 DEF Block
<1>2. /\ n \in Nat /\ k \in Nat /\ Len(v) = n + k /\ v \in Seq(S)
      /\ \A i \in 1 .. n : v[i] = t[i]
      /\ \A i \in 1 .. k : v[n + i] = u[i]
  BY <1>1, ConcatProperties, LenProperties
<1>3. ASSUME NEW i \in 1 .. n + k
      PROVE  \/ i \in 1 .. n /\ At(v, i) = At(t, i) /\ At(t, i) \in a .. b
             \/ /\ i \in n + 1 .. n + k /\ i - n \in 1 .. k
                /\ At(v, i) = At(u, i - n) /\ At(u, i - n) \in p .. q
  <2>1. CASE i \in 1 .. n
    <3>1. v[i] = t[i]
      BY <1>2, <2>1
    <3> QED
      BY <1>0, <2>1, <3>1 DEF Block
  <2>2. CASE i \notin 1 .. n
    <3>1. i \in n + 1 .. n + k /\ i - n \in 1 .. k /\ i = n + (i - n)
      BY <1>2, <2>2
    <3>2. v[i] = u[i - n]
      BY <1>2, <3>1
    <3> QED
      BY <1>0, <3>1, <3>2 DEF Block
  <2> QED
    BY <2>1, <2>2
<1>4. \A i \in 1 .. n + k : At(v, i) \in a .. q
  <2>1. a .. b \subseteq a .. q /\ p .. q \subseteq a .. q
    BY <1>1
  <2> HIDE DEF At, v, n, k
  <2> QED
    BY <1>3, <2>1
<1>5. ASSUME NEW i \in 1 .. n + k, NEW j \in 1 .. n + k, i < j
      PROVE  InOrder(s, v[i].op, v[j].op)
  <2>1. CASE j \in 1 .. n
    <3>1. i \in 1 .. n
      BY <1>2, <1>5, <2>1
    <3>2. InOrder(s, t[i].op, t[j].op)
      BY <1>0, <1>5, <2>1, <3>1 DEF Block
    <3>3. v[i] = t[i] /\ v[j] = t[j]
      BY <1>2, <2>1, <3>1
    <3> QED
      BY <3>2, <3>3
  <2>2. CASE i \in 1 .. n /\ j \notin 1 .. n
    <3>1. At(v, i) \in a .. b /\ At(v, j) \in p .. q
      <4> HIDE DEF At, v
      <4> QED
        BY <1>2, <1>3, <2>2
    <3>2. At(v, i) < At(v, j) \/ (At(v, i) = At(v, j) /\ At(v, i) # 9)
      <4> HIDE DEF At, v
      <4> QED
        BY <1>0, <1>1, <3>1
    <3> QED
      BY <3>2 DEF InOrder
  <2>3. CASE i \notin 1 .. n
    <3>1. i - n \in 1 .. k /\ j - n \in 1 .. k /\ i - n < j - n
      BY <1>2, <1>5, <2>3
    <3>2. InOrder(s, u[i - n].op, u[j - n].op)
      BY <1>0, <3>1 DEF Block
    <3>3. At(v, i) = At(u, i - n) /\ At(v, j) = At(u, j - n)
      <4>1. i \notin 1 .. n /\ j \notin 1 .. n
        BY <1>2, <1>5, <2>3
      <4> HIDE DEF At, v
      <4> QED
        BY <1>2, <1>3, <4>1
    <3> HIDE DEF v
    <3> QED
      BY <3>2, <3>3 DEF InOrder
  <2> QED
    BY <2>1, <2>2, <2>3
<1>6. Block(s, v, a, q)
  <2>1. a <= q
    BY <1>1
  <2> HIDE DEF v
  <2> QED
    BY <1>1, <1>2, <1>4, <1>5, <2>1 DEF Block
<1>7. Ops(v) = Ops(t) \cup Ops(u)
  BY <1>1, OpsJoin
<1> QED
  BY <1>6, <1>7

----------------------------------------------------------------------------
(* The scripts *)

TypedSetting(s) ==
    /\ s \in Setting
    /\ \A i \in DOMAIN s.main : s.main[i] \in DOMAIN s.photos

\* A request of no more than its operation.
LEMMA OpSuits ==
  ASSUME NEW s, NEW op \in Operations,
         op \in RepositoryOps => UsesRepository(s), op \in IndexOps => UsesIndex(s),
         op \notin {"INIT", "TRAIN_ADD", "BISEN_DUMP"},
         op = "TRAIN" => ~Multimodal(s) /\ s.technique = "iee_kmeans",
         op = "SET_CODEBOOK_CLIENT_KMEANS" => Multimodal(s) \/ s.technique = "client_kmeans",
         op = "SET_CODEBOOK_CLIENT_LSH" => ~Multimodal(s) /\ s.technique = "lsh",
         op = "MISEN_QUERY" => Multimodal(s)
  PROVE  Op(op) \in Suiting(s) /\ Op(op).op = op
<1>1. Op(op) \in Request /\ Op(op).op = op
  BY DEF Op, Request
<1> QED
  BY <1>1 DEF Suiting, Suits

LEMMA InitBlock ==
  ASSUME NEW s, TypedSetting(s), UsesRepository(s)
  PROVE  Block(s, InitOf(s), 1, 1) /\ Ops(InitOf(s)) = {"INIT"}
<1> DEFINE m == [op |-> "INIT", technique |-> s.technique]
<1>1. s.technique \in Techniques
  BY DEF TypedSetting, Setting, Techniques
<1>2. m \in Request /\ m.op = "INIT" /\ m.technique = s.technique
  BY <1>1 DEF Request
<1> HIDE DEF m
<1>3. m \in Suiting(s)
  BY <1>2 DEF Suiting, Suits, RepositoryOps, IndexOps, Operations
<1>4. Stage(s, m.op) \in 1 .. 1
  BY <1>2, StageIs
<1>5. Block(s, <<m>>, 1, 1) /\ Ops(<<m>>) = {m.op}
  BY <1>3, <1>4, SingleBlock
<1> QED
  BY <1>2, <1>5 DEF InitOf, m

\* The images of an operation, all of them or those that are named by number.
LEMMA ImagesBlock ==
  ASSUME NEW s, TypedSetting(s), UsesRepository(s), NEW op \in {"TRAIN_ADD", "ADD"},
         op = "TRAIN_ADD" => ~Multimodal(s) /\ s.technique = "iee_kmeans",
         NEW t, NEW n \in Nat, DOMAIN t = 1 .. n, t = [i \in 1 .. n |-> t[i]],
         \A i \in 1 .. n : \E k \in DOMAIN s.photos : t[i] = Photos(op, s.photos)[k]
  PROVE  /\ Block(s, t, Stage(s, op), Stage(s, op)) /\ Ops(t) \subseteq {op}
<1>1. s.photos \in Seq(Nat)
  BY DEF TypedSetting, Setting
<1>2. ASSUME NEW k \in DOMAIN s.photos
      PROVE  Photos(op, s.photos)[k] \in Suiting(s) /\ Photos(op, s.photos)[k].op = op
  <2> DEFINE image == [id |-> k, count |-> s.photos[k]]
             m == [op |-> op, image |-> image]
  <2>1. k \in Nat \ {0} /\ s.photos[k] \in Nat
    BY <1>1, LenProperties, ElementOfSeq
  <2>2. image \in Image /\ image.count = s.photos[k]
    BY <2>1 DEF Image
  <2> HIDE DEF image
  <2>3. m \in Request /\ m.op = op /\ m.image = image
    BY <2>2 DEF Request
  <2>4. Photos(op, s.photos)[k] = m
    BY DEF Photos, image
  <2> HIDE DEF m
  <2>5. Suits(s, m)
    BY <2>2, <2>3 DEF Suits, RepositoryOps, IndexOps, Operations
  <2> QED
    BY <2>3, <2>4, <2>5 DEF Suiting
<1>3. \A i \in 1 .. n : t[i] \in Suiting(s) /\ t[i].op = op
  BY <1>2
<1>4. t \in Seq(Suiting(s)) /\ Len(t) = n
  <2>1. t \in [1 .. n -> Suiting(s)]
    BY <1>3
  <2> QED
    BY <2>1, IsASeq, LenProperties
<1>5. /\ Stage(s, op) \in Nat /\ Stage(s, op) \in Stage(s, op) .. Stage(s, op)
      /\ Stage(s, op) # 9
  BY StageIs
<1>6. Block(s, t, Stage(s, op), Stage(s, op))
  BY <1>3, <1>4, <1>5, UniformBlock
<1>7. Ops(t) \subseteq {op}
  BY <1>3 DEF Ops
<1> QED
  BY <1>6, <1>7

LEMMA AddsBlock ==
  ASSUME NEW s, TypedSetting(s), UsesRepository(s)
  PROVE  Block(s, Adds(s), 6, 6) /\ Ops(Adds(s)) \subseteq {"ADD"}
<1> DEFINE t == Photos("ADD", s.photos)
           n == Len(s.photos)
<1>1. n \in Nat /\ DOMAIN s.photos = 1 .. n
  BY LenProperties DEF TypedSetting, Setting
<1>2. DOMAIN t = 1 .. n /\ t = [i \in 1 .. n |-> t[i]]
  BY <1>1 DEF Photos
<1> HIDE DEF n
<1>3. \A i \in 1 .. n : \E k \in DOMAIN s.photos : t[i] = Photos("ADD", s.photos)[k]
  BY <1>1
<1> HIDE DEF t
<1>4. Block(s, t, Stage(s, "ADD"), Stage(s, "ADD")) /\ Ops(t) \subseteq {"ADD"}
  BY <1>1, <1>2, <1>3, ImagesBlock
<1> QED
  BY <1>4, StageIs DEF Adds, t

LEMMA TrainAddsBlock ==
  ASSUME NEW s, TypedSetting(s), UsesRepository(s), ~Multimodal(s), s.technique = "iee_kmeans"
  PROVE  Block(s, TrainAdds(s), 3, 3) /\ Ops(TrainAdds(s)) \subseteq {"TRAIN_ADD"}
<1> DEFINE photos == Photos("TRAIN_ADD", s.photos)
           t == TrainAdds(s)
           n == IF s.simulated THEN Len(s.main) ELSE Len(s.photos)
<1>1. /\ n \in Nat /\ DOMAIN s.photos = 1 .. Len(s.photos)
      /\ DOMAIN s.main = 1 .. Len(s.main)
  BY LenProperties DEF TypedSetting, Setting
<1>2. DOMAIN t = 1 .. n /\ t = [i \in 1 .. n |-> t[i]]
  <2>1. CASE s.simulated
    <3>1. t = [i \in 1 .. n |-> photos[s.main[i]]]
      BY <1>1, <2>1, Zenon DEF TrainAdds
    <3> HIDE DEF t, n, photos
    <3> QED
      BY <3>1
  <2>2. CASE ~s.simulated
    <3>1. t = [i \in 1 .. n |-> [op |-> "TRAIN_ADD", image |-> [id |-> i, count |-> s.photos[i]]]]
      BY <1>1, <2>2, Zenon DEF TrainAdds, Photos
    <3> HIDE DEF t, n
    <3> QED
      BY <3>1
  <2> QED
    BY <2>1, <2>2
<1>3. \A i \in 1 .. n : \E k \in DOMAIN s.photos : t[i] = photos[k]
  <2>1. CASE s.simulated
    <3>1. \A i \in 1 .. n : t[i] = photos[s.main[i]] /\ s.main[i] \in DOMAIN s.photos
      BY <1>1, <2>1 DEF TrainAdds, TypedSetting
    <3> QED
      BY <3>1
  <2>2. CASE ~s.simulated
    BY <1>1, <2>2 DEF TrainAdds
  <2> QED
    BY <2>1, <2>2
<1> HIDE DEF t, n
<1>4. Block(s, t, Stage(s, "TRAIN_ADD"), Stage(s, "TRAIN_ADD")) /\ Ops(t) \subseteq {"TRAIN_ADD"}
  BY <1>1, <1>2, <1>3, ImagesBlock
<1> QED
  BY <1>4, StageIs DEF t

\* The training, whichever it is, and what it leaves in the script.
LEMMA TrainingBlock ==
  ASSUME NEW s, TypedSetting(s), UsesRepository(s), ~Multimodal(s)
  PROVE  /\ Block(s, TrainingOf(s), 3, 4)
         /\ s.technique = "client_kmeans" => "SET_CODEBOOK_CLIENT_KMEANS" \in Ops(TrainingOf(s))
         /\ s.technique = "iee_kmeans" => "TRAIN" \in Ops(TrainingOf(s))
         /\ s.technique = "lsh" => "SET_CODEBOOK_CLIENT_LSH" \in Ops(TrainingOf(s))
<1>1. s.technique \in Techniques
  BY DEF TypedSetting, Setting, Techniques
<1>2. CASE s.technique = "client_kmeans"
  <2>1. Op("SET_CODEBOOK_CLIENT_KMEANS") \in Suiting(s)
        /\ Op("SET_CODEBOOK_CLIENT_KMEANS").op = "SET_CODEBOOK_CLIENT_KMEANS"
    BY <1>2, OpSuits DEF Operations, RepositoryOps, IndexOps
  <2>2. Block(s, Codebook, 3, 4) /\ Ops(Codebook) = {"SET_CODEBOOK_CLIENT_KMEANS"}
    BY <2>1, StageIs, SingleBlock DEF Codebook
  <2> QED
    BY <1>2, <2>2 DEF TrainingOf
<1>3. CASE s.technique = "iee_kmeans"
  <2>1. Op("TRAIN") \in Suiting(s) /\ Op("TRAIN").op = "TRAIN"
    BY <1>3, OpSuits DEF Operations, RepositoryOps, IndexOps
  <2>2. Block(s, <<Op("TRAIN")>>, 4, 4) /\ Ops(<<Op("TRAIN")>>) = {"TRAIN"}
    BY <2>1, StageIs, SingleBlock
  <2>3. Block(s, TrainAdds(s), 3, 3)
    BY <1>3, TrainAddsBlock
  <2>4. /\ Block(s, TrainAdds(s) \o <<Op("TRAIN")>>, 3, 4)
        /\ Ops(TrainAdds(s) \o <<Op("TRAIN")>>) = Ops(TrainAdds(s)) \cup Ops(<<Op("TRAIN")>>)
    <3>1. Adjoin(s, TrainAdds(s), <<Op("TRAIN")>>, 3, 3, 4, 4)
      BY <2>2, <2>3 DEF Adjoin
    <3> QED
      BY <3>1, BlockJoin
  <2> QED
    BY <1>3, <2>2, <2>4 DEF TrainingOf
<1>4. CASE s.technique = "lsh"
  <2>1. Op("SET_CODEBOOK_CLIENT_LSH") \in Suiting(s)
        /\ Op("SET_CODEBOOK_CLIENT_LSH").op = "SET_CODEBOOK_CLIENT_LSH"
    BY <1>4, OpSuits DEF Operations, RepositoryOps, IndexOps
  <2>2. /\ Block(s, <<Op("SET_CODEBOOK_CLIENT_LSH")>>, 3, 4)
        /\ Ops(<<Op("SET_CODEBOOK_CLIENT_LSH")>>) = {"SET_CODEBOOK_CLIENT_LSH"}
    BY <2>1, StageIs, SingleBlock
  <2> QED
    BY <1>4, <2>2 DEF TrainingOf
<1> QED
  BY <1>1, <1>2, <1>3, <1>4 DEF Techniques

LEMMA SearchesBlock ==
  ASSUME NEW s, TypedSetting(s), UsesRepository(s)
  PROVE  /\ Block(s, Searches(s), 8, 8)
         /\ (s.queries > 0 => s.found > 0) => "SEARCH" \in Ops(Searches(s))
<1>1. s.queries \in Nat /\ s.found \in Nat /\ TestFiles \in Nat \ {0}
  BY SettingsAssumption DEF TypedSetting, Setting
<1>2. Op("SEARCH") \in Suiting(s) /\ Op("SEARCH").op = "SEARCH"
  BY OpSuits DEF Operations, RepositoryOps, IndexOps
<1> DEFINE n == IF s.queries > 0 THEN Smaller(s.found, s.queries) ELSE TestFiles
<1>3. n \in Nat /\ ((s.queries > 0 => s.found > 0) => n # 0)
  BY <1>1 DEF Smaller
<1>4. Searches(s) = Times(n, Op("SEARCH"))
  BY DEF Searches, search_flickr, search_test
<1> HIDE DEF n
<1>5. /\ Block(s, Times(n, Op("SEARCH")), 8, 8)
      /\ Ops(Times(n, Op("SEARCH"))) = IF n = 0 THEN {} ELSE {"SEARCH"}
  BY <1>2, <1>3, StageIs, TimesBlock
<1> QED
  BY <1>3, <1>4, <1>5

LEMMA StatisticsBlock ==
  ASSUME NEW s, TypedSetting(s), UsesRepository(s)
  PROVE  Block(s, Statistics, 10, 11)
<1>1. /\ Op("DUMP_BENCH") \in Suiting(s) /\ Op("DUMP_BENCH").op = "DUMP_BENCH"
      /\ Op("CLEAR") \in Suiting(s) /\ Op("CLEAR").op = "CLEAR"
  BY OpSuits DEF Operations, RepositoryOps, IndexOps
<1>2. Block(s, <<Op("DUMP_BENCH")>>, 10, 10) /\ Block(s, <<Op("CLEAR")>>, 11, 11)
  BY <1>1, StageIs, SingleBlock
<1>3. Block(s, <<Op("DUMP_BENCH")>> \o <<Op("CLEAR")>>, 10, 11)
  <2>1. Adjoin(s, <<Op("DUMP_BENCH")>>, <<Op("CLEAR")>>, 10, 10, 11, 11)
    BY <1>2 DEF Adjoin
  <2> QED
    BY <2>1, BlockJoin
<1>4. Statistics = <<Op("DUMP_BENCH")>> \o <<Op("CLEAR")>>
  BY DEF Statistics
<1> QED
  BY <1>3, <1>4

\* The requests about text alone, of either kind of driver.
LEMMA TextBlocks ==
  ASSUME NEW s, TypedSetting(s), UsesIndex(s)
  PROVE  /\ Block(s, TextSetup, Stage(s, "BISEN_SETUP"), Stage(s, "BISEN_SETUP"))
         /\ Block(s, Updates(s), Stage(s, "BISEN_BULK"), Stage(s, "BISEN_BULK"))
         /\ Block(s, Dump(Multimodal(s)), Stage(s, "BISEN_DUMP"), Stage(s, "BISEN_DUMP"))
         /\ Block(s, Times(s.queries, Op("BISEN_SEARCH")), 0, 0)
<1>1. s.files \in Nat /\ s.queries \in Nat /\ s.simulated \in BOOLEAN /\ s.use_multimodal \in BOOLEAN
  BY DEF TypedSetting, Setting
<1>2. /\ Stage(s, "BISEN_SETUP") \in Stage(s, "BISEN_SETUP") .. Stage(s, "BISEN_SETUP")
      /\ Stage(s, "BISEN_BULK") \in Stage(s, "BISEN_BULK") .. Stage(s, "BISEN_BULK")
      /\ Stage(s, "BISEN_DUMP") \in Stage(s, "BISEN_DUMP") .. Stage(s, "BISEN_DUMP")
      /\ Stage(s, "BISEN_SEARCH") \in 0 .. 0
      /\ {Stage(s, "BISEN_SETUP"), Stage(s, "BISEN_BULK"), Stage(s, "BISEN_DUMP")} \subseteq Nat
      /\ Stage(s, "BISEN_BULK") # 9
  BY StageIs
<1>3. /\ Op("BISEN_SETUP") \in Suiting(s) /\ Op("BISEN_SETUP").op = "BISEN_SETUP"
      /\ Op("BISEN_BULK") \in Suiting(s) /\ Op("BISEN_BULK").op = "BISEN_BULK"
      /\ Op("BISEN_SEARCH") \in Suiting(s) /\ Op("BISEN_SEARCH").op = "BISEN_SEARCH"
  BY OpSuits DEF Operations, RepositoryOps, IndexOps
<1> DEFINE m == [op |-> "BISEN_DUMP", aggregate |-> Multimodal(s)]
<1>4. m \in Suiting(s) /\ m.op = "BISEN_DUMP"
  <2>1. Multimodal(s) \in BOOLEAN
    BY DEF Multimodal
  <2>2. m.op = "BISEN_DUMP" /\ m.aggregate = Multimodal(s)
    BY Zenon
  <2>3. m \in Request
    BY <2>1, Zenon DEF Request
  <2> HIDE DEF m
  <2>4. Suits(s, m)
    BY <2>2 DEF Suits, RepositoryOps, IndexOps, Operations
  <2> QED
    BY <2>2, <2>3, <2>4 DEF Suiting
<1>5. Dump(Multimodal(s)) = <<m>>
  BY Zenon DEF Dump
<1> HIDE DEF m
<1>6. Block(s, <<m>>, Stage(s, "BISEN_DUMP"), Stage(s, "BISEN_DUMP"))
  BY <1>2, <1>4, SingleBlock
<1>7. Block(s, TextSetup, Stage(s, "BISEN_SETUP"), Stage(s, "BISEN_SETUP"))
  BY <1>2, <1>3, SingleBlock DEF TextSetup
<1>8. Block(s, Updates(s), Stage(s, "BISEN_BULK"), Stage(s, "BISEN_BULK"))
  BY <1>1, <1>2, <1>3, TimesBlock DEF Updates
<1>9. Block(s, Times(s.queries, Op("BISEN_SEARCH")), 0, 0)
  BY <1>1, <1>2, <1>3, TimesBlock
<1> QED
  BY <1>5, <1>6, <1>7, <1>8, <1>9

\* What a request of a later stage may rely on.
Complete(s, t) ==
    UsesRepository(s) =>
        /\ "INIT" \in Ops(t)
        /\ Multimodal(s) \/ s.technique = "client_kmeans"
              => "SET_CODEBOOK_CLIENT_KMEANS" \in Ops(t)
        /\ ~Multimodal(s) /\ s.technique = "iee_kmeans" => "TRAIN" \in Ops(t)
        /\ ~Multimodal(s) /\ s.technique = "lsh" => "SET_CODEBOOK_CLIENT_LSH" \in Ops(t)
        /\ Multimodal(s) /\ s.queries > 0 => "MISEN_QUERY" \in Ops(t)
        /\ ~Multimodal(s) /\ (s.queries > 0 => s.found > 0) => "SEARCH" \in Ops(t)

LEMMA WiderBlock ==
  ASSUME NEW s, NEW t, NEW a, NEW b, NEW p \in Nat, NEW q \in Nat, Block(s, t, a, b), p <= a, b <= q
  PROVE  Block(s, t, p, q)
<1>1. a \in Nat /\ b \in Nat /\ a <= b
  BY DEF Block
<1>2. a .. b \subseteq p .. q /\ p <= q
  BY <1>1
<1> QED
  BY <1>2 DEF Block

LEMMA EmptyBlock ==
  ASSUME NEW s, NEW a \in Nat, NEW b \in Nat, a <= b
  PROVE  Block(s, <<>>, a, b)
<1>1. <<>> \in Seq(Suiting(s)) /\ 1 .. Len(<<>>) = {}
  OBVIOUS
<1> QED
  BY <1>1 DEF Block

\* The images' part of the enclave framework's driver.
LEMMA ImageScript ==
  ASSUME NEW s, TypedSetting(s), UsesRepository(s), ~Multimodal(s)
  PROVE  Block(s, ImageRequests(s), 1, 11) /\ Complete(s, ImageRequests(s))
<1> DEFINE t1 == InitOf(s) \o TrainingOf(s)
           t2 == t1 \o Adds(s)
           t3 == t2 \o Searches(s)
           t4 == t3 \o Statistics
<1>1. Block(s, t1, 1, 4) /\ Ops(t1) = Ops(InitOf(s)) \cup Ops(TrainingOf(s))
  <2>1. Adjoin(s, InitOf(s), TrainingOf(s), 1, 1, 3, 4)
    BY InitBlock, TrainingBlock DEF Adjoin
  <2> QED
    BY <2>1, BlockJoin
<1> HIDE DEF t1
<1>2. Block(s, t2, 1, 6) /\ Ops(t2) = Ops(t1) \cup Ops(Adds(s))
  <2>1. Adjoin(s, t1, Adds(s), 1, 4, 6, 6)
    BY <1>1, AddsBlock DEF Adjoin
  <2> QED
    BY <2>1, BlockJoin
<1> HIDE DEF t2
<1>3. Block(s, t3, 1, 8) /\ Ops(t3) = Ops(t2) \cup Ops(Searches(s))
  <2>1. Adjoin(s, t2, Searches(s), 1, 6, 8, 8)
    BY <1>2, SearchesBlock DEF Adjoin
  <2> QED
    BY <2>1, BlockJoin
<1> HIDE DEF t3
<1>4. Block(s, t4, 1, 11) /\ Ops(t4) = Ops(t3) \cup Ops(Statistics)
  <2>1. Adjoin(s, t3, Statistics, 1, 8, 10, 11)
    BY <1>3, StatisticsBlock DEF Adjoin
  <2> QED
    BY <2>1, BlockJoin
<1>5. ImageRequests(s) = t4
  BY Zenon DEF ImageRequests, t1, t2, t3, t4
<1> HIDE DEF t4
<1>6. Complete(s, t4)
  BY <1>1, <1>2, <1>3, <1>4, InitBlock, TrainingBlock, SearchesBlock DEF Complete
<1> QED
  BY <1>4, <1>5, <1>6

LEMMA SimScript ==
  ASSUME NEW s, TypedSetting(s), UsesRepository(s), ~Multimodal(s)
  PROVE  Block(s, SimRequests(s), 1, 11) /\ Complete(s, SimRequests(s))
<1> DEFINE map == IF s.add_mode = "load" THEN <<Op("READ_MAP")>> ELSE Adds(s) \o <<Op("WRITE_MAP")>>
           t1 == InitOf(s) \o TrainingOf(s)
           t2 == t1 \o map
           t3 == t2 \o Searches(s)
           t4 == t3 \o Statistics
<1>1. Block(s, t1, 1, 4) /\ Ops(t1) = Ops(InitOf(s)) \cup Ops(TrainingOf(s))
  <2>1. Adjoin(s, InitOf(s), TrainingOf(s), 1, 1, 3, 4)
    BY InitBlock, TrainingBlock DEF Adjoin
  <2> QED
    BY <2>1, BlockJoin
<1> HIDE DEF t1
<1>2. Block(s, map, 6, 7)
  <2>1. /\ Op("READ_MAP") \in Suiting(s) /\ Op("READ_MAP").op = "READ_MAP"
        /\ Op("WRITE_MAP") \in Suiting(s) /\ Op("WRITE_MAP").op = "WRITE_MAP"
    BY OpSuits DEF Operations, RepositoryOps, IndexOps
  <2>2. Block(s, <<Op("READ_MAP")>>, 6, 7) /\ Block(s, <<Op("WRITE_MAP")>>, 7, 7)
    BY <2>1, StageIs, SingleBlock
  <2>3. Block(s, Adds(s) \o <<Op("WRITE_MAP")>>, 6, 7)
    <3>1. Adjoin(s, Adds(s), <<Op("WRITE_MAP")>>, 6, 6, 7, 7)
      BY <2>2, AddsBlock DEF Adjoin
    <3> QED
      BY <3>1, BlockJoin
  <2> QED
    BY <2>2, <2>3
<1> HIDE DEF map
<1>3. Block(s, t2, 1, 7) /\ Ops(t2) = Ops(t1) \cup Ops(map)
  <2>1. Adjoin(s, t1, map, 1, 4, 6, 7)
    BY <1>1, <1>2 DEF Adjoin
  <2> QED
    BY <2>1, BlockJoin
<1> HIDE DEF t2
<1>4. Block(s, t3, 1, 8) /\ Ops(t3) = Ops(t2) \cup Ops(Searches(s))
  <2>1. Adjoin(s, t2, Searches(s), 1, 7, 8, 8)
    BY <1>3, SearchesBlock DEF Adjoin
  <2> QED
    BY <2>1, BlockJoin
<1> HIDE DEF t3
<1>5. Block(s, t4, 1, 11) /\ Ops(t4) = Ops(t3) \cup Ops(Statistics)
  <2>1. Adjoin(s, t3, Statistics, 1, 8, 10, 11)
    BY <1>4, StatisticsBlock DEF Adjoin
  <2> QED
    BY <2>1, BlockJoin
<1>6. SimRequests(s) = t4
  BY Zenon DEF SimRequests, map, t1, t2, t3, t4
<1> HIDE DEF t4
<1>7. Complete(s, t4)
  BY <1>1, <1>3, <1>4, <1>5, InitBlock, TrainingBlock, SearchesBlock DEF Complete
<1> QED
  BY <1>5, <1>6, <1>7

LEMMA TextScript ==
  ASSUME NEW s, TypedSetting(s), UsesIndex(s), ~Multimodal(s)
  PROVE  Block(s, TextRequests(s), 0, 0)
<1> DEFINE t1 == TextSetup \o Updates(s)
           t2 == t1 \o Times(s.queries, Op("BISEN_SEARCH"))
           dump == Dump(FALSE)
           t3 == t2 \o dump
<1>1. /\ Block(s, TextSetup, 0, 0) /\ Block(s, Updates(s), 0, 0) /\ Block(s, dump, 0, 0)
      /\ Block(s, Times(s.queries, Op("BISEN_SEARCH")), 0, 0)
  <2>1. Multimodal(s) = FALSE
    BY DEF Multimodal
  <2> QED
    BY <2>1, TextBlocks, StageIs
<1> HIDE DEF dump
<1>2. Block(s, t1, 0, 0)
  <2>1. Adjoin(s, TextSetup, Updates(s), 0, 0, 0, 0)
    BY <1>1 DEF Adjoin
  <2> QED
    BY <2>1, BlockJoin
<1> HIDE DEF t1
<1>3. Block(s, t2, 0, 0)
  <2>1. Adjoin(s, t1, Times(s.queries, Op("BISEN_SEARCH")), 0, 0, 0, 0)
    BY <1>1, <1>2 DEF Adjoin
  <2> QED
    BY <2>1, BlockJoin
<1> HIDE DEF t2
<1>4. Block(s, t3, 0, 0)
  <2>1. Adjoin(s, t2, dump, 0, 0, 0, 0)
    BY <1>1, <1>3 DEF Adjoin
  <2> QED
    BY <2>1, BlockJoin
<1>5. TextRequests(s) = t3
  BY Zenon DEF TextRequests, dump, t1, t2, t3
<1> QED
  BY <1>4, <1>5

LEMMA MultimodalScript ==
  ASSUME NEW s, TypedSetting(s), Multimodal(s)
  PROVE  Block(s, RequestsOf(s), 0, 11) /\ Complete(s, RequestsOf(s))
<1> DEFINE queries == Times(s.queries, Op("MISEN_QUERY"))
           t1 == InitOf(s) \o TextSetup
           t2 == t1 \o Codebook
           t3 == t2 \o Updates(s)
           t4 == t3 \o Adds(s)
           t5 == t4 \o queries
           dump == Dump(TRUE)
           t6 == t5 \o dump
           t7 == t6 \o Statistics
<1>1. UsesRepository(s) /\ UsesIndex(s) /\ Multimodal(s) = TRUE /\ ~s.simulated
  BY DEF Multimodal, UsesRepository, UsesIndex, TypedSetting, Setting
<1>2. /\ Block(s, TextSetup, 2, 2) /\ Block(s, Updates(s), 5, 5) /\ Block(s, dump, 9, 9)
  BY <1>1, TextBlocks, StageIs
<1> HIDE DEF dump
<1>3. Block(s, Codebook, 4, 4) /\ Ops(Codebook) = {"SET_CODEBOOK_CLIENT_KMEANS"}
  <2>1. /\ Op("SET_CODEBOOK_CLIENT_KMEANS") \in Suiting(s)
        /\ Op("SET_CODEBOOK_CLIENT_KMEANS").op = "SET_CODEBOOK_CLIENT_KMEANS"
    BY <1>1, OpSuits DEF Operations, RepositoryOps, IndexOps
  <2> QED
    BY <2>1, StageIs, SingleBlock DEF Codebook
<1>4. /\ Block(s, queries, 8, 8)
      /\ s.queries > 0 => "MISEN_QUERY" \in Ops(queries)
  <2>1. Op("MISEN_QUERY") \in Suiting(s) /\ Op("MISEN_QUERY").op = "MISEN_QUERY"
    BY <1>1, OpSuits DEF Operations, RepositoryOps, IndexOps
  <2>2. s.queries \in Nat
    BY DEF TypedSetting, Setting
  <2> QED
    BY <2>1, <2>2, StageIs, TimesBlock
<1> HIDE DEF queries
<1>5. Block(s, t1, 1, 2) /\ Ops(t1) = Ops(InitOf(s)) \cup Ops(TextSetup)
  <2>1. Adjoin(s, InitOf(s), TextSetup, 1, 1, 2, 2)
    BY <1>1, <1>2, InitBlock DEF Adjoin
  <2> QED
    BY <2>1, BlockJoin
<1> HIDE DEF t1
<1>6. Block(s, t2, 1, 4) /\ Ops(t2) = Ops(t1) \cup Ops(Codebook)
  <2>1. Adjoin(s, t1, Codebook, 1, 2, 4, 4)
    BY <1>3, <1>5 DEF Adjoin
  <2> QED
    BY <2>1, BlockJoin
<1> HIDE DEF t2
<1>7. Block(s, t3, 1, 5) /\ Ops(t3) = Ops(t2) \cup Ops(Updates(s))
  <2>1. Adjoin(s, t2, Updates(s), 1, 4, 5, 5)
    BY <1>2, <1>6 DEF Adjoin
  <2> QED
    BY <2>1, BlockJoin
<1> HIDE DEF t3
<1>8. Block(s, t4, 1, 6) /\ Ops(t4) = Ops(t3) \cup Ops(Adds(s))
  <2>1. Adjoin(s, t3, Adds(s), 1, 5, 6, 6)
    BY <1>1, <1>7, AddsBlock DEF Adjoin
  <2> QED
    BY <2>1, BlockJoin
<1> HIDE DEF t4
<1>9. Block(s, t5, 1, 8) /\ Ops(t5) = Ops(t4) \cup Ops(queries)
  <2>1. Adjoin(s, t4, queries, 1, 6, 8, 8)
    BY <1>4, <1>8 DEF Adjoin
  <2> QED
    BY <2>1, BlockJoin
<1> HIDE DEF t5
<1>10. Block(s, t6, 1, 9) /\ Ops(t6) = Ops(t5) \cup Ops(dump)
  <2>1. Adjoin(s, t5, dump, 1, 8, 9, 9)
    BY <1>2, <1>9 DEF Adjoin
  <2> QED
    BY <2>1, BlockJoin
<1> HIDE DEF t6
<1>11. Block(s, t7, 1, 11) /\ Ops(t7) = Ops(t6) \cup Ops(Statistics)
  <2>1. Adjoin(s, t6, Statistics, 1, 9, 10, 11)
    BY <1>1, <1>10, StatisticsBlock DEF Adjoin
  <2> QED
    BY <2>1, BlockJoin
<1>12. RequestsOf(s) = t7
  BY <1>1, Zenon DEF RequestsOf, queries, dump, t1, t2, t3, t4, t5, t6, t7
<1> HIDE DEF t7
<1>13. Complete(s, t7)
  BY <1>1, <1>3, <1>4, <1>5, <1>6, <1>7, <1>8, <1>9, <1>10, <1>11, InitBlock DEF Complete
<1> QED
  BY <1>11, <1>12, <1>13, WiderBlock

\* Every script has its stages in their order, and has what its requests rely on.
LEMMA ScriptIs ==
  ASSUME NEW s, TypedSetting(s)
  PROVE  Block(s, RequestsOf(s), 0, 11) /\ Complete(s, RequestsOf(s))
<1> DEFINE text == IF s.use_text THEN TextRequests(s) ELSE <<>>
           images == IF s.use_images THEN ImageRequests(s) ELSE <<>>
<1>0. {s.simulated, s.use_text, s.use_images, s.use_multimodal} \subseteq BOOLEAN
  BY DEF TypedSetting, Setting
<1>1. CASE s.simulated
  <2>1. ~Multimodal(s) /\ (UsesRepository(s) <=> s.use_images)
    BY <1>0, <1>1 DEF Multimodal, UsesRepository
  <2>2. RequestsOf(s) = IF s.use_images THEN SimRequests(s) ELSE <<>>
    BY <1>1 DEF RequestsOf
  <2>3. CASE s.use_images
    BY <2>1, <2>2, <2>3, SimScript, WiderBlock
  <2>4. CASE ~s.use_images
    BY <2>1, <2>2, <2>4, EmptyBlock DEF Complete
  <2> QED
    BY <2>3, <2>4
<1>2. CASE Multimodal(s)
  BY <1>2, MultimodalScript
<1>3. CASE ~s.simulated /\ ~Multimodal(s)
  <2>1. (UsesRepository(s) <=> s.use_images) /\ (s.use_text => UsesIndex(s))
    BY <1>0, <1>3 DEF UsesRepository, UsesIndex
  <2>2. RequestsOf(s) = text \o images
    BY <1>3, Zenon DEF RequestsOf
  <2>3. Block(s, text, 0, 0)
    <3>1. CASE s.use_text
      BY <1>3, <2>1, <3>1, TextScript
    <3>2. CASE ~s.use_text
      BY <3>2, EmptyBlock
    <3> QED
      BY <3>1, <3>2
  <2>4. Block(s, images, 1, 11) /\ Complete(s, images)
    <3>1. CASE s.use_images
      BY <1>3, <2>1, <3>1, ImageScript
    <3>2. CASE ~s.use_images
      BY <2>1, <3>2, EmptyBlock DEF Complete
    <3> QED
      BY <3>1, <3>2
  <2> HIDE DEF text, images
  <2>5. Block(s, text \o images, 0, 11) /\ Ops(text \o images) = Ops(text) \cup Ops(images)
    <3>1. Adjoin(s, text, images, 0, 0, 1, 11)
      BY <2>3, <2>4 DEF Adjoin
    <3> QED
      BY <3>1, BlockJoin
  <2>6. Complete(s, text \o images)
    BY <2>4, <2>5 DEF Complete
  <2> QED
    BY <2>2, <2>5, <2>6
<1> QED
  BY <1>1, <1>2, <1>3

----------------------------------------------------------------------------
(* The descriptors of a batch *)

AnImage == [id : Nat, count : Nat]
Descriptor == Nat \X (Nat \ {0})

DescriptorsOf(image) == [d \in 1 .. image.count |-> <<image.id, d>>]

LEMMA DescriptorsOfType ==
  ASSUME NEW image \in AnImage
  PROVE  /\ DescriptorsOf(image) \in Seq(Descriptor)
         /\ Len(DescriptorsOf(image)) = image.count
         /\ image.count = 0 => DescriptorsOf(image) = <<>>
<1> DEFINE n == image.count
           t == DescriptorsOf(image)
<1>1. n \in Nat /\ image.id \in Nat
  BY DEF AnImage
<1>2. t = [d \in 1 .. n |-> <<image.id, d>>]
  BY DEF DescriptorsOf
<1>3. \A d \in 1 .. n : <<image.id, d>> \in Descriptor
  BY <1>1 DEF Descriptor
<1> HIDE DEF n, t
<1>4. t \in [1 .. n -> Descriptor]
  BY <1>2, <1>3
<1>5. t \in Seq(Descriptor) /\ Len(t) = n
  BY <1>1, <1>4, IsASeq, LenProperties
<1>6. n = 0 => t = <<>>
  BY <1>5, EmptySeq
<1> QED
  BY <1>5, <1>6 DEF n, t

\* They are in the order of the images, and none is what a centre is before any is set.
LEMMA DescriptorsType ==
  ASSUME NEW images \in Seq(AnImage)
  PROVE  Descriptors(images) \in Seq(Descriptor)
<1> DEFINE parts == [i \in DOMAIN images |-> DescriptorsOf(images[i])]
<1>1. DOMAIN images = 1 .. Len(images) /\ Len(images) \in Nat
  BY LenProperties
<1>2. \A i \in DOMAIN images : DescriptorsOf(images[i]) \in Seq(Descriptor)
  BY <1>1, ElementOfSeq, DescriptorsOfType
<1>3. parts \in Seq(Seq(Descriptor))
  BY <1>1, <1>2, IsASeq
<1>4. Descriptors(images) = FlattenSeq(parts)
  BY DEF Descriptors, DescriptorsOf
<1> QED
  BY <1>3, <1>4, FlattenIsSequence

LEMMA DescriptorsEmpty == Descriptors(<<>>) = <<>>
<1>1. [i \in DOMAIN <<>> |-> [d \in 1 .. <<>>[i].count |-> <<<<>>[i].id, d>>]] = <<>>
  OBVIOUS
<1> QED
  BY <1>1 DEF Descriptors, FlattenSeq

LEMMA DescriptorsAppend ==
  ASSUME NEW images \in Seq(AnImage), NEW image \in AnImage
  PROVE  Descriptors(Append(images, image)) = Descriptors(images) \o DescriptorsOf(image)
<1> DEFINE Parts(t) == [i \in DOMAIN t |-> DescriptorsOf(t[i])]
           more == Append(images, image)
           n == Len(images)
<1>1. DOMAIN images = 1 .. n /\ n \in Nat
  BY LenProperties
<1>2. /\ more \in Seq(AnImage) /\ Len(more) = n + 1 /\ more[n + 1] = image
      /\ \A i \in 1 .. n : more[i] = images[i]
  BY AppendProperties
<1>3. DOMAIN more = 1 .. n + 1
  BY <1>2, LenProperties
<1> HIDE DEF more, n
<1>4. \A i \in DOMAIN images : DescriptorsOf(images[i]) \in Seq(Descriptor)
  BY <1>1, ElementOfSeq, DescriptorsOfType DEF n
<1>5. Parts(images) \in Seq(Seq(Descriptor)) /\ Len(Parts(images)) = n
  BY <1>1, <1>4, IsASeq, LenProperties
<1>6. DescriptorsOf(image) \in Seq(Descriptor)
  BY DescriptorsOfType
<1>7. Parts(more) = Append(Parts(images), DescriptorsOf(image))
  <2> DEFINE p == Parts(images)
             x == DescriptorsOf(image)
             q == Append(p, x)
  <2>1. p \in Seq(Seq(Descriptor)) /\ x \in Seq(Descriptor) /\ Len(p) = n
    BY <1>5, <1>6
  <2>2. \A i \in 1 .. n : p[i] = DescriptorsOf(images[i])
    BY <1>1
  <2> HIDE DEF p, x
  <2>3. /\ q \in Seq(Seq(Descriptor)) /\ Len(q) = n + 1 /\ q[n + 1] = x
        /\ \A i \in 1 .. n : q[i] = p[i]
    BY <2>1, AppendProperties
  <2>4. DOMAIN q = 1 .. n + 1 /\ q = [i \in DOMAIN q |-> q[i]]
    BY <2>3, LenProperties
  <2> HIDE DEF q
  <2>5. \A i \in 1 .. n + 1 : i \in 1 .. n \/ i = n + 1
    BY <1>1
  <2>6. \A i \in 1 .. n + 1 : q[i] = DescriptorsOf(more[i])
    BY <1>2, <2>2, <2>3, <2>5 DEF x
  <2>7. Parts(more) = q
    BY <1>3, <2>4, <2>6
  <2> QED
    BY <2>7 DEF p, x, q
<1>8. /\ Descriptors(more) = FlattenSeq(Parts(more))
      /\ Descriptors(images) = FlattenSeq(Parts(images))
  BY DEF Descriptors, DescriptorsOf
<1> HIDE DEF Parts
<1>9. FlattenSeq(Append(Parts(images), DescriptorsOf(image)))
        = FlattenSeq(Parts(images)) \o DescriptorsOf(image)
  BY <1>5, <1>6, FlattenAppend
<1> QED
  BY <1>7, <1>8, <1>9 DEF more

\* The images of the requests that have been executed, and of one more.
LEMMA TrainingImagesAppend ==
  ASSUME NEW s, NEW requests \in Seq(Suiting(s)), NEW m \in Suiting(s)
  PROVE  /\ TrainingImages(requests) \in Seq(AnImage)
         /\ TrainingImages(Append(requests, m))
              = Append(TrainingImages(requests), IF m.op = "TRAIN_ADD" THEN m.image ELSE NoImage)
<1> DEFINE Of(r) == IF r.op = "TRAIN_ADD" THEN r.image ELSE NoImage
           more == Append(requests, m)
           n == Len(requests)
           t == TrainingImages(requests)
           u == TrainingImages(more)
<1>1. ASSUME NEW r \in Suiting(s)
      PROVE  Of(r) \in AnImage
  BY <1>1 DEF Suiting, Suits, Image, AnImage, NoImage
<1>2. DOMAIN requests = 1 .. n /\ n \in Nat
  BY LenProperties
<1>3. /\ more \in Seq(Suiting(s)) /\ Len(more) = n + 1 /\ more[n + 1] = m
      /\ \A i \in 1 .. n : more[i] = requests[i]
  BY AppendProperties
<1>4. DOMAIN more = 1 .. n + 1
  BY <1>3, LenProperties
<1>5. \A i \in 1 .. n : requests[i] \in Suiting(s)
  BY ElementOfSeq
<1> HIDE DEF more, n
<1>6. t = [i \in 1 .. n |-> Of(requests[i])] /\ u = [i \in 1 .. n + 1 |-> Of(more[i])]
  BY <1>2, <1>4 DEF TrainingImages
<1> HIDE DEF t, u
<1>7. t \in [1 .. n -> AnImage]
  BY <1>1, <1>5, <1>6
<1>8. t \in Seq(AnImage) /\ Len(t) = n
  BY <1>2, <1>7, IsASeq, LenProperties
<1> DEFINE x == Of(m)
           q == Append(t, x)
<1>9. x \in AnImage
  BY <1>1
<1> HIDE DEF x
<1>10. /\ q \in Seq(AnImage) /\ Len(q) = n + 1 /\ q[n + 1] = x
       /\ \A i \in 1 .. n : q[i] = t[i]
  BY <1>8, <1>9, AppendProperties
<1>11. DOMAIN q = 1 .. n + 1 /\ q = [i \in DOMAIN q |-> q[i]]
  BY <1>10, LenProperties
<1> HIDE DEF q
<1>12. \A i \in 1 .. n + 1 : i \in 1 .. n \/ i = n + 1
  BY <1>2
<1>13. \A i \in 1 .. n + 1 : q[i] = u[i]
  BY <1>3, <1>6, <1>10, <1>12 DEF x
<1>14. q = u
  BY <1>6, <1>11, <1>13
<1> QED
  BY <1>8, <1>14 DEF q, x, t, u, more

\* The descriptors given so far, and with one more request.
LEMMA GivenAppend ==
  ASSUME NEW s, NEW requests \in Seq(Suiting(s)), NEW m \in Suiting(s)
  PROVE  LET given == Descriptors(TrainingImages(requests))
             more == Descriptors(TrainingImages(Append(requests, m)))
         IN  /\ given \in Seq(Descriptor)
             /\ m.op # "TRAIN_ADD" => more = given
             /\ m.op = "TRAIN_ADD" => more = given \o DescriptorsOf(m.image)
<1> DEFINE images == TrainingImages(requests)
           given == Descriptors(images)
           more == Descriptors(TrainingImages(Append(requests, m)))
           x == IF m.op = "TRAIN_ADD" THEN m.image ELSE NoImage
<1>1. images \in Seq(AnImage) /\ TrainingImages(Append(requests, m)) = Append(images, x)
  BY TrainingImagesAppend
<1>2. x \in AnImage /\ NoImage \in AnImage /\ NoImage.count = 0
  BY DEF Suiting, Suits, Image, AnImage, NoImage
<1> HIDE DEF images, x
<1>3. given \in Seq(Descriptor)
  BY <1>1, DescriptorsType
<1>4. more = given \o DescriptorsOf(x)
  BY <1>1, <1>2, DescriptorsAppend
<1>5. DescriptorsOf(NoImage) = <<>>
  BY <1>2, DescriptorsOfType
<1>6. given \o <<>> = given
  BY <1>3, ConcatEmptySeq
<1> HIDE DEF given, more
<1>7. /\ m.op # "TRAIN_ADD" => more = given
      /\ m.op = "TRAIN_ADD" => more = given \o DescriptorsOf(m.image)
  BY <1>4, <1>5, <1>6 DEF x
<1> QED
  BY <1>3, <1>7 DEF given, more, images

----------------------------------------------------------------------------
(* The request the enclave serves *)

\* It is the next of its client's script: the stages before it are done, and none
\* behind it is begun.
Turn(c, m) ==
    /\ TypedSetting(settings[c]) /\ m \in Suiting(settings[c])
    /\ executed[c] \in Seq(Suiting(settings[c])) /\ asked[c] = Append(executed[c], m)
    /\ \A op \in Done(c) : InOrder(settings[c], op, m.op)
    /\ \A op \in Ops(Script(c)) : Stage(settings[c], op) < Stage(settings[c], m.op) => op \in Done(c)
    /\ Complete(settings[c], Script(c))

LEMMA SettingsTyped ==
  ASSUME Typed, NEW c \in Clients
  PROVE  TypedSetting(settings[c]) /\ \A k \in DOMAIN settings[c].photos : settings[c].photos[k] \in Nat
<1>1. settings \in Settings
  BY DEF Typed
<1>2. settings[c] \in Setting /\ \A i \in DOMAIN settings[c].main : settings[c].main[i] \in DOMAIN settings[c].photos
  BY <1>1, SettingsAssumption
<1>3. settings[c].photos \in Seq(Nat)
  BY <1>2 DEF Setting
<1>4. \A k \in DOMAIN settings[c].photos : settings[c].photos[k] \in Nat
  BY <1>3, ElementOfSeq, LenProperties
<1> QED
  BY <1>2, <1>4 DEF TypedSetting

LEMMA ServedInTurn ==
  ASSUME Typed, NEW c \in Clients, CallInv(c), FollowsScript(c), server[c] = "process"
  PROVE  Turn(c, Received(c)) /\ client[c] \in {"read_length", "left"}
<1> DEFINE s == settings[c]
           m == Received(c)
           t == Script(c)
           e == executed[c]
           a == asked[c]
           n == Len(a)
           S == Suiting(s)
<1>1. TypedSetting(s)
  BY SettingsTyped
<1>2. Block(s, t, 0, 11) /\ Complete(s, t)
  BY <1>1, ScriptIs DEF Script
<1>3. /\ Requesting(c) /\ m = Current(c) /\ client[c] \in {"read_length", "left"}
  BY RequestIsWhole
<1>4. /\ a \in Seq(AllRequests) /\ e \in Seq(AllRequests) /\ n \in Nat /\ Len(e) \in Nat
      /\ Len(e) + 1 = n
  BY <1>3, Types, LenProperties DEF Requesting
<1>5. DOMAIN a = 1 .. n /\ DOMAIN e = 1 .. n - 1 /\ n \in 1 .. n
  BY <1>4, LenProperties
<1>6. n <= Len(t) /\ (\A k \in 1 .. n : a[k] = t[k]) /\ \A k \in 1 .. n - 1 : e[k] = t[k] /\ e[k] = a[k]
  <2>1. Len(a) <= Len(t) /\ \A k \in DOMAIN a : a[k] = t[k]
    BY DEF FollowsScript
  <2>2. \A k \in DOMAIN e : e[k] = a[k]
    BY DEF CallInv
  <2>3. 1 .. n - 1 \subseteq 1 .. n
    BY <1>4
  <2> HIDE DEF t, e, a
  <2> QED
    BY <1>4, <1>5, <2>1, <2>2, <2>3
<1>7. m = a[n] /\ m = t[n]
  BY <1>3, <1>5, <1>6 DEF Current
<1>8. /\ t \in Seq(S) /\ Len(t) \in Nat /\ DOMAIN t = 1 .. Len(t)
      /\ \A i \in 1 .. Len(t) : Stage(s, t[i].op) \in 0 .. 11
      /\ \A i, j \in 1 .. Len(t) : i < j => InOrder(s, t[i].op, t[j].op)
      /\ \A i \in 1 .. Len(t) : t[i] \in S
  BY <1>2, LenProperties, ElementOfSeq DEF Block
<1> HIDE DEF m, t, e, a, n, S, s
<1>9. m \in S
  BY <1>4, <1>6, <1>7, <1>8
<1>10. e \in Seq(S)
  <2>1. \A k \in 1 .. n - 1 : e[k] \in S
    BY <1>4, <1>6, <1>8
  <2>2. e = [k \in 1 .. n - 1 |-> e[k]]
    BY <1>4, <1>5
  <2> QED
    BY <1>4, <2>1, <2>2, IsASeq
<1>11. a = Append(e, m)
  <2> DEFINE q == Append(e, m)
  <2>1. /\ q \in Seq(S) /\ Len(q) = n /\ q[n] = m
        /\ \A k \in 1 .. n - 1 : q[k] = e[k]
    BY <1>4, <1>9, <1>10, AppendProperties
  <2>2. DOMAIN q = 1 .. n /\ q = [k \in DOMAIN q |-> q[k]]
    BY <2>1, LenProperties
  <2> HIDE DEF q
  <2>3. a = [k \in 1 .. n |-> a[k]]
    BY <1>4, <1>5
  <2>4. \A k \in 1 .. n : k \in 1 .. n - 1 \/ k = n
    BY <1>4
  <2>5. \A k \in 1 .. n : a[k] = q[k]
    BY <1>6, <1>7, <2>1, <2>4
  <2>6. a = q
    BY <2>2, <2>3, <2>5
  <2> QED
    BY <2>6 DEF q
<1>12. Done(c) = {e[k].op : k \in 1 .. n - 1}
  BY <1>5 DEF Done, e
<1>13. \A op \in Done(c) : InOrder(s, op, m.op)
  <2>1. \A k \in 1 .. n - 1 : k \in 1 .. Len(t) /\ n \in 1 .. Len(t) /\ k < n
    BY <1>4, <1>6, <1>8
  <2>2. \A k \in 1 .. n - 1 : InOrder(s, e[k].op, m.op)
    BY <1>6, <1>7, <1>8, <2>1
  <2> QED
    BY <1>12, <2>2
<1>14. ASSUME NEW op \in Ops(t), Stage(s, op) < Stage(s, m.op)
       PROVE  op \in Done(c)
  <2>1. PICK i \in 1 .. Len(t) : op = t[i].op
    BY <1>8 DEF Ops
  <2>2. n \in 1 .. Len(t) /\ i \in Nat
    BY <1>4, <1>6, <1>8
  <2>3. /\ Stage(s, t[i].op) < Stage(s, t[n].op)
        /\ Stage(s, t[i].op) \in Nat /\ Stage(s, t[n].op) \in Nat
    BY <1>7, <1>8, <1>14, <2>1, <2>2
  <2>4. ~(n < i) /\ i # n
    BY <1>8, <2>2, <2>3 DEF InOrder
  <2>5. i \in 1 .. n - 1
    BY <1>4, <2>1, <2>2, <2>4
  <2>6. e[i] = t[i]
    BY <1>6, <2>5
  <2> QED
    BY <1>12, <2>1, <2>5, <2>6
<1>15. Turn(c, m)
  BY <1>1, <1>2, <1>9, <1>10, <1>11, <1>13, <1>14 DEF Turn, s, t, e, a, S
<1> QED
  BY <1>3, <1>15 DEF m

----------------------------------------------------------------------------
(* The trainer *)

\* A descriptor is none of what a centre can be otherwise.
LEMMA DescriptorsAreSet ==
  ASSUME NEW batch \in Seq(Descriptor), NEW i \in 1 .. Len(batch)
  PROVE  batch[i] \in Nat \X Nat /\ batch[i] # Unset
<1>1. batch[i] \in Descriptor
  BY ElementOfSeq
<1> QED
  BY <1>1 DEF Descriptor, Unset

LEMMA PendingDescriptors ==
  ASSUME EnclaveTypeOK
  PROVE  pending \in Seq(AnImage) /\ Descriptors(pending) \in Seq(Descriptor)
         /\ Len(Descriptors(pending)) \in Nat
<1>1. pending \in Seq(AnImage)
  <2>1. pending \in Seq([id : Nat \ {0}, count : Nat])
    BY DEF EnclaveTypeOK
  <2>2. [id : Nat \ {0}, count : Nat] \subseteq AnImage
    BY DEF AnImage
  <2> HIDE DEF AnImage
  <2>3. \A i \in 1 .. Len(pending) : pending[i] \in AnImage
    BY <2>1, <2>2, ElementOfSeq
  <2>4. Len(pending) \in Nat /\ pending = [i \in 1 .. Len(pending) |-> pending[i]]
    BY <2>1, LenProperties
  <2> QED
    BY <2>3, <2>4, IsASeq
<1>2. Descriptors(pending) \in Seq(Descriptor)
  BY <1>1, DescriptorsType
<1> QED
  BY <1>1, <1>2, LenProperties

\* train_kmeans_init, of a batch that is long enough.
LEMMA FirstBatch ==
  ASSUME EnclaveTypeOK, pending # <<>>, ~kmeans.started, ~TooFew, kmeans' \in Clustered
  PROVE  /\ kmeans' \in TrainerType /\ kmeans'.started /\ Trained'
         /\ Len(Descriptors(pending)) >= NrCentres
         /\ \A k \in Centres : kmeans'.centres[k] = Descriptors(pending)[k + 1]
<1> DEFINE batch == Descriptors(pending)
<1>1. batch \in Seq(Descriptor) /\ Len(batch) \in Nat
  BY PendingDescriptors
<1>2. kmeans' = train_kmeans_init(batch)
  BY DEF Clustered
<1>3. Len(batch) >= NrCentres
  BY <1>1, TrainingAssumption DEF TooFew, total_descriptors
<1> HIDE DEF batch
<1>4. \A k \in Centres : k + 1 \in 1 .. Len(batch)
  BY <1>1, <1>3, TrainingAssumption DEF Centres
<1>5. \A k \in Centres : batch[k + 1] \in Nat \X Nat /\ batch[k + 1] # Unset
  BY <1>1, <1>4, DescriptorsAreSet
<1>6. /\ kmeans'.centres = [c \in Centres |-> batch[c + 1]]
      /\ kmeans'.started = TRUE
      /\ kmeans' = [centres |-> [c \in Centres |-> batch[c + 1]],
                    counters |-> [c \in Centres |-> 0], started |-> TRUE]
  BY <1>2 DEF train_kmeans_init
<1>7. [c \in Centres |-> batch[c + 1]] \in [Centres -> Nat \X Nat]
      /\ [c \in Centres |-> 0] \in [Centres -> Nat]
  BY <1>5
<1>8. kmeans' \in TrainerType
  BY <1>6, <1>7 DEF TrainerType
<1>9. Trained'
  BY <1>5, <1>6 DEF Trained
<1>10. \A k \in Centres : kmeans'.centres[k] = batch[k + 1]
  BY <1>6
<1> QED
  BY <1>3, <1>6, <1>8, <1>9, <1>10 DEF batch

\* train_kmeans, which moves one centre.
LEMMA LaterBatch ==
  ASSUME EnclaveTypeOK, kmeans.started, kmeans' \in Clustered
  PROVE  kmeans' \in TrainerType /\ kmeans'.started /\ (Trained => Trained')
<1> DEFINE batch == Descriptors(pending)
<1>1. batch \in Seq(Descriptor) /\ Len(batch) \in Nat
  BY PendingDescriptors
<1>2. CASE pending = <<>>
  <2>1. kmeans' = kmeans
    BY <1>2 DEF Clustered
  <2> QED
    BY <2>1 DEF EnclaveTypeOK, Trained
<1>3. CASE pending # <<>>
  <2>1. PICK closest \in UNION {Compared(n) : n \in 1 .. MaxThreads} :
           kmeans' = train_kmeans(batch, closest)
    BY <1>3 DEF Clustered
  <2>2. closest \in Centres
    <3>1. 0 \in Centres
      BY TrainingAssumption DEF Centres
    <3> QED
      BY <2>1, <3>1 DEF Compared
  <2> HIDE DEF batch
  <2>3. closest \in Nat /\ (closest < Len(batch) => closest + 1 \in 1 .. Len(batch))
    BY <1>1, <2>2 DEF Centres
  <2>4. closest < Len(batch) => batch[closest + 1] \in Nat \X Nat /\ batch[closest + 1] # Unset
    BY <1>1, <2>3, DescriptorsAreSet
  <2>5. Beyond \in Nat \X Nat /\ Beyond # Unset
    BY DEF Beyond, Unset
  <2> DEFINE x == IF kmeans.counters[closest] > 0 \/ batch = <<>> THEN kmeans.centres[closest]
                  ELSE IF closest < Len(batch) THEN batch[closest + 1] ELSE Beyond
             centres == [kmeans.centres EXCEPT ![closest] = x]
             counters == [kmeans.counters EXCEPT ![closest] = @ + Len(batch)]
  <2>6. /\ kmeans.centres \in [Centres -> Nat \X Nat] /\ kmeans.counters \in [Centres -> Nat]
        /\ kmeans = [centres |-> kmeans.centres, counters |-> kmeans.counters,
                     started |-> kmeans.started]
    BY DEF EnclaveTypeOK, TrainerType
  <2>7. kmeans' = [centres |-> centres, counters |-> counters, started |-> kmeans.started]
    BY <2>1, <2>6 DEF train_kmeans
  <2>8. x \in Nat \X Nat /\ (kmeans.centres[closest] # Unset => x # Unset)
    BY <2>2, <2>4, <2>5, <2>6
  <2> HIDE DEF x
  <2>9. centres \in [Centres -> Nat \X Nat]
        /\ \A k \in Centres : centres[k] = IF k = closest THEN x ELSE kmeans.centres[k]
    BY <2>2, <2>6, <2>8
  <2>10. counters \in [Centres -> Nat]
    BY <1>1, <2>2, <2>6
  <2> HIDE DEF centres, counters
  <2>11. kmeans'.centres = centres /\ kmeans'.started
    BY <2>7
  <2>12. kmeans' \in TrainerType
    BY <2>7, <2>9, <2>10 DEF TrainerType
  <2>13. Trained => Trained'
    BY <2>2, <2>8, <2>9, <2>11 DEF Trained
  <2> QED
    BY <2>11, <2>12, <2>13
<1> QED
  BY <1>2, <1>3

----------------------------------------------------------------------------
(* A request that is served *)

OwnInv(c) ==
    /\ UsesRepository(settings[c]) => TrainerInv(c) /\ RepositoryInv(c)
    /\ Multimodal(settings[c]) => IndexInv(c)

Advances(c, m) ==
    /\ Turn(c, m) /\ UNCHANGED settings
    /\ Done(c)' = Done(c) \cup {m.op}
    /\ Given(c) \in Seq(Descriptor)
    /\ m.op # "TRAIN_ADD" => Given(c)' = Given(c)
    /\ m.op = "TRAIN_ADD" => Given(c)' = Given(c) \o DescriptorsOf(m.image)

LEMMA ServedAdvances ==
  ASSUME NEW c, NEW m, Turn(c, m), UNCHANGED settings, executed'[c] = Append(executed[c], m)
  PROVE  Advances(c, m)
<1> DEFINE e == executed[c]
           S == Suiting(settings[c])
<1>1. e \in Seq(S) /\ m \in S
  BY DEF Turn
<1>2. Done(c) = Ops(e) /\ Done(c)' = Ops(Append(e, m))
  BY DEF Done, Ops
<1>3. /\ Given(c) = Descriptors(TrainingImages(e))
      /\ Given(c)' = Descriptors(TrainingImages(Append(e, m)))
  BY DEF Given
<1> HIDE DEF e
<1>4. Ops(Append(e, m)) = Ops(e) \cup {m.op}
  <2>1. /\ Len(e) \in Nat /\ DOMAIN e = 1 .. Len(e)
        /\ Append(e, m) \in Seq(S) /\ Len(Append(e, m)) = Len(e) + 1 /\ Append(e, m)[Len(e) + 1] = m
        /\ \A k \in 1 .. Len(e) : Append(e, m)[k] = e[k]
    BY <1>1, AppendProperties, LenProperties
  <2> DEFINE q == Append(e, m)
             n == Len(e)
  <2>2. DOMAIN q = 1 .. n + 1
    BY <2>1, LenProperties
  <2> HIDE DEF q, n, S
  <2>3. 1 .. n + 1 = 1 .. n \cup {n + 1}
    BY <2>1 DEF n
  <2>4. Ops(q) = {q[k].op : k \in 1 .. n} \cup {q[n + 1].op}
    BY <2>2, <2>3 DEF Ops
  <2>5. {q[k].op : k \in 1 .. n} = {e[k].op : k \in 1 .. n}
    BY <2>1 DEF q, n
  <2> QED
    BY <2>1, <2>4, <2>5 DEF Ops, q, n
<1>5. /\ Given(c) \in Seq(Descriptor)
      /\ m.op # "TRAIN_ADD" => Given(c)' = Given(c)
      /\ m.op = "TRAIN_ADD" => Given(c)' = Given(c) \o DescriptorsOf(m.image)
  BY <1>1, <1>3, GivenAppend
<1> QED
  BY <1>2, <1>4, <1>5 DEF Advances

\* Another client's part, where the request is about what that client does not use.
LEMMA OthersKeep ==
  ASSUME Typed, NEW c \in Clients, NEW d \in Clients, d # c, ScriptInv(d), UNCHANGED settings,
         asked'[d] = asked[d], executed'[d] = executed[d],
         \/ UsesRepository(settings[c])
         \/ UNCHANGED <<kmeans, pending, train_technique, lsh, count_searches>>,
         UsesIndex(settings[c]) \/ UNCHANGED search_results
  PROVE  ScriptInv(d)'
<1>1. /\ ~(UsesRepository(settings[c]) /\ UsesRepository(settings[d]))
      /\ ~(UsesIndex(settings[c]) /\ UsesIndex(settings[d]))
  BY OneRepositoryAssumption DEF Typed
<1>2. Multimodal(settings[d]) => UsesRepository(settings[d]) /\ UsesIndex(settings[d])
  BY DEF Multimodal, UsesRepository, UsesIndex
<1>3. FollowsScript(d)'
  BY DEF ScriptInv, FollowsScript, Script
<1>4. Done(d)' = Done(d) /\ Given(d)' = Given(d)
  BY DEF Done, Given
<1>5. ASSUME UsesRepository(settings[d])
      PROVE  TrainerInv(d)' /\ RepositoryInv(d)'
  <2>1. UNCHANGED <<kmeans, pending, train_technique, lsh, count_searches>>
    BY <1>1, <1>5
  <2>2. TrainerInv(d) /\ RepositoryInv(d)
    BY <1>5 DEF ScriptInv
  <2> QED
    BY <1>4, <2>1, <2>2 DEF TrainerInv, RepositoryInv, Trained
<1>6. ASSUME Multimodal(settings[d])
      PROVE  IndexInv(d)'
  <2>1. UNCHANGED search_results
    BY <1>1, <1>2, <1>6
  <2>2. IndexInv(d)
    BY <1>6 DEF ScriptInv
  <2> QED
    BY <1>4, <2>1, <2>2 DEF IndexInv
<1> QED
  BY <1>3, <1>5, <1>6 DEF ScriptInv

\* What is done when a request's turn comes.
LEMMA DoneBefore ==
  ASSUME NEW c, NEW m, Turn(c, m)
  PROVE  \A op \in Done(c) : Stage(settings[c], op) <= Stage(settings[c], m.op)
         /\ (Stage(settings[c], op) = Stage(settings[c], m.op) => Stage(settings[c], op) # 9)
<1>1. ASSUME NEW op \in Done(c)
      PROVE  Stage(settings[c], op) \in Nat /\ Stage(settings[c], m.op) \in Nat
  <2> DEFINE e == executed[c]
             S == Suiting(settings[c])
  <2>1. e \in Seq(S) /\ m \in S
    BY DEF Turn
  <2>2. PICK k \in DOMAIN e : op = e[k].op
    BY DEF Done
  <2>3. e[k] \in S
    BY <2>1, <2>2, ElementOfSeq, LenProperties
  <2>4. op \in Operations /\ m.op \in Operations
    BY <2>1, <2>2, <2>3 DEF Suiting, Suits
  <2> QED
    BY <2>4, StageIs DEF Operations, RepositoryOps, IndexOps
<1>2. \A op \in Done(c) : InOrder(settings[c], op, m.op)
  BY DEF Turn
<1> QED
  BY <1>1, <1>2 DEF InOrder

\* A request that leaves the trainer alone.
LEMMA TrainerStays ==
  ASSUME NEW c, NEW m, Advances(c, m), TrainerInv(c), UNCHANGED <<kmeans, pending>>,
         m.op \notin {"TRAIN_ADD", "TRAIN", "SET_CODEBOOK_CLIENT_KMEANS"}
  PROVE  TrainerInv(c)'
<1>1. Given(c)' = Given(c) /\ Done(c)' = Done(c) \cup {m.op}
  BY DEF Advances
<1> QED
  BY <1>1 DEF TrainerInv, Trained

\* A request that leaves the rest of the repository alone.
LEMMA RepositoryStays ==
  ASSUME NEW c, NEW m, Advances(c, m), RepositoryInv(c),
         UNCHANGED <<train_technique, lsh, count_searches>>,
         m.op \notin {"INIT", "SET_CODEBOOK_CLIENT_LSH", "SEARCH", "MISEN_QUERY"}
  PROVE  RepositoryInv(c)'
BY DEF Advances, RepositoryInv

LEMMA IndexStays ==
  ASSUME NEW c, NEW m, Advances(c, m), IndexInv(c), UNCHANGED search_results, m.op # "MISEN_QUERY"
  PROVE  IndexInv(c)'
BY DEF Advances, IndexInv

\* The request is served when the invariant holds, and what that may change.
Serving(c) == EnclaveTypeOK /\ OwnInv(c) /\ Advances(c, Received(c)) /\ Up /\ Up'

Contained(c) ==
    /\ \/ UsesRepository(settings[c])
       \/ UNCHANGED <<kmeans, pending, train_technique, lsh, count_searches>>
    /\ UsesIndex(settings[c]) \/ UNCHANGED search_results

KeepsEnclave(c) == EnclaveTypeOK' /\ OwnInv(c)' /\ Contained(c)

\* What every case below begins with.
LEMMA ServingIs ==
  ASSUME NEW c, Serving(c), NEW op, Received(c).op = op
  PROVE  /\ Suits(settings[c], Received(c)) /\ op \in Operations
         /\ op \in RepositoryOps => UsesRepository(settings[c]) /\ TrainerInv(c) /\ RepositoryInv(c)
         /\ op \in IndexOps => UsesIndex(settings[c])
         /\ Multimodal(settings[c]) => IndexInv(c)
         /\ settings' = settings /\ Turn(c, Received(c))
         /\ \A o \in Done(c) : Stage(settings[c], o) <= Stage(settings[c], op)
<1>1. Turn(c, Received(c)) /\ settings' = settings
  BY DEF Serving, Advances
<1>2. Suits(settings[c], Received(c))
  BY <1>1 DEF Turn, Suiting
<1>3. \A o \in Done(c) : Stage(settings[c], o) <= Stage(settings[c], op)
  BY <1>1, DoneBefore
<1> QED
  BY <1>1, <1>2, <1>3 DEF Serving, OwnInv, Suits

LEMMA InitServed ==
  ASSUME NEW c, Serving(c), HandleInit(c)
  PROVE  KeepsEnclave(c)
<1> DEFINE m == Received(c)
           s == settings[c]
<1>1. /\ m.op = "INIT" /\ train_technique' = m.technique /\ kmeans' = NewTrainer /\ pending' = <<>>
      /\ lsh' = "wild" /\ count_searches' \in Leftovers /\ UNCHANGED <<search_results, map_file>>
  BY DEF HandleInit, Handling
<1>2. /\ Suits(s, m) /\ UsesRepository(s) /\ TrainerInv(c) /\ RepositoryInv(c) /\ settings' = settings
      /\ \A o \in Done(c) : Stage(s, o) <= 1
      /\ Turn(c, m)
  BY <1>1, ServingIs, StageIs DEF RepositoryOps
<1>3. /\ "TRAIN" \notin Done(c) /\ "TRAIN_ADD" \notin Done(c) /\ "SEARCH" \notin Done(c)
      /\ "SET_CODEBOOK_CLIENT_KMEANS" \notin Done(c) /\ "SET_CODEBOOK_CLIENT_LSH" \notin Done(c)
      /\ "MISEN_QUERY" \notin Done(c)
  BY <1>2, StageIs
<1>4. Given(c)' = Given(c) /\ Done(c)' = Done(c) \cup {"INIT"}
  BY <1>1 DEF Serving, Advances
<1>5. m.technique = s.technique /\ s.technique \in Techniques
  BY <1>1, <1>2 DEF Suits, Turn, TypedSetting, Setting, Techniques
<1>6. NewTrainer \in TrainerType /\ NewTrainer.started = FALSE
      /\ NewTrainer.centres = [k \in Centres |-> Unset]
  BY DEF NewTrainer, TrainerType, Unset
<1>7. EnclaveTypeOK'
  <2>1. pending' \in Seq([id : Nat \ {0}, count : Nat])
    BY <1>1
  <2>2. count_searches' \in Nat
    BY <1>1, SettingsAssumption
  <2> QED
    BY <1>1, <1>5, <1>6, <2>1, <2>2 DEF EnclaveTypeOK, Serving, Techniques
<1>8. Trained' = FALSE
  <2>1. 0 \in Centres
    BY TrainingAssumption DEF Centres
  <2> QED
    BY <1>1, <1>6, <2>1 DEF Trained
<1>9. Descriptors(pending') = Given(c)'
  <2>1. Given(c) = Descriptors(<<>>)
    BY <1>2, <1>3 DEF TrainerInv
  <2> QED
    BY <1>1, <1>4, <2>1
<1>10. TrainerInv(c)'
  BY <1>1, <1>3, <1>4, <1>6, <1>8, <1>9 DEF TrainerInv
<1>11. RepositoryInv(c)'
  BY <1>1, <1>2, <1>3, <1>4, <1>5 DEF RepositoryInv
<1>12. Multimodal(s) => IndexInv(c)'
  BY <1>1, IndexStays DEF Serving, OwnInv
<1> QED
  BY <1>2, <1>7, <1>10, <1>11, <1>12, <1>1 DEF KeepsEnclave, OwnInv, Contained

\* train_add_image, which may cluster the batch before.
LEMMA TrainAddServed ==
  ASSUME NEW c, Serving(c), HandleTrainAdd(c)
  PROVE  KeepsEnclave(c)
<1> DEFINE m == Received(c)
           s == settings[c]
           image == m.image
           G == Given(c)
           x == DescriptorsOf(image)
<1>1. /\ m.op = "TRAIN_ADD" /\ train_add_image(image)
      /\ UNCHANGED <<train_technique, lsh, count_searches, search_results, map_file>>
  BY DEF HandleTrainAdd, Handling, Fails, Exit, Serving, Up
<1>2. /\ Suits(s, m) /\ UsesRepository(s) /\ TrainerInv(c) /\ RepositoryInv(c) /\ settings' = settings
      /\ \A o \in Done(c) : Stage(s, o) <= 3
      /\ EnclaveTypeOK
  BY <1>1, ServingIs, StageIs DEF RepositoryOps, Serving
<1>3. "TRAIN" \notin Done(c)
  BY <1>2, StageIs
<1>4. /\ G \in Seq(Descriptor) /\ Given(c)' = G \o x /\ Done(c)' = Done(c) \cup {"TRAIN_ADD"}
  BY <1>1 DEF Serving, Advances
<1>5. image \in Image /\ image \in AnImage /\ image.count \in Nat
  BY <1>1, <1>2 DEF Suits, Image, AnImage
<1>6. x \in Seq(Descriptor) /\ Len(x) = image.count
  BY <1>5, DescriptorsOfType
<1>7. Len(Given(c)') = Len(G) + image.count /\ Len(G) \in Nat
  BY <1>4, <1>6, ConcatProperties, LenProperties
<1>8. pending \in Seq(Image) /\ pending \in Seq(AnImage) /\ Descriptors(pending) \in Seq(Descriptor)
      /\ Len(Descriptors(pending)) \in Nat
  BY <1>2, PendingDescriptors DEF EnclaveTypeOK, Image
<1>9. /\ pending' # <<>> /\ pending' \in Seq(Image) /\ kmeans' \in TrainerType
      /\ TrainerInv(c)'
  <2>1. CASE ~is_full_after(image.count)
    <3>1. pending' = Append(pending, image) /\ kmeans' = kmeans
      BY <1>1, <2>1 DEF train_add_image
    <3>2. pending' # <<>> /\ pending' \in Seq(Image)
      BY <1>5, <1>8, <3>1, AppendProperties, EmptySeq
    <3>3. Descriptors(pending') = Descriptors(pending) \o x
      BY <1>5, <1>8, <3>1, DescriptorsAppend
    <3>4. Trained' = Trained
      BY <3>1 DEF Trained
    <3>5. CASE kmeans.started
      <4>1. Len(G) >= MaxDescriptorsMem => Len(Given(c)') >= MaxDescriptorsMem
        BY <1>5, <1>7, TrainingAssumption
      <4> QED
        BY <1>2, <1>3, <1>4, <3>1, <3>2, <3>4, <3>5, <4>1 DEF TrainerInv, EnclaveTypeOK
    <3>6. CASE ~kmeans.started
      <4>1. Descriptors(pending) = G
        BY <1>2, <3>6 DEF TrainerInv
      <4> HIDE DEF G, x
      <4>2. Descriptors(pending') = Given(c)'
        BY <1>4, <3>3, <4>1
      <4> QED
        BY <1>2, <1>3, <1>4, <3>1, <3>2, <3>4, <3>6, <4>2 DEF TrainerInv, EnclaveTypeOK
    <3> QED
      BY <3>5, <3>6
  <2>2. CASE is_full_after(image.count)
    <3>1. pending' = <<image>> /\ kmeans' \in Clustered /\ ~TooFew
      BY <1>1, <2>2 DEF train_add_image
    <3>2. pending' # <<>> /\ pending' \in Seq(Image)
      BY <1>5, <3>1
    <3>3. Len(Descriptors(pending)) + image.count >= MaxDescriptorsMem
      BY <2>2 DEF is_full_after, total_descriptors
    <3>4. CASE kmeans.started
      <4>1. kmeans' \in TrainerType /\ kmeans'.started /\ (Trained => Trained')
        BY <1>2, <3>1, <3>4, LaterBatch
      <4>2. Len(G) >= MaxDescriptorsMem => Len(Given(c)') >= MaxDescriptorsMem
        BY <1>5, <1>7, TrainingAssumption
      <4> QED
        BY <1>2, <1>3, <1>4, <3>2, <3>4, <4>1, <4>2 DEF TrainerInv
    <3>5. CASE ~kmeans.started /\ pending # <<>>
      <4>1. kmeans' \in TrainerType /\ kmeans'.started /\ Trained'
        BY <1>2, <3>1, <3>5, FirstBatch
      <4>2. Descriptors(pending) = G
        BY <1>2, <3>5 DEF TrainerInv
      <4>3. Len(Given(c)') >= MaxDescriptorsMem
        BY <1>7, <3>3, <4>2
      <4> QED
        BY <1>3, <1>4, <3>2, <4>1, <4>3 DEF TrainerInv
    <3>6. CASE ~kmeans.started /\ pending = <<>>
      <4>1. kmeans' = kmeans
        BY <3>1, <3>6 DEF Clustered
      <4>2. G = <<>>
        BY <1>2, <3>6, DescriptorsEmpty DEF TrainerInv
      <4>3. Descriptors(pending') = x
        <5>1. pending' = Append(pending, image)
          BY <3>1, <3>6
        <5>2. Descriptors(pending') = <<>> \o x
          BY <1>5, <1>8, <3>6, <5>1, DescriptorsAppend, DescriptorsEmpty
        <5> HIDE DEF x
        <5> QED
          BY <1>6, <5>2, ConcatEmptySeq
      <4>4. Given(c)' = x
        <5> HIDE DEF x
        <5> QED
          BY <1>4, <1>6, <4>2, ConcatEmptySeq
      <4>5. Trained' = Trained
        BY <4>1 DEF Trained
      <4> HIDE DEF x
      <4> QED
        BY <1>2, <1>3, <1>4, <3>2, <3>6, <4>1, <4>3, <4>4, <4>5 DEF TrainerInv, EnclaveTypeOK
    <3> QED
      BY <3>4, <3>5, <3>6
  <2> QED
    BY <2>1, <2>2
<1>10. EnclaveTypeOK'
  BY <1>1, <1>2, <1>9 DEF EnclaveTypeOK, Image
<1>11. RepositoryInv(c)'
  BY <1>1, <1>2, RepositoryStays DEF Serving
<1>12. Multimodal(s) => IndexInv(c)'
  BY <1>1, IndexStays DEF Serving, OwnInv
<1> QED
  BY <1>1, <1>2, <1>9, <1>10, <1>11, <1>12 DEF KeepsEnclave, OwnInv, Contained

\* TRAIN, which clusters what there is.
LEMMA TrainServed ==
  ASSUME NEW c, Serving(c), HandleTrain(c)
  PROVE  KeepsEnclave(c)
<1> DEFINE m == Received(c)
           s == settings[c]
           G == Given(c)
<1>1. /\ m.op = "TRAIN" /\ ~TooFew /\ kmeans' \in Clustered /\ pending' = <<>>
      /\ UNCHANGED <<train_technique, lsh, count_searches, search_results, map_file>>
  BY DEF HandleTrain, Handling, Fails, Exit, Serving, Up, TrainKmeans
<1>2. /\ Suits(s, m) /\ UsesRepository(s) /\ TrainerInv(c) /\ RepositoryInv(c) /\ settings' = settings
      /\ EnclaveTypeOK
  BY <1>1, ServingIs DEF RepositoryOps, Serving
<1>3. Given(c)' = G /\ Done(c)' = Done(c) \cup {"TRAIN"}
  BY <1>1 DEF Serving, Advances
<1>4. kmeans' \in TrainerType /\ TrainerInv(c)'
  <2>1. CASE pending = <<>>
    <3>1. kmeans' = kmeans
      BY <1>1, <2>1 DEF Clustered
    <3>2. Trained' = Trained
      BY <3>1 DEF Trained
    <3> QED
      BY <1>1, <1>2, <1>3, <2>1, <3>1, <3>2 DEF TrainerInv, EnclaveTypeOK
  <2>2. CASE pending # <<>> /\ kmeans.started
    <3>1. kmeans' \in TrainerType /\ kmeans'.started /\ (Trained => Trained')
      BY <1>1, <1>2, <2>2, LaterBatch
    <3>2. "TRAIN" \notin Done(c)
      BY <1>2, <2>2 DEF TrainerInv
    <3> QED
      BY <1>1, <1>2, <1>3, <2>2, <3>1, <3>2 DEF TrainerInv
  <2>3. CASE pending # <<>> /\ ~kmeans.started
    <3>1. /\ kmeans' \in TrainerType /\ kmeans'.started /\ Trained'
          /\ Len(Descriptors(pending)) >= NrCentres
          /\ \A k \in Centres : kmeans'.centres[k] = Descriptors(pending)[k + 1]
      BY <1>1, <1>2, <2>3, FirstBatch
    <3>2. Descriptors(pending) = G /\ "TRAIN_ADD" \in Done(c)
      BY <1>2, <2>3 DEF TrainerInv
    <3> QED
      BY <1>1, <1>3, <3>1, <3>2 DEF TrainerInv
  <2> QED
    BY <2>1, <2>2, <2>3
<1>5. EnclaveTypeOK'
  BY <1>1, <1>2, <1>4 DEF EnclaveTypeOK
<1>6. RepositoryInv(c)'
  BY <1>1, <1>2, RepositoryStays DEF Serving
<1>7. Multimodal(s) => IndexInv(c)'
  BY <1>1, IndexStays DEF Serving, OwnInv
<1> QED
  BY <1>1, <1>2, <1>4, <1>5, <1>6, <1>7 DEF KeepsEnclave, OwnInv, Contained

\* The centres of the client, or the vectors of the LSH.
LEMMA SetCodebookServed ==
  ASSUME NEW c, Serving(c), HandleSetCodebook(c)
  PROVE  KeepsEnclave(c)
<1> DEFINE m == Received(c)
           s == settings[c]
<1>1. UNCHANGED <<train_technique, count_searches, search_results, map_file>>
  BY DEF HandleSetCodebook
<1>2. CASE Handling(c, "SET_CODEBOOK_CLIENT_KMEANS") /\ SetCentres /\ UNCHANGED lsh
  <2>1. m.op = "SET_CODEBOOK_CLIENT_KMEANS"
    BY <1>2 DEF Handling
  <2>2. /\ UsesRepository(s) /\ TrainerInv(c) /\ RepositoryInv(c) /\ settings' = settings
        /\ EnclaveTypeOK
    BY <2>1, ServingIs DEF RepositoryOps, Serving
  <2>3. Given(c)' = Given(c) /\ Done(c)' = Done(c) \cup {"SET_CODEBOOK_CLIENT_KMEANS"}
    BY <2>1 DEF Serving, Advances
  <2> DEFINE centres == [k \in Centres |-> FromClient]
  <2>4. /\ kmeans \in TrainerType /\ pending' = pending
        /\ kmeans' = [kmeans EXCEPT !.centres = centres]
    BY <1>2, <2>2 DEF SetCentres, EnclaveTypeOK
  <2>5. FromClient \in Nat \X Nat /\ FromClient # Unset
    BY DEF FromClient, Unset
  <2>6. centres \in [Centres -> Nat \X Nat] /\ \A k \in Centres : centres[k] = FromClient
    BY <2>5
  <2> HIDE DEF centres
  <2>7. kmeans' \in TrainerType /\ kmeans'.centres = centres /\ kmeans'.started = kmeans.started
    BY <2>4, <2>6 DEF TrainerType
  <2>8. Trained'
    BY <2>5, <2>6, <2>7 DEF Trained
  <2>9. TrainerInv(c)'
    BY <2>2, <2>3, <2>4, <2>7, <2>8 DEF TrainerInv
  <2>10. EnclaveTypeOK'
    BY <1>1, <1>2, <2>2, <2>4, <2>7 DEF EnclaveTypeOK
  <2>11. RepositoryInv(c)'
    BY <1>1, <1>2, <2>1, <2>2, RepositoryStays DEF Serving
  <2>12. Multimodal(s) => IndexInv(c)'
    BY <1>1, <2>1, IndexStays DEF Serving, OwnInv
  <2> QED
    BY <1>1, <2>2, <2>9, <2>10, <2>11, <2>12 DEF KeepsEnclave, OwnInv, Contained
<1>3. CASE Handling(c, "SET_CODEBOOK_CLIENT_LSH") /\ lsh' = "set" /\ UNCHANGED <<kmeans, pending>>
  <2>1. m.op = "SET_CODEBOOK_CLIENT_LSH"
    BY <1>3 DEF Handling
  <2>2. /\ UsesRepository(s) /\ TrainerInv(c) /\ RepositoryInv(c) /\ settings' = settings
        /\ EnclaveTypeOK
    BY <2>1, ServingIs DEF RepositoryOps, Serving
  <2>3. Done(c)' = Done(c) \cup {"SET_CODEBOOK_CLIENT_LSH"}
    BY <2>1 DEF Serving, Advances
  <2>4. TrainerInv(c)'
    BY <1>3, <2>1, <2>2, TrainerStays DEF Serving
  <2>5. RepositoryInv(c)'
    BY <1>1, <1>3, <2>2, <2>3 DEF RepositoryInv
  <2>6. EnclaveTypeOK'
    BY <1>1, <1>3, <2>2 DEF EnclaveTypeOK
  <2>7. Multimodal(s) => IndexInv(c)'
    BY <1>1, <2>1, IndexStays DEF Serving, OwnInv
  <2> QED
    BY <1>1, <2>2, <2>4, <2>5, <2>6, <2>7 DEF KeepsEnclave, OwnInv, Contained
<1> QED
  BY <1>2, <1>3 DEF HandleSetCodebook

\* A request that nothing but the counts of searches and the file may notice.
LEMMA QuietlyServed ==
  ASSUME NEW c, Serving(c),
         UNCHANGED <<kmeans, pending, train_technique, lsh, count_searches, search_results>>,
         map_file' \in BOOLEAN,
         Received(c).op \in {"ADD", "BISEN_SETUP", "BISEN_BULK", "CLEAR", "READ_MAP", "WRITE_MAP",
                             "DUMP_BENCH"}
  PROVE  KeepsEnclave(c)
<1>1. EnclaveTypeOK'
  BY DEF Serving, EnclaveTypeOK
<1>2. ASSUME UsesRepository(settings[c])
      PROVE  TrainerInv(c)' /\ RepositoryInv(c)'
  <2>1. TrainerInv(c) /\ RepositoryInv(c)
    BY <1>2 DEF Serving, OwnInv
  <2> QED
    BY <2>1, TrainerStays, RepositoryStays DEF Serving
<1>3. Multimodal(settings[c]) => IndexInv(c)'
  BY IndexStays DEF Serving, OwnInv
<1>4. settings' = settings
  BY DEF Serving, Advances
<1> QED
  BY <1>1, <1>2, <1>3, <1>4 DEF KeepsEnclave, OwnInv, Contained

\* The searches, counted where they are made.
LEMMA SearchServed ==
  ASSUME NEW c, Serving(c), HandleSearch(c)
  PROVE  KeepsEnclave(c)
<1> DEFINE m == Received(c)
           s == settings[c]
<1>1. /\ m.op \in {"SEARCH", "BISEN_SEARCH", "MISEN_QUERY"}
      /\ count_searches' = count_searches + (IF m.op = "BISEN_SEARCH" THEN 0 ELSE 1)
      /\ search_results' = search_results + (IF m.op = "SEARCH" THEN 0 ELSE 1)
      /\ UNCHANGED <<kmeans, pending, train_technique, lsh, map_file>>
  BY DEF HandleSearch, Handling
<1>2. settings' = settings /\ EnclaveTypeOK /\ Done(c)' = Done(c) \cup {m.op}
  BY DEF Serving, Advances
<1>3. count_searches \in Nat /\ search_results \in Nat
  BY <1>2 DEF EnclaveTypeOK
<1>4. count_searches' \in Nat /\ search_results' \in Nat
  BY <1>1, <1>3
<1>5. EnclaveTypeOK'
  BY <1>1, <1>2, <1>4 DEF EnclaveTypeOK
<1>6. ASSUME UsesRepository(s)
      PROVE  TrainerInv(c)' /\ RepositoryInv(c)'
  <2>1. TrainerInv(c) /\ RepositoryInv(c)
    BY <1>6 DEF Serving, OwnInv
  <2>2. TrainerInv(c)'
    BY <1>1, <2>1, TrainerStays DEF Serving
  <2>3. m.op # "BISEN_SEARCH" => count_searches' > 0
    BY <1>1, <1>3
  <2>4. m.op = "BISEN_SEARCH" => count_searches' = count_searches
    BY <1>1, <1>3
  <2>5. RepositoryInv(c)'
    BY <1>1, <1>2, <2>1, <2>3, <2>4 DEF RepositoryInv
  <2> QED
    BY <2>2, <2>5
<1>7. ASSUME Multimodal(s)
      PROVE  IndexInv(c)'
  <2>1. IndexInv(c)
    BY <1>7 DEF Serving, OwnInv
  <2>2. CASE m.op = "SEARCH"
    BY <1>1, <1>3, <2>1, <2>2, IndexStays DEF Serving
  <2>3. CASE m.op # "SEARCH"
    <3>1. search_results' > 0
      BY <1>1, <1>3, <2>3
    <3> QED
      BY <3>1 DEF IndexInv
  <2> QED
    BY <2>2, <2>3
<1>8. Contained(c)
  <2>1. m.op = "SEARCH" => UsesRepository(s)
    BY ServingIs DEF RepositoryOps
  <2>2. m.op = "BISEN_SEARCH" => UsesIndex(s)
    BY ServingIs DEF IndexOps
  <2>3. m.op = "MISEN_QUERY" => UsesRepository(s) /\ UsesIndex(s)
    BY ServingIs DEF RepositoryOps, IndexOps
  <2> QED
    BY <1>1, <1>3, <2>1, <2>2, <2>3 DEF Contained
<1> QED
  BY <1>2, <1>5, <1>6, <1>7, <1>8 DEF KeepsEnclave, OwnInv

\* BISEN_DUMP, which begins the counts of text searches anew.
LEMMA TextDumpServed ==
  ASSUME NEW c, Serving(c), HandleTextDump(c)
  PROVE  KeepsEnclave(c)
<1> DEFINE m == Received(c)
           s == settings[c]
<1>1. /\ m.op = "BISEN_DUMP" /\ search_results' = 0
      /\ UNCHANGED <<kmeans, pending, train_technique, lsh, count_searches, map_file>>
  BY DEF HandleTextDump, Handling, Fails, Exit, Serving, Up
<1>2. settings' = settings /\ EnclaveTypeOK /\ Done(c)' = Done(c) \cup {"BISEN_DUMP"}
  BY <1>1 DEF Serving, Advances
<1>3. EnclaveTypeOK'
  BY <1>1, <1>2 DEF EnclaveTypeOK
<1>4. ASSUME UsesRepository(s)
      PROVE  TrainerInv(c)' /\ RepositoryInv(c)'
  <2>1. TrainerInv(c) /\ RepositoryInv(c)
    BY <1>4 DEF Serving, OwnInv
  <2> QED
    BY <1>1, <2>1, TrainerStays, RepositoryStays DEF Serving
<1>5. IndexInv(c)'
  BY <1>2 DEF IndexInv
<1>6. UsesIndex(s)
  BY <1>1, ServingIs DEF IndexOps
<1> QED
  BY <1>1, <1>2, <1>3, <1>4, <1>5, <1>6 DEF KeepsEnclave, OwnInv, Contained

----------------------------------------------------------------------------
(* The steps *)

\* A case of process_message that serves its request.
LEMMA MessageServed ==
  ASSUME IInv, DriverInv, NEW c \in Clients, ProcessMessage(c), Up'
  PROVE  DriverInv'
<1> DEFINE m == Received(c)
<1>1. Typed /\ CallInv(c) /\ EnclaveTypeOK /\ \A d \in Clients : ScriptInv(d)
  BY DEF IInv, DriverInv
<1>2. server[c] = "process" /\ Up /\ Execute(c, m)
  BY ServesOrExits DEF Up, Exit
<1>3. settings' = settings
  BY DEF ProcessMessage, HandleInit, HandleTrainAdd, HandleTrain,
         HandleSetCodebook, HandleAdd, HandleText, HandleClear, HandleMap, HandleSearch,
         HandleDumpBench, HandleTextDump, OnlyIndexes, Served, Fails
<1>4. /\ executed' = [executed EXCEPT ![c] = Append(@, m)] /\ UNCHANGED <<up, asked>>
      /\ executed'[c] = Append(executed[c], m)
      /\ \A d \in Clients \ {c} : executed'[d] = executed[d]
  <2>1. DOMAIN executed = Clients
    BY <1>1, Types
  <2> QED
    BY <1>2, <2>1 DEF Execute
<1>5. FollowsScript(c) /\ OwnInv(c)
  BY <1>1 DEF ScriptInv, OwnInv
<1>6. Turn(c, m)
  BY <1>1, <1>2, <1>5, ServedInTurn
<1>7. Advances(c, m)
  BY <1>3, <1>4, <1>6, ServedAdvances
<1>8. Serving(c)
  BY <1>1, <1>2, <1>5, <1>7 DEF Serving
<1>9. KeepsEnclave(c)
  <2>1. map_file \in BOOLEAN
    BY <1>1 DEF EnclaveTypeOK
  <2>2. CASE HandleAdd(c) \/ HandleText(c) \/ HandleClear(c) \/ HandleMap(c) \/ HandleDumpBench(c)
    <3>1. m.op \in {"ADD", "BISEN_SETUP", "BISEN_BULK", "CLEAR", "READ_MAP", "WRITE_MAP", "DUMP_BENCH"}
      BY <2>2 DEF HandleAdd, HandleText, HandleClear, HandleMap, HandleDumpBench, OnlyIndexes, Handling
    <3>2. /\ UNCHANGED <<kmeans, pending, train_technique, lsh, count_searches, search_results>>
          /\ map_file' \in BOOLEAN
      BY <2>1, <2>2 DEF HandleAdd, HandleText, HandleClear, HandleMap, HandleDumpBench, OnlyIndexes,
                        enclave, Fails
    <3> QED
      BY <1>8, <3>1, <3>2, QuietlyServed
  <2> QED
    BY <1>8, <2>2, InitServed, TrainAddServed, TrainServed, SetCodebookServed, SearchServed,
       TextDumpServed DEF ProcessMessage
<1>10. ASSUME NEW d \in Clients
       PROVE  ScriptInv(d)'
  <2>1. CASE d = c
    <3>1. FollowsScript(c)'
      BY <1>3, <1>4, <1>5 DEF FollowsScript, Script
    <3> QED
      BY <1>9, <2>1, <3>1 DEF KeepsEnclave, OwnInv, ScriptInv
  <2>2. CASE d # c
    BY <1>1, <1>3, <1>4, <1>9, <2>2, OthersKeep DEF KeepsEnclave, Contained
  <2> QED
    BY <2>1, <2>2
<1>11. AssertionInv' /\ DumpsFollowSearches'
  BY <1>2, <1>4 DEF AssertionInv, DumpsFollowSearches, Up
<1> QED
  BY <1>9, <1>10, <1>11 DEF DriverInv, KeepsEnclave

\* The scripts and the enclave, where neither goes on.
LEMMA ScriptsStay ==
  ASSUME EnclaveTypeOK, \A d \in Clients : ScriptInv(d),
         UNCHANGED <<enclave, settings, asked, executed>>
  PROVE  EnclaveTypeOK' /\ \A d \in Clients : ScriptInv(d)'
<1>1. UNCHANGED <<kmeans, pending, train_technique, lsh, count_searches, search_results, map_file>>
  BY DEF enclave
<1>2. EnclaveTypeOK'
  BY <1>1 DEF EnclaveTypeOK
<1>3. ASSUME NEW d \in Clients
      PROVE  ScriptInv(d)'
  <2>1. ScriptInv(d)
    OBVIOUS
  <2>2. Done(d)' = Done(d) /\ Given(d)' = Given(d) /\ (FollowsScript(d) => FollowsScript(d)')
    BY DEF Done, Given, FollowsScript, Script
  <2> QED
    BY <1>1, <2>1, <2>2 DEF ScriptInv, TrainerInv, RepositoryInv, IndexInv, Trained
<1> QED
  BY <1>2, <1>3

\* A case of process_message that has the enclave exit.
LEMMA MessageFails ==
  ASSUME IInv, DriverInv, NEW c \in Clients, ProcessMessage(c), ~Up'
  PROVE  DriverInv'
<1> DEFINE m == Received(c)
           s == settings[c]
<1>1. Typed /\ CallInv(c) /\ EnclaveTypeOK /\ \A d \in Clients : ScriptInv(d)
  BY DEF IInv, DriverInv
<1>2. server[c] = "process" /\ Up
  BY ServesOrExits
<1>3. ~Served(c)
  BY <1>2 DEF Served, Execute, Up
<1>4. \/ HandleTrainAdd(c) /\ Fails("assertion") /\ TooFew /\ is_full_after(m.image.count)
      \/ HandleTrain(c) /\ Fails("assertion") /\ TooFew
      \/ Fails("file")
      \/ HandleDumpBench(c) /\ Fails("division") /\ count_searches = 0
      \/ HandleTextDump(c) /\ Fails("division") /\ m.aggregate /\ search_results = 0
  BY <1>3 DEF ProcessMessage, HandleInit, HandleTrainAdd, HandleTrain,
         HandleSetCodebook, HandleAdd, HandleText, HandleClear, HandleMap, HandleSearch,
         HandleDumpBench, HandleTextDump, OnlyIndexes
<1>5. UNCHANGED <<enclave, settings, asked, executed, server>>
  BY <1>4 DEF Fails, Exit, record, serverEnd
<1>6. EnclaveTypeOK' /\ \A d \in Clients : ScriptInv(d)'
  BY <1>1, <1>5, ScriptsStay
<1>7. /\ FollowsScript(c) /\ Turn(c, m) /\ OwnInv(c)
  BY <1>1, <1>2, ServedInTurn DEF ScriptInv, OwnInv
<1>8. /\ TypedSetting(s) /\ Suits(s, m) /\ m \in Suiting(s)
      /\ executed[c] \in Seq(Suiting(s)) /\ asked[c] = Append(executed[c], m)
      /\ Complete(s, Script(c))
      /\ \A op \in Ops(Script(c)) : Stage(s, op) < Stage(s, m.op) => op \in Done(c)
      /\ \A op \in Done(c) : Stage(s, op) <= Stage(s, m.op)
            /\ (Stage(s, op) = Stage(s, m.op) => Stage(s, op) # 9)
  BY <1>7, DoneBefore DEF Turn, Suiting
<1>9. Descriptors(pending) \in Seq(Descriptor) /\ Len(Descriptors(pending)) \in Nat
  BY <1>1, PendingDescriptors
<1>10. ASSUME HandleTrainAdd(c), up' = "assertion", TooFew, is_full_after(m.image.count), BatchHasRoom
       PROVE  FALSE
  <2>1. m.op = "TRAIN_ADD"
    BY <1>10 DEF HandleTrainAdd, Handling
  <2>2. PICK i \in DOMAIN s.photos : m.image.count = s.photos[i]
    BY <1>8, <2>1 DEF Suits
  <2>3. settings \in Settings /\ s.photos[i] \in Nat
    BY <1>1, SettingsTyped DEF Typed
  <2>4. NrCentres + s.photos[i] <= MaxDescriptorsMem
    BY <1>10, <2>3 DEF BatchHasRoom
  <2>5. /\ Len(Descriptors(pending)) < NrCentres
        /\ Len(Descriptors(pending)) + s.photos[i] >= MaxDescriptorsMem
    BY <1>10, <2>2 DEF TooFew, is_full_after, total_descriptors
  <2> QED
    BY <1>9, <2>3, <2>4, <2>5, TrainingAssumption
<1>11. ASSUME HandleTrain(c), TooFew
       PROVE  s.technique = "iee_kmeans" /\ Len(SentForTraining(c)) < NrCentres
  <2>1. m.op = "TRAIN"
    BY <1>11 DEF HandleTrain, Handling
  <2>2. UsesRepository(s) /\ s.technique = "iee_kmeans"
    BY <1>8, <2>1 DEF Suits, RepositoryOps
  <2>3. Descriptors(pending) = Given(c)
    BY <1>7, <1>11, <2>2 DEF OwnInv, TrainerInv, TooFew
  <2>4. SentForTraining(c) = Given(c)
    BY <1>8, <2>1, GivenAppend DEF SentForTraining, Given
  <2> QED
    BY <1>11, <2>2, <2>3, <2>4 DEF TooFew, total_descriptors
<1>12. AssertionInv'
  <2>1. SUFFICES ASSUME up' = "assertion", BatchHasRoom
                 PROVE  \E d \in Clients :
                           /\ settings'[d].technique = "iee_kmeans"
                           /\ Len(SentForTraining(d)') < NrCentres
                           /\ server'[d] = "process"
    BY DEF AssertionInv
  <2>2. HandleTrain(c) /\ TooFew
    BY <1>4, <1>10, <2>1 DEF Fails, Exit
  <2>3. SentForTraining(c)' = SentForTraining(c)
    BY <1>5 DEF SentForTraining
  <2> QED
    BY <1>2, <1>5, <1>11, <2>2, <2>3
<1>13. ASSUME HandleDumpBench(c), count_searches = 0
       PROVE  IF Multimodal(s) THEN s.queries = 0 ELSE s.use_images /\ s.queries > 0 /\ s.found = 0
  <2>1. m.op = "DUMP_BENCH"
    BY <1>13 DEF HandleDumpBench, Handling
  <2>2. UsesRepository(s) /\ RepositoryInv(c)
    BY <1>7, <1>8, <2>1 DEF Suits, RepositoryOps, OwnInv
  <2>3. "INIT" \in Done(c)
    BY <1>8, <2>1, <2>2, StageIs DEF Complete
  <2>4. "SEARCH" \notin Done(c) /\ "MISEN_QUERY" \notin Done(c)
    BY <1>13, <2>2, <2>3 DEF RepositoryInv
  <2>5. "SEARCH" \notin Ops(Script(c)) /\ "MISEN_QUERY" \notin Ops(Script(c))
    BY <1>8, <2>1, <2>4, StageIs
  <2>6. s.queries \in Nat /\ s.found \in Nat
    BY <1>8 DEF TypedSetting, Setting
  <2>7. ~Multimodal(s) => s.use_images
    BY <2>2 DEF UsesRepository
  <2> QED
    BY <1>8, <2>2, <2>5, <2>6, <2>7 DEF Complete
<1>14. ASSUME HandleTextDump(c), m.aggregate, search_results = 0
       PROVE  Multimodal(s) /\ s.queries = 0
  <2>1. m.op = "BISEN_DUMP"
    BY <1>14 DEF HandleTextDump, Handling
  <2>2. Multimodal(s) /\ UsesRepository(s)
    BY <1>8, <1>14, <2>1 DEF Suits, UsesRepository
  <2>3. IndexInv(c)
    BY <1>7, <2>2 DEF OwnInv
  <2>4. "BISEN_DUMP" \notin Done(c)
    BY <1>8, <2>1, <2>2, StageIs
  <2>5. "MISEN_QUERY" \notin Done(c)
    BY <1>14, <2>3, <2>4 DEF IndexInv
  <2>6. "MISEN_QUERY" \notin Ops(Script(c))
    BY <1>8, <2>1, <2>2, <2>5, StageIs
  <2>7. s.queries \in Nat
    BY <1>8 DEF TypedSetting, Setting
  <2> QED
    BY <1>8, <2>2, <2>6, <2>7 DEF Complete
<1>15. DumpsFollowSearches'
  <2>1. SUFFICES ASSUME up' = "division"
                 PROVE  IF Multimodal(s) THEN s.queries = 0
                        ELSE s.use_images /\ s.queries > 0 /\ s.found = 0
    BY <1>5 DEF DumpsFollowSearches
  <2>2. \/ HandleDumpBench(c) /\ count_searches = 0
        \/ HandleTextDump(c) /\ m.aggregate /\ search_results = 0
    BY <1>4, <2>1 DEF Fails, Exit
  <2> QED
    BY <1>13, <1>14, <2>2
<1> QED
  BY <1>6, <1>12, <1>15 DEF DriverInv

\* A step that neither asks nor executes anything.
LEMMA NothingServed ==
  ASSUME DriverInv, UNCHANGED <<enclave, settings, asked, executed>>,
         up' = up \/ up' = "peer", Up \/ UNCHANGED server
  PROVE  DriverInv'
<1>1. EnclaveTypeOK' /\ \A d \in Clients : ScriptInv(d)'
  BY ScriptsStay DEF DriverInv
<1>2. AssertionInv'
  <2>1. SUFFICES ASSUME up' = "assertion", BatchHasRoom
                 PROVE  AssertionInv'
    BY DEF AssertionInv
  <2>2. up = "assertion" /\ UNCHANGED server
    BY <2>1 DEF Up
  <2>3. \A d \in Clients : SentForTraining(d)' = SentForTraining(d)
    BY DEF SentForTraining
  <2> QED
    BY <2>1, <2>2, <2>3 DEF DriverInv, AssertionInv
<1>3. DumpsFollowSearches'
  BY DEF DriverInv, DumpsFollowSearches
<1> QED
  BY <1>1, <1>2, <1>3 DEF DriverInv

\* The driver's next call is the next of its script.
LEMMA CallFollows ==
  ASSUME IInv, DriverInv, NEW c \in Clients, Drive(c), Len(asked[c]) < Len(Script(c))
  PROVE  DriverInv'
<1> DEFINE m == Script(c)[Len(asked[c]) + 1]
<1>1. Typed /\ CallInv(c) /\ (\A d \in Clients : ScriptInv(d)) /\ EnclaveTypeOK
  BY DEF IInv, DriverInv
<1>2. /\ Call(c, m) /\ UNCHANGED <<enclave, settings>>
  BY DEF Drive
<1>3. m \in AllRequests
  BY <1>1, NextOfScript
<1> HIDE DEF m
<1>4. /\ asked' = [asked EXCEPT ![c] = Append(@, m)] /\ UNCHANGED <<server, up, executed>>
      /\ client[c] = "idle"
  BY <1>2 DEF Call, serverEnd
<1>5. asked \in [Clients -> Seq(AllRequests)]
  BY <1>1 DEF Typed, RecordTypeOK
<1>6. /\ asked'[c] = Append(asked[c], m)
      /\ \A d \in Clients \ {c} : asked'[d] = asked[d]
  BY <1>4, <1>5
<1>7. UNCHANGED <<kmeans, pending, train_technique, lsh, count_searches, search_results, map_file>>
  BY <1>2 DEF enclave
<1>8. FollowsScript(c)'
  <2> DEFINE a == asked[c]
             n == Len(a)
             q == Append(a, m)
             t == Script(c)
  <2>1. /\ n \in Nat /\ DOMAIN a = 1 .. n /\ Len(q) = n + 1 /\ q[n + 1] = m /\ q \in Seq(AllRequests)
        /\ \A k \in 1 .. n : q[k] = a[k]
    BY <1>3, <1>5, AppendProperties, LenProperties
  <2>2. DOMAIN q = 1 .. n + 1
    BY <2>1, LenProperties
  <2>3. n <= Len(t) /\ (\A k \in 1 .. n : a[k] = t[k])
    BY <1>1, <2>1 DEF ScriptInv, FollowsScript
  <2>4. Len(t) \in Nat
    <3>1. TypedSetting(settings[c])
      BY <1>1, SettingsTyped
    <3>2. Block(settings[c], t, 0, 11)
      BY <3>1, ScriptIs DEF Script
    <3> QED
      BY <3>2, LenProperties DEF Block
  <2>5. m = t[n + 1] /\ n < Len(t)
    BY DEF m
  <2>6. asked'[c] = q /\ Script(c)' = t
    BY <1>2, <1>6 DEF Script
  <2> HIDE DEF a, q, n, t
  <2>7. \A k \in 1 .. n + 1 : k \in 1 .. n \/ k = n + 1
    BY <2>1
  <2>8. n + 1 <= Len(t)
    BY <2>1, <2>4, <2>5
  <2>9. \A k \in 1 .. n + 1 : q[k] = t[k]
    BY <2>1, <2>3, <2>5, <2>7
  <2> QED
    BY <2>1, <2>2, <2>6, <2>8, <2>9 DEF FollowsScript
<1>9. ASSUME NEW d \in Clients
      PROVE  ScriptInv(d)'
  <2>1. Done(d)' = Done(d) /\ Given(d)' = Given(d)
    BY <1>4 DEF Done, Given
  <2>2. FollowsScript(d)'
    <3>1. CASE d = c
      BY <1>8, <3>1
    <3>2. CASE d # c
      BY <1>1, <1>2, <1>6, <3>2 DEF ScriptInv, FollowsScript, Script
    <3> QED
      BY <3>1, <3>2
  <2>3. ScriptInv(d)
    BY <1>1
  <2> QED
    BY <1>2, <1>7, <2>1, <2>2, <2>3 DEF ScriptInv, TrainerInv, RepositoryInv, IndexInv, Trained
<1>10. AssertionInv'
  <2>1. SUFFICES ASSUME up' = "assertion", BatchHasRoom
                 PROVE  AssertionInv'
    BY DEF AssertionInv
  <2>2. PICK d \in Clients : /\ settings[d].technique = "iee_kmeans"
                             /\ Len(SentForTraining(d)) < NrCentres /\ server[d] = "process"
    BY <1>4, <2>1 DEF DriverInv, AssertionInv
  <2>3. CallInv(d)
    BY DEF IInv
  <2>4. client[d] \in {"read_length", "left"}
    BY <1>1, <2>2, <2>3, RequestIsWhole
  <2>5. SentForTraining(d)' = SentForTraining(d)
    BY <1>4, <1>6, <2>4 DEF SentForTraining
  <2> QED
    BY <1>2, <1>4, <2>2, <2>5 DEF AssertionInv
<1>11. DumpsFollowSearches'
  BY <1>2, <1>4 DEF DriverInv, DumpsFollowSearches
<1>12. EnclaveTypeOK'
  BY <1>1, <1>7 DEF EnclaveTypeOK
<1> QED
  BY <1>9, <1>10, <1>11, <1>12 DEF DriverInv

----------------------------------------------------------------------------
(* The invariant *)

\* Before anything is asked.
LEMMA DriverInit ==
  ASSUME Init
  PROVE  DriverInv
<1>1. /\ settings \in Settings /\ kmeans = NewTrainer /\ pending = <<>>
      /\ train_technique = "none" /\ lsh = "wild"
      /\ count_searches = 0 /\ search_results = 0 /\ map_file \in BOOLEAN
      /\ up = "up" /\ asked = Empty /\ executed = Empty
  BY DEF Init, ChannelInit
<1>2. NewTrainer \in TrainerType /\ NewTrainer.started = FALSE
      /\ NewTrainer.centres = [k \in Centres |-> Unset]
  BY DEF NewTrainer, TrainerType, Unset
<1>3. pending \in Seq([id : Nat \ {0}, count : Nat])
  BY <1>1
<1>4. EnclaveTypeOK
  BY <1>1, <1>2, <1>3 DEF EnclaveTypeOK
<1>5. ~Trained
  <2>1. 0 \in Centres
    BY TrainingAssumption DEF Centres
  <2> QED
    BY <1>1, <1>2, <2>1 DEF Trained
<1>6. ASSUME NEW c \in Clients
      PROVE  ScriptInv(c)
  <2>1. asked[c] = <<>> /\ executed[c] = <<>>
    BY <1>1 DEF Empty
  <2>2. Typed
    BY InitInvariant DEF IInv
  <2>3. Script(c) \in Seq(Suiting(settings[c]))
    BY <2>2, SettingsTyped, ScriptIs DEF Block, Script
  <2>4. Len(Script(c)) \in Nat
    BY <2>3, LenProperties
  <2>5. FollowsScript(c)
    BY <2>1, <2>4 DEF FollowsScript
  <2>6. Done(c) = {}
    BY <2>1 DEF Done
  <2>7. Given(c) = <<>>
    <3>1. TrainingImages(<<>>) = <<>>
      BY DEF TrainingImages
    <3> QED
      BY <2>1, <3>1, DescriptorsEmpty DEF Given
  <2>8. TrainerInv(c)
    BY <1>1, <1>2, <1>5, <2>6, <2>7, DescriptorsEmpty DEF TrainerInv
  <2> QED
    BY <2>5, <2>6, <2>8 DEF ScriptInv, RepositoryInv, IndexInv
<1>7. AssertionInv /\ DumpsFollowSearches
  BY <1>1 DEF AssertionInv, DumpsFollowSearches
<1> QED
  BY <1>4, <1>6, <1>7 DEF DriverInv

\* The steps of the channels, and the ends of the clients.
LEMMA TransfersServeNothing ==
  ASSUME NEW c, \/ ClientTransfers(c) \/ EnclaveTransfers(c) \/ Leaves(c)
                \/ Drive(c) /\ ~(Len(asked[c]) < Len(Script(c)))
  PROVE  /\ UNCHANGED <<enclave, settings, asked, executed>> /\ (up' = up \/ up' = "peer")
         /\ Up \/ UNCHANGED server
<1>1. UNCHANGED <<enclave, settings>>
  BY DEF ClientTransfers, EnclaveTransfers, Leaves, Drive
<1>2. CASE ClientTransfers(c)
  <2>1. WriteLength(c) \/ WriteBody(c) \/ PlainWriteBody(c) \/ ReadLength(c) \/ ReadBody(c)
        \/ PlainReadBody(c)
    BY <1>2 DEF ClientTransfers, ClientStep, PlainClientStep
  <2>2. UNCHANGED <<asked, executed, up, server>>
    BY <2>1 DEF WriteLength, WriteBody, PlainWriteBody, ReadLength, ReadBody, PlainReadBody,
                record, serverEnd
  <2> QED
    BY <1>1, <2>2
<1>3. CASE EnclaveTransfers(c)
  <2>1. \/ ServerReadLength(c) \/ ServerWriteLength(c) \/ ServerReadBody(c) \/ ServerWriteBody(c)
        \/ EndOfClient(c) \/ PeerIsGone(c)
        \/ PlainServerReadBody(c) \/ PlainServerWriteBody(c) \/ ReadsForEver(c) \/ PlainPeerIsGone(c)
    BY <1>3 DEF EnclaveTransfers, ServerStep, PlainServerStep
  <2>2. Up /\ UNCHANGED <<asked, executed>> /\ (up' = up \/ up' = "peer")
    BY <2>1 DEF ServerReadLength, ServerWriteLength, ServerReadBody, ServerWriteBody,
                EndOfClient, PeerIsGone, PlainServerReadBody, PlainServerWriteBody, ReadsForEver,
                PlainPeerIsGone, Exit, record
  <2> QED
    BY <1>1, <2>2
<1>4. CASE Leaves(c) \/ (Drive(c) /\ ~(Len(asked[c]) < Len(Script(c))))
  <2>1. Leave(c) \/ Close(c)
    BY <1>4 DEF Leaves, Drive
  <2>2. UNCHANGED <<asked, executed, up, server>>
    BY <2>1 DEF Leave, Close, record, serverEnd
  <2> QED
    BY <1>1, <2>2
<1> QED
  BY <1>2, <1>3, <1>4

LEMMA DriverStep ==
  ASSUME IInv, DriverInv, [Next]_sessionVars
  PROVE  DriverInv'
<1>1. CASE Next
  <2>1. PICK c \in Clients : ClientActs(c) \/ EnclaveActs(c) \/ Leaves(c)
    BY <1>1 DEF Next
  <2>2. CASE ProcessMessage(c)
    BY <2>2, MessageServed, MessageFails
  <2>3. CASE Drive(c) /\ Len(asked[c]) < Len(Script(c))
    BY <2>3, CallFollows
  <2>4. CASE \/ ClientTransfers(c) \/ EnclaveTransfers(c) \/ Leaves(c)
             \/ Drive(c) /\ ~(Len(asked[c]) < Len(Script(c)))
    BY <2>4, TransfersServeNothing, NothingServed
  <2> QED
    BY <2>1, <2>2, <2>3, <2>4 DEF ClientActs, EnclaveActs
<1>2. CASE UNCHANGED sessionVars
  <2>1. UNCHANGED <<enclave, settings, asked, executed, up, server>>
    BY <1>2 DEF sessionVars, channel, record, serverEnd
  <2> QED
    BY <2>1, NothingServed
<1> QED
  BY <1>1, <1>2

\* At every point of every session what the enclave holds is what the requests
\* executed so far have made of it, each in its turn of the driver's script.
THEOREM DriverInvariantHolds == Spec => []DriverInv
<1>1. Init => DriverInv
  BY DriverInit
<1>2. IInv /\ DriverInv /\ [Next]_sessionVars => DriverInv'
  BY DriverStep
<1> QED
  BY <1>1, <1>2, SessionInvariantHolds, PTL DEF Spec

\* The types of the connections and of what the enclave keeps for its repository
\* and its text index.
THEOREM SessionTypes == Spec => []TypeOK
<1>1. ASSUME IInv, DriverInv
      PROVE  TypeOK
  <2>1. ChannelTypeOK /\ settings \in Settings
    BY <1>1 DEF IInv, Typed
  <2>2. EnclaveTypeOK
    BY <1>1 DEF DriverInv
  <2>3. DOMAIN kmeans.centres = Centres /\ kmeans.counters \in [Centres -> Nat]
    BY <2>2 DEF EnclaveTypeOK, TrainerType
  <2> QED
    BY <2>1, <2>2, <2>3 DEF TypeOK, EnclaveTypeOK
<1> QED
  BY <1>1, SessionInvariantHolds, DriverInvariantHolds, PTL

\* When an image is added or searched the codebook is there that its histogram is
\* made with, whatever the technique and whichever driver asks.
THEOREM CodebookIsThere == Spec => []CodebookIsSet
<1>1. ASSUME IInv, DriverInv
      PROVE  CodebookIsSet
  <2>1. SUFFICES ASSUME NEW c \in Clients, NEW op \in {"ADD", "SEARCH", "MISEN_QUERY"}, Handling(c, op)
                 PROVE  CASE train_technique = "lsh" -> lsh = "set" <=> ~Multimodal(settings[c])
                          [] train_technique = "iee_kmeans" /\ ~Multimodal(settings[c]) ->
                                Trained <=> \E i \in DOMAIN asked[c] : asked[c][i].op = "TRAIN_ADD"
                          [] OTHER -> Trained
    BY DEF CodebookIsSet
  <2> DEFINE m == Received(c)
             s == settings[c]
  <2>2. /\ Typed /\ CallInv(c) /\ ScriptInv(c) /\ server[c] = "process" /\ m.op = op
    BY <1>1, <2>1 DEF IInv, DriverInv, Handling
  <2>3. Turn(c, m)
    BY <2>2, ServedInTurn DEF ScriptInv
  <2>4. /\ TypedSetting(s) /\ Suits(s, m) /\ Complete(s, Script(c))
        /\ asked[c] = Append(executed[c], m) /\ executed[c] \in Seq(Suiting(s)) /\ m \in Suiting(s)
        /\ \A o \in Ops(Script(c)) : Stage(s, o) < Stage(s, op) => o \in Done(c)
    BY <2>2, <2>3 DEF Turn, Suiting
  <2>5. UsesRepository(s) /\ TrainerInv(c) /\ RepositoryInv(c)
    BY <2>2, <2>4 DEF Suits, RepositoryOps, ScriptInv
  <2>6. /\ "INIT" \in Done(c)
        /\ Multimodal(s) \/ s.technique = "client_kmeans" => "SET_CODEBOOK_CLIENT_KMEANS" \in Done(c)
        /\ ~Multimodal(s) /\ s.technique = "iee_kmeans" => "TRAIN" \in Done(c)
        /\ ~Multimodal(s) /\ s.technique = "lsh" => "SET_CODEBOOK_CLIENT_LSH" \in Done(c)
    <3>1. /\ Stage(s, "INIT") < Stage(s, op) /\ Stage(s, "SET_CODEBOOK_CLIENT_KMEANS") < Stage(s, op)
          /\ Stage(s, "TRAIN") < Stage(s, op) /\ Stage(s, "SET_CODEBOOK_CLIENT_LSH") < Stage(s, op)
      BY StageIs
    <3> QED
      BY <2>4, <2>5, <3>1 DEF Complete
  <2>7. /\ train_technique = s.technique
        /\ lsh = "set" <=> "SET_CODEBOOK_CLIENT_LSH" \in Done(c)
    BY <2>5, <2>6 DEF RepositoryInv
  <2>8. \A o \in Done(c) : \E r \in Suiting(s) : r.op = o
    <3>1. \A k \in DOMAIN executed[c] : executed[c][k] \in Suiting(s)
      BY <2>4, ElementOfSeq, LenProperties
    <3> QED
      BY <3>1 DEF Done
  <2>9. /\ "SET_CODEBOOK_CLIENT_LSH" \in Done(c) => ~Multimodal(s)
        /\ "SET_CODEBOOK_CLIENT_KMEANS" \in Done(c) => Multimodal(s) \/ s.technique = "client_kmeans"
    BY <2>8 DEF Suiting, Suits
  <2>10. (\E i \in DOMAIN asked[c] : asked[c][i].op = "TRAIN_ADD") <=> "TRAIN_ADD" \in Done(c)
    <3> DEFINE e == executed[c]
               n == Len(e)
               q == Append(e, m)
    <3>1. /\ n \in Nat /\ DOMAIN e = 1 .. n /\ q \in Seq(Suiting(s)) /\ Len(q) = n + 1 /\ q[n + 1] = m
          /\ \A k \in 1 .. n : q[k] = e[k]
      BY <2>4, AppendProperties, LenProperties
    <3>2. DOMAIN q = 1 .. n + 1
      BY <3>1, LenProperties
    <3>3. asked[c] = q /\ m.op # "TRAIN_ADD" /\ Done(c) = {e[k].op : k \in DOMAIN e}
      BY <2>2, <2>4 DEF Done
    <3> HIDE DEF e, n, q, m
    <3>4. \A k \in 1 .. n + 1 : k \in 1 .. n \/ k = n + 1
      BY <3>1
    <3>5. 1 .. n \subseteq 1 .. n + 1
      BY <3>1
    <3> QED
      BY <3>1, <3>2, <3>3, <3>4, <3>5
  <2>11. CASE s.technique = "lsh"
    BY <2>6, <2>7, <2>9, <2>11
  <2>12. CASE s.technique = "iee_kmeans" /\ ~Multimodal(s)
    <3>1. "TRAIN" \in Done(c) /\ "SET_CODEBOOK_CLIENT_KMEANS" \notin Done(c)
      BY <2>6, <2>9, <2>12
    <3>2. Trained <=> "TRAIN_ADD" \in Done(c)
      BY <2>5, <3>1 DEF TrainerInv
    <3> QED
      BY <2>7, <2>10, <2>12, <3>2
  <2>13. CASE s.technique # "lsh" /\ ~(s.technique = "iee_kmeans" /\ ~Multimodal(s))
    <3>1. "SET_CODEBOOK_CLIENT_KMEANS" \in Done(c)
      BY <2>4, <2>6, <2>13 DEF TypedSetting, Setting
    <3>2. Trained
      BY <2>5, <3>1 DEF TrainerInv
    <3> QED
      BY <2>7, <2>13, <3>2
  <2> QED
    BY <2>11, <2>12, <2>13
<1> QED
  BY <1>1, SessionInvariantHolds, DriverInvariantHolds, PTL

\* What has been sent for training begins with what has been given to the trainer.
LEMMA GivenIsSent ==
  ASSUME Typed, NEW c \in Clients, CallInv(c), FollowsScript(c)
  PROVE  /\ executed[c] \in Seq(Suiting(settings[c]))
         /\ Len(Given(c)) \in Nat /\ Len(SentForTraining(c)) \in Nat
         /\ Len(Given(c)) <= Len(SentForTraining(c))
         /\ \A k \in 1 .. Len(Given(c)) : SentForTraining(c)[k] = Given(c)[k]
<1> DEFINE e == executed[c]
           a == asked[c]
           n == Len(e)
           S == Suiting(settings[c])
           t == Script(c)
<1>1. /\ e \in Seq(AllRequests) /\ a \in Seq(AllRequests) /\ n \in Nat /\ Len(a) \in Nat
      /\ DOMAIN e = 1 .. n /\ DOMAIN a = 1 .. Len(a)
  BY Types, LenProperties
<1>2. Len(a) = n \/ Len(a) = n + 1
  BY <1>1 DEF CallInv, InPhase, BetweenCalls, Requesting, Answering
<1>3. t \in Seq(S) /\ Len(t) \in Nat /\ \A k \in 1 .. Len(t) : t[k] \in S
  BY SettingsTyped, ScriptIs, LenProperties, ElementOfSeq DEF Block, Script
<1>4. Len(a) <= Len(t) /\ (\A k \in 1 .. Len(a) : a[k] = t[k]) /\ \A k \in 1 .. n : e[k] = a[k]
  BY <1>1 DEF FollowsScript, CallInv
<1> HIDE DEF t, S, n, e, a
<1>5. \A k \in 1 .. Len(a) : a[k] \in S
  BY <1>1, <1>3, <1>4
<1>6. 1 .. n \subseteq 1 .. Len(a)
  <2>1. n \in Nat /\ Len(a) \in Nat
    BY <1>1
  <2>2. n <= Len(a)
    BY <1>2, <2>1
  <2> QED
    BY <2>1, <2>2
<1>7. e \in Seq(S)
  <2>1. \A k \in 1 .. n : e[k] \in S
    BY <1>4, <1>5, <1>6
  <2>2. e = [k \in 1 .. n |-> e[k]]
    BY <1>1
  <2> QED
    BY <1>1, <2>1, <2>2, IsASeq
<1> DEFINE G == Descriptors(TrainingImages(e))
           F == Descriptors(TrainingImages(a))
<1>8. CASE Len(a) = n
  <2>1. a = e
    <3>1. a = [k \in 1 .. n |-> a[k]] /\ e = [k \in 1 .. n |-> e[k]]
      BY <1>1, <1>8
    <3> QED
      BY <1>4, <3>1
  <2>3. G \in Seq(Descriptor)
    <3>1. CASE e = <<>>
      <4>1. TrainingImages(<<>>) = <<>>
        BY DEF TrainingImages
      <4>2. G = <<>>
        BY <3>1, <4>1, DescriptorsEmpty
      <4>3. <<>> \in Seq(Descriptor)
        OBVIOUS
      <4> HIDE DEF G
      <4> QED
        BY <4>2, <4>3
    <3>2. CASE e # <<>>
      <4>1. e[1] \in S
        BY <1>7, <3>2, EmptySeq, ElementOfSeq, LenProperties
      <4> QED
        BY <1>7, <4>1, GivenAppend DEF S
    <3> QED
      BY <3>1, <3>2
  <2> HIDE DEF G
  <2>4. Len(G) \in Nat
    BY <2>3, LenProperties
  <2>5. F = G
    BY <2>1 DEF G
  <2> HIDE DEF F
  <2> QED
    BY <1>7, <2>4, <2>5 DEF F, G, Given, SentForTraining, e, a, S
<1>9. CASE Len(a) = n + 1
  <2> DEFINE m == a[n + 1]
  <2>1. m \in S
    BY <1>1, <1>5, <1>9
  <2>2. a = Append(e, m)
    <3> DEFINE q == Append(e, m)
    <3>1. /\ q \in Seq(S) /\ Len(q) = n + 1 /\ q[n + 1] = m
          /\ \A k \in 1 .. n : q[k] = e[k]
      BY <1>7, <2>1, AppendProperties DEF n
    <3>2. DOMAIN q = 1 .. n + 1 /\ q = [k \in DOMAIN q |-> q[k]]
      BY <3>1, LenProperties
    <3> HIDE DEF q
    <3>3. a = [k \in 1 .. n + 1 |-> a[k]]
      BY <1>1, <1>9
    <3>4. \A k \in 1 .. n + 1 : k \in 1 .. n \/ k = n + 1
      BY <1>1
    <3>5. \A k \in 1 .. n + 1 : a[k] = q[k]
      BY <1>4, <3>1, <3>4
    <3>6. a = q
      BY <3>2, <3>3, <3>5
    <3> QED
      BY <3>6 DEF q
  <2> HIDE DEF m
  <2>3. /\ G \in Seq(Descriptor)
        /\ m.op # "TRAIN_ADD" => F = G
        /\ m.op = "TRAIN_ADD" => F = G \o DescriptorsOf(m.image)
    BY <1>7, <2>1, <2>2, GivenAppend DEF S
  <2> HIDE DEF F, G
  <2>4. Len(G) \in Nat
    BY <2>3, LenProperties
  <2>5. CASE m.op # "TRAIN_ADD"
    BY <1>7, <2>3, <2>4, <2>5 DEF F, G, Given, SentForTraining, e, a, S
  <2>6. CASE m.op = "TRAIN_ADD"
    <3> DEFINE x == DescriptorsOf(m.image)
    <3>1. m.image \in AnImage
      BY <2>1, <2>6 DEF S, Suiting, Suits, Image, AnImage
    <3>2. x \in Seq(Descriptor)
      BY <3>1, DescriptorsOfType
    <3> HIDE DEF x
    <3>3. /\ Len(G \o x) = Len(G) + Len(x) /\ Len(x) \in Nat
          /\ \A k \in 1 .. Len(G) : (G \o x)[k] = G[k]
      BY <2>3, <3>2, ConcatProperties, LenProperties
    <3>4. F = G \o x
      BY <2>3, <2>6 DEF x
    <3>5. Len(F) \in Nat /\ Len(G) <= Len(F) /\ \A k \in 1 .. Len(G) : F[k] = G[k]
      BY <2>4, <3>3, <3>4
    <3> QED
      BY <1>7, <2>4, <3>5 DEF F, G, Given, SentForTraining, e, a, S
  <2> QED
    BY <2>5, <2>6
<1> QED
  BY <1>2, <1>8, <1>9

\* The first descriptors a client sent are the centres, while they all fit in one
\* batch.
THEOREM CodebookIsTheFirst == Spec => []CodebookIsTheFirstDescriptors
<1>1. ASSUME IInv, DriverInv
      PROVE  CodebookIsTheFirstDescriptors
  <2>1. SUFFICES ASSUME NEW c \in Clients, kmeans.started, settings[c].use_images,
                        settings[c].technique = "iee_kmeans",
                        Len(SentForTraining(c)) < MaxDescriptorsMem
                 PROVE  \A k \in Centres : kmeans.centres[k] = SentForTraining(c)[k + 1]
    BY DEF CodebookIsTheFirstDescriptors
  <2> DEFINE s == settings[c]
  <2>2. Typed /\ CallInv(c) /\ FollowsScript(c) /\ TrainerInv(c)
    BY <1>1, <2>1 DEF IInv, DriverInv, ScriptInv, UsesRepository
  <2>3. /\ executed[c] \in Seq(Suiting(s))
        /\ Len(Given(c)) \in Nat /\ Len(SentForTraining(c)) \in Nat
        /\ Len(Given(c)) <= Len(SentForTraining(c))
        /\ \A k \in 1 .. Len(Given(c)) : SentForTraining(c)[k] = Given(c)[k]
    BY <2>2, GivenIsSent
  <2>4. "TRAIN_ADD" \in Done(c) => "SET_CODEBOOK_CLIENT_KMEANS" \notin Done(c)
    <3>1. \A k \in DOMAIN executed[c] : executed[c][k] \in Suiting(s)
      BY <2>3, ElementOfSeq, LenProperties
    <3>2. \A o \in Done(c) : \E r \in Suiting(s) : r.op = o
      BY <3>1 DEF Done
    <3> QED
      BY <2>1, <3>2 DEF Suiting, Suits
  <2>5. Len(Given(c)) < MaxDescriptorsMem
    BY <2>1, <2>3, TrainingAssumption
  <2>6. Len(Given(c)) >= NrCentres /\ \A k \in Centres : kmeans.centres[k] = Given(c)[k + 1]
    BY <2>1, <2>2, <2>3, <2>4, <2>5, TrainingAssumption DEF TrainerInv
  <2>7. \A k \in Centres : k + 1 \in 1 .. Len(Given(c))
    BY <2>3, <2>6, TrainingAssumption DEF Centres
  <2> QED
    BY <2>3, <2>6, <2>7
<1> QED
  BY <1>1, SessionInvariantHolds, DriverInvariantHolds, PTL

\* The assertion of train_kmeans_init fails only for a client that sent fewer
\* descriptors than there are centres, if an image fits in the batch behind fewer
\* than that.
THEOREM EnoughForTraining ==
  ASSUME BatchHasRoom
  PROVE  Spec => []TrainingHasEnough
<1>1. DriverInv => TrainingHasEnough
  BY DEF DriverInv, AssertionInv, TrainingHasEnough
<1> QED
  BY <1>1, DriverInvariantHolds, PTL

\* The statistics are divided by 0 only for what their clients were configured with.
THEOREM DumpsHaveSearches == Spec => []DumpsFollowSearches
<1>1. DriverInv => DumpsFollowSearches
  BY DEF DriverInv
<1> QED
  BY <1>1, DriverInvariantHolds, PTL
=============================================================================
