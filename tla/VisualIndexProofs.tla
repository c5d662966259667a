--------------------------- MODULE VisualIndexProofs ---------------------------
(***************************************************************************)
(* What holds of the image index for any codebook, any sizes of the        *)
(* batches and any number of images and repositories.                      *)
(***************************************************************************)
EXTENDS VisualInvariant, FiniteSetTheorems, SequenceTheorems, WellFoundedInduction, TLAPS

----------------------------------------------------------------------------
(* Constants, sets of centres, sets of labels *)

\* The assumptions on the constants, one by one.
LEMMA ConstantTypes ==
    /\ NrCentres \in Nat /\ NrCentres >= 1
    /\ AddMaxBatch \in Nat /\ AddMaxBatch >= 1
    /\ SearchMaxBatch \in Nat /\ SearchMaxBatch >= 1
    /\ MaxAdds \in Nat /\ MaxConnections \in Nat /\ MaxWaiting \in Nat
    /\ None \notin Values /\ None \notin Connections
BY VisualAssumption

\* A set of naturals has a least element, and a set of centres a greatest.
LEMMA Least ==
    ASSUME NEW S \in SUBSET Nat, S # {}
    PROVE  \E x \in S : \A y \in S : x <= y
<1>1. PICK x \in S : \A y \in S : ~ (<<y, x>> \in OpToRel(<, Nat))
  BY NatLessThanWellFounded, WFMin
<1>2. \A y \in S : ~ (y < x)
  BY <1>1 DEF OpToRel
<1>3. QED
  BY <1>2

LEMMA Greatest ==
    ASSUME NEW S \in SUBSET Centres, S # {}
    PROVE  \E x \in S : \A y \in S : y <= x
<1> USE ConstantTypes DEF Centres
<1> DEFINE T == {NrCentres - 1 - x : x \in S}
<1>1. T \in SUBSET Nat /\ T # {}
  OBVIOUS
<1>2. PICK t \in T : \A y \in T : t <= y
  BY <1>1, Least
<1>3. PICK x \in S : t = NrCentres - 1 - x
  BY <1>2
<1>4. \A y \in S : NrCentres - 1 - y \in T
  OBVIOUS
<1>5. \A y \in S : t <= NrCentres - 1 - y
  BY <1>2, <1>4
<1>6. QED
  BY <1>3, <1>5

\* The next centre is the least of the image's behind c, or the end.
LEMMA NextCentreIs ==
    ASSUME NEW img \in Images, NEW c \in Centres
    PROVE  \/ /\ NextCentre(img, c) \in img
              /\ c < NextCentre(img, c)
              /\ \A d \in img : c < d => NextCentre(img, c) <= d
           \/ /\ NextCentre(img, c) = NrCentres
              /\ \A d \in img : d <= c
<1> USE ConstantTypes
<1> DEFINE later == {d \in img : c < d}
<1>a. img \subseteq Centres
  BY DEF Images
<1>b. Centres \subseteq Nat
  BY DEF Centres
<1>1. later \in SUBSET Nat /\ img \subseteq Centres /\ Centres \subseteq Nat
  BY <1>a, <1>b
<1>2. CASE later = {}
  BY <1>1, <1>2 DEF NextCentre
<1>3. CASE later # {}
  <2>1. PICK d \in later : \A e \in later : d <= e
    BY <1>1, <1>3, Least
  <2>2. NextCentre(img, c) = CHOOSE x \in later : \A e \in later : x <= e
    BY <1>3 DEF NextCentre
  <2>3. NextCentre(img, c) \in later /\ \A e \in later : NextCentre(img, c) <= e
    BY <2>1, <2>2
  <2>4. QED
    BY <2>3
<1>4. QED
  BY <1>2, <1>3

\* An image has as many postings as centres; the code's loop leaves out no centre
\* but, if the image does not have centre 0, its last.
LEMMA PostedIs ==
    ASSUME NEW img \in Images
    PROVE  /\ Posted(img) \subseteq Centres
           /\ IsFiniteSet(img) /\ IsFiniteSet(Posted(img))
           /\ Cardinality(Posted(img)) = Cardinality(img)
           /\ Cardinality(img) \in 0 .. NrCentres
           /\ img = {} <=> Posted(img) = {}
           /\ img # {} => 0 \in Posted(img)
           /\ Posted(img) \subseteq img \cup {0}
           /\ \A c \in img, d \in Posted(img) : c <= d => c \in Posted(img)
<1> USE ConstantTypes
<1>1. img \subseteq Centres /\ Centres \subseteq Nat /\ 0 \in Centres
  BY DEF Images, Centres
<1>2. IsFiniteSet(Centres) /\ Cardinality(Centres) = NrCentres
  BY FS_Interval DEF Centres
<1>3. IsFiniteSet(img) /\ Cardinality(img) \in 0 .. NrCentres
  <2>1. IsFiniteSet(img) /\ Cardinality(img) <= NrCentres
    BY <1>1, <1>2, FS_Subset
  <2>2. Cardinality(img) \in Nat
    BY <2>1, FS_CardinalityType
  <2>3. QED
    BY <2>1, <2>2
<1>4. CASE img = {} \/ 0 \in img
  <2>1. Posted(img) = img
    BY <1>4 DEF Posted
  <2>2. QED
    BY <1>1, <1>3, <1>4, <2>1
<1>5. CASE ~(img = {} \/ 0 \in img)
  <2>1. PICK x \in img : \A y \in img : y <= x
    BY <1>1, <1>5, Greatest
  <2>2. Posted(img) = {0} \cup {c \in img : \E d \in img : c < d}
    BY <1>5 DEF Posted
  <2>3. {c \in img : \E d \in img : c < d} = img \ {x}
    <3>1. \A c \in img : (\E d \in img : c < d) <=> c # x
      <4>1. img \subseteq Nat
        BY <1>1
      <4>2. QED
        BY <2>1, <4>1
    <3>2. QED
      BY <3>1
  <2>4. Posted(img) = (img \ {x}) \cup {0}
    BY <2>2, <2>3
  <2>5. IsFiniteSet(img \ {x}) /\ Cardinality(img \ {x}) = Cardinality(img) - 1
    BY <1>3, <2>1, FS_RemoveElement
  <2>6. 0 \notin img \ {x}
    BY <1>5
  <2>7. IsFiniteSet(Posted(img)) /\ Cardinality(Posted(img)) = Cardinality(img \ {x}) + 1
    <3>1. /\ IsFiniteSet((img \ {x}) \cup {0})
          /\ Cardinality((img \ {x}) \cup {0}) = Cardinality(img \ {x}) + 1
      BY <2>5, <2>6, FS_AddElement
    <3>2. QED
      BY <2>4, <3>1
  <2>8. Cardinality(Posted(img)) = Cardinality(img)
    BY <1>3, <2>5, <2>7
  <2>9. ASSUME NEW c \in img, NEW d \in Posted(img), c <= d
        PROVE  c \in Posted(img)
    <3>1. c # x
      <4>1. d = 0 \/ (d \in img /\ d # x /\ d <= x)
        BY <2>1, <2>4
      <4>2. c \in Nat /\ d \in Nat /\ x \in Nat /\ c # 0
        BY <1>1, <1>5, <2>1, <4>1
      <4>3. QED
        BY <2>9, <4>1, <4>2
    <3>2. QED
      BY <2>4, <3>1
  <2>10. QED
    BY <1>1, <1>3, <1>5, <2>4, <2>7, <2>8, <2>9
<1>6. QED
  BY <1>4, <1>5

\* A turn of the add's loop posts the first centre that is left to post.
LEMMA AddTurn ==
    ASSUME NEW img \in Images, NEW p \in {0, NrCentres} \cup img,
           NEW e \in Posted(img), e >= p
    PROVE  /\ p \in Posted(img) /\ p \in Centres
           /\ NextCentre(img, p) \in {NrCentres} \cup img
           /\ p < NextCentre(img, p)
           /\ \A c \in Posted(img) : /\ c >= NextCentre(img, p) <=> c >= p /\ c # p
                                     /\ c < NextCentre(img, p) <=> c < p \/ c = p
<1> USE ConstantTypes
<1>1. Posted(img) \subseteq Centres /\ img \subseteq Centres
  BY PostedIs DEF Images
<1>2. p # NrCentres
  BY <1>1 DEF Centres
<1>3. p \in Posted(img)
  BY <1>2, PostedIs
<1>4. p \in Centres
  BY <1>1, <1>3
<1>5. \A c \in Posted(img) : c = 0 \/ c \in img
  BY PostedIs
<1>6. p \in Nat /\ NrCentres \in Nat /\ p < NrCentres /\ \A c \in Centres : c \in Nat /\ c < NrCentres
  BY <1>4 DEF Centres
<1> DEFINE q == NextCentre(img, p)
<1>7. \/ q \in img /\ p < q /\ \A d \in img : p < d => q <= d
      \/ q = NrCentres /\ \A d \in img : d <= p
  BY <1>4, NextCentreIs
<1>8. \A d \in img : p < d => q <= d
  <2>1. img \subseteq Nat
    BY <1>1, <1>6
  <2>2. QED
    BY <1>6, <1>7, <2>1
<1>9. q \in Nat /\ q \in {NrCentres} \cup img /\ p < q
  BY <1>1, <1>6, <1>7
<1> HIDE DEF q
<1>10. ASSUME NEW c \in Posted(img)
       PROVE  /\ c >= q <=> c >= p /\ c # p
              /\ c < q <=> c < p \/ c = p
  <2>1. c \in Nat /\ (p < c => q <= c)
    BY <1>1, <1>5, <1>6, <1>8
  <2>2. QED
    BY <1>6, <1>9, <2>1
<1>11. QED
  BY <1>3, <1>4, <1>9, <1>10 DEF q
\* A label is a pair of a centre and a count.
LEMMA LabelIs ==
    /\ \A l \in Labels : /\ l = <<l[1], l[2]>> /\ l[1] \in Centres /\ l[2] \in 0 .. MaxAdds
                         /\ l[1] \in Nat /\ l[2] \in Nat
    /\ \A c \in Centres, n \in 0 .. MaxAdds : <<c, n>> \in Labels
    /\ \A c \in Centres : c \in Nat /\ c < NrCentres
BY ConstantTypes DEF Labels, Centres

\* The labels of some centres that were counted are finitely many.
LEMMA WantedIs ==
    ASSUME NEW cnt \in [Centres -> 0 .. MaxAdds], NEW img
    PROVE  /\ IsFiniteSet({l \in Labels : l[1] \in img /\ l[2] < cnt[l[1]]})
           /\ Cardinality({l \in Labels : l[1] \in img /\ l[2] < cnt[l[1]]})
                  \in 0 .. NrCentres * MaxAdds
           /\ IsFiniteSet(Labels)
<1> USE ConstantTypes
<1> DEFINE P == Centres \X (0 .. MaxAdds - 1)
           W == {l \in Labels : l[1] \in img /\ l[2] < cnt[l[1]]}
<1>1. IsFiniteSet(Centres) /\ Cardinality(Centres) = NrCentres
  BY FS_Interval DEF Centres
<1>2. /\ IsFiniteSet(0 .. MaxAdds)
      /\ IsFiniteSet(0 .. MaxAdds - 1) /\ Cardinality(0 .. MaxAdds - 1) = MaxAdds
  BY FS_Interval
<1>3. IsFiniteSet(Labels)
  BY <1>1, <1>2, FS_Product DEF Labels
<1>4. IsFiniteSet(P) /\ Cardinality(P) = NrCentres * MaxAdds
  BY <1>1, <1>2, FS_Product
<1>5. ASSUME NEW l \in W PROVE l \in P
  <2>1. cnt[l[1]] \in 0 .. MaxAdds /\ l[2] < cnt[l[1]] /\ l[2] \in Nat
    BY LabelIs
  <2>2. l[1] \in Centres /\ l[2] \in 0 .. MaxAdds - 1 /\ l = <<l[1], l[2]>>
    BY <2>1, LabelIs
  <2>3. QED
    BY <2>2
<1>6. IsFiniteSet(W) /\ Cardinality(W) <= NrCentres * MaxAdds
  BY <1>4, <1>5, FS_Subset
<1>7. Cardinality(W) \in Nat /\ NrCentres * MaxAdds \in Nat
  BY <1>6, FS_CardinalityType
<1>8. QED
  BY <1>3, <1>6, <1>7

\* The labels that a search counts are all on its way.
LEMMA WalkIs ==
    ASSUME TypeOK
    PROVE  /\ Wanted \subseteq Walk /\ Walk \subseteq Labels
           /\ IsFiniteSet(Walk) /\ Cardinality(Walk) \in Nat
           /\ IsFiniteSet(Wanted)
           /\ Cardinality(Wanted) \in 0 .. NrCentres * MaxAdds
           /\ \A p, n : /\ IsFiniteSet(WalkedTo(p, n))
                        /\ Cardinality(WalkedTo(p, n)) \in Nat
                        /\ WalkedTo(p, n) \subseteq Walk
<1>1. /\ IsFiniteSet(Wanted) /\ IsFiniteSet(Labels)
      /\ Cardinality(Wanted) \in 0 .. NrCentres * MaxAdds
  BY WantedIs DEF TypeOK, Wanted
<1>2. Wanted \subseteq Walk /\ Walk \subseteq Labels
  BY DEF Wanted, Walk
<1>3. IsFiniteSet(Walk) /\ Cardinality(Walk) \in Nat
  BY <1>1, <1>2, FS_Subset, FS_CardinalityType
<1>4. ASSUME NEW p, NEW n
      PROVE  /\ IsFiniteSet(WalkedTo(p, n))
             /\ Cardinality(WalkedTo(p, n)) \in Nat
             /\ WalkedTo(p, n) \subseteq Walk
  BY <1>3, FS_Subset, FS_CardinalityType DEF WalkedTo
<1>5. QED
  BY <1>1, <1>2, <1>3, <1>4

\* As long as labels are left to send, the search is at a centre of its image.
LEMMA MoreToWalk ==
    ASSUME TypeOK, WalkInv, pc \in {"search", "await"}, to_send > 0
    PROVE  centre_pos \in image
<1> USE ConstantTypes
<1> SUFFICES ASSUME centre_pos = NrCentres PROVE FALSE
  BY DEF WalkInv
<1>1. \A l \in Walk : l[1] < NrCentres
  BY LabelIs, WalkIs
<1>2. Walked = Walk
  BY <1>1 DEF Walked, WalkedTo
<1>3. to_send + Cardinality(Walk) = Cardinality(Wanted)
  BY <1>2 DEF WalkInv
<1>4. Cardinality(Wanted) <= Cardinality(Walk)
  BY WalkIs, FS_Subset
<1>5. to_send \in Nat /\ Cardinality(Walk) \in Nat /\ Cardinality(Wanted) \in Nat
  BY WalkIs DEF TypeOK
<1>6. QED
  BY <1>3, <1>4, <1>5

\* A turn of the search's loop comes to one label more, the next.
LEMMA WalkTurn ==
    ASSUME TypeOK, WalkInv, pc \in {"search", "await"}, to_send > 0,
           NEW p, NEW n,
           IF counter_pos + 1 >= counters[centre_pos]
           THEN n = 0 /\ p = NextCentre(image, centre_pos)
           ELSE n = counter_pos + 1 /\ p = centre_pos
    PROVE  /\ <<centre_pos, counter_pos>> \in Walk
           /\ <<centre_pos, counter_pos>> \notin Walked
           /\ WalkedTo(p, n) = Walked \cup {<<centre_pos, counter_pos>>}
           /\ p \in image \cup {NrCentres}
           /\ p \in image => <<p, n>> \in Walk
           /\ p = NrCentres => n = 0
<1> USE ConstantTypes
<1> DEFINE L == <<centre_pos, counter_pos>>
<1>1. /\ centre_pos \in image /\ centre_pos \in Centres
      /\ image \subseteq Centres /\ image \in Images
      /\ centre_pos \in Nat /\ centre_pos < NrCentres
      /\ counter_pos \in Nat /\ counter_pos <= MaxAdds
  BY MoreToWalk, LabelIs DEF TypeOK, Images
<1>2. L \in Walk
  BY <1>1 DEF WalkInv
<1>3. L \notin Walked
  BY <1>1 DEF Walked, WalkedTo
<1>4. counters[centre_pos] \in 0 .. MaxAdds
  BY <1>1 DEF TypeOK
<1>5. \A l \in Walk : /\ l \in Labels /\ l[1] \in image
                      /\ l[2] = 0 \/ l[2] < counters[l[1]]
                      /\ l[1] \in Nat /\ l[2] \in Nat
                      /\ l = L <=> l[1] = centre_pos /\ l[2] = counter_pos
  BY LabelIs DEF Walk
<1>6. CASE counter_pos + 1 >= counters[centre_pos]
  <2>1. n = 0 /\ p = NextCentre(image, centre_pos)
    BY <1>6
  <2>2. /\ p \in image \cup {NrCentres} /\ p \in Nat /\ centre_pos < p
        /\ \A d \in image : centre_pos < d => p <= d
    <3>1. \/ p \in image /\ centre_pos < p /\ \A d \in image : centre_pos < d => p <= d
          \/ p = NrCentres /\ \A d \in image : d <= centre_pos
      BY <1>1, <2>1, NextCentreIs
    <3>2. \A d \in image : d \in Nat
      BY <1>1, LabelIs
    <3>3. CASE p \in image /\ centre_pos < p /\ \A d \in image : centre_pos < d => p <= d
      BY <3>2, <3>3
    <3>4. CASE p = NrCentres /\ \A d \in image : d <= centre_pos
      BY <1>1, <3>2, <3>4
    <3>5. QED
      BY <3>1, <3>3, <3>4
  <2>3. p \in image => <<p, n>> \in Walk
    <3>1. SUFFICES ASSUME p \in image PROVE <<p, 0>> \in Walk
      BY <2>1
    <3>2. <<p, 0>> \in Labels
      BY <1>1, <3>1, LabelIs
    <3>3. QED
      BY <3>1, <3>2 DEF Walk
  <2>4. ASSUME NEW l \in Walk
        PROVE  (l[1] < p \/ (l[1] = p /\ l[2] < n)) <=>
                  (l[1] < centre_pos \/ (l[1] = centre_pos /\ l[2] < counter_pos)) \/ l = L
    <3>1. l[2] \in Nat /\ l[1] \in Nat /\ (centre_pos < l[1] => p <= l[1])
      BY <1>5, <2>2
    <3>2. l[1] = centre_pos => l[2] <= counter_pos
      BY <1>1, <1>4, <1>5, <1>6
    <3>3. l = L <=> l[1] = centre_pos /\ l[2] = counter_pos
      BY <1>5
    <3> HIDE DEF L
    <3>4. QED
      BY <1>1, <2>1, <2>2, <3>1, <3>2, <3>3
  <2>5. WalkedTo(p, n) = Walked \cup {L}
    BY <1>2, <2>4 DEF Walked, WalkedTo
  <2>6. QED
    BY <1>2, <1>3, <2>1, <2>2, <2>3, <2>5
<1>7. CASE ~(counter_pos + 1 >= counters[centre_pos])
  <2>1. n = counter_pos + 1 /\ p = centre_pos /\ n < counters[centre_pos]
    BY <1>1, <1>4, <1>7
  <2>2. <<p, n>> \in Walk
    <3>1. n \in 0 .. MaxAdds
      BY <1>1, <1>4, <2>1
    <3>2. <<p, n>> \in Labels
      BY <1>1, <2>1, <3>1, LabelIs
    <3>3. QED
      BY <1>1, <2>1, <3>2 DEF Walk
  <2>3. ASSUME NEW l \in Walk
        PROVE  (l[1] < p \/ (l[1] = p /\ l[2] < n)) <=>
                  (l[1] < centre_pos \/ (l[1] = centre_pos /\ l[2] < counter_pos)) \/ l = L
    <3>1. l[2] \in Nat /\ l[1] \in Nat
      BY <1>5
    <3>2. l = L <=> l[1] = centre_pos /\ l[2] = counter_pos
      BY <1>5
    <3> HIDE DEF L
    <3>3. QED
      BY <1>1, <2>1, <3>1, <3>2
  <2>4. WalkedTo(p, n) = Walked \cup {L}
    BY <1>2, <2>3 DEF Walked, WalkedTo
  <2>5. QED
    BY <1>1, <1>2, <1>3, <2>1, <2>2, <2>4
<1>8. QED
  BY <1>6, <1>7

----------------------------------------------------------------------------
(* What a request does to the queues *)

\* The kinds of requests and what they carry.
LEMMA RequestIs ==
    /\ \A q \in Storage!Request :
          /\ q.op = "add" => q.pairs \in Seq(Storage!Pairs)
          /\ q.op = "search" => q.labels \in Seq(Labels)
    /\ Storage!InitRequest \in Storage!Request /\ Storage!InitRequest.op = "init"
    /\ Storage!StartSearchRequest \in Storage!Request
    /\ Storage!StartSearchRequest.op = "start_search"
    /\ Storage!DumpRequest(TRUE) \in Storage!Request
    /\ Storage!DumpRequest(TRUE).op = "dump_bench"
    /\ \A b \in Seq(Storage!Pairs) :
          /\ Storage!AddRequest(b) \in Storage!Request
          /\ Storage!AddRequest(b).op = "add" /\ Storage!AddRequest(b).pairs = b
    /\ \A b \in Seq(Labels) :
          /\ Storage!SearchRequest(b) \in Storage!Request
          /\ Storage!SearchRequest(b).op = "search" /\ Storage!SearchRequest(b).labels = b
BY DEF Storage!Request, Storage!InitRequest, Storage!StartSearchRequest,
       Storage!DumpRequest, Storage!AddRequest, Storage!SearchRequest

\* What is sent on a connection is its last request.
LEMMA SendIs ==
    ASSUME TypeOK, NEW s \in Connections, NEW q \in Storage!Request, Storage!Send(s, q)
    PROVE  /\ requests' \in [Connections -> Seq(Storage!Request)]
           /\ UNCHANGED <<replies, I, recorded, running>> /\ running
           /\ Len(requests'[s]) = Len(requests[s]) + 1 /\ Len(requests[s]) \in Nat
           /\ DOMAIN requests'[s] = 1 .. Len(requests[s]) + 1
           /\ DOMAIN requests[s] = 1 .. Len(requests[s])
           /\ \A m \in 1 .. Len(requests[s]) : requests'[s][m] = requests[s][m]
           /\ requests'[s][Len(requests[s]) + 1] = q
           /\ requests'[s] # <<>>
           /\ \A c \in Connections : c # s => requests'[c] = requests[c]
<1>1. requests[s] \in Seq(Storage!Request)
  BY DEF TypeOK, Storage!TypeOK
<1>2. /\ requests'[s] = Append(requests[s], q)
      /\ \A c \in Connections : c # s => requests'[c] = requests[c]
      /\ UNCHANGED <<replies, I, recorded, running>> /\ running
  BY DEF Storage!Send, TypeOK, Storage!TypeOK
<1>3. /\ requests'[s] \in Seq(Storage!Request)
      /\ Len(requests'[s]) = Len(requests[s]) + 1 /\ Len(requests[s]) \in Nat
      /\ \A m \in 1 .. Len(requests[s]) : requests'[s][m] = requests[s][m]
      /\ requests'[s][Len(requests[s]) + 1] = q
      /\ requests'[s] # <<>>
  BY <1>1, <1>2, AppendProperties, LenProperties
<1>4. /\ DOMAIN requests'[s] = 1 .. Len(requests[s]) + 1
      /\ DOMAIN requests[s] = 1 .. Len(requests[s])
  BY <1>1, <1>3, LenProperties
<1>5. requests' \in [Connections -> Seq(Storage!Request)]
  BY <1>3 DEF Storage!Send, TypeOK, Storage!TypeOK
<1>6. QED
  BY <1>2, <1>3, <1>4, <1>5

\* What is served is a connection's first request; the others move up.
LEMMA ServeIs ==
    ASSUME TypeOK, NEW s \in Connections, NEW op, Storage!Serve(s, op)
    PROVE  /\ requests' \in [Connections -> Seq(Storage!Request)]
           /\ running /\ requests[s] # <<>>
           /\ Len(requests[s]) \in Nat \ {0}
           /\ Head(requests[s]) = requests[s][1] /\ requests[s][1].op = op
           /\ requests[s][1] \in Storage!Request
           /\ Len(requests'[s]) = Len(requests[s]) - 1
           /\ DOMAIN requests[s] = 1 .. Len(requests[s])
           /\ DOMAIN requests'[s] = 1 .. Len(requests[s]) - 1
           /\ \A m \in 1 .. Len(requests[s]) - 1 : requests'[s][m] = requests[s][m + 1]
           /\ \A c \in Connections : c # s => requests'[c] = requests[c]
<1>1. requests[s] \in Seq(Storage!Request) /\ requests[s] # <<>>
  BY DEF TypeOK, Storage!TypeOK, Storage!Serve
<1>2. /\ requests'[s] = Tail(requests[s])
      /\ \A c \in Connections : c # s => requests'[c] = requests[c]
      /\ running /\ Head(requests[s]).op = op
  BY DEF Storage!Serve, TypeOK, Storage!TypeOK
<1>3. Len(requests[s]) \in Nat \ {0} /\ DOMAIN requests[s] = 1 .. Len(requests[s])
  BY <1>1, EmptySeq, LenProperties
<1>4. Head(requests[s]) = requests[s][1] /\ requests[s][1] \in Storage!Request
  BY <1>1, <1>3, ElementOfSeq
<1>5. /\ requests'[s] \in Seq(Storage!Request)
      /\ Len(requests'[s]) = Len(requests[s]) - 1
      /\ \A m \in 1 .. Len(requests[s]) - 1 : requests'[s][m] = requests[s][m + 1]
  BY <1>1, <1>2, HeadTailProperties
<1>6. DOMAIN requests'[s] = 1 .. Len(requests[s]) - 1
  BY <1>5, LenProperties
<1>7. requests' \in [Connections -> Seq(Storage!Request)]
  BY <1>5 DEF Storage!Serve, TypeOK, Storage!TypeOK
<1>8. QED
  BY <1>1, <1>2, <1>3, <1>4, <1>5, <1>6, <1>7

\* A label is on its way with some value, before a step and after it.
LEMMA CarriedIs ==
    ASSUME NEW queues \in [Connections -> Seq(Storage!Request)], NEW l
    PROVE  (\E s \in Connections : \E m \in DOMAIN queues[s] :
               /\ queues[s][m].op = "add"
               /\ \E k \in DOMAIN queues[s][m].pairs : queues[s][m].pairs[k].label = l)
            <=> \E v \in Values : \E s \in Connections : \E m \in DOMAIN queues[s] :
                    Carries(queues[s][m], l, v)
<1> DEFINE Labelled(q) == q.op = "add" /\ \E k \in DOMAIN q.pairs : q.pairs[k].label = l
<1>1. ASSUME NEW q \in Storage!Request
      PROVE  Labelled(q) <=> \E v \in Values : Carries(q, l, v)
  <2>1. ASSUME q.op = "add", NEW k \in DOMAIN q.pairs
        PROVE  /\ q.pairs[k] = [label |-> q.pairs[k].label, value |-> q.pairs[k].value]
               /\ q.pairs[k].value \in Values
    <3>1. q.pairs \in Seq(Storage!Pairs)
      BY <2>1, RequestIs
    <3>2. q.pairs[k] \in Storage!Pairs
      BY <2>1, <3>1, LenProperties, ElementOfSeq
    <3>3. QED
      BY <3>2 DEF Storage!Pairs
  <2>2. ASSUME Labelled(q) PROVE \E v \in Values : Carries(q, l, v)
    <3>1. PICK k \in DOMAIN q.pairs : q.op = "add" /\ q.pairs[k].label = l
      BY <2>2
    <3>2. Carries(q, l, q.pairs[k].value)
      BY <2>1, <3>1 DEF Carries
    <3>3. QED
      BY <2>1, <3>1, <3>2
  <2>3. ASSUME NEW v \in Values, Carries(q, l, v) PROVE Labelled(q)
    <3>1. PICK k \in DOMAIN q.pairs : q.op = "add" /\ q.pairs[k] = [label |-> l, value |-> v]
      BY <2>3 DEF Carries
    <3>2. q.pairs[k].label = l
      BY <3>1
    <3>3. QED
      BY <3>1, <3>2
  <2>4. QED
    BY <2>2, <2>3
<1>2. \A s \in Connections : \A m \in DOMAIN queues[s] : queues[s][m] \in Storage!Request
  <2> SUFFICES ASSUME NEW s \in Connections, NEW m \in DOMAIN queues[s]
               PROVE  queues[s][m] \in Storage!Request
    OBVIOUS
  <2>1. queues[s] \in Seq(Storage!Request)
    OBVIOUS
  <2>2. QED
    BY <2>1, LenProperties, ElementOfSeq
<1>3. (\E s \in Connections : \E m \in DOMAIN queues[s] : Labelled(queues[s][m]))
         <=> \E v \in Values : \E s \in Connections : \E m \in DOMAIN queues[s] :
                 Carries(queues[s][m], l, v)
  <2> HIDE DEF Labelled
  <2>1. QED
    BY <1>1, <1>2
<1>4. QED
  BY <1>3

LEMMA OnItsWayIs ==
    ASSUME requests \in [Connections -> Seq(Storage!Request)],
           requests' \in [Connections -> Seq(Storage!Request)], NEW l
    PROVE  /\ OnItsWay(l) <=> \E v \in Values : InRequests(l, v)
           /\ OnItsWay(l)' <=> \E v \in Values : InRequests(l, v)'
BY CarriedIs DEF OnItsWay, InRequests

\* A request that is sent adds what it carries to what is on its way.
LEMMA SendCarries ==
    ASSUME TypeOK, NEW s \in Connections, NEW q \in Storage!Request, Storage!Send(s, q),
           NEW l, NEW v
    PROVE  InRequests(l, v)' <=> InRequests(l, v) \/ Carries(q, l, v)
<1>1. /\ DOMAIN requests'[s] = 1 .. Len(requests[s]) + 1 /\ Len(requests[s]) \in Nat
      /\ DOMAIN requests[s] = 1 .. Len(requests[s])
      /\ \A m \in 1 .. Len(requests[s]) : requests'[s][m] = requests[s][m]
      /\ requests'[s][Len(requests[s]) + 1] = q
      /\ \A c \in Connections : c # s => requests'[c] = requests[c]
  BY SendIs
<1>2. (\E m \in DOMAIN requests'[s] : Carries(requests'[s][m], l, v))
         <=> (\E m \in DOMAIN requests[s] : Carries(requests[s][m], l, v)) \/ Carries(q, l, v)
  <2>1. \A m \in DOMAIN requests'[s] : m \in DOMAIN requests[s] \/ m = Len(requests[s]) + 1
    BY <1>1
  <2>2. DOMAIN requests[s] \subseteq DOMAIN requests'[s]
    BY <1>1
  <2>3. Len(requests[s]) + 1 \in DOMAIN requests'[s]
    BY <1>1
  <2>4. QED
    BY <1>1, <2>1, <2>2, <2>3
<1>3. QED
  BY <1>1, <1>2 DEF InRequests

\* A request that is served takes with it what it carries.
LEMMA ServeCarries ==
    ASSUME TypeOK, NEW s \in Connections, NEW op, Storage!Serve(s, op), NEW l, NEW v
    PROVE  InRequests(l, v) <=> InRequests(l, v)' \/ Carries(requests[s][1], l, v)
<1>1. /\ DOMAIN requests[s] = 1 .. Len(requests[s]) /\ Len(requests[s]) \in Nat \ {0}
      /\ DOMAIN requests'[s] = 1 .. Len(requests[s]) - 1
      /\ \A m \in 1 .. Len(requests[s]) - 1 : requests'[s][m] = requests[s][m + 1]
      /\ \A c \in Connections : c # s => requests'[c] = requests[c]
  BY ServeIs
<1>2. (\E m \in DOMAIN requests[s] : Carries(requests[s][m], l, v))
         <=> (\E m \in DOMAIN requests'[s] : Carries(requests'[s][m], l, v))
                \/ Carries(requests[s][1], l, v)
  <2>1. \A m \in DOMAIN requests'[s] :
            m + 1 \in DOMAIN requests[s] /\ requests'[s][m] = requests[s][m + 1]
    BY <1>1
  <2>2. ASSUME NEW m \in DOMAIN requests[s]
        PROVE  m = 1 \/ (m - 1 \in DOMAIN requests'[s] /\ requests'[s][m - 1] = requests[s][m])
    <3>1. CASE m # 1
      <4>1. m - 1 \in 1 .. Len(requests[s]) - 1 /\ (m - 1) + 1 = m
        BY <1>1, <3>1
      <4>2. QED
        BY <1>1, <4>1
    <3>2. QED
      BY <3>1
  <2>3. 1 \in DOMAIN requests[s]
    BY <1>1
  <2>4. QED
    BY <2>1, <2>2, <2>3
<1>3. QED
  BY <1>1, <1>2 DEF InRequests

\* Requests other than ADD carry no pairs.
LEMMA SendOther ==
    ASSUME TypeOK, NEW s \in Connections, NEW q \in Storage!Request, Storage!Send(s, q),
           q.op # "add"
    PROVE  \A l, v : InRequests(l, v)' <=> InRequests(l, v)
BY SendCarries DEF Carries

LEMMA ServeOther ==
    ASSUME TypeOK, NEW s \in Connections, NEW op, Storage!Serve(s, op), op # "add"
    PROVE  \A l, v : InRequests(l, v)' <=> InRequests(l, v)
<1>1. requests[s][1].op # "add"
  BY ServeIs
<1>2. \A l, v : ~Carries(requests[s][1], l, v)
  BY <1>1 DEF Carries
<1>3. QED
  BY <1>2, ServeCarries

\* Under a label of the pairs it serves, ADD leaves the value of one of them.
LEMMA ServeAddIs ==
    ASSUME TypeOK, NEW s \in Connections, Storage!ServeAdd(s), NEW l \in Labels
    PROVE  /\ (\A v \in Values : ~Carries(requests[s][1], l, v)) => I'[l] = I[l]
           /\ (\E v \in Values : Carries(requests[s][1], l, v)) =>
                 I'[l] \in Values /\ Carries(requests[s][1], l, I'[l])
<1> DEFINE pairs == requests[s][1].pairs
           At == {k \in DOMAIN pairs : pairs[k].label = l}
<1>1. Storage!Serve(s, "add")
  BY DEF Storage!ServeAdd
<1>2. Head(requests[s]) = requests[s][1] /\ requests[s][1].op = "add"
      /\ requests[s][1] \in Storage!Request
  BY <1>1, ServeIs
<1>3. pairs \in Seq(Storage!Pairs) /\ DOMAIN pairs = 1 .. Len(pairs) /\ Len(pairs) \in Nat
  BY <1>2, RequestIs, LenProperties
<1>4. I'[l] = IF At = {} THEN I[l]
              ELSE pairs[CHOOSE k \in At : \A h \in At : h <= k].value
  BY <1>2 DEF Storage!ServeAdd
<1>5. \A k \in DOMAIN pairs : /\ pairs[k] = [label |-> pairs[k].label, value |-> pairs[k].value]
                              /\ pairs[k].value \in Values
  <2> SUFFICES ASSUME NEW k \in DOMAIN pairs
               PROVE  /\ pairs[k] = [label |-> pairs[k].label, value |-> pairs[k].value]
                      /\ pairs[k].value \in Values
    OBVIOUS
  <2>1. pairs[k] \in Storage!Pairs
    BY <1>3, ElementOfSeq
  <2>2. QED
    BY <2>1 DEF Storage!Pairs
<1>6. \A v : Carries(requests[s][1], l, v) <=>
                \E k \in DOMAIN pairs : pairs[k] = [label |-> l, value |-> v]
  BY <1>2 DEF Carries
<1>7. ASSUME \A v \in Values : ~Carries(requests[s][1], l, v)
      PROVE  I'[l] = I[l]
  <2>1. At = {}
    BY <1>5, <1>6, <1>7
  <2>2. QED
    BY <1>4, <2>1
<1>8. ASSUME NEW v \in Values, Carries(requests[s][1], l, v)
      PROVE  I'[l] \in Values /\ Carries(requests[s][1], l, I'[l])
  <2>1. At # {} /\ At \subseteq 1 .. Len(pairs)
    <3>1. PICK k \in DOMAIN pairs : pairs[k] = [label |-> l, value |-> v]
      BY <1>6, <1>8
    <3>2. pairs[k].label = l
      BY <3>1
    <3>3. k \in At
      BY <3>2
    <3>4. QED
      BY <1>3, <3>3
  <2>2. \E k \in At : \A h \in At : h <= k
    <3> DEFINE T == {Len(pairs) - k : k \in At}
    <3>1. T \in SUBSET Nat /\ T # {}
      <4> HIDE DEF At, pairs
      <4>1. \A k \in At : Len(pairs) - k \in Nat
        BY <1>3, <2>1
      <4>2. QED
        BY <2>1, <4>1
    <3>2. PICK t \in T : \A y \in T : t <= y
      BY <3>1, Least
    <3>3. PICK k \in At : t = Len(pairs) - k
      BY <3>2
    <3>4. \A h \in At : Len(pairs) - h \in T
      OBVIOUS
    <3>5. ASSUME NEW h \in At PROVE h <= k
      <4>1. t <= Len(pairs) - h
        BY <3>2, <3>4
      <4>2. h \in Nat /\ k \in Nat
        BY <2>1
      <4>3. QED
        BY <1>3, <3>3, <4>1, <4>2
    <3>6. QED
      BY <3>5
  <2> DEFINE k == CHOOSE k \in At : \A h \in At : h <= k
  <2>3. k \in At
    BY <2>2
  <2> HIDE DEF k
  <2>4. I'[l] = pairs[k].value
    BY <1>4, <2>1 DEF k
  <2>5. QED
    BY <1>5, <1>6, <2>3, <2>4
<1>9. QED
  BY <1>7, <1>8

----------------------------------------------------------------------------
(* What the storage will hold *)

\* A label will hold the posting of one document only.
LEMMA OneDocument ==
    ASSUME NEW l \in Labels, NEW d \in Docs, NEW e \in Docs, WillHold(l, d), WillHold(l, e)
    PROVE  d = e
BY DEF WillHold

\* What is pending decides what a label will hold.
LEMMA SameHolds ==
    ASSUME NEW l, NEW d, \A v \in Values : Pending(l, v)' <=> Pending(l, v), I'[l] = I[l]
    PROVE  WillHold(l, d)' <=> WillHold(l, d)
BY DEF WillHold

\* The documents with a posting of a centre are finitely many.
LEMMA HavingIs ==
    ASSUME NEW c
    PROVE  /\ HavingNow(c) \subseteq Docs /\ IsFiniteSet(HavingNow(c))
           /\ Cardinality(HavingNow(c)) \in Nat
           /\ \A lib : /\ Having(lib, c) \subseteq Docs /\ IsFiniteSet(Having(lib, c))
                       /\ Cardinality(Having(lib, c)) \in Nat
<1>1. IsFiniteSet(Docs)
  BY ConstantTypes, FS_Interval DEF Docs
<1>2. HavingNow(c) \subseteq Docs /\ \A lib : Having(lib, c) \subseteq Docs
  BY DEF HavingNow, Having
<1>3. QED
  BY <1>1, <1>2, FS_Subset, FS_CardinalityType

\* As many labels are counted as there are documents: if each document has a label,
\* each label has a document, and no document has two.
LEMMA EveryLabelHeld ==
    ASSUME IInv, sound, r # None, NEW c \in Centres
    PROVE  /\ \A n \in 0 .. counters[c] - 1 : \E d \in HavingNow(c) : WillHold(<<c, n>>, d)
           /\ \A d \in Docs : \A n, m \in 0 .. counters[c] - 1 :
                 WillHold(<<c, n>>, d) /\ WillHold(<<c, m>>, d) => n = m
           /\ \A d \in Docs : \A n \in 0 .. counters[c] - 1 :
                 WillHold(<<c, n>>, d) => d \in HavingNow(c)
<1> USE ConstantTypes
<1> DEFINE D == HavingNow(c)
           N == 0 .. counters[c] - 1
           g == [d \in D |-> CHOOSE n \in N : WillHold(<<c, n>>, d)]
<1>1. /\ \A d \in D : \E n \in N : WillHold(<<c, n>>, d)
      /\ counters[c] = Cardinality(D) /\ counters[c] \in 0 .. MaxAdds
  BY DEF IInv, HoldInv, CountersInv, TypeOK
<1>2. D \subseteq Docs /\ IsFiniteSet(D)
  BY HavingIs
<1>3. \A n \in N : <<c, n>> \in Labels
  BY <1>1, LabelIs
<1> HIDE DEF N, D
<1>4. \A d \in D : g[d] \in N /\ WillHold(<<c, g[d]>>, d)
  BY <1>1
<1>5. g \in Injection(D, N)
  <2>1. \A d, e \in D : g[d] = g[e] => d = e
    BY <1>2, <1>3, <1>4, OneDocument
  <2>2. g \in [D -> N]
    BY <1>4
  <2>3. QED
    BY <2>1, <2>2 DEF Injection, IsInjective
<1>6. IsFiniteSet(N) /\ Cardinality(N) = Cardinality(D)
  <2>1. counters[c] \in Nat
    BY <1>1
  <2>2. /\ IsFiniteSet(0 .. counters[c] - 1)
        /\ Cardinality(0 .. counters[c] - 1) = counters[c]
    BY <2>1, FS_Interval
  <2>3. QED
    BY <1>1, <2>2 DEF N
<1>7. g \in Surjection(D, N)
  BY <1>5, <1>6, FS_Injection
<1>8. \A n \in N : \E d \in D : g[d] = n
  BY <1>7 DEF Surjection
<1> HIDE DEF g
<1>9. \A n \in N : \E d \in D : WillHold(<<c, n>>, d) /\ g[d] = n
  BY <1>4, <1>8
<1>10. \A d \in Docs, n \in N : WillHold(<<c, n>>, d) => d \in D /\ g[d] = n
  BY <1>2, <1>3, <1>9, OneDocument
<1>11. QED
  BY <1>9, <1>10 DEF N, D

----------------------------------------------------------------------------
(* The invariant, initially and when the storage serves a request *)

\* Initially there is no repository, and nothing was sent.
LEMMA InitIInv == Init => IInv
<1> SUFFICES ASSUME Init PROVE IInv
  OBVIOUS
<1> USE ConstantTypes DEF Init, Storage!Init, Storage!InitWith
<1>1. TypeOK
  <2>1. Storage!TypeOK
    BY EmptySeq DEF Storage!TypeOK
  <2>2. /\ counters \in [Centres -> 0 .. MaxAdds] /\ library \in [Docs -> Images]
        /\ scores \in [Centres \X Docs -> Nat] /\ image \in Images
    BY DEF NoCounters, NoLibrary, NoScores, Images
  <2>3. req_buffer \in Seq(Labels)
    BY EmptySeq
  <2>4. 0 \in 0 .. NrCentres * MaxAdds /\ 0 \in 0 .. NrCentres /\ 0 \in 0 .. MaxAdds
    OBVIOUS
  <2>5. QED
    BY <2>1, <2>2, <2>3, <2>4 DEF TypeOK
<1>2. {d \in Docs : library[d] # {}} = {}
  BY DEF NoLibrary
<1>3. LibraryInv
  <2>1. Finished = 0
    BY DEF Finished
  <2>2. Cardinality({d \in Docs : library[d] # {}}) = 0
    BY <1>2, FS_EmptySet
  <2>3. \A d \in Docs : library[d] = {}
    BY DEF NoLibrary
  <2>4. Plausible(total_docs, library)
    BY <2>1, <2>2, <2>3 DEF Plausible
  <2>5. QED
    BY <2>4 DEF LibraryInv
<1>4. CountersInv
  <2> SUFFICES ASSUME NEW c \in Centres PROVE counters[c] = Cardinality(HavingNow(c))
    BY DEF CountersInv
  <2>1. \A d \in Docs : Posted(library[d]) = {}
    BY DEF NoLibrary, Posted
  <2>2. HavingNow(c) = {}
    BY <2>1 DEF HavingNow, Having, PostedNow
  <2>3. QED
    BY <2>2, FS_EmptySet DEF NoCounters
<1>5. IdleInv /\ AddInv /\ RestInv /\ WalkInv
  BY DEF IdleInv, AddInv, RestInv, WalkInv
<1>6. ConnectionInv /\ AnswerInv
  BY DEF ConnectionInv, AnswerInv
<1>7. RecordInv
  BY DEF RecordInv, NotSearch
<1>8. SentInv
  <2>1. Counted = {}
    BY LabelIs DEF Counted, NoCounters
  <2>2. QED
    BY <2>1 DEF SentInv, CountedAreSent
<1>9. HoldInv /\ ScoreInv
  BY DEF HoldInv, ScoreInv
<1>10. QED
  BY <1>1, <1>3, <1>4, <1>5, <1>6, <1>7, <1>8, <1>9 DEF IInv

\* What the storage does, or what is sent to it, changes nothing in the enclave.
LEMMA LocalFrame ==
    ASSUME IInv, UNCHANGED <<repository, iee_data, pc, image, loop, scores, history>>
    PROVE  /\ LibraryInv' /\ CountersInv' /\ IdleInv' /\ AddInv' /\ RestInv' /\ WalkInv'
           /\ Counted' = Counted /\ Walked' = Walked /\ Answered' = Answered
           /\ \A c : HavingNow(c)' = HavingNow(c)
           /\ \A l : InBatch(l)' <=> InBatch(l)
<1>1. UNCHANGED <<r, opened, counters, total_docs, iee_data, pc, image, to_send, centre_pos,
                  counter_pos, req_buffer, scores, adds, library, sound>>
  BY DEF repository, loop, history
<1>2. LibraryInv' /\ IdleInv' /\ AddInv' /\ RestInv'
  BY <1>1 DEF IInv, LibraryInv, Plausible, Finished, IdleInv, AddInv, RestInv
<1>3. \A c : HavingNow(c)' = HavingNow(c)
  BY <1>1 DEF HavingNow, Having, PostedNow
<1>4. CountersInv'
  BY <1>1, <1>3 DEF IInv, CountersInv, Having
<1>5. Counted' = Counted /\ \A l : InBatch(l)' <=> InBatch(l)
  BY <1>1 DEF Counted, InBatch
<1>6. Wanted' = Wanted /\ Walk' = Walk
  BY <1>1 DEF Wanted, Walk
<1>7. Walked' = Walked
  BY <1>1, <1>6 DEF Walked, WalkedTo
<1>8. Answered' = Answered
  BY <1>1, <1>7 DEF Answered
<1>9. WalkInv'
  BY <1>1, <1>6, <1>7 DEF IInv, WalkInv
<1>10. QED
  BY <1>2, <1>3, <1>4, <1>5, <1>7, <1>8, <1>9

\* The types of what is not the storage's.
LEMMA LocalTypes ==
    ASSUME TypeOK, UNCHANGED <<repository, iee_data, pc, image, loop, scores, history>>,
           Storage!TypeOK', dumped' \in SUBSET Connections
    PROVE  TypeOK'
BY DEF TypeOK, repository, loop, history

\* The connections of the repository and later ones after any request is served.
LEMMA ServeConnections ==
    ASSUME IInv, NEW s \in Connections, NEW op, Storage!Serve(s, op),
           \A c \in Connections : c # s => replies'[c] = replies[c],
           UNCHANGED <<repository, iee_data, pc, image, loop, scores, history>>
    PROVE  ConnectionInv'
<1>1. UNCHANGED <<r, opened, pc>>
  BY DEF repository
<1>2. ~(s > opened)
  BY ServeIs DEF IInv, ConnectionInv
<1>3. \A c \in Connections : c > opened => requests'[c] = requests[c] /\ replies'[c] = replies[c]
  BY <1>2, ServeIs DEF IInv
<1>4. QED
  BY <1>1, <1>3 DEF IInv, ConnectionInv

\* What Serve does to the record of the dumps.
Dumps(s, op) == CASE op = "dump_bench"   -> dumped \cup {s}
                  [] op = "start_search" -> {}
                  [] OTHER               -> dumped

LEMMA DumpsIs ==
    ASSUME TypeOK, NEW s \in Connections, NEW op
    PROVE  /\ Dumps(s, op) \in SUBSET Connections
           /\ op \in {"init", "add", "search"} => Dumps(s, op) = dumped
<1>1. dumped \in SUBSET Connections
  BY DEF TypeOK
<1>2. QED
  BY <1>1 DEF Dumps

\* The record for a search that waits stays ahead of it.
LEMMA RecordShift ==
    ASSUME IInv, NEW s \in Connections, NEW op, Storage!Serve(s, op),
           recorded' <=> (op = "start_search" \/ (op # "dump_bench" /\ recorded)),
           dumped' = Dumps(s, op),
           NEW m \in Nat \ {0}, m <= Len(requests[s]), RecordedAt(s, m + 1)
    PROVE  RecordedAt(s, m)'
<1> DEFINE q(j) == requests[s][j].op
<1>1. /\ Len(requests[s]) \in Nat \ {0} /\ q(1) = op
      /\ \A j \in 1 .. Len(requests[s]) - 1 : requests'[s][j].op = q(j + 1)
  BY ServeIs DEF IInv
<1>2. CASE /\ recorded \/ \E t \in dumped : t # s
           /\ \A j \in 1 .. m : q(j) # "dump_bench"
  <2>1. recorded' \/ \E t \in dumped' : t # s
    <3>1. 1 \in 1 .. m
      OBVIOUS
    <3>2. op # "dump_bench"
      BY <1>1, <1>2, <3>1
    <3>3. op # "start_search" => dumped' = dumped
      BY <3>2 DEF Dumps
    <3>4. QED
      BY <1>2, <3>2, <3>3
  <2>2. ASSUME NEW j \in 1 .. m - 1 PROVE requests'[s][j].op # "dump_bench"
    <3>1. j \in 1 .. Len(requests[s]) - 1 /\ j + 1 \in 1 .. m
      BY <1>1
    <3>2. QED
      BY <1>1, <1>2, <3>1
  <2>3. QED
    BY <2>1, <2>2 DEF RecordedAt
<1>3. CASE \E k \in 1 .. m : /\ q(k) = "start_search"
                             /\ \A j \in k + 1 .. m : q(j) # "dump_bench"
  <2>1. PICK k \in 1 .. m : /\ q(k) = "start_search"
                            /\ \A j \in k + 1 .. m : q(j) # "dump_bench"
    BY <1>3
  <2>2. ASSUME NEW j \in k .. m - 1 PROVE requests'[s][j].op # "dump_bench"
    <3>1. j \in 1 .. Len(requests[s]) - 1 /\ j + 1 \in k + 1 .. m
      BY <1>1
    <3>2. QED
      BY <1>1, <2>1, <3>1
  <2>3. CASE k = 1
    <3>1. recorded'
      BY <1>1, <2>1, <2>3
    <3>2. QED
      BY <2>2, <2>3, <3>1 DEF RecordedAt
  <2>4. CASE k # 1
    <3>1. /\ k - 1 \in 1 .. Len(requests[s]) - 1 /\ (k - 1) + 1 = k
          /\ k - 1 \in 1 .. m - 1
      BY <1>1, <2>4
    <3>2. requests'[s][k - 1].op = "start_search"
      BY <1>1, <2>1, <3>1
    <3>3. QED
      BY <2>2, <3>1, <3>2 DEF RecordedAt
  <2>5. QED
    BY <2>3, <2>4
<1>4. (m + 1) - 1 = m
  OBVIOUS
<1>5. QED
  BY <1>2, <1>3, <1>4 DEF RecordedAt

\* The record stays ahead of another connection's search: if it is gone, that is because
\* of the dump just served.
LEMMA RecordElsewhere ==
    ASSUME NEW s \in Connections, NEW c \in Connections, c # s, NEW op, NEW m,
           recorded' <=> (op = "start_search" \/ (op # "dump_bench" /\ recorded)),
           dumped' = Dumps(s, op), requests'[c] = requests[c], RecordedAt(c, m)
    PROVE  RecordedAt(c, m)'
<1>1. recorded \/ (\E t \in dumped : t # c) => recorded' \/ \E t \in dumped' : t # c
  <2>1. CASE op = "dump_bench"
    BY <2>1 DEF Dumps
  <2>2. CASE op = "start_search"
    BY <2>2
  <2>3. CASE op # "dump_bench" /\ op # "start_search"
    BY <2>3 DEF Dumps
  <2>4. QED
    BY <2>1, <2>2, <2>3
<1>2. QED
  BY <1>1 DEF RecordedAt

LEMMA ServeRecords ==
    ASSUME IInv, NEW s \in Connections, NEW op, Storage!Serve(s, op),
           ~running' \/ (recorded' <=> op = "start_search" \/ (op # "dump_bench" /\ recorded)),
           dumped' = Dumps(s, op),
           UNCHANGED <<repository, iee_data, pc, image, loop, scores, history>>
    PROVE  RecordInv'
<1>1. UNCHANGED <<r, opened, pc, sound>>
  BY DEF repository, history
<1>2. /\ running /\ requests[s] # <<>>
      /\ Len(requests[s]) \in Nat \ {0}
      /\ Len(requests'[s]) = Len(requests[s]) - 1
      /\ DOMAIN requests[s] = 1 .. Len(requests[s])
      /\ DOMAIN requests'[s] = 1 .. Len(requests[s]) - 1
      /\ \A m \in 1 .. Len(requests[s]) - 1 : requests'[s][m] = requests[s][m + 1]
      /\ \A c \in Connections : c # s => requests'[c] = requests[c]
  BY ServeIs DEF IInv
<1>3. sound => \A c \in Connections : c # opened => requests'[c] = <<>>
  BY <1>2 DEF IInv, RecordInv
<1>4. SUFFICES ASSUME running', NEW c \in Connections
               PROVE  /\ \A m \in DOMAIN requests'[c] : ~NotSearch(c, m)' => RecordedAt(c, m)'
                      /\ pc \in {"search", "await"} /\ c = r =>
                            RecordedAt(c, Len(requests[c]) + 1)'
  BY <1>1, <1>3 DEF RecordInv
<1>5. CASE c = s
  <2>1. ASSUME NEW m \in DOMAIN requests'[s], ~NotSearch(s, m)'
        PROVE  RecordedAt(s, m)'
    <3>1. /\ m \in Nat \ {0} /\ m <= Len(requests[s]) /\ m + 1 \in DOMAIN requests[s]
          /\ m \in 1 .. Len(requests[s]) - 1
      BY <1>2
    <3>2. ~NotSearch(s, m + 1)
      BY <1>2, <2>1, <3>1 DEF NotSearch
    <3>3. RecordedAt(s, m + 1)
      BY <1>2, <3>1, <3>2 DEF IInv, RecordInv
    <3>4. QED
      BY <1>4, <3>1, <3>3, RecordShift
  <2>2. ASSUME pc \in {"search", "await"}, s = r
        PROVE  RecordedAt(s, Len(requests[s]) + 1)'
    <3>1. RecordedAt(s, Len(requests[s]) + 1)
      BY <1>2, <2>2 DEF IInv, RecordInv
    <3>2. PICK m \in Nat \ {0} : m = Len(requests[s])
      BY <1>2
    <3>3. RecordedAt(s, m)'
      BY <1>2, <1>4, <3>1, <3>2, RecordShift
    <3>4. m = Len(requests'[s]) + 1
      BY <1>2, <3>2
    <3>5. QED
      BY <3>3, <3>4
  <2>3. QED
    BY <1>5, <2>1, <2>2
<1>6. CASE c # s
  <2>1. requests'[c] = requests[c]
    BY <1>2, <1>6
  <2>2. \A m : RecordedAt(c, m) => RecordedAt(c, m)'
    BY <1>4, <1>6, <2>1, RecordElsewhere
  <2>3. ASSUME NEW m \in DOMAIN requests'[c], ~NotSearch(c, m)'
        PROVE  RecordedAt(c, m)
    BY <1>2, <2>1, <2>3 DEF IInv, RecordInv, NotSearch
  <2>4. ASSUME pc \in {"search", "await"}, c = r
        PROVE  RecordedAt(c, Len(requests[c]) + 1)'
    <3>1. RecordedAt(c, Len(requests[c]) + 1)
      BY <1>2, <2>4 DEF IInv, RecordInv
    <3>2. PICK m : m = Len(requests[c]) + 1
      OBVIOUS
    <3>3. m = Len(requests'[c]) + 1
      BY <2>1, <3>2
    <3>4. QED
      BY <2>2, <3>1, <3>2, <3>3
  <2>5. QED
    BY <2>1, <2>2, <2>3, <2>4
<1>7. QED
  BY <1>5, <1>6

\* Where the posting of a label is does not change when a request without pairs is served.
LEMMA ServePostings ==
    ASSUME IInv, NEW s \in Connections, NEW op, Storage!Serve(s, op), op # "add",
           UNCHANGED <<I, repository, iee_data, pc, image, loop, scores, history>>
    PROVE  /\ SentInv' /\ HoldInv'
           /\ \A l, d : WillHold(l, d)' <=> WillHold(l, d)
<1>1. UNCHANGED <<r, opened, counters, total_docs, iee_data, pc, image, to_send, centre_pos,
                  counter_pos, req_buffer, scores, adds, library, sound>>
  BY DEF repository, loop, history
<1>2. \A l, v : InRequests(l, v)' <=> InRequests(l, v)
  BY ServeOther DEF IInv
<1>3. \A l, v : Pending(l, v)' <=> Pending(l, v)
  BY <1>1, <1>2 DEF Pending
<1>4. \A l, d : WillHold(l, d)' <=> WillHold(l, d)
  BY <1>3, SameHolds
<1>5. \A l : OnItsWay(l)' <=> OnItsWay(l)
  <2>1. requests \in [Connections -> Seq(Storage!Request)]
    BY DEF IInv, TypeOK, Storage!TypeOK
  <2>2. requests' \in [Connections -> Seq(Storage!Request)]
    BY ServeIs DEF IInv
  <2>3. QED
    BY <1>2, <2>1, <2>2, OnItsWayIs
<1>6. SentInv'
  BY <1>1, <1>5, LocalFrame DEF IInv, SentInv, CountedAreSent, Sent
<1>7. HoldInv'
  BY <1>1, <1>3, <1>4, LocalFrame DEF IInv, HoldInv
<1>8. QED
  BY <1>4, <1>6, <1>7

\* The scores while nothing that they depend on changes.
LEMMA ScoresStay ==
    ASSUME IInv, UNCHANGED <<repository, iee_data, pc, image, loop, scores, history>>,
           \A l \in Counted, d \in Docs : sound /\ r # None => (WillHold(l, d)' <=> WillHold(l, d)),
           sound /\ pc = "await" /\ replies'[r] # <<>> =>
              \A k \in DOMAIN req_buffer : replies'[r][1][k] = I'[req_buffer[k]]
    PROVE  ScoreInv'
<1>1. UNCHANGED <<r, opened, counters, total_docs, iee_data, pc, image, to_send, centre_pos,
                  counter_pos, req_buffer, scores, adds, library, sound>>
  BY DEF repository, loop, history
<1>2. SUFFICES ASSUME sound, pc \in {"search", "await"}, \A c \in image : counters[c] > 0,
                      NEW c \in Centres, NEW d \in Docs
               PROVE  scores[<<c, d>>] = IF \E l \in Answered : l[1] = c /\ WillHold(l, d)'
                                         THEN 1 ELSE 0
  BY <1>1, LocalFrame DEF ScoreInv
<1>3. r # None
  BY <1>2 DEF IInv, ConnectionInv
<1>4. Answered \subseteq Counted
  <2> SUFFICES ASSUME NEW l \in Answered PROVE l \in Counted
    OBVIOUS
  <2>1. l \in Labels /\ l[1] \in image /\ (l[2] = 0 \/ l[2] < counters[l[1]])
    BY DEF Answered, Walked, WalkedTo, Walk
  <2>2. l[1] \in Centres /\ counters[l[1]] > 0
    BY <1>2, <2>1, LabelIs
  <2>3. QED
    BY <2>1, <2>2 DEF Counted
<1>5. \A l \in Answered : WillHold(l, d)' <=> WillHold(l, d)
  BY <1>2, <1>3, <1>4
<1>6. scores[<<c, d>>] = IF \E l \in Answered : l[1] = c /\ WillHold(l, d) THEN 1 ELSE 0
  BY <1>2 DEF IInv, ScoreInv
<1>7. QED
  BY <1>5, <1>6

\* The search that waits stays the last request, until it is served or the storage exits.
LEMMA ServeAnswers ==
    ASSUME IInv, NEW s \in Connections, NEW op, Storage!Serve(s, op),
           op # "search" \/ ~running', UNCHANGED replies,
           UNCHANGED <<repository, iee_data, pc, image, loop, scores, history>>
    PROVE  AnswerInv'
<1>0. UNCHANGED <<r, opened, counters, pc, req_buffer>>
  BY DEF repository, loop
<1> SUFFICES ASSUME r # None PROVE AnswerInv'
  BY <1>0 DEF AnswerInv
<1>1. CASE s = r
  <2>1. /\ running /\ requests[r] # <<>> /\ Len(requests[r]) \in Nat \ {0}
        /\ DOMAIN requests[r] = 1 .. Len(requests[r])
        /\ requests[r][1].op = op
        /\ Len(requests'[r]) = Len(requests[r]) - 1
        /\ DOMAIN requests'[r] = 1 .. Len(requests[r]) - 1
        /\ \A m \in 1 .. Len(requests[r]) - 1 : requests'[r][m] = requests[r][m + 1]
    BY <1>1, ServeIs DEF IInv
  <2>2. CASE pc # "await"
    <3>1. \A m \in DOMAIN requests[r] : requests[r][m].op # "search"
      BY <2>2 DEF IInv, AnswerInv, NotSearch
    <3>2. ASSUME NEW m \in DOMAIN requests'[r] PROVE NotSearch(r, m)'
      <4>1. m + 1 \in DOMAIN requests[r] /\ requests'[r][m] = requests[r][m + 1]
        BY <2>1
      <4>2. QED
        BY <1>0, <3>1, <4>1 DEF NotSearch
    <3>3. QED
      BY <1>0, <2>2, <3>2 DEF IInv, AnswerInv
  <2>3. CASE pc = "await"
    <3>1. /\ replies[r] = <<>>
          /\ requests[r][Len(requests[r])] = Storage!SearchRequest(req_buffer)
          /\ \A m \in 1 .. Len(requests[r]) - 1 : requests[r][m].op # "search"
      BY <2>1, <2>3 DEF IInv, AnswerInv, NotSearch
    <3>2. CASE ~running'
      BY <1>0, <2>3, <3>1, <3>2 DEF AnswerInv
    <3>3. CASE op # "search"
      <4>1. Len(requests[r]) # 1
        BY <2>1, <3>1, <3>3 DEF Storage!SearchRequest
      <4>2. /\ Len(requests'[r]) \in 1 .. Len(requests[r]) - 1
            /\ requests'[r][Len(requests'[r])] = requests[r][Len(requests[r])]
        <5>1. \A n \in Nat \ {0} : n # 1 => n - 1 \in 1 .. n - 1 /\ (n - 1) + 1 = n
          OBVIOUS
        <5>2. /\ Len(requests[r]) - 1 \in 1 .. Len(requests[r]) - 1
              /\ (Len(requests[r]) - 1) + 1 = Len(requests[r])
          BY <2>1, <4>1, <5>1
        <5>3. QED
          BY <2>1, <5>2
      <4>3. requests'[r] # <<>>
        BY <4>2
      <4>4. ASSUME NEW m \in 1 .. Len(requests'[r]) - 1 PROVE NotSearch(r, m)'
        <5>1. m \in 1 .. Len(requests[r]) - 1 /\ m + 1 \in 1 .. Len(requests[r]) - 1
          BY <2>1, <4>2
        <5>2. QED
          BY <1>0, <2>1, <3>1, <5>1 DEF NotSearch
      <4>5. Storage!SearchRequest(req_buffer)' = Storage!SearchRequest(req_buffer)
        BY <1>0 DEF Storage!SearchRequest
      <4>6. QED
        BY <1>0, <2>3, <3>1, <4>2, <4>3, <4>4, <4>5 DEF AnswerInv
    <3>4. QED
      BY <3>2, <3>3
  <2>4. QED
    BY <2>2, <2>3
<1>2. CASE s # r
  <2>1. requests'[r] = requests[r] /\ running
    BY <1>2, ServeIs DEF IInv, TypeOK
  <2>2. \A m : NotSearch(r, m)' <=> NotSearch(r, m)
    BY <1>0, <2>1 DEF NotSearch
  <2>3. Storage!SearchRequest(req_buffer)' = Storage!SearchRequest(req_buffer)
    BY <1>0 DEF Storage!SearchRequest
  <2>4. QED
    BY <1>0, <2>1, <2>2, <2>3 DEF IInv, AnswerInv
<1>3. QED
  BY <1>1, <1>2

\* A request that has neither pairs nor an answer is served, or the storage exits.
LEMMA ServeQuietly ==
    ASSUME IInv, NEW s \in Connections,
           NEW op, Storage!Serve(s, op), op # "add",
           \/ op # "search" /\ (recorded' <=> op = "start_search" \/ (op # "dump_bench" /\ recorded))
           \/ ~running',
           {recorded', running'} \subseteq BOOLEAN, dumped' = Dumps(s, op),
           UNCHANGED <<replies, I, repository, iee_data, pc, image, loop, scores, history>>
    PROVE  IInv'
<1>1. UNCHANGED <<r, opened, counters, pc, req_buffer>>
  BY DEF repository, loop
<1>2. TypeOK'
  <2>1. Storage!TypeOK'
    BY ServeIs DEF IInv, TypeOK, Storage!TypeOK
  <2>2. dumped' \in SUBSET Connections
    BY DumpsIs DEF IInv
  <2>3. QED
    BY <2>1, <2>2, LocalTypes DEF IInv
<1>3. LibraryInv' /\ CountersInv' /\ IdleInv' /\ AddInv' /\ RestInv' /\ WalkInv'
  BY LocalFrame
<1>4. ConnectionInv'
  BY ServeConnections
<1>5. AnswerInv'
  BY ServeAnswers
<1>6. RecordInv'
  BY ServeRecords
<1>7. SentInv' /\ HoldInv' /\ \A l, d : WillHold(l, d)' <=> WillHold(l, d)
  BY ServePostings
<1>8. ScoreInv'
  BY <1>1, <1>7, ScoresStay DEF IInv, ScoreInv
<1>9. QED
  BY <1>2, <1>3, <1>4, <1>5, <1>6, <1>7, <1>8 DEF IInv

\* ADD: what was on its way is stored, and every label keeps the posting it will hold.
LEMMA StepServeAdd ==
    ASSUME IInv, NEW s \in Connections, Storage!ServeAdd(s), dumped' = dumped,
           UNCHANGED <<repository, iee_data, pc, image, loop, scores, history>>
    PROVE  IInv'
<1> DEFINE q == requests[s][1]
<1>1. /\ Storage!Serve(s, "add") /\ UNCHANGED <<replies, recorded, running>>
      /\ UNCHANGED <<r, opened, counters, pc, image, req_buffer, iee_data, sound>>
  BY DEF Storage!ServeAdd, repository, loop, history
<1>2. /\ requests' \in [Connections -> Seq(Storage!Request)]
      /\ requests \in [Connections -> Seq(Storage!Request)]
  BY <1>1, ServeIs DEF IInv, TypeOK, Storage!TypeOK
<1>3. \A l \in Labels :
         /\ (\A v \in Values : ~Carries(q, l, v)) => I'[l] = I[l]
         /\ (\E v \in Values : Carries(q, l, v)) => I'[l] \in Values /\ Carries(q, l, I'[l])
  BY ServeAddIs DEF IInv
<1>4. \A l, v : InRequests(l, v) <=> InRequests(l, v)' \/ Carries(q, l, v)
  BY <1>1, ServeCarries DEF IInv
<1> HIDE DEF q
<1>0. dumped' = Dumps(s, "add") /\ dumped' \in SUBSET Connections
  BY DumpsIs DEF IInv, TypeOK
<1>5. TypeOK'
  <2>1. \A l \in Labels : I[l] \in Values \cup {None} /\ I'[l] \in Values \cup {None}
    BY <1>3 DEF IInv, TypeOK, Storage!TypeOK
  <2>2. I' \in [Labels -> Values \cup {None}]
    BY <2>1 DEF Storage!ServeAdd
  <2>3. Storage!TypeOK'
    BY <1>1, <1>2, <2>2 DEF IInv, TypeOK, Storage!TypeOK
  <2>4. QED
    BY <1>0, <2>3, LocalTypes DEF IInv
<1>6. LibraryInv' /\ CountersInv' /\ IdleInv' /\ AddInv' /\ RestInv' /\ WalkInv'
  BY LocalFrame
<1>7. ConnectionInv'
  BY <1>1, ServeConnections
<1>8. AnswerInv'
  BY <1>1, ServeAnswers
<1>9. RecordInv'
  BY <1>0, <1>1, ServeRecords
<1>10. SentInv'
  <2>1. ASSUME NEW l \in Labels, Sent(l) PROVE Sent(l)'
    <3>1. CASE \E v \in Values : Carries(q, l, v)
      BY <1>3, <3>1, ConstantTypes DEF Sent
    <3>2. CASE \A v \in Values : ~Carries(q, l, v)
      <4>1. CASE I[l] # None
        BY <1>3, <3>2, <4>1 DEF Sent
      <4>2. CASE OnItsWay(l)
        BY <1>2, <1>4, <3>2, <4>2, OnItsWayIs DEF Sent
      <4>3. QED
        BY <2>1, <4>1, <4>2 DEF Sent
    <3>3. QED
      BY <3>1, <3>2
  <2>2. Counted' = Counted /\ \A l : InBatch(l)' <=> InBatch(l)
    BY LocalFrame
  <2>3. CountedAreSent'
    BY <2>1, <2>2 DEF IInv, SentInv, CountedAreSent, Sent, Counted
  <2>4. QED
    BY <1>1, <2>1, <2>3 DEF IInv, SentInv
<1>11. \A l, v : Pending(l, v)' => Pending(l, v)
  BY <1>1, <1>4 DEF Pending
<1>12. \A l \in Labels : \A d : WillHold(l, d) => WillHold(l, d)'
  <2> SUFFICES ASSUME NEW l \in Labels, NEW d, WillHold(l, d)
               PROVE  WillHold(l, d)'
    OBVIOUS
  <2>1. \A v \in Values : Pending(l, v)' => v = <<l, d>>
    BY <1>11 DEF WillHold
  <2>2. ASSUME \A v \in Values : ~Pending(l, v)' PROVE I'[l] = <<l, d>>
    <3>1. CASE \E v \in Values : Carries(q, l, v)
      <4>1. I'[l] \in Values /\ Carries(q, l, I'[l])
        BY <1>3, <3>1
      <4>2. Pending(l, I'[l])
        BY <1>4, <4>1 DEF Pending
      <4>3. QED
        BY <4>1, <4>2 DEF WillHold
    <3>2. CASE \A v \in Values : ~Carries(q, l, v)
      <4>1. \A v \in Values : ~Pending(l, v)
        BY <1>1, <1>4, <2>2, <3>2 DEF Pending
      <4>2. QED
        BY <1>3, <3>2, <4>1 DEF WillHold
    <3>3. QED
      BY <3>1, <3>2
  <2>3. QED
    BY <2>1, <2>2 DEF WillHold
<1>13. HoldInv'
  <2> SUFFICES ASSUME sound, r # None PROVE HoldInv'
    BY <1>1 DEF HoldInv
  <2>1. /\ Counted' = Counted /\ \A c : HavingNow(c)' = HavingNow(c)
    BY LocalFrame
  <2>2. \A l \in Labels, v \in Values : Pending(l, v)' => l \in Counted
    BY <1>11 DEF IInv, HoldInv
  <2>3. ASSUME NEW c \in Centres, NEW d \in HavingNow(c)
        PROVE  \E n \in 0 .. counters[c] - 1 : WillHold(<<c, n>>, d)'
    <3>1. PICK n \in 0 .. counters[c] - 1 : WillHold(<<c, n>>, d)
      BY DEF IInv, HoldInv
    <3>2. <<c, n>> \in Labels
      BY ConstantTypes, LabelIs DEF IInv, TypeOK
    <3>3. QED
      BY <1>12, <3>1, <3>2
  <2>4. QED
    BY <1>1, <2>1, <2>2, <2>3 DEF HoldInv
<1>14. ScoreInv'
  <2>1. ASSUME sound, r # None, NEW l \in Counted, NEW d \in Docs, WillHold(l, d)'
        PROVE  WillHold(l, d)
    <3>1. /\ l \in Labels /\ l = <<l[1], l[2]>> /\ l[1] \in Centres
          /\ l[2] \in 0 .. counters[l[1]] - 1
      BY LabelIs DEF Counted, IInv, TypeOK
    <3>2. PICK e \in HavingNow(l[1]) : WillHold(l, e)
      BY <2>1, <3>1, EveryLabelHeld
    <3>3. WillHold(l, e)' /\ e \in Docs
      BY <1>12, <3>1, <3>2, HavingIs
    <3>4. d = e
      BY <2>1, <3>3 DEF WillHold
    <3>5. QED
      BY <3>2, <3>4
  <2>2. sound /\ pc = "await" => replies[r] = <<>>
    <3> SUFFICES ASSUME sound, pc = "await", replies[r] # <<>> PROVE FALSE
      OBVIOUS
    <3>1. r # None /\ r = opened /\ requests[r] = <<>>
      BY ConstantTypes DEF IInv, ConnectionInv, AnswerInv
    <3>2. requests[s] # <<>>
      BY <1>1, ServeIs DEF IInv
    <3>3. s = opened
      BY <3>2 DEF IInv, RecordInv
    <3>4. QED
      BY <3>1, <3>2, <3>3
  <2>3. \A l \in Counted, d \in Docs : sound /\ r # None => (WillHold(l, d)' <=> WillHold(l, d))
    BY <1>12, <2>1 DEF Counted
  <2>4. QED
    BY <1>1, <2>2, <2>3, ScoresStay
<1>15. QED
  BY <1>5, <1>6, <1>7, <1>8, <1>9, <1>10, <1>13, <1>14 DEF IInv

\* SEARCH: the answer is for the batch that waits, label by label.
LEMMA StepServeSearch ==
    ASSUME IInv, NEW s \in Connections, Storage!ServeSearch(s), dumped' = dumped,
           UNCHANGED <<repository, iee_data, pc, image, loop, scores, history>>
    PROVE  IInv'
<1> DEFINE labels == requests[s][1].labels
           answer == [k \in DOMAIN labels |-> I[labels[k]]]
<1>1. /\ Storage!Serve(s, "search") /\ UNCHANGED <<I, recorded, running>>
      /\ UNCHANGED <<r, opened, counters, pc, image, req_buffer, iee_data, sound>>
  BY DEF Storage!ServeSearch, repository, loop, history
<1>2. /\ requests' \in [Connections -> Seq(Storage!Request)]
      /\ running /\ requests[s] # <<>> /\ Len(requests[s]) \in Nat \ {0}
      /\ Head(requests[s]) = requests[s][1] /\ requests[s][1].op = "search"
      /\ requests[s][1] \in Storage!Request
      /\ DOMAIN requests[s] = 1 .. Len(requests[s])
      /\ Len(requests'[s]) = Len(requests[s]) - 1
      /\ \A c \in Connections : c # s => requests'[c] = requests[c]
  BY <1>1, ServeIs DEF IInv
<1>3. labels \in Seq(Labels) /\ DOMAIN labels = 1 .. Len(labels) /\ Len(labels) \in Nat
  BY <1>2, RequestIs, LenProperties
<1>4. \A k \in DOMAIN labels : I[labels[k]] \in Values
  <2> SUFFICES ASSUME NEW k \in DOMAIN labels PROVE I[labels[k]] \in Values
    OBVIOUS
  <2>1. labels[k] \in Labels
    BY <1>3, ElementOfSeq
  <2>2. I[labels[k]] # None
    BY <1>2 DEF Storage!ServeSearch, Storage!Found
  <2>3. QED
    BY <2>1, <2>2 DEF IInv, TypeOK, Storage!TypeOK
<1>5. answer \in Seq(Values) /\ Len(answer) = Len(labels)
  <2>1. answer \in [1 .. Len(labels) -> Values]
    BY <1>3, <1>4
  <2>2. QED
    BY <1>3, <2>1, SeqDef, LenProperties
<1>6. replies' = [replies EXCEPT ![s] = Append(@, answer)]
  BY <1>2 DEF Storage!ServeSearch
<1> HIDE DEF answer
<1>7. replies[s] \in Seq(Seq(Values))
  BY DEF IInv, TypeOK, Storage!TypeOK
<1>8. Append(replies[s], answer) \in Seq(Seq(Values))
  BY <1>5, <1>7, AppendProperties
<1>9. /\ replies' \in [Connections -> Seq(Seq(Values))]
      /\ replies'[s] = Append(replies[s], answer)
      /\ \A c \in Connections : c # s => replies'[c] = replies[c]
  BY <1>6, <1>8 DEF IInv, TypeOK, Storage!TypeOK
<1>0. dumped' = Dumps(s, "search") /\ dumped' \in SUBSET Connections
  BY DumpsIs DEF IInv, TypeOK
<1>10. TypeOK'
  <2>1. Storage!TypeOK'
    BY <1>1, <1>2, <1>9 DEF IInv, TypeOK, Storage!TypeOK
  <2>2. QED
    BY <1>0, <2>1, LocalTypes DEF IInv
<1>11. LibraryInv' /\ CountersInv' /\ IdleInv' /\ AddInv' /\ RestInv' /\ WalkInv'
  BY LocalFrame
<1>12. ConnectionInv'
  BY <1>1, <1>9, ServeConnections
<1>13. RecordInv'
  BY <1>0, <1>1, ServeRecords
<1>14. SentInv' /\ HoldInv' /\ \A l, d : WillHold(l, d)' <=> WillHold(l, d)
  BY <1>1, ServePostings
<1>15. ASSUME s = r
       PROVE  /\ pc = "await" /\ labels = req_buffer
              /\ requests'[r] = <<>> /\ replies'[r] = <<answer>>
  <2>1. r # None
    BY <1>15, ConstantTypes
  <2>2. pc = "await"
    BY <1>2, <1>15, <2>1 DEF IInv, AnswerInv, NotSearch
  <2>3. /\ replies[r] = <<>>
        /\ requests[r][Len(requests[r])] = Storage!SearchRequest(req_buffer)
        /\ \A m \in 1 .. Len(requests[r]) - 1 : requests[r][m].op # "search"
    BY <1>2, <1>15, <2>1, <2>2 DEF IInv, AnswerInv, NotSearch
  <2>4. Len(requests[r]) = 1
    <3>1. \A n \in Nat \ {0} : n # 1 => 1 \in 1 .. n - 1
      OBVIOUS
    <3>2. QED
      BY <1>2, <1>15, <2>3, <3>1
  <2>5. labels = req_buffer
    BY <1>15, <2>3, <2>4 DEF Storage!SearchRequest
  <2>6. requests'[r] = <<>>
    <3>1. requests'[r] \in Seq(Storage!Request) /\ Len(requests'[r]) = 0
      BY <1>2, <1>15, <2>4
    <3>2. QED
      BY <3>1, EmptySeq
  <2>7. replies'[r] = <<answer>>
    BY <1>9, <1>15, <2>3
  <2>8. QED
    BY <2>2, <2>5, <2>6, <2>7
<1>16. AnswerInv'
  <2>1. CASE s = r
    <3>1. Len(replies'[r]) = 1 /\ replies'[r][1] = answer
      <4>1. Len(<<answer>>) = 1 /\ <<answer>>[1] = answer
        OBVIOUS
      <4>2. QED
        BY <1>15, <2>1, <4>1
    <3>2. QED
      BY <1>1, <1>5, <1>15, <2>1, <3>1 DEF AnswerInv
  <2>2. CASE s # r
    <3> SUFFICES ASSUME r # None PROVE AnswerInv'
      BY <1>1 DEF AnswerInv
    <3>1. requests'[r] = requests[r] /\ replies'[r] = replies[r]
      BY <1>2, <1>9, <2>2 DEF IInv, TypeOK
    <3>2. \A m : NotSearch(r, m)' <=> NotSearch(r, m)
      BY <1>1, <3>1 DEF NotSearch
    <3>3. Storage!SearchRequest(req_buffer)' = Storage!SearchRequest(req_buffer)
      BY <1>1 DEF Storage!SearchRequest
    <3>4. QED
      BY <1>1, <3>1, <3>2, <3>3 DEF IInv, AnswerInv
  <2>3. QED
    BY <2>1, <2>2
<1>17. ScoreInv'
  <2>1. ASSUME sound, pc = "await", replies'[r] # <<>>, NEW k \in DOMAIN req_buffer
        PROVE  replies'[r][1][k] = I'[req_buffer[k]]
    <3>1. CASE s = r
      BY <1>1, <1>15, <2>1, <3>1 DEF answer
    <3>2. CASE s # r
      <4>1. r \in Connections
        BY <2>1 DEF IInv, ConnectionInv, TypeOK
      <4>2. replies'[r] = replies[r]
        BY <1>9, <3>2, <4>1
      <4>3. QED
        BY <1>1, <2>1, <4>2 DEF IInv, ScoreInv
    <3>3. QED
      BY <3>1, <3>2
  <2>2. QED
    BY <1>14, <2>1, ScoresStay
<1>18. QED
  BY <1>10, <1>11, <1>12, <1>13, <1>14, <1>16, <1>17 DEF IInv

\* Whatever the storage serves, the invariant stays.
LEMMA StepServe == IInv /\ Serve => IInv'
<1> SUFFICES ASSUME IInv, NEW s \in Connections, Storage!ServeRequest(s),
                    dumped' = Dumps(s, Head(requests[s]).op),
                    UNCHANGED <<repository, iee_data, pc, image, loop, scores, history>>
             PROVE  IInv'
  BY DEF Serve, Dumps
<1>0. /\ recorded \in BOOLEAN /\ running \in BOOLEAN
      /\ \A op : Storage!Serve(s, op) => dumped' = Dumps(s, op)
      /\ \A op : op \in {"init", "add", "search"} => Dumps(s, op) = dumped
  BY DumpsIs DEF IInv, TypeOK, Storage!TypeOK, Storage!Serve
<1>1. CASE Storage!ServeInit(s)
  <2>1. Storage!Serve(s, "init") /\ UNCHANGED <<replies, I, recorded, running>>
    BY <1>1 DEF Storage!ServeInit
  <2>2. QED
    BY <1>0, <2>1, ServeQuietly
<1>2. CASE Storage!ServeStartSearch(s)
  <2>1. /\ Storage!Serve(s, "start_search") /\ UNCHANGED <<replies, I, running>>
        /\ recorded' = TRUE
    BY <1>2 DEF Storage!ServeStartSearch
  <2>2. QED
    BY <1>0, <2>1, ServeQuietly
<1>3. CASE Storage!ServeDump(s)
  <2>1. /\ Storage!Serve(s, "dump_bench") /\ UNCHANGED <<replies, I, running>>
        /\ recorded' = FALSE
    BY <1>3 DEF Storage!ServeDump
  <2>2. QED
    BY <1>0, <2>1, ServeQuietly
<1>4. CASE Storage!ServeAdd(s)
  <2>1. Storage!Serve(s, "add")
    BY <1>4 DEF Storage!ServeAdd
  <2>2. dumped' = dumped
    BY <1>0, <2>1
  <2>3. QED
    BY <1>4, <2>2, StepServeAdd
<1>5. CASE Storage!ServeSearch(s)
  <2>1. Storage!Serve(s, "search")
    BY <1>5 DEF Storage!ServeSearch
  <2>2. dumped' = dumped
    BY <1>0, <2>1
  <2>3. QED
    BY <1>5, <2>2, StepServeSearch
<1>6. CASE Storage!ServeAndExit(s)
  <2>1. /\ \E op \in {"search", "dump_bench"} : Storage!Serve(s, op)
        /\ UNCHANGED <<replies, I, recorded>> /\ running' = FALSE
    BY <1>6 DEF Storage!ServeAndExit
  <2>2. QED
    BY <1>0, <2>1, ServeQuietly
<1>7. QED
  BY <1>1, <1>2, <1>3, <1>4, <1>5, <1>6 DEF Storage!ServeRequest

----------------------------------------------------------------------------
(* The invariant when the enclave does a step *)

\* What stays when the enclave sends nothing.
LEMMA QuietService ==
    ASSUME IInv, UNCHANGED <<service, dumped>>
    PROVE  /\ Storage!TypeOK'
           /\ UNCHANGED <<requests, replies, I, recorded, running>>
           /\ \A l : Sent(l)' <=> Sent(l)
           /\ \A l, v : InRequests(l, v)' <=> InRequests(l, v)
           /\ \A s, m : /\ NotSearch(s, m)' <=> NotSearch(s, m)
                        /\ RecordedAt(s, m)' <=> RecordedAt(s, m)
<1>1. UNCHANGED <<requests, replies, I, recorded, running>>
  BY DEF service
<1>2. Storage!TypeOK'
  BY <1>1 DEF IInv, TypeOK, Storage!TypeOK
<1>3. QED
  BY <1>1, <1>2 DEF Sent, OnItsWay, InRequests, NotSearch, RecordedAt

\* A request without pairs changes nothing of what is stored or on its way.
LEMMA QuietSend ==
    ASSUME IInv, NEW s \in Connections, NEW q \in Storage!Request, Storage!Send(s, q),
           q.op # "add"
    PROVE  /\ Storage!TypeOK' /\ UNCHANGED <<replies, I, recorded, running>>
           /\ \A l : Sent(l)' <=> Sent(l)
           /\ \A l, v : InRequests(l, v)' <=> InRequests(l, v)
<1>1. /\ requests' \in [Connections -> Seq(Storage!Request)]
      /\ UNCHANGED <<replies, I, recorded, running>>
  BY SendIs DEF IInv
<1>2. Storage!TypeOK'
  BY <1>1 DEF IInv, TypeOK, Storage!TypeOK
<1>3. \A l, v : InRequests(l, v)' <=> InRequests(l, v)
  BY SendOther DEF IInv
<1>4. \A l : OnItsWay(l)' <=> OnItsWay(l)
  BY <1>1, <1>3, OnItsWayIs DEF IInv, TypeOK, Storage!TypeOK
<1>5. QED
  BY <1>1, <1>2, <1>3, <1>4 DEF Sent

\* The record that will be there, when one more request was sent.
LEMMA SendRecorded ==
    ASSUME IInv, NEW s \in Connections, NEW q \in Storage!Request, Storage!Send(s, q),
           UNCHANGED dumped
    PROVE  /\ \A m \in 1 .. Len(requests[s]) + 1 : RecordedAt(s, m) => RecordedAt(s, m)'
           /\ (\/ q.op = "start_search"
               \/ RecordedAt(s, Len(requests[s]) + 1) /\ q.op # "dump_bench")
              => RecordedAt(s, Len(requests[s]) + 1)'
<1>1. PICK n \in Nat : n = Len(requests[s])
  BY SendIs DEF IInv
<1>2. /\ recorded' = recorded /\ Len(requests'[s]) = n + 1
      /\ \A j \in 1 .. n : requests'[s][j] = requests[s][j]
      /\ requests'[s][n + 1] = q
  BY <1>1, SendIs DEF IInv
<1>3. ASSUME NEW m \in 1 .. n + 1, RecordedAt(s, m) PROVE RecordedAt(s, m)'
  <2>1. \A j \in 1 .. m - 1 : j \in 1 .. n
    OBVIOUS
  <2>2. \A k \in 1 .. m - 1 : \A j \in k + 1 .. m - 1 : j \in 1 .. n
    OBVIOUS
  <2>3. QED
    BY <1>2, <1>3, <2>1, <2>2 DEF RecordedAt
<1>4. (n + 1) + 1 - 1 = n + 1 /\ (n + 1) - 1 = n /\ n + 1 \in 1 .. n + 1
  OBVIOUS
<1>5. ASSUME q.op = "start_search" PROVE RecordedAt(s, (n + 1) + 1)'
  <2>1. \A j : ~(j \in (n + 1) + 1 .. n + 1)
    OBVIOUS
  <2>2. QED
    BY <1>2, <1>4, <1>5, <2>1 DEF RecordedAt
<1>6. ASSUME RecordedAt(s, n + 1), q.op # "dump_bench" PROVE RecordedAt(s, (n + 1) + 1)'
  <2>1. /\ \A j \in 1 .. n + 1 : j \in 1 .. n \/ j = n + 1
        /\ 1 .. n \subseteq 1 .. n + 1
    OBVIOUS
  <2>2. CASE /\ recorded \/ \E t \in dumped : t # s
             /\ \A j \in 1 .. n : requests[s][j].op # "dump_bench"
    <3>1. \A j \in 1 .. n + 1 : requests'[s][j].op # "dump_bench"
      BY <1>2, <1>6, <2>1, <2>2
    <3>2. recorded' \/ \E t \in dumped' : t # s
      BY <1>2, <2>2
    <3>3. QED
      BY <1>4, <3>1, <3>2 DEF RecordedAt
  <2>3. CASE \E k \in 1 .. n : /\ requests[s][k].op = "start_search"
                              /\ \A j \in k + 1 .. n : requests[s][j].op # "dump_bench"
    <3>1. PICK k \in 1 .. n : /\ requests[s][k].op = "start_search"
                             /\ \A j \in k + 1 .. n : requests[s][j].op # "dump_bench"
      BY <2>3
    <3>2. \A j \in k + 1 .. n + 1 : j \in 1 .. n + 1 /\ (j \in k + 1 .. n \/ j = n + 1)
      OBVIOUS
    <3>3. \A j \in k + 1 .. n + 1 : requests'[s][j].op # "dump_bench"
      <4>1. \A j \in k + 1 .. n : j \in 1 .. n
        OBVIOUS
      <4>2. QED
        BY <1>2, <1>6, <3>1, <3>2, <4>1
    <3>4. k \in 1 .. n + 1 /\ requests'[s][k].op = "start_search"
      BY <1>2, <3>1
    <3>5. QED
      BY <1>4, <3>3, <3>4 DEF RecordedAt
  <2>4. QED
    BY <1>4, <1>6, <2>2, <2>3 DEF RecordedAt
<1>7. QED
  BY <1>1, <1>2, <1>3, <1>5, <1>6

\* What the enclave sends finds its record: it is sent by the repository's connection.
LEMMA SendRecordInv ==
    ASSUME IInv, NEW s \in Connections, NEW q \in Storage!Request, Storage!Send(s, q),
           UNCHANGED dumped, s = opened', s = r',
           sound' => \A c \in Connections : c # s => requests[c] = <<>>,
           running /\ (q.op = "search" \/ (pc' \in {"search", "await"} /\ q.op # "start_search"))
              => q.op # "dump_bench" /\ RecordedAt(s, Len(requests[s]) + 1)
    PROVE  RecordInv'
<1>1. PICK n \in Nat : n = Len(requests[s])
  BY SendIs DEF IInv
<1>2. /\ UNCHANGED <<recorded, running>> /\ Len(requests'[s]) = n + 1
      /\ DOMAIN requests[s] = 1 .. n /\ DOMAIN requests'[s] = 1 .. n + 1
      /\ \A j \in 1 .. n : requests'[s][j] = requests[s][j]
      /\ requests'[s][n + 1] = q
      /\ \A c \in Connections : c # s => requests'[c] = requests[c]
  BY <1>1, SendIs DEF IInv
<1>3. sound' => \A c \in Connections : c # opened' => requests'[c] = <<>>
  BY <1>2
<1>4. SUFFICES ASSUME running, NEW c \in Connections
               PROVE  /\ \A m \in DOMAIN requests'[c] : ~NotSearch(c, m)' => RecordedAt(c, m)'
                      /\ pc' \in {"search", "await"} /\ c = r' =>
                            RecordedAt(c, Len(requests[c]) + 1)'
  BY <1>2, <1>3 DEF RecordInv
<1>5. CASE c = s
  <2>1. ASSUME NEW m \in 1 .. n, ~NotSearch(s, m)' PROVE RecordedAt(s, m)'
    <3>1. ~NotSearch(s, m) /\ m \in 1 .. n + 1
      BY <1>2, <2>1 DEF NotSearch
    <3>2. RecordedAt(s, m)
      BY <1>2, <1>4, <3>1 DEF IInv, RecordInv
    <3>3. QED
      BY <1>1, <3>1, <3>2, SendRecorded
  <2>2. ASSUME ~NotSearch(s, n + 1)' PROVE RecordedAt(s, n + 1)'
    <3>1. RecordedAt(s, n + 1)
      BY <1>1, <1>2, <1>4, <2>2 DEF NotSearch
    <3>2. QED
      BY <1>1, <3>1, SendRecorded
  <2>3. ASSUME pc' \in {"search", "await"} PROVE RecordedAt(s, Len(requests[s]) + 1)'
    BY <1>4, <2>3, SendRecorded
  <2>4. \A m \in 1 .. n + 1 : m \in 1 .. n \/ m = n + 1
    OBVIOUS
  <2>5. QED
    BY <1>2, <1>5, <2>1, <2>2, <2>3, <2>4
<1>6. CASE c # s
  <2>1. /\ \A m : RecordedAt(c, m)' <=> RecordedAt(c, m)
        /\ \A m : NotSearch(c, m)' <=> NotSearch(c, m)
    BY <1>2, <1>6 DEF RecordedAt, NotSearch
  <2>2. QED
    BY <1>2, <1>4, <1>6, <2>1 DEF IInv, RecordInv
<1>7. QED
  BY <1>5, <1>6

\* The documents of the saved repository, as more are added.
LEMMA SavedStays ==
    ASSUME IInv, UNCHANGED iee_data, Finished <= Finished', Finished' \in Nat
    PROVE  iee_data' # None => Plausible(iee_data.total_docs, iee_data.library)'
<1> SUFFICES ASSUME iee_data # None
             PROVE  Plausible(iee_data.total_docs, iee_data.library)'
  OBVIOUS
<1>1. Finished \in Int /\ iee_data.total_docs \in Nat
  BY ConstantTypes DEF IInv, TypeOK, Finished
<1>2. /\ \A d \in Docs : iee_data.library[d] # {} => d <= Finished
      /\ iee_data.total_docs <= Finished
      /\ Cardinality({d \in Docs : iee_data.library[d] # {}}) <= iee_data.total_docs
  BY DEF IInv, LibraryInv, Plausible
<1>3. \A d \in Docs : d \in Int
  BY ConstantTypes DEF Docs
<1>4. QED
  BY <1>1, <1>2, <1>3 DEF Plausible

\* A repository that has nothing, and one that is not there.
LEMMA NothingThere ==
    ASSUME IInv, counters' = NoCounters, total_docs' = 0, library' = NoLibrary,
           pc' = "idle", UNCHANGED <<iee_data, adds>>
    PROVE  /\ LibraryInv' /\ CountersInv' /\ Counted' = {}
           /\ \A c : HavingNow(c)' = {}
<1>1. adds \in Nat /\ Finished <= Finished' /\ Finished' = adds
  BY ConstantTypes DEF IInv, TypeOK, Finished
<1>2. \A d \in Docs : library'[d] = {} /\ Posted(library'[d]) = {}
  BY DEF NoLibrary, Posted
<1>3. {d \in Docs : library'[d] # {}} = {}
  BY <1>2
<1>4. LibraryInv'
  BY <1>1, <1>2, <1>3, SavedStays, FS_EmptySet DEF LibraryInv, Plausible
<1>5. \A c : HavingNow(c)' = {}
  BY <1>2 DEF HavingNow, Having, PostedNow
<1>6. CountersInv'
  <2>1. \A c \in Centres : counters'[c] = Cardinality(HavingNow(c)')
    BY <1>5, FS_EmptySet DEF NoCounters
  <2>2. QED
    BY <2>1 DEF IInv, CountersInv, Having
<1>7. Counted' = {}
  BY LabelIs DEF Counted, NoCounters
<1>8. QED
  BY <1>4, <1>5, <1>6, <1>7

\* Without a repository: after CLEAR, and after a crash.
LEMMA StepForget == IInv /\ (RepositoryClear \/ Crash) => IInv'
<1> SUFFICES ASSUME IInv, RepositoryClear \/ Crash PROVE IInv'
  OBVIOUS
<1>1. /\ r' = None /\ pc' = "idle" /\ image' = {}
      /\ to_send' = 0 /\ centre_pos' = 0 /\ counter_pos' = 0
      /\ req_buffer' = <<>> /\ scores' = NoScores
      /\ counters' = NoCounters /\ total_docs' = 0 /\ library' = NoLibrary
      /\ UNCHANGED <<service, dumped, opened, iee_data, adds, sound>>
  BY DEF RepositoryClear, Crash, Forget, Open, Idle, loop, IInv, IdleInv, RestInv
<1>2. TypeOK'
  <2>1. /\ counters' \in [Centres -> 0 .. MaxAdds] /\ library' \in [Docs -> Images]
        /\ scores' \in [Centres \X Docs -> Nat] /\ image' \in Images
        /\ req_buffer' \in Seq(Labels)
        /\ 0 \in 0 .. NrCentres * MaxAdds /\ 0 \in 0 .. NrCentres /\ 0 \in 0 .. MaxAdds
    BY <1>1, ConstantTypes, EmptySeq DEF NoCounters, NoLibrary, NoScores, Images
  <2>2. Storage!TypeOK'
    BY <1>1, QuietService
  <2>3. QED
    BY <1>1, <2>1, <2>2 DEF IInv, TypeOK
<1>3. LibraryInv' /\ CountersInv' /\ Counted' = {}
  BY <1>1, NothingThere
<1>4. IdleInv' /\ AddInv' /\ RestInv' /\ WalkInv'
  BY <1>1 DEF IdleInv, AddInv, RestInv, WalkInv
<1>5. ConnectionInv' /\ AnswerInv'
  BY <1>1, QuietService DEF IInv, ConnectionInv, AnswerInv
<1>6. RecordInv'
  BY <1>1, QuietService DEF IInv, RecordInv
<1>7. SentInv'
  BY <1>1, <1>3, QuietService DEF IInv, SentInv, CountedAreSent
<1>8. HoldInv' /\ ScoreInv'
  BY <1>1 DEF HoldInv, ScoreInv
<1>9. QED
  BY <1>2, <1>3, <1>4, <1>5, <1>6, <1>7, <1>8 DEF IInv

\* INIT: the connection is new, and nothing is on its way but on the one before.
LEMMA StepRepositoryInit == IInv /\ RepositoryInit => IInv'
<1> SUFFICES ASSUME IInv, RepositoryInit PROVE IInv'
  OBVIOUS
<1> DEFINE s == opened + 1
<1>1. /\ pc = "idle" /\ s \in Connections /\ opened \in Nat
      /\ r' = s /\ opened' = s /\ Storage!Send(s, Storage!InitRequest)
      /\ counters' = NoCounters /\ total_docs' = 0 /\ library' = NoLibrary
      /\ sound' = AllServed
      /\ UNCHANGED <<dumped, iee_data, pc, image, to_send, centre_pos, counter_pos, req_buffer,
                     scores, adds>>
  BY ConstantTypes DEF RepositoryInit, Idle, loop, IInv, TypeOK, Connections
<1>2. Storage!InitRequest \in Storage!Request /\ Storage!InitRequest.op = "init"
  BY RequestIs
<1>3. /\ Storage!TypeOK' /\ UNCHANGED <<replies, I, recorded, running>>
      /\ \A l : Sent(l)' <=> Sent(l)
      /\ \A l, v : InRequests(l, v)' <=> InRequests(l, v)
  BY <1>1, <1>2, QuietSend
<1>4. /\ requests[s] = <<>> /\ replies[s] = <<>>
      /\ \A c \in Connections : c > s => requests[c] = <<>> /\ replies[c] = <<>>
  <2>1. s > opened /\ \A c \in Connections : c > s => c > opened
    BY <1>1 DEF Connections
  <2>2. QED
    BY <1>1, <2>1 DEF IInv, ConnectionInv
<1>5. /\ DOMAIN requests'[s] = {1} /\ requests'[s][1].op = "init"
      /\ \A c \in Connections : c # s => requests'[c] = requests[c]
  <2>1. Len(requests[s]) = 0
    BY <1>4
  <2>2. DOMAIN requests'[s] = 1 .. 0 + 1 /\ requests'[s][0 + 1] = Storage!InitRequest
    BY <1>1, <1>2, <2>1, SendIs DEF IInv
  <2>3. 1 .. 0 + 1 = {1} /\ 0 + 1 = 1
    OBVIOUS
  <2>4. QED
    BY <1>1, <1>2, <2>2, <2>3, SendIs DEF IInv
<1> HIDE DEF s
<1>6. TypeOK'
  <2>1. counters' \in [Centres -> 0 .. MaxAdds] /\ library' \in [Docs -> Images]
    BY <1>1, ConstantTypes DEF NoCounters, NoLibrary, Images
  <2>2. opened' \in 0 .. MaxConnections /\ r' \in Connections
    BY <1>1 DEF Connections
  <2>3. total_docs' \in 0 .. MaxAdds /\ sound' \in BOOLEAN
    BY <1>1, ConstantTypes DEF AllServed
  <2>4. QED
    BY <1>1, <1>3, <2>1, <2>2, <2>3 DEF IInv, TypeOK
<1>7. LibraryInv' /\ CountersInv' /\ Counted' = {} /\ \A c : HavingNow(c)' = {}
  BY <1>1, NothingThere
<1>8. IdleInv' /\ AddInv' /\ RestInv' /\ WalkInv'
  BY <1>1 DEF IInv, IdleInv, AddInv, RestInv, WalkInv
<1>9. ConnectionInv'
  <2>1. s \in Nat
    BY <1>1 DEF Connections
  <2>2. \A c \in Connections : c > s => c # s
    BY <2>1
  <2>3. QED
    BY <1>1, <1>3, <1>4, <1>5, <2>2 DEF ConnectionInv
<1>10. AnswerInv'
  BY <1>1, <1>3, <1>4, <1>5 DEF AnswerInv, NotSearch
<1>11. RecordInv'
  <2>1. PICK c \in Connections : c = s
    BY <1>1
  <2>2. sound' => \A d \in Connections : requests[d] = <<>>
    BY <1>1 DEF AllServed
  <2>3. QED
    BY <1>1, <1>2, <2>1, <2>2, SendRecordInv
<1>12. SentInv'
  BY <1>1, <1>3, <1>7 DEF IInv, SentInv, CountedAreSent
<1>13. HoldInv'
  <2> SUFFICES ASSUME AllServed PROVE HoldInv'
    BY <1>1 DEF HoldInv
  <2>1. \A l, v : ~InRequests(l, v)
    BY DEF AllServed, InRequests
  <2>2. \A l, v : ~Pending(l, v)'
    BY <1>1, <1>3, <2>1 DEF Pending
  <2>3. QED
    BY <1>7, <2>2 DEF HoldInv
<1>14. ScoreInv'
  BY <1>1 DEF ScoreInv
<1>15. QED
  BY <1>3, <1>6, <1>7, <1>8, <1>9, <1>10, <1>11, <1>12, <1>13, <1>14 DEF IInv

\* Between two operations nothing is in a batch.
LEMMA BetweenIs ==
    ASSUME IInv, pc \notin {"add"}
    PROVE  /\ \A c : HavingNow(c) = Having(library, c)
           /\ \A l : ~InBatch(l)
           /\ \A l, v : Pending(l, v) <=> InRequests(l, v)
BY DEF HavingNow, PostedNow, InBatch, Pending

\* WRITE_MAP, in its two steps: a file that is there holds the repository's counters.
LEMMA StepMap == IInv /\ (OpenMap \/ WriteMap) => IInv'
<1> SUFFICES ASSUME IInv, OpenMap \/ WriteMap PROVE IInv'
  OBVIOUS
<1>1. /\ pc \in {"idle", "write"} /\ pc' \in {"idle", "write"} /\ r # None
      /\ UNCHANGED <<service, dumped, r, opened, counters, total_docs, image, to_send, centre_pos,
                     counter_pos, req_buffer, scores, adds, library, sound>>
      /\ \/ iee_data' = None
         \/ iee_data' = [counters |-> counters, total_docs |-> total_docs, library |-> library]
  BY DEF OpenMap, WriteMap, Open, Idle, IInv, ConnectionInv, repository, loop, history
<1>2. TypeOK'
  <2>1. iee_data' \in {None} \cup [counters : [Centres -> 0 .. MaxAdds],
                                   total_docs : 0 .. MaxAdds,
                                   library : [Docs -> Images]]
    BY <1>1 DEF IInv, TypeOK
  <2>2. Storage!TypeOK'
    BY <1>1, QuietService
  <2>3. QED
    BY <1>1, <2>1, <2>2 DEF IInv, TypeOK
<1>3. LibraryInv'
  <2>1. Finished' = Finished /\ pc' # "add"
    BY <1>1 DEF Finished
  <2>2. Plausible(total_docs, library)'
    BY <1>1, <2>1 DEF IInv, LibraryInv, Plausible
  <2>3. CASE iee_data' = None
    BY <2>1, <2>2, <2>3 DEF LibraryInv
  <2>4. CASE iee_data' = [counters |-> counters, total_docs |-> total_docs, library |-> library]
    <3>1. iee_data'.total_docs = total_docs' /\ iee_data'.library = library'
      BY <1>1, <2>4
    <3>2. QED
      BY <2>1, <2>2, <3>1 DEF LibraryInv, Plausible
  <2>5. QED
    BY <1>1, <2>3, <2>4
<1>4. \A c : HavingNow(c)' = HavingNow(c) /\ HavingNow(c) = Having(library, c)
  BY <1>1 DEF HavingNow, Having, PostedNow
<1>5. CountersInv'
  BY <1>1, <1>4 DEF IInv, CountersInv
<1>6. IdleInv' /\ AddInv' /\ RestInv' /\ WalkInv'
  BY <1>1 DEF IInv, IdleInv, AddInv, RestInv, WalkInv
<1>7. ConnectionInv' /\ AnswerInv'
  BY <1>1, QuietService DEF IInv, ConnectionInv, AnswerInv
<1>8. RecordInv'
  BY <1>1, QuietService DEF IInv, RecordInv
<1>9. SentInv'
  <2>1. \A l \in Counted : Sent(l)
    BY <1>1, BetweenIs DEF IInv, SentInv, CountedAreSent, Sent
  <2>2. Counted' = Counted
    BY <1>1 DEF Counted
  <2>3. CountedAreSent'
    BY <2>1, <2>2, <1>1, QuietService DEF CountedAreSent, Sent
  <2>4. \A l \in Labels : l[2] < counters[l[1]] => Sent(l)'
    BY <1>1, <2>1, QuietService DEF Counted
  <2>5. QED
    BY <1>1, <2>3, <2>4 DEF SentInv
<1>10. HoldInv'
  <2>1. \A l, v : Pending(l, v)' <=> Pending(l, v)
    BY <1>1, QuietService DEF Pending
  <2>2. \A l, d : WillHold(l, d)' <=> WillHold(l, d)
    BY <1>1, <2>1, QuietService, SameHolds
  <2>3. Counted' = Counted
    BY <1>1 DEF Counted
  <2>4. QED
    BY <1>1, <1>4, <2>1, <2>2, <2>3 DEF IInv, HoldInv
<1>11. ScoreInv'
  BY <1>1 DEF ScoreInv
<1>12. QED
  BY <1>2, <1>3, <1>5, <1>6, <1>7, <1>8, <1>9, <1>10, <1>11 DEF IInv

\* READ_MAP: sound only if the storage holds what the file counts.
LEMMA StepReadMap == IInv /\ ReadMap => IInv'
<1> SUFFICES ASSUME IInv, ReadMap PROVE IInv'
  OBVIOUS
<1>1. /\ pc = "idle" /\ r # None /\ iee_data # None
      /\ counters' = iee_data.counters /\ total_docs' = iee_data.total_docs
      /\ library' = iee_data.library
      /\ sound' = (AllServed /\ Holds(iee_data.counters, iee_data.library))
      /\ UNCHANGED <<service, dumped, r, opened, iee_data, pc, image, to_send, centre_pos,
                     counter_pos, req_buffer, scores, adds>>
  BY DEF ReadMap, Open, Idle, loop
<1>2. TypeOK'
  <2>1. Storage!TypeOK'
    BY <1>1, QuietService
  <2>2. sound' \in BOOLEAN
    BY <1>1 DEF AllServed, Holds
  <2>3. QED
    BY <1>1, <2>1, <2>2 DEF IInv, TypeOK
<1>3. LibraryInv'
  <2>1. /\ \A d \in Docs : iee_data.library[d] # {} => d <= Finished
        /\ iee_data.total_docs <= Finished
        /\ Cardinality({d \in Docs : iee_data.library[d] # {}}) <= iee_data.total_docs
    BY <1>1 DEF IInv, LibraryInv, Plausible
  <2>2. Finished' = Finished
    BY <1>1 DEF Finished
  <2>3. QED
    BY <1>1, <2>1, <2>2 DEF LibraryInv, Plausible
<1>4. \A c : HavingNow(c)' = Having(iee_data.library, c)
  BY <1>1 DEF HavingNow, Having, PostedNow
<1>5. CountersInv'
  BY <1>1, <1>4 DEF IInv, CountersInv, Having
<1>6. IdleInv' /\ AddInv' /\ RestInv' /\ WalkInv'
  BY <1>1 DEF IInv, IdleInv, AddInv, RestInv, WalkInv
<1>7. ConnectionInv' /\ AnswerInv'
  BY <1>1, QuietService DEF IInv, ConnectionInv, AnswerInv
<1>8. RecordInv'
  <2>1. sound' => \A s \in Connections : requests'[s] = <<>>
    BY <1>1, QuietService DEF AllServed
  <2>2. ASSUME running', NEW s \in Connections, NEW m \in DOMAIN requests'[s],
               ~NotSearch(s, m)'
        PROVE  RecordedAt(s, m)'
    BY <1>1, <2>2, QuietService DEF IInv, RecordInv
  <2>3. QED
    BY <1>1, <2>1, <2>2 DEF RecordInv
<1>9. SentInv'
  <2>1. \A l \in Labels : l[2] < iee_data.counters[l[1]] => Sent(l)
    BY <1>1 DEF IInv, SentInv
  <2>2. QED
    BY <1>1, <2>1, QuietService DEF SentInv, CountedAreSent, Counted, Sent
<1>10. HoldInv'
  <2> SUFFICES ASSUME AllServed, Holds(iee_data.counters, iee_data.library) PROVE HoldInv'
    BY <1>1 DEF HoldInv
  <2>1. \A l, v : ~Pending(l, v)'
    BY <1>1, QuietService DEF Pending, InRequests, AllServed
  <2>2. ASSUME NEW c \in Centres, NEW d \in HavingNow(c)'
        PROVE  \E n \in 0 .. counters'[c] - 1 : WillHold(<<c, n>>, d)'
    <3>1. PICK n \in 0 .. iee_data.counters[c] - 1 : I[<<c, n>>] = <<<<c, n>>, d>>
      BY <1>4, <2>2 DEF Holds
    <3>2. WillHold(<<c, n>>, d)'
      BY <1>1, <2>1, <3>1, QuietService DEF WillHold
    <3>3. QED
      BY <1>1, <3>1, <3>2
  <2>3. QED
    BY <2>1, <2>2 DEF HoldInv
<1>11. ScoreInv'
  BY <1>1 DEF ScoreInv
<1>12. QED
  BY <1>2, <1>3, <1>5, <1>6, <1>7, <1>8, <1>9, <1>10, <1>11 DEF IInv

\* DUMP_BENCH: a request with no pairs, when no search waits.
LEMMA StepDumpBench == IInv /\ DumpBench => IInv'
<1> SUFFICES ASSUME IInv, DumpBench PROVE IInv'
  OBVIOUS
<1> DEFINE q == Storage!DumpRequest(TRUE)
<1>1. /\ pc = "idle" /\ r \in Connections /\ r = opened /\ Storage!Send(r, q)
      /\ UNCHANGED <<repository, iee_data, pc, image, loop, scores, history>>
      /\ UNCHANGED <<dumped, r, opened, counters, pc, req_buffer, iee_data, sound>>
  BY ConstantTypes
     DEF DumpBench, Open, Idle, repository, loop, history, IInv, TypeOK, ConnectionInv
<1>2. q \in Storage!Request /\ q.op = "dump_bench"
  BY RequestIs
<1> HIDE DEF q
<1>3. /\ Storage!TypeOK' /\ UNCHANGED <<replies, I, recorded, running>>
      /\ \A l : Sent(l)' <=> Sent(l)
      /\ \A l, v : InRequests(l, v)' <=> InRequests(l, v)
  BY <1>1, <1>2, QuietSend
<1>4. TypeOK'
  <2>1. dumped' \in SUBSET Connections
    BY <1>1 DEF IInv, TypeOK
  <2>2. QED
    BY <1>1, <1>3, <2>1, LocalTypes DEF IInv
<1>5. /\ LibraryInv' /\ CountersInv' /\ IdleInv' /\ AddInv' /\ RestInv' /\ WalkInv'
      /\ Counted' = Counted /\ \A c : HavingNow(c)' = HavingNow(c)
      /\ \A l : InBatch(l)' <=> InBatch(l)
  BY <1>1, LocalFrame
<1>6. /\ \A c \in Connections : c # r => requests'[c] = requests[c]
      /\ \A m \in DOMAIN requests'[r] : \/ requests'[r][m] = q
                                        \/ /\ m \in DOMAIN requests[r]
                                           /\ requests'[r][m] = requests[r][m]
  <2>1. \A n \in Nat : \A m \in 1 .. n + 1 : m = n + 1 \/ m \in 1 .. n
    OBVIOUS
  <2>2. QED
    BY <1>1, <1>2, <2>1, SendIs DEF IInv
<1>7. ConnectionInv'
  <2>1. ~(r > opened)
    BY <1>1 DEF IInv, TypeOK
  <2>2. QED
    BY <1>1, <1>3, <1>6, <2>1 DEF IInv, ConnectionInv
<1>8. r # None /\ replies[r] = <<>> /\ \A m \in DOMAIN requests[r] : NotSearch(r, m)
  BY <1>1, ConstantTypes DEF IInv, AnswerInv
<1>9. \A m \in DOMAIN requests'[r] : NotSearch(r, m)'
  BY <1>1, <1>2, <1>6, <1>8 DEF NotSearch
<1>10. AnswerInv'
  BY <1>1, <1>3, <1>8, <1>9 DEF AnswerInv
<1>11. RecordInv'
  <2>1. PICK s \in Connections : s = r
    BY <1>1
  <2>2. sound => \A c \in Connections : c # s => requests[c] = <<>>
    BY <1>1, <2>1 DEF IInv, RecordInv
  <2>3. QED
    BY <1>1, <1>2, <2>1, <2>2, SendRecordInv
<1>12. SentInv'
  BY <1>1, <1>3, <1>5 DEF IInv, SentInv, CountedAreSent, Sent
<1>13. HoldInv'
  <2>1. \A l, v : Pending(l, v)' <=> Pending(l, v)
    BY <1>1, <1>3 DEF Pending
  <2>2. \A l, d : WillHold(l, d)' <=> WillHold(l, d)
    BY <1>3, <2>1, SameHolds
  <2>3. QED
    BY <1>1, <1>5, <2>1, <2>2 DEF IInv, HoldInv
<1>14. ScoreInv'
  BY <1>1 DEF ScoreInv
<1>15. QED
  BY <1>4, <1>5, <1>7, <1>10, <1>11, <1>12, <1>13, <1>14 DEF IInv

\* ADD begins: nothing is posted yet.
LEMMA StepAddImage ==
    ASSUME IInv, NEW img \in Images, AddImage(img)
    PROVE  IInv'
<1>1. /\ pc = "idle" /\ r # None /\ adds < MaxAdds /\ adds' = adds + 1
      /\ pc' = "add" /\ image' = img /\ to_send' = Cardinality(img) /\ centre_pos' = 0
      /\ req_buffer = <<>> /\ counter_pos = 0 /\ scores = NoScores
      /\ UNCHANGED <<service, dumped, r, opened, counters, total_docs, iee_data, counter_pos,
                     req_buffer, scores, library, sound>>
  BY DEF AddImage, Open, Idle, repository, IInv, IdleInv, RestInv
<1>2. adds \in Nat /\ adds' \in 1 .. MaxAdds /\ Finished = adds /\ Finished' = adds
  BY <1>1, ConstantTypes DEF IInv, TypeOK, Finished
<1>3. TypeOK'
  <2>1. Storage!TypeOK'
    BY <1>1, QuietService
  <2>2. req_buffer' \in Seq(Storage!Pairs)
    BY <1>1, EmptySeq
  <2>3. to_send' \in 0 .. NrCentres * MaxAdds
    <3>1. Cardinality(img) \in Nat /\ Cardinality(img) <= NrCentres
      BY ConstantTypes, PostedIs
    <3>2. \A a, b, n \in Nat : b >= 1 /\ n <= a => n <= a * b
      OBVIOUS
    <3>3. MaxAdds >= 1 /\ NrCentres * MaxAdds \in Nat
      BY <1>2, ConstantTypes
    <3>4. Cardinality(img) <= NrCentres * MaxAdds
      BY <3>1, <3>2, <3>3, ConstantTypes
    <3>5. QED
      BY <1>1, <3>1, <3>3, <3>4
  <2>4. centre_pos' \in 0 .. NrCentres /\ adds' \in 0 .. MaxAdds
    BY <1>1, <1>2, ConstantTypes
  <2>5. QED
    BY <1>1, <2>1, <2>2, <2>3, <2>4 DEF IInv, TypeOK
<1>4. LibraryInv'
  BY <1>1, <1>2 DEF IInv, LibraryInv, Plausible
<1>5. \A c \in Centres : HavingNow(c)' = HavingNow(c)
  BY <1>1, LabelIs DEF HavingNow, Having, PostedNow
<1>6. CountersInv'
  BY <1>1, <1>5 DEF IInv, CountersInv, Having
<1>7. AddInv'
  <2>1. Posted(img) \subseteq Nat
    BY PostedIs, LabelIs
  <2>2. {c \in Posted(img) : c >= 0} = Posted(img)
    BY <2>1
  <2>3. Cardinality({c \in Posted(img) : c >= 0}) = Cardinality(img)
    BY <2>2, PostedIs
  <2>4. QED
    BY <1>1, <2>3 DEF AddInv
<1>8. IdleInv' /\ RestInv' /\ WalkInv'
  BY <1>1 DEF IdleInv, RestInv, WalkInv
<1>9. ConnectionInv' /\ AnswerInv'
  BY <1>1, QuietService DEF IInv, ConnectionInv, AnswerInv
<1>10. RecordInv'
  BY <1>1, QuietService DEF IInv, RecordInv
<1>11. SentInv'
  <2>1. \A l \in Counted : Sent(l)
    BY <1>1, BetweenIs DEF IInv, SentInv, CountedAreSent, Sent
  <2>2. QED
    BY <1>1, <2>1, QuietService DEF IInv, SentInv, CountedAreSent, Counted, Sent
<1>12. HoldInv'
  <2>1. \A l, v : Pending(l, v)' <=> Pending(l, v)
    BY <1>1, QuietService DEF Pending
  <2>2. \A l, d : WillHold(l, d)' <=> WillHold(l, d)
    BY <1>1, <2>1, QuietService, SameHolds
  <2>3. Counted' = Counted
    BY <1>1 DEF Counted
  <2>4. QED
    BY <1>1, <1>5, <2>1, <2>2, <2>3 DEF IInv, HoldInv
<1>13. ScoreInv'
  BY <1>1 DEF ScoreInv
<1>14. QED
  BY <1>3, <1>4, <1>6, <1>7, <1>8, <1>9, <1>10, <1>11, <1>12, <1>13 DEF IInv

\* A turn of the add's loop: the counter counts the document, and its posting is
\* in the batch, under a label that nothing has.
LEMMA StepAddPosting == IInv /\ AddPosting => IInv'
<1> SUFFICES ASSUME IInv, AddPosting PROVE IInv'
  OBVIOUS
<1> USE ConstantTypes
<1>0. PICK p, n : p = centre_pos /\ n = counters[centre_pos]
  OBVIOUS
<1> DEFINE L == <<p, n>>
           S == {c \in Posted(image) : c >= p}
           q == NextCentre(image, p)
<1>1. /\ pc = "add" /\ to_send > 0 /\ to_send' = to_send - 1 /\ centre_pos' = q
      /\ req_buffer' = Append(req_buffer, [label |-> L, value |-> <<L, adds>>])
      /\ counters' = [counters EXCEPT ![p] = @ + 1]
      /\ UNCHANGED <<service, dumped, r, opened, total_docs, iee_data, pc, image, counter_pos,
                     scores, adds, library, sound>>
  BY <1>0 DEF AddPosting, history
<1>2. /\ image \in Images /\ to_send \in Nat /\ to_send = Cardinality(S)
      /\ p \in {0, NrCentres} \cup image
      /\ adds \in Docs /\ adds \in Nat
  BY <1>0, <1>1 DEF IInv, TypeOK, AddInv, LibraryInv, Docs
<1>3. IsFiniteSet(S) /\ S # {}
  BY <1>1, <1>2, PostedIs, FS_Subset, FS_EmptySet
<1>4. /\ p \in Posted(image) /\ p \in Centres /\ p \in S
      /\ q \in {NrCentres} \cup image /\ p < q
      /\ \A c \in Posted(image) : /\ c >= q <=> c >= p /\ c # p
                                  /\ c < q <=> c < p \/ c = p
  <2>1. PICK e \in Posted(image) : e >= p
    BY <1>3
  <2>2. /\ p \in Posted(image) /\ p \in Centres
        /\ q \in {NrCentres} \cup image /\ p < q
        /\ \A c \in Posted(image) : /\ c >= q <=> c >= p /\ c # p
                                    /\ c < q <=> c < p \/ c = p
    BY <1>2, <2>1, AddTurn
  <2>3. p \in S
    BY <2>2, LabelIs
  <2>4. QED
    BY <2>2, <2>3
<1> HIDE DEF q
<1>5. n \in Nat /\ n <= MaxAdds /\ counters'[p] = n + 1
      /\ \A c \in Centres : c # p => counters'[c] = counters[c]
  BY <1>0, <1>1, <1>4 DEF IInv, TypeOK
<1>6. /\ HavingNow(p)' = HavingNow(p) \cup {adds} /\ adds \notin HavingNow(p)
      /\ \A c \in Centres : c # p => HavingNow(c)' = HavingNow(c)
  <2>1. \A c \in Centres : PostedNow(c)' <=> PostedNow(c) \/ c = p
    BY <1>0, <1>1, <1>4 DEF PostedNow
  <2>2. library[adds] = {}
    <3>1. ~(adds <= adds - 1) /\ Finished = adds - 1
      BY <1>1, <1>2 DEF Finished
    <3>2. QED
      BY <1>2, <3>1 DEF IInv, LibraryInv, Plausible
  <2>3. adds \notin Having(library, p)
    BY <2>2 DEF Having, Posted
  <2>4. ~PostedNow(p)
    BY <1>0, <1>4, LabelIs DEF PostedNow
  <2>5. \A c : Having(library, c)' = Having(library, c)
    BY <1>1 DEF Having
  <2>6. QED
    BY <1>1, <1>2, <1>4, <2>1, <2>3, <2>4, <2>5 DEF HavingNow
<1>7. /\ Cardinality(HavingNow(p)') = n + 1 /\ n + 1 \in 0 .. MaxAdds
  <2>1. Cardinality(HavingNow(p)') = Cardinality(HavingNow(p)) + 1
    BY <1>6, HavingIs, FS_AddElement
  <2>2. Cardinality(HavingNow(p)) = n
    BY <1>0, <1>4 DEF IInv, CountersInv
  <2>3. HavingNow(p)' \subseteq Docs
    BY <1>2, <1>6, HavingIs
  <2>4. IsFiniteSet(Docs) /\ Cardinality(Docs) = MaxAdds
    BY FS_Interval DEF Docs
  <2>5. Cardinality(HavingNow(p)') <= MaxAdds
    BY <2>3, <2>4, FS_Subset
  <2>6. QED
    BY <1>5, <2>1, <2>2, <2>5
<1>8. L \in Labels /\ <<L, adds>> \in Values
      /\ [label |-> L, value |-> <<L, adds>>] \in Storage!Pairs
  BY <1>2, <1>4, <1>5, LabelIs DEF Values, Storage!Pairs
<1>9. /\ req_buffer \in Seq(Storage!Pairs) /\ req_buffer' \in Seq(Storage!Pairs)
      /\ \A x : (\E k \in DOMAIN req_buffer' : req_buffer'[k] = x) <=>
                   (\E k \in DOMAIN req_buffer : req_buffer[k] = x)
                     \/ x = [label |-> L, value |-> <<L, adds>>]
  <2>1. req_buffer \in Seq(Storage!Pairs)
    BY <1>1 DEF IInv, TypeOK
  <2> HIDE DEF L
  <2>2. /\ req_buffer' \in Seq(Storage!Pairs) /\ Len(req_buffer) \in Nat
        /\ DOMAIN req_buffer = 1 .. Len(req_buffer)
        /\ DOMAIN req_buffer' = 1 .. Len(req_buffer) + 1
        /\ \A k \in 1 .. Len(req_buffer) : req_buffer'[k] = req_buffer[k]
        /\ req_buffer'[Len(req_buffer) + 1] = [label |-> L, value |-> <<L, adds>>]
    BY <1>1, <1>8, <2>1, AppendProperties, LenProperties
  <2>3. \A m \in Nat : /\ m + 1 \in 1 .. m + 1 /\ 1 .. m \subseteq 1 .. m + 1
                       /\ \A k \in 1 .. m + 1 : k = m + 1 \/ k \in 1 .. m
    OBVIOUS
  <2>4. QED
    BY <2>1, <2>2, <2>3
<1>10. TypeOK'
  <2>1. Storage!TypeOK'
    BY <1>1, QuietService
  <2>2. counters' \in [Centres -> 0 .. MaxAdds]
    BY <1>1, <1>4, <1>5, <1>7 DEF IInv, TypeOK
  <2>3. to_send' \in 0 .. NrCentres * MaxAdds
    BY <1>1 DEF IInv, TypeOK
  <2>4. centre_pos' \in 0 .. NrCentres
    BY <1>1, <1>2, <1>4, LabelIs DEF Images
  <2>5. QED
    BY <1>1, <1>9, <2>1, <2>2, <2>3, <2>4 DEF IInv, TypeOK
<1>11. LibraryInv'
  BY <1>1 DEF IInv, LibraryInv, Plausible, Finished
<1>12. CountersInv'
  <2>1. \A c \in Centres : counters'[c] = Cardinality(HavingNow(c)')
    BY <1>5, <1>6, <1>7 DEF IInv, CountersInv
  <2>2. QED
    BY <1>1, <2>1 DEF IInv, CountersInv, Having
<1>13. AddInv'
  <2>1. {c \in Posted(image) : c >= q} = S \ {p}
    BY <1>4
  <2>2. Cardinality(S \ {p}) = Cardinality(S) - 1
    BY <1>3, <1>4, FS_RemoveElement
  <2>3. QED
    BY <1>1, <1>2, <1>4, <2>1, <2>2 DEF AddInv
<1>14. IdleInv' /\ RestInv' /\ WalkInv'
  BY <1>1 DEF IInv, IdleInv, RestInv, WalkInv
<1>15. ConnectionInv' /\ AnswerInv'
  BY <1>1, QuietService DEF IInv, ConnectionInv, AnswerInv
<1>16. RecordInv'
  BY <1>1, QuietService DEF IInv, RecordInv
<1>17. Counted' = Counted \cup {L} /\ L \notin Counted
  <2>1. \A l \in Labels : l[2] < counters'[l[1]] <=> l[2] < counters[l[1]] \/ l = L
    <3> SUFFICES ASSUME NEW l \in Labels
                 PROVE  l[2] < counters'[l[1]] <=> l[2] < counters[l[1]] \/ l = L
      OBVIOUS
    <3>1. /\ l[1] \in Centres /\ l[2] \in Nat /\ (l = L <=> l[1] = p /\ l[2] = n)
      BY LabelIs
    <3> HIDE DEF L
    <3>2. CASE l[1] = p
      BY <1>0, <1>5, <3>1, <3>2
    <3>3. CASE l[1] # p
      BY <1>5, <3>1, <3>3
    <3>4. QED
      BY <3>2, <3>3
  <2>2. ~(n < n) /\ L[1] = p /\ L[2] = n
    BY <1>5
  <2>3. L \notin Counted
    BY <1>0, <2>2 DEF Counted
  <2>4. QED
    BY <1>8, <2>1, <2>3 DEF Counted
<1>18. SentInv'
  <2>1. \A l : InBatch(l) \/ l = L => InBatch(l)'
    <3> SUFFICES ASSUME NEW l, InBatch(l) \/ l = L PROVE InBatch(l)'
      OBVIOUS
    <3>1. \E x : /\ (\E k \in DOMAIN req_buffer : req_buffer[k] = x)
                      \/ x = [label |-> L, value |-> <<L, adds>>]
                 /\ x.label = l
      <4>1. [label |-> L, value |-> <<L, adds>>].label = L
        OBVIOUS
      <4>2. CASE l = L
        BY <4>1, <4>2
      <4>3. CASE InBatch(l)
        BY <4>3 DEF InBatch
      <4>4. QED
        BY <4>2, <4>3
    <3>2. \E k \in DOMAIN req_buffer' : req_buffer'[k].label = l
      BY <1>9, <3>1
    <3>3. QED
      BY <1>1, <3>2 DEF InBatch
  <2>2. ASSUME NEW l \in Counted' PROVE Sent(l)' \/ InBatch(l)'
    BY <1>1, <1>17, <2>1, QuietService DEF IInv, SentInv, CountedAreSent, Sent
  <2>3. CountedAreSent'
    BY <2>2 DEF CountedAreSent, Sent
  <2>4. QED
    BY <1>1, <2>3, QuietService DEF IInv, SentInv
<1>19. \A l, v : Pending(l, v)' <=> Pending(l, v) \/ (l = L /\ v = <<L, adds>>)
  <2> SUFFICES ASSUME NEW l, NEW v
               PROVE  Pending(l, v)' <=> Pending(l, v) \/ (l = L /\ v = <<L, adds>>)
    OBVIOUS
  <2>1. [label |-> l, value |-> v] = [label |-> L, value |-> <<L, adds>>]
           <=> l = L /\ v = <<L, adds>>
    OBVIOUS
  <2> HIDE DEF L
  <2>2. QED
    BY <1>1, <1>9, <2>1, QuietService DEF Pending
<1>20. HoldInv'
  <2> SUFFICES ASSUME sound, r # None PROVE HoldInv'
    BY <1>1 DEF HoldInv
  <2>1. /\ \A l \in Labels, v \in Values : Pending(l, v) => l \in Counted
        /\ \A c \in Centres : \A d \in HavingNow(c) :
              \E m \in 0 .. counters[c] - 1 : WillHold(<<c, m>>, d)
    BY DEF IInv, HoldInv
  <2>2. \A l, d : l # L /\ WillHold(l, d) => WillHold(l, d)'
    BY <1>1, <1>19, QuietService DEF WillHold
  <2>3. WillHold(L, adds)'
    <3>1. PICK d, V : d = adds /\ V = <<L, adds>>
      OBVIOUS
    <3>2. adds' = adds
      BY <1>1
    <3> HIDE DEF L
    <3>3. \A v \in Values : Pending(L, v)' <=> v = V
      BY <1>8, <1>17, <1>19, <2>1, <3>1
    <3>4. V \in Values /\ V = <<L, d>>
      BY <1>8, <3>1
    <3>5. WillHold(L, d)'
      BY <3>3, <3>4 DEF WillHold
    <3>6. QED
      BY <3>1, <3>2, <3>5 DEF WillHold
  <2>4. ASSUME NEW c \in Centres, NEW d \in HavingNow(c)'
        PROVE  \E m \in 0 .. counters'[c] - 1 : WillHold(<<c, m>>, d)'
    <3>1. CASE d \in HavingNow(c)
      <4>1. PICK m \in 0 .. counters[c] - 1 : WillHold(<<c, m>>, d)
        BY <2>1, <3>1
      <4>2. counters[c] \in Nat /\ counters'[c] \in Nat /\ counters[c] <= counters'[c]
        BY <1>0, <1>5 DEF IInv, TypeOK
      <4>3. m \in 0 .. counters'[c] - 1 /\ m < counters[c] /\ m # counters[c]
        BY <4>2
      <4>4. <<c, m>> # L
        BY <1>0, <4>3
      <4>5. QED
        BY <2>2, <4>1, <4>3, <4>4
    <3>2. CASE d \notin HavingNow(c)
      <4>1. c = p /\ d = adds
        BY <1>6, <2>4, <3>2
      <4>2. n \in 0 .. counters'[c] - 1
        BY <1>5, <4>1
      <4>3. WillHold(<<c, n>>, d)'
        BY <1>1, <2>3, <4>1 DEF WillHold
      <4>4. QED
        BY <4>2, <4>3
    <3>3. QED
      BY <3>1, <3>2
  <2>5. ASSUME NEW l \in Labels, NEW v \in Values, Pending(l, v)' PROVE l \in Counted'
    BY <1>17, <1>19, <2>1, <2>5
  <2>6. QED
    BY <2>4, <2>5 DEF HoldInv
<1>21. ScoreInv'
  BY <1>1 DEF ScoreInv
<1>22. QED
  BY <1>10, <1>11, <1>12, <1>13, <1>14, <1>15, <1>16, <1>18, <1>20, <1>21 DEF IInv

\* ADD sends its batch: what was in the batch is on its way.
LEMMA StepSendAdd == IInv /\ SendAdd => IInv'
<1> SUFFICES ASSUME IInv, SendAdd PROVE IInv'
  OBVIOUS
<1> DEFINE q == Storage!AddRequest(req_buffer)
<1>1. /\ pc = "add" /\ Storage!Send(r, q) /\ req_buffer' = <<>>
      /\ UNCHANGED <<dumped, r, opened, counters, total_docs, iee_data, pc, image, to_send,
                     centre_pos, counter_pos, scores, adds, library, sound>>
  BY DEF SendAdd, repository, history
<1>2. /\ r \in Connections /\ r = opened /\ r # None /\ ~(r > opened)
      /\ req_buffer \in Seq(Storage!Pairs)
  BY <1>1, ConstantTypes DEF IInv, TypeOK, ConnectionInv
<1>3. q \in Storage!Request /\ q.op = "add" /\ q.pairs = req_buffer
  BY <1>2, RequestIs
<1> HIDE DEF q
<1>4. /\ requests' \in [Connections -> Seq(Storage!Request)]
      /\ UNCHANGED <<replies, I, recorded, running>>
      /\ \A c \in Connections : c # r => requests'[c] = requests[c]
      /\ \A m \in DOMAIN requests'[r] : \/ requests'[r][m] = q
                                        \/ /\ m \in DOMAIN requests[r]
                                           /\ requests'[r][m] = requests[r][m]
  <2>1. \A n \in Nat : \A m \in 1 .. n + 1 : m = n + 1 \/ m \in 1 .. n
    OBVIOUS
  <2>2. QED
    BY <1>1, <1>2, <1>3, <2>1, SendIs DEF IInv
<1>5. \A l, v : InRequests(l, v)' <=> InRequests(l, v) \/ Carries(q, l, v)
  BY <1>1, <1>2, <1>3, SendCarries DEF IInv
<1>6. \A l, v : Carries(q, l, v) <=>
                   \E k \in DOMAIN req_buffer : req_buffer[k] = [label |-> l, value |-> v]
  BY <1>3 DEF Carries
<1>7. TypeOK'
  <2>1. Storage!TypeOK'
    BY <1>4 DEF IInv, TypeOK, Storage!TypeOK
  <2>2. req_buffer' \in Seq(Storage!Pairs)
    BY <1>1, EmptySeq
  <2>3. QED
    BY <1>1, <2>1, <2>2 DEF IInv, TypeOK
<1>8. LibraryInv'
  BY <1>1 DEF IInv, LibraryInv, Plausible, Finished
<1>9. \A c : HavingNow(c)' = HavingNow(c)
  BY <1>1 DEF HavingNow, Having, PostedNow
<1>10. CountersInv'
  BY <1>1, <1>9 DEF IInv, CountersInv, Having
<1>11. IdleInv' /\ AddInv' /\ RestInv' /\ WalkInv'
  BY <1>1 DEF IInv, IdleInv, AddInv, RestInv, WalkInv
<1>12. ConnectionInv'
  BY <1>1, <1>2, <1>4 DEF IInv, ConnectionInv
<1>13. /\ replies[r] = <<>> /\ \A m \in DOMAIN requests'[r] : NotSearch(r, m)'
  <2>1. replies[r] = <<>> /\ \A m \in DOMAIN requests[r] : NotSearch(r, m)
    BY <1>1, <1>2 DEF IInv, AnswerInv
  <2>2. QED
    BY <1>1, <1>3, <1>4, <2>1 DEF NotSearch
<1>14. AnswerInv'
  BY <1>1, <1>4, <1>13 DEF AnswerInv
<1>15. RecordInv'
  <2>1. PICK s \in Connections : s = r
    BY <1>2
  <2>2. sound => \A c \in Connections : c # s => requests[c] = <<>>
    BY <1>2, <2>1 DEF IInv, RecordInv
  <2>3. QED
    BY <1>1, <1>2, <1>3, <2>1, <2>2, SendRecordInv
<1>16. \A l : Sent(l) \/ InBatch(l) => Sent(l)'
  <2>1. \A l : OnItsWay(l) => OnItsWay(l)'
    BY <1>4, <1>5, OnItsWayIs DEF IInv, TypeOK, Storage!TypeOK
  <2>2. ASSUME NEW l, InBatch(l) PROVE OnItsWay(l)'
    <3>1. PICK k \in DOMAIN req_buffer : req_buffer[k].label = l
      BY <2>2 DEF InBatch
    <3>2. req_buffer[k] \in Storage!Pairs
      BY <1>2, LenProperties, ElementOfSeq
    <3>3. PICK v \in Values : req_buffer[k] = [label |-> l, value |-> v]
      BY <3>1, <3>2 DEF Storage!Pairs
    <3>4. InRequests(l, v)'
      BY <1>5, <1>6, <3>3
    <3>5. QED
      BY <1>4, <3>4, OnItsWayIs DEF IInv, TypeOK, Storage!TypeOK
  <2>3. QED
    BY <1>4, <2>1, <2>2 DEF Sent
<1>17. SentInv'
  <2>1. CountedAreSent'
    BY <1>1, <1>16 DEF IInv, SentInv, CountedAreSent, Counted, Sent
  <2>2. QED
    BY <1>1, <1>16, <2>1 DEF IInv, SentInv
<1>18. HoldInv'
  <2>1. \A l, v : Pending(l, v)' <=> Pending(l, v)
    BY <1>1, <1>5, <1>6 DEF Pending
  <2>2. \A l, d : WillHold(l, d)' <=> WillHold(l, d)
    BY <1>4, <2>1, SameHolds
  <2>3. Counted' = Counted
    BY <1>1 DEF Counted
  <2>4. QED
    BY <1>1, <1>9, <2>1, <2>2, <2>3 DEF IInv, HoldInv
<1>19. ScoreInv'
  BY <1>1 DEF ScoreInv
<1>20. QED
  BY <1>7, <1>8, <1>10, <1>11, <1>12, <1>14, <1>15, <1>17, <1>18, <1>19 DEF IInv

\* ADD ends: every centre it was to post is posted, so the document is in the library.
LEMMA StepFinishAdd == IInv /\ FinishAdd => IInv'
<1> SUFFICES ASSUME IInv, FinishAdd PROVE IInv'
  OBVIOUS
<1>1. /\ pc = "add" /\ to_send = 0 /\ req_buffer = <<>>
      /\ total_docs' = total_docs + 1 /\ pc' = "idle" /\ image' = {} /\ centre_pos' = 0
      /\ library' = [library EXCEPT ![adds] = image]
      /\ UNCHANGED <<service, dumped, r, opened, counters, iee_data, to_send, counter_pos,
                     req_buffer, scores, adds, sound>>
  BY DEF FinishAdd, LoopDone
<1>2. /\ adds \in Docs /\ adds \in Nat /\ adds <= MaxAdds /\ image \in Images
      /\ Finished = adds - 1 /\ Finished' = adds
      /\ library \in [Docs -> Images] /\ total_docs \in Nat
  BY <1>1, ConstantTypes DEF IInv, TypeOK, LibraryInv, Docs, Finished
<1>3. /\ \A d \in Docs : library[d] # {} => d <= adds - 1
      /\ total_docs <= adds - 1
      /\ Cardinality({d \in Docs : library[d] # {}}) <= total_docs
  BY <1>2 DEF IInv, LibraryInv, Plausible
<1>4. /\ library'[adds] = image /\ library[adds] = {} /\ Posted(library[adds]) = {}
      /\ \A d \in Docs : d # adds => library'[d] = library[d]
  <2>1. ~(adds <= adds - 1)
    BY <1>2
  <2>2. QED
    BY <1>1, <1>2, <1>3, <2>1 DEF Posted
<1>5. \A c \in Posted(image) : c < centre_pos
  <2> DEFINE S == {c \in Posted(image) : c >= centre_pos}
  <2>1. Cardinality(S) = 0
    BY <1>1 DEF IInv, AddInv
  <2>2. IsFiniteSet(S)
    BY <1>2, PostedIs, FS_Subset
  <2>3. S = {}
    BY <2>1, <2>2, FS_EmptySet
  <2>4. \A c \in Posted(image) : ~(c >= centre_pos) /\ c \in Nat
    BY <1>2, <2>3, PostedIs, LabelIs
  <2>5. centre_pos \in Nat
    BY ConstantTypes DEF IInv, TypeOK
  <2>6. QED
    BY <2>4, <2>5
<1>6. \A c : HavingNow(c)' = HavingNow(c)
  <2>1. \A c : PostedNow(c) <=> c \in Posted(image)
    BY <1>1, <1>5 DEF PostedNow
  <2>2. \A c : ~PostedNow(c)'
    BY <1>1 DEF PostedNow
  <2>3. \A c : Having(library, c)' = Having(library, c) \cup {d \in Docs : d = adds /\ c \in Posted(image)}
    BY <1>2, <1>4 DEF Having
  <2>4. QED
    BY <1>1, <2>1, <2>2, <2>3 DEF HavingNow
<1>7. TypeOK'
  <2>1. Storage!TypeOK'
    BY <1>1, QuietService
  <2>2. total_docs' \in 0 .. MaxAdds /\ library' \in [Docs -> Images] /\ image' \in Images
    BY <1>1, <1>2, <1>3, ConstantTypes DEF Images
  <2>3. req_buffer' \in Seq(Labels) /\ centre_pos' \in 0 .. NrCentres
    BY <1>1, EmptySeq, ConstantTypes
  <2>4. QED
    BY <1>1, <2>1, <2>2, <2>3 DEF IInv, TypeOK
<1>8. LibraryInv'
  <2> DEFINE T == {d \in Docs : library[d] # {}}
             U == {d \in Docs : library'[d] # {}}
  <2>1. IsFiniteSet(Docs)
    BY ConstantTypes, FS_Interval DEF Docs
  <2>2. adds \notin T /\ IsFiniteSet(T) /\ Cardinality(T) \in Nat
    BY <1>4, <2>1, FS_Subset, FS_CardinalityType
  <2>3. IsFiniteSet(T \cup {adds}) /\ Cardinality(T \cup {adds}) = Cardinality(T) + 1
    BY <2>2, FS_AddElement
  <2>4. U \subseteq T \cup {adds}
    BY <1>4
  <2>5. Cardinality(U) <= Cardinality(T) + 1 /\ Cardinality(U) \in Nat
    BY <2>3, <2>4, FS_Subset, FS_CardinalityType
  <2>6. Cardinality(U) <= total_docs'
    BY <1>1, <1>2, <1>3, <2>2, <2>5
  <2>7. \A d \in Docs : library'[d] # {} => d <= adds
    <3>1. \A d \in Docs : d \in Nat /\ (d <= adds - 1 => d <= adds) /\ (d = adds => d <= adds)
      BY <1>2, ConstantTypes DEF Docs
    <3>2. QED
      BY <1>3, <1>4, <3>1
  <2>8. Plausible(total_docs, library)'
    BY <1>1, <1>2, <1>3, <2>6, <2>7 DEF Plausible
  <2>9. iee_data' # None => Plausible(iee_data.total_docs, iee_data.library)'
    BY <1>1, <1>2, SavedStays
  <2>10. QED
    BY <1>1, <2>8, <2>9 DEF LibraryInv
<1>9. CountersInv'
  BY <1>1, <1>6 DEF IInv, CountersInv, Having
<1>10. IdleInv' /\ AddInv' /\ RestInv' /\ WalkInv'
  BY <1>1 DEF IInv, IdleInv, AddInv, RestInv, WalkInv
<1>11. ConnectionInv' /\ AnswerInv'
  BY <1>1, QuietService DEF IInv, ConnectionInv, AnswerInv
<1>12. RecordInv'
  BY <1>1, QuietService DEF IInv, RecordInv
<1>13. SentInv'
  <2>1. \A l : ~InBatch(l)
    BY <1>1 DEF InBatch
  <2>2. \A l \in Counted : Sent(l)
    BY <2>1 DEF IInv, SentInv, CountedAreSent, Sent
  <2>3. QED
    BY <1>1, <2>2, QuietService DEF IInv, SentInv, CountedAreSent, Counted, Sent
<1>14. HoldInv'
  <2>1. \A l, v : Pending(l, v)' <=> Pending(l, v)
    BY <1>1, QuietService DEF Pending
  <2>2. \A l, d : WillHold(l, d)' <=> WillHold(l, d)
    BY <1>1, <2>1, QuietService, SameHolds
  <2>3. Counted' = Counted
    BY <1>1 DEF Counted
  <2>4. QED
    BY <1>1, <1>6, <2>1, <2>2, <2>3 DEF IInv, HoldInv
<1>15. ScoreInv'
  BY <1>1 DEF ScoreInv
<1>16. QED
  BY <1>7, <1>8, <1>9, <1>10, <1>11, <1>12, <1>13, <1>14, <1>15 DEF IInv

\* SEARCH begins: it has come to no label yet.
LEMMA StepSearchImage ==
    ASSUME IInv, NEW img \in Images, SearchImage(img)
    PROVE  IInv'
<1> USE ConstantTypes
<1> DEFINE q == Storage!StartSearchRequest
           W == {l \in Labels : l[1] \in img /\ l[2] < counters[l[1]]}
<1>0. PICK p : p = IF 0 \in img THEN 0 ELSE NextCentre(img, 0)
  OBVIOUS
<1>1. /\ pc = "idle" /\ r # None /\ Storage!Send(r, q)
      /\ pc' = "search" /\ image' = img /\ to_send' = Cardinality(W)
      /\ centre_pos' = p /\ counter_pos' = 0 /\ req_buffer = <<>> /\ scores = NoScores
      /\ UNCHANGED <<dumped, r, opened, counters, total_docs, iee_data, req_buffer, scores,
                     adds, library, sound>>
  BY <1>0 DEF SearchImage, Open, Idle, repository, history, IInv, IdleInv, RestInv
<1>2. r \in Connections /\ r = opened /\ ~(r > opened)
  BY <1>1 DEF IInv, TypeOK, ConnectionInv
<1>3. q \in Storage!Request /\ q.op = "start_search"
  BY RequestIs
<1> HIDE DEF q
<1>4. /\ Storage!TypeOK' /\ UNCHANGED <<replies, I, recorded, running>>
      /\ \A l : Sent(l)' <=> Sent(l)
      /\ \A l, v : InRequests(l, v)' <=> InRequests(l, v)
  BY <1>1, <1>2, <1>3, QuietSend
<1>5. /\ \A c \in Connections : c # r => requests'[c] = requests[c]
      /\ \A m \in DOMAIN requests'[r] : \/ requests'[r][m] = q
                                        \/ /\ m \in DOMAIN requests[r]
                                           /\ requests'[r][m] = requests[r][m]
  <2>1. \A n \in Nat : \A m \in 1 .. n + 1 : m = n + 1 \/ m \in 1 .. n
    OBVIOUS
  <2>2. QED
    BY <1>1, <1>2, <1>3, <2>1, SendIs DEF IInv
<1>6. p \in img \cup {NrCentres} /\ \A c \in img : ~(c < p) /\ c \in Centres
  <2>1. 0 \in Centres /\ img \subseteq Centres
    BY DEF Images, Centres
  <2>2. \A c \in img : c \in Nat
    BY <2>1, LabelIs
  <2>3. CASE 0 \in img
    BY <1>0, <2>1, <2>2, <2>3
  <2>4. CASE 0 \notin img
    <3>1. \/ p \in img /\ \A d \in img : 0 < d => p <= d
          \/ p = NrCentres /\ \A d \in img : d <= 0
      BY <1>0, <2>1, <2>4, NextCentreIs
    <3>2. \A d \in img : d # 0 /\ 0 < d
      BY <2>2, <2>4
    <3>3. CASE p \in img /\ \A d \in img : p <= d
      BY <2>1, <2>2, <3>3
    <3>4. CASE p = NrCentres /\ img = {}
      BY <3>4
    <3>5. QED
      BY <2>2, <3>1, <3>2, <3>3, <3>4
  <2>5. QED
    BY <2>3, <2>4
<1>7. Wanted' = W /\ Walked' = {}
  <2>1. Wanted' = W
    BY <1>1 DEF Wanted
  <2>2. \A l \in Walk' : l \in Labels /\ l[1] \in img /\ ~(l[1] < p) /\ ~(l[2] < 0)
    BY <1>1, <1>6, LabelIs DEF Walk
  <2>3. Walked' = {}
    BY <1>1, <2>2 DEF Walked, WalkedTo
  <2>4. QED
    BY <2>1, <2>3
<1>8. Cardinality(W) \in 0 .. NrCentres * MaxAdds
  BY WantedIs DEF IInv, TypeOK
<1>9. TypeOK'
  <2>1. req_buffer' \in Seq(Labels)
    BY <1>1, EmptySeq
  <2>2. centre_pos' \in 0 .. NrCentres /\ counter_pos' \in 0 .. MaxAdds
    BY <1>1, <1>6, LabelIs
  <2>3. QED
    BY <1>1, <1>4, <1>8, <2>1, <2>2 DEF IInv, TypeOK
<1>10. LibraryInv'
  BY <1>1 DEF IInv, LibraryInv, Plausible, Finished
<1>11. \A c : HavingNow(c)' = HavingNow(c)
  BY <1>1 DEF HavingNow, Having, PostedNow
<1>12. CountersInv'
  BY <1>1, <1>11 DEF IInv, CountersInv, Having
<1>13. IdleInv' /\ AddInv' /\ RestInv'
  BY <1>1 DEF IdleInv, AddInv, RestInv
<1>14. WalkInv'
  <2>1. to_send' + Cardinality(Walked') = Cardinality(Wanted')
    BY <1>1, <1>7, <1>8, FS_EmptySet
  <2>2. ASSUME p \in img PROVE <<p, 0>> \in Walk'
    <3>1. <<p, 0>> \in Labels
      BY <1>6, <2>2, LabelIs
    <3>2. QED
      BY <1>1, <2>2, <3>1 DEF Walk
  <2>3. QED
    BY <1>1, <1>6, <2>1, <2>2 DEF WalkInv
<1>15. ConnectionInv'
  BY <1>1, <1>2, <1>4, <1>5 DEF IInv, ConnectionInv
<1>16. /\ replies[r] = <<>> /\ \A m \in DOMAIN requests'[r] : NotSearch(r, m)'
  <2>1. replies[r] = <<>> /\ \A m \in DOMAIN requests[r] : NotSearch(r, m)
    BY <1>1, <1>2 DEF IInv, AnswerInv
  <2>2. QED
    BY <1>1, <1>3, <1>5, <2>1 DEF NotSearch
<1>17. AnswerInv'
  BY <1>1, <1>4, <1>16 DEF AnswerInv
<1>18. RecordInv'
  <2>1. PICK s \in Connections : s = r
    BY <1>2
  <2>2. sound => \A c \in Connections : c # s => requests[c] = <<>>
    BY <1>2, <2>1 DEF IInv, RecordInv
  <2>3. QED
    BY <1>1, <1>2, <1>3, <2>1, <2>2, SendRecordInv
<1>19. SentInv'
  <2>1. \A l : ~InBatch(l)
    BY <1>1 DEF InBatch
  <2>2. QED
    BY <1>1, <1>4, <2>1 DEF IInv, SentInv, CountedAreSent, Counted, Sent
<1>20. HoldInv'
  <2>1. \A l, v : Pending(l, v)' <=> Pending(l, v)
    BY <1>1, <1>4 DEF Pending
  <2>2. \A l, d : WillHold(l, d)' <=> WillHold(l, d)
    BY <1>4, <2>1, SameHolds
  <2>3. Counted' = Counted
    BY <1>1 DEF Counted
  <2>4. QED
    BY <1>1, <1>11, <2>1, <2>2, <2>3 DEF IInv, HoldInv
<1>21. ScoreInv'
  <2>1. Answered' = {}
    BY <1>7 DEF Answered
  <2>2. QED
    BY <1>1, <2>1 DEF ScoreInv, NoScores
<1>22. QED
  BY <1>9, <1>10, <1>12, <1>13, <1>14, <1>15, <1>17, <1>18, <1>19, <1>20, <1>21 DEF IInv

\* A turn of the search's loop: one label more is in the batch, and none twice.
LEMMA StepRequestLabel == IInv /\ RequestLabel => IInv'
<1> SUFFICES ASSUME IInv, RequestLabel PROVE IInv'
  OBVIOUS
<1> USE ConstantTypes
<1>0. PICK p, n, L : p = centre_pos' /\ n = counter_pos' /\ L = <<centre_pos, counter_pos>>
  OBVIOUS
<1>1. /\ pc = "search" /\ to_send > 0 /\ to_send' = to_send - 1
      /\ req_buffer' = Append(req_buffer, L)
      /\ IF counter_pos + 1 >= counters[centre_pos]
         THEN n = 0 /\ p = NextCentre(image, centre_pos)
         ELSE n = counter_pos + 1 /\ p = centre_pos
      /\ UNCHANGED <<service, dumped, r, opened, counters, total_docs, iee_data, pc, image,
                     scores, adds, library, sound>>
  BY <1>0 DEF RequestLabel, repository, history
<1>2. /\ L \in Walk /\ L \notin Walked /\ WalkedTo(p, n) = Walked \cup {L}
      /\ p \in image \cup {NrCentres}
      /\ p \in image => <<p, n>> \in Walk
      /\ p = NrCentres => n = 0
  <2>1. TypeOK /\ WalkInv /\ pc \in {"search", "await"} /\ to_send > 0
    BY <1>1 DEF IInv
  <2>2. IF counter_pos + 1 >= counters[centre_pos]
        THEN n = 0 /\ p = NextCentre(image, centre_pos)
        ELSE n = counter_pos + 1 /\ p = centre_pos
    BY <1>1
  <2>3. QED
    BY <1>0, <2>1, <2>2, WalkTurn
<1>3. /\ Wanted' = Wanted /\ Walk' = Walk /\ Walked' = Walked \cup {L}
  <2>1. Wanted' = Wanted /\ Walk' = Walk
    BY <1>1 DEF Wanted, Walk
  <2>2. Walked' = WalkedTo(p, n)
    BY <1>0, <2>1 DEF Walked, WalkedTo
  <2>3. QED
    BY <1>2, <2>1, <2>2
<1>4. /\ L \in Labels /\ req_buffer \in Seq(Labels) /\ req_buffer' \in Seq(Labels)
      /\ Len(req_buffer) \in Nat
      /\ DOMAIN req_buffer = 1 .. Len(req_buffer)
      /\ DOMAIN req_buffer' = 1 .. Len(req_buffer) + 1
      /\ \A k \in 1 .. Len(req_buffer) : req_buffer'[k] = req_buffer[k]
      /\ req_buffer'[Len(req_buffer) + 1] = L
  <2>1. L \in Labels /\ req_buffer \in Seq(Labels)
    BY <1>1, <1>2, WalkIs DEF IInv, TypeOK
  <2>2. QED
    BY <1>1, <2>1, AppendProperties, LenProperties
<1>5. PICK N \in Nat : N = Len(req_buffer)
  BY <1>4
<1>6. /\ N + 1 \in 1 .. N + 1 /\ 1 .. N \subseteq 1 .. N + 1
      /\ \A k \in 1 .. N + 1 : k = N + 1 \/ k \in 1 .. N
  OBVIOUS
<1>7. TypeOK'
  <2>1. Storage!TypeOK'
    BY <1>1, QuietService
  <2>2. to_send' \in 0 .. NrCentres * MaxAdds
    BY <1>1 DEF IInv, TypeOK
  <2>3. p \in 0 .. NrCentres
    BY <1>2, LabelIs DEF IInv, TypeOK, Images
  <2>4. n \in 0 .. MaxAdds
    <3>1. CASE p \in image
      <4>1. <<p, n>> \in Labels
        BY <1>2, <3>1, WalkIs DEF IInv
      <4>2. QED
        BY <4>1 DEF Labels
    <3>2. QED
      BY <1>2, <3>1
  <2>5. QED
    BY <1>0, <1>1, <1>4, <2>1, <2>2, <2>3, <2>4 DEF IInv, TypeOK
<1>8. LibraryInv'
  BY <1>1 DEF IInv, LibraryInv, Plausible, Finished
<1>9. \A c : HavingNow(c)' = HavingNow(c)
  BY <1>1 DEF HavingNow, Having, PostedNow
<1>10. CountersInv'
  BY <1>1, <1>9 DEF IInv, CountersInv, Having
<1>11. IdleInv' /\ AddInv' /\ RestInv'
  BY <1>1 DEF IdleInv, AddInv, RestInv
<1>12. WalkInv'
  <2>1. to_send' + Cardinality(Walked') = Cardinality(Wanted')
    <3>1. IsFiniteSet(Walked) /\ Cardinality(Walked) \in Nat
      BY WalkIs DEF IInv, Walked
    <3>2. Cardinality(Walked \cup {L}) = Cardinality(Walked) + 1
      BY <1>2, <3>1, FS_AddElement
    <3>3. to_send + Cardinality(Walked) = Cardinality(Wanted) /\ to_send \in Nat
      BY <1>1 DEF IInv, WalkInv, TypeOK
    <3>4. QED
      BY <1>1, <1>3, <3>1, <3>2, <3>3
  <2>2. \A k \in 1 .. N : req_buffer[k] \in Walked /\ req_buffer[k] # L
    BY <1>1, <1>2, <1>4, <1>5 DEF IInv, WalkInv
  <2>3. \A k, h \in 1 .. N : req_buffer[h] = req_buffer[k] => h = k
    BY <1>1, <1>4, <1>5 DEF IInv, WalkInv
  <2>4. ASSUME NEW k \in DOMAIN req_buffer'
        PROVE  /\ req_buffer'[k] \in Walked'
               /\ \A h \in DOMAIN req_buffer' : req_buffer'[h] = req_buffer'[k] => h = k
    BY <1>3, <1>4, <1>5, <1>6, <2>2, <2>3
  <2>5. QED
    BY <1>0, <1>1, <1>2, <1>3, <2>1, <2>4 DEF WalkInv
<1>13. ConnectionInv' /\ AnswerInv'
  BY <1>1, QuietService DEF IInv, ConnectionInv, AnswerInv
<1>14. RecordInv'
  BY <1>1, QuietService DEF IInv, RecordInv
<1>15. SentInv'
  <2>1. \A l : ~InBatch(l)
    BY <1>1 DEF InBatch
  <2>2. QED
    BY <1>1, <2>1, QuietService DEF IInv, SentInv, CountedAreSent, Counted, Sent
<1>16. \A l, v : Pending(l, v)' <=> Pending(l, v)
  BY <1>1, QuietService DEF Pending
<1>17. \A l, d : WillHold(l, d)' <=> WillHold(l, d)
  BY <1>1, <1>16, QuietService, SameHolds
<1>18. HoldInv'
  <2>1. Counted' = Counted
    BY <1>1 DEF Counted
  <2>2. QED
    BY <1>1, <1>9, <1>16, <1>17, <2>1 DEF IInv, HoldInv
<1>19. ScoreInv'
  <2>1. Answered' = Answered
    <3>1. \A l : (\E k \in DOMAIN req_buffer' : req_buffer'[k] = l) <=>
                    (\E k \in DOMAIN req_buffer : req_buffer[k] = l) \/ l = L
      BY <1>4, <1>5, <1>6
    <3>2. QED
      BY <1>2, <1>3, <3>1 DEF Answered
  <2>2. QED
    BY <1>1, <1>17, <2>1 DEF IInv, ScoreInv
<1>20. QED
  BY <1>7, <1>8, <1>10, <1>11, <1>12, <1>13, <1>14, <1>15, <1>18, <1>19 DEF IInv

\* SEARCH sends its batch: the last request of the connection, with a record before it.
LEMMA StepSendSearch == IInv /\ SendSearch => IInv'
<1> SUFFICES ASSUME IInv, SendSearch PROVE IInv'
  OBVIOUS
<1> USE ConstantTypes
<1> DEFINE q == Storage!SearchRequest(req_buffer)
<1>1. /\ pc = "search" /\ pc' = "await" /\ req_buffer # <<>> /\ Storage!Send(r, q)
      /\ UNCHANGED <<dumped, r, opened, counters, total_docs, iee_data, image, to_send,
                     centre_pos, counter_pos, req_buffer, scores, adds, library, sound>>
  BY DEF SendSearch, BatchFull, repository, loop, history
<1>2. /\ r \in Connections /\ r = opened /\ ~(r > opened) /\ r # None
      /\ req_buffer \in Seq(Labels)
  BY <1>1 DEF IInv, TypeOK, ConnectionInv
<1>3. q \in Storage!Request /\ q.op = "search"
  BY <1>2, RequestIs
<1>4. q' = q
  BY <1>1 DEF Storage!SearchRequest
<1> HIDE DEF q
<1>5. /\ Storage!TypeOK' /\ UNCHANGED <<replies, I, recorded, running>>
      /\ \A l : Sent(l)' <=> Sent(l)
      /\ \A l, v : InRequests(l, v)' <=> InRequests(l, v)
  BY <1>1, <1>2, <1>3, QuietSend
<1>6. PICK N \in Nat : N = Len(requests[r])
  BY <1>1, <1>2, <1>3, SendIs DEF IInv
<1>7. /\ \A c \in Connections : c # r => requests'[c] = requests[c]
      /\ requests'[r] # <<>> /\ Len(requests'[r]) = N + 1 /\ requests'[r][N + 1] = q
      /\ DOMAIN requests'[r] = 1 .. N + 1 /\ DOMAIN requests[r] = 1 .. N
      /\ \A m \in 1 .. N : requests'[r][m] = requests[r][m]
  BY <1>1, <1>2, <1>3, <1>6, SendIs DEF IInv
<1>8. /\ (N + 1) - 1 = N /\ 1 .. N \subseteq 1 .. N + 1 /\ N + 1 \in 1 .. N + 1
      /\ \A k \in 1 .. N + 1 : k = N + 1 \/ k \in 1 .. N
  OBVIOUS
<1>9. TypeOK'
  BY <1>1, <1>5 DEF IInv, TypeOK
<1>10. LibraryInv'
  BY <1>1 DEF IInv, LibraryInv, Plausible, Finished
<1>11. \A c : HavingNow(c)' = HavingNow(c)
  BY <1>1 DEF HavingNow, Having, PostedNow
<1>12. CountersInv'
  BY <1>1, <1>11 DEF IInv, CountersInv, Having
<1>13. IdleInv' /\ AddInv' /\ RestInv'
  BY <1>1 DEF IdleInv, AddInv, RestInv
<1>14. Walked' = Walked /\ Wanted' = Wanted /\ Walk' = Walk
  BY <1>1 DEF Walked, WalkedTo, Wanted, Walk
<1>15. WalkInv'
  BY <1>1, <1>14 DEF IInv, WalkInv
<1>16. ConnectionInv'
  BY <1>1, <1>2, <1>5, <1>7 DEF IInv, ConnectionInv
<1>17. replies[r] = <<>> /\ \A m \in 1 .. N : NotSearch(r, m) /\ NotSearch(r, m)'
  <2>1. replies[r] = <<>> /\ \A m \in 1 .. N : NotSearch(r, m)
    BY <1>1, <1>2, <1>7 DEF IInv, AnswerInv
  <2>2. QED
    BY <1>1, <1>7, <2>1 DEF NotSearch
<1>18. AnswerInv'
  <2>1. /\ requests'[r'] # <<>> /\ replies'[r'] = <<>>
        /\ requests'[r'][Len(requests'[r'])] = q'
        /\ \A m \in 1 .. Len(requests'[r']) - 1 : NotSearch(r, m)'
    BY <1>1, <1>4, <1>5, <1>7, <1>8, <1>17
  <2>2. QED
    BY <1>1, <2>1 DEF AnswerInv, q
<1>19. RecordInv'
  <2>1. PICK s \in Connections : s = r
    BY <1>2
  <2>2. sound => \A c \in Connections : c # s => requests[c] = <<>>
    BY <1>2, <2>1 DEF IInv, RecordInv
  <2>3. running => RecordedAt(s, Len(requests[s]) + 1)
    BY <1>1, <2>1 DEF IInv, RecordInv
  <2>4. QED
    BY <1>1, <1>2, <1>3, <2>1, <2>2, <2>3, SendRecordInv
<1>20. SentInv'
  <2>1. \A l : ~InBatch(l)
    BY <1>1 DEF InBatch
  <2>2. QED
    BY <1>1, <1>5, <2>1 DEF IInv, SentInv, CountedAreSent, Counted, Sent
<1>21. \A l, v : Pending(l, v)' <=> Pending(l, v)
  BY <1>1, <1>5 DEF Pending
<1>22. \A l, d : WillHold(l, d)' <=> WillHold(l, d)
  BY <1>5, <1>21, SameHolds
<1>23. HoldInv'
  <2>1. Counted' = Counted
    BY <1>1 DEF Counted
  <2>2. QED
    BY <1>1, <1>11, <1>21, <1>22, <2>1 DEF IInv, HoldInv
<1>24. ScoreInv'
  <2>1. Answered' = Answered
    BY <1>1, <1>14 DEF Answered
  <2>2. QED
    BY <1>1, <1>5, <1>17, <1>22, <2>1 DEF IInv, ScoreInv
<1>25. QED
  BY <1>9, <1>10, <1>12, <1>13, <1>15, <1>16, <1>18, <1>19, <1>20, <1>23, <1>24 DEF IInv

\* SEARCH takes an answer: each posting found is added up for its centre, once.
LEMMA StepReceiveAnswer == IInv /\ ReceiveAnswer => IInv'
<1> SUFFICES ASSUME IInv, ReceiveAnswer PROVE IInv'
  OBVIOUS
<1> USE ConstantTypes
<1> DEFINE answer == replies[r][1]
           Of(c, d) == {k \in DOMAIN answer : req_buffer[k][1] = c /\ answer[k][2] = d}
<1>1. /\ pc = "await" /\ pc' = "search" /\ req_buffer' = <<>>
      /\ replies[r] # <<>> /\ replies' = [replies EXCEPT ![r] = Tail(@)]
      /\ UNCHANGED <<requests, I, recorded, running>>
      /\ UNCHANGED <<dumped, r, opened, counters, total_docs, iee_data, image, to_send,
                     centre_pos, counter_pos, adds, library, sound>>
  BY DEF ReceiveAnswer, Storage!Receive, repository, history
<1>2. r \in Connections /\ r # None /\ r = opened
  BY <1>1 DEF IInv, TypeOK, ConnectionInv
<1>3. requests[r] = <<>> /\ Len(replies[r]) = 1 /\ Len(answer) = Len(req_buffer)
  BY <1>1, <1>2 DEF IInv, AnswerInv
<1>4. /\ replies[r] \in Seq(Seq(Values)) /\ req_buffer \in Seq(Labels)
      /\ replies \in [Connections -> Seq(Seq(Values))]
  BY <1>1, <1>2 DEF IInv, TypeOK, Storage!TypeOK
<1>5. /\ answer \in Seq(Values) /\ Head(replies[r]) = answer
      /\ DOMAIN answer = 1 .. Len(answer) /\ DOMAIN req_buffer = DOMAIN answer
      /\ Len(answer) \in Nat
  <2>1. answer \in Seq(Values) /\ Head(replies[r]) = answer
    BY <1>1, <1>3, <1>4, ElementOfSeq
  <2>2. QED
    BY <1>3, <1>4, <2>1, LenProperties
<1>6. replies'[r] = <<>> /\ \A c \in Connections : c # r => replies'[c] = replies[c]
  <2>1. Tail(replies[r]) \in Seq(Seq(Values)) /\ Len(Tail(replies[r])) = 0
    BY <1>1, <1>3, <1>4, HeadTailProperties
  <2>2. Tail(replies[r]) = <<>>
    BY <2>1, EmptySeq
  <2>3. QED
    BY <1>1, <1>2, <1>4, <2>2
<1>7. /\ \A k \in DOMAIN answer : answer[k][1] = req_buffer[k]
      /\ scores' = [p \in DOMAIN scores |-> scores[p] + Cardinality(Of(p[1], p[2]))]
  BY <1>5 DEF ReceiveAnswer
<1>8. \A c, d : IsFiniteSet(Of(c, d)) /\ Cardinality(Of(c, d)) \in Nat
  <2>1. IsFiniteSet(DOMAIN answer)
    <3>1. PICK n \in Nat : DOMAIN answer = 1 .. n
      BY <1>5
    <3>2. IsFiniteSet(1 .. n)
      BY <3>1, FS_Interval
    <3>3. QED
      BY <3>1, <3>2
  <2>2. QED
    BY <2>1, FS_Subset, FS_CardinalityType
<1>9. /\ scores \in [Centres \X Docs -> Nat] /\ scores' \in [Centres \X Docs -> Nat]
      /\ \A c \in Centres, d \in Docs :
            scores'[<<c, d>>] = scores[<<c, d>>] + Cardinality(Of(c, d))
  <2> HIDE DEF Of
  <2>1. scores \in [Centres \X Docs -> Nat]
    BY DEF IInv, TypeOK
  <2>2. QED
    BY <1>7, <1>8, <2>1
<1> HIDE DEF Of, answer
<1>10. TypeOK'
  <2>1. replies' \in [Connections -> Seq(Seq(Values))]
    BY <1>1, <1>4, <1>6, EmptySeq
  <2>2. Storage!TypeOK'
    BY <1>1, <2>1 DEF IInv, TypeOK, Storage!TypeOK
  <2>3. req_buffer' \in Seq(Labels)
    BY <1>1, EmptySeq
  <2>4. QED
    BY <1>1, <1>9, <2>2, <2>3 DEF IInv, TypeOK
<1>11. LibraryInv'
  BY <1>1 DEF IInv, LibraryInv, Plausible, Finished
<1>12. \A c : HavingNow(c)' = HavingNow(c)
  BY <1>1 DEF HavingNow, Having, PostedNow
<1>13. CountersInv'
  BY <1>1, <1>12 DEF IInv, CountersInv, Having
<1>14. IdleInv' /\ AddInv' /\ RestInv'
  BY <1>1 DEF IdleInv, AddInv, RestInv
<1>15. Walked' = Walked /\ Wanted' = Wanted /\ Walk' = Walk
  BY <1>1 DEF Walked, WalkedTo, Wanted, Walk
<1>16. WalkInv'
  BY <1>1, <1>15 DEF IInv, WalkInv
<1>17. ConnectionInv'
  BY <1>1, <1>2, <1>6 DEF IInv, ConnectionInv
<1>18. AnswerInv'
  BY <1>1, <1>3, <1>6 DEF AnswerInv
<1>19. \A s, m : /\ NotSearch(s, m)' <=> NotSearch(s, m)
                 /\ RecordedAt(s, m)' <=> RecordedAt(s, m)
  BY <1>1 DEF NotSearch, RecordedAt
<1>20. RecordInv'
  BY <1>1, <1>19 DEF IInv, RecordInv
<1>21. SentInv'
  BY <1>1 DEF IInv, SentInv, CountedAreSent, Counted, Sent, OnItsWay, InBatch
<1>22. \A l, v : Pending(l, v)' <=> Pending(l, v)
  BY <1>1 DEF Pending, InRequests
<1>23. \A l, d : WillHold(l, d)' <=> WillHold(l, d)
  BY <1>1, <1>22, SameHolds
<1>24. HoldInv'
  <2>1. Counted' = Counted
    BY <1>1 DEF Counted
  <2>2. QED
    BY <1>1, <1>12, <1>22, <1>23, <2>1 DEF IInv, HoldInv
<1>25. ScoreInv'
  <2> SUFFICES ASSUME sound, \A c \in image : counters[c] > 0,
                      NEW c \in Centres, NEW d \in Docs
               PROVE  scores'[<<c, d>>] = IF \E l \in Answered' : l[1] = c /\ WillHold(l, d)
                                          THEN 1 ELSE 0
    BY <1>1, <1>23 DEF ScoreInv
  <2>1. \A l \in Labels : WillHold(l, d) <=> I[l] = <<l, d>>
    <3>1. \A s \in Connections : requests[s] = <<>>
      BY <1>2, <1>3 DEF IInv, RecordInv
    <3>2. \A l, v : ~Pending(l, v)
      BY <1>1, <3>1 DEF Pending, InRequests
    <3>3. QED
      BY <3>2 DEF WillHold
  <2>2. \A k \in DOMAIN answer : /\ req_buffer[k] \in Labels /\ req_buffer[k] \in Walked
                                 /\ answer[k][2] = d <=> WillHold(req_buffer[k], d)
    <3> SUFFICES ASSUME NEW k \in DOMAIN answer
                 PROVE  /\ req_buffer[k] \in Labels /\ req_buffer[k] \in Walked
                        /\ answer[k][2] = d <=> WillHold(req_buffer[k], d)
      OBVIOUS
    <3>1. req_buffer[k] \in Labels
      BY <1>4, <1>5, LenProperties, ElementOfSeq
    <3>2. answer[k] \in Values
      BY <1>5, ElementOfSeq
    <3>3. answer[k] = <<req_buffer[k], answer[k][2]>>
      BY <1>7, <3>2 DEF Values
    <3>4. answer[k] = I[req_buffer[k]]
      BY <1>1, <1>5 DEF IInv, ScoreInv, answer
    <3>5. req_buffer[k] \in Walked
      BY <1>1, <1>5 DEF IInv, WalkInv
    <3>6. QED
      BY <2>1, <3>1, <3>3, <3>4, <3>5
  <2>3. \A l \in Walked : /\ l \in Labels /\ l = <<l[1], l[2]>>
                          /\ l[2] \in 0 .. counters[l[1]] - 1
    <3> SUFFICES ASSUME NEW l \in Walked
                 PROVE  /\ l \in Labels /\ l = <<l[1], l[2]>>
                        /\ l[2] \in 0 .. counters[l[1]] - 1
      OBVIOUS
    <3>1. l \in Labels /\ l[1] \in image /\ (l[2] = 0 \/ l[2] < counters[l[1]])
      BY DEF Walked, WalkedTo, Walk
    <3>2. counters[l[1]] \in Nat /\ counters[l[1]] > 0 /\ l[2] \in Nat
      BY <3>1, LabelIs DEF IInv, TypeOK
    <3>3. QED
      BY <3>1, <3>2, LabelIs
  <2>4. \A l, m \in Walked : l[1] = c /\ m[1] = c /\ WillHold(l, d) /\ WillHold(m, d) => l = m
    <3>1. \A i, j \in 0 .. counters[c] - 1 :
             WillHold(<<c, i>>, d) /\ WillHold(<<c, j>>, d) => i = j
      BY <1>2, EveryLabelHeld
    <3>2. QED
      BY <2>3, <3>1
  <2>5. /\ \A k \in DOMAIN answer : k \in Of(c, d) <=> req_buffer[k][1] = c /\ WillHold(req_buffer[k], d)
        /\ Of(c, d) \subseteq DOMAIN answer
    BY <2>2 DEF Of
  <2>6. scores[<<c, d>>] = IF \E l \in Answered : l[1] = c /\ WillHold(l, d) THEN 1 ELSE 0
    BY <1>1 DEF IInv, ScoreInv
  <2>7. /\ Answered' = Walked
        /\ Answered \subseteq Walked
        /\ \A l \in Walked : l \in Answered \/ \E k \in DOMAIN answer : req_buffer[k] = l
        /\ \A l \in Answered, k \in DOMAIN answer : req_buffer[k] # l
    BY <1>1, <1>5, <1>15 DEF Answered
  <2>8. CASE Of(c, d) = {}
    <3>1. scores'[<<c, d>>] = scores[<<c, d>>]
      <4>1. scores'[<<c, d>>] = scores[<<c, d>>] + 0 /\ scores[<<c, d>>] \in Nat
        BY <1>9, <2>8, FS_EmptySet
      <4>2. QED
        BY <4>1
    <3>2. (\E l \in Answered' : l[1] = c /\ WillHold(l, d)) <=>
             \E l \in Answered : l[1] = c /\ WillHold(l, d)
      BY <2>5, <2>7, <2>8
    <3>3. QED
      BY <2>6, <3>1, <3>2
  <2>9. CASE Of(c, d) # {}
    <3>1. PICK k \in Of(c, d) : TRUE
      BY <2>9
    <3>2. k \in DOMAIN answer /\ req_buffer[k][1] = c /\ WillHold(req_buffer[k], d)
      BY <2>5, <3>1
    <3>3. \A h \in Of(c, d) : h = k
      <4>1. \A h \in Of(c, d) : req_buffer[h] = req_buffer[k]
        BY <2>2, <2>4, <2>5, <3>2
      <4>2. QED
        BY <1>1, <1>5, <2>5, <3>2, <4>1 DEF IInv, WalkInv
    <3>4. Of(c, d) = {k}
      BY <3>1, <3>3
    <3>5. scores'[<<c, d>>] = scores[<<c, d>>] + 1
      BY <1>9, <3>4, FS_Singleton
    <3>6. ~\E l \in Answered : l[1] = c /\ WillHold(l, d)
      BY <2>2, <2>4, <2>7, <3>2
    <3>7. \E l \in Answered' : l[1] = c /\ WillHold(l, d)
      BY <2>2, <2>7, <3>2
    <3>8. QED
      BY <2>6, <3>5, <3>6, <3>7
  <2>10. QED
    BY <2>8, <2>9
<1>26. QED
  BY <1>10, <1>11, <1>13, <1>14, <1>16, <1>17, <1>18, <1>20, <1>21, <1>24, <1>25 DEF IInv

\* SEARCH ends.
LEMMA StepRespond == IInv /\ Respond => IInv'
<1> SUFFICES ASSUME IInv, Respond PROVE IInv'
  OBVIOUS
<1>1. /\ pc = "search" /\ to_send = 0 /\ req_buffer = <<>>
      /\ pc' = "idle" /\ image' = {} /\ centre_pos' = 0 /\ counter_pos' = 0
      /\ scores' = NoScores
      /\ UNCHANGED <<service, dumped, r, opened, counters, total_docs, iee_data, to_send,
                     req_buffer, adds, library, sound>>
  BY DEF Respond, LoopDone, repository, history
<1>2. TypeOK'
  <2>1. /\ scores' \in [Centres \X Docs -> Nat] /\ image' \in Images
        /\ req_buffer' \in Seq(Labels)
        /\ 0 \in 0 .. NrCentres /\ 0 \in 0 .. MaxAdds
    BY <1>1, ConstantTypes, EmptySeq DEF NoScores, Images
  <2>2. Storage!TypeOK'
    BY <1>1, QuietService
  <2>3. QED
    BY <1>1, <2>1, <2>2 DEF IInv, TypeOK
<1>3. LibraryInv'
  BY <1>1 DEF IInv, LibraryInv, Plausible, Finished
<1>4. \A c : HavingNow(c)' = HavingNow(c)
  BY <1>1 DEF HavingNow, Having, PostedNow
<1>5. CountersInv'
  BY <1>1, <1>4 DEF IInv, CountersInv, Having
<1>6. IdleInv' /\ AddInv' /\ RestInv' /\ WalkInv'
  BY <1>1 DEF IdleInv, AddInv, RestInv, WalkInv
<1>7. ConnectionInv' /\ AnswerInv'
  BY <1>1, QuietService DEF IInv, ConnectionInv, AnswerInv
<1>8. RecordInv'
  BY <1>1, QuietService DEF IInv, RecordInv
<1>9. SentInv'
  <2>1. \A l : ~InBatch(l)
    BY <1>1 DEF InBatch
  <2>2. QED
    BY <1>1, <2>1, QuietService DEF IInv, SentInv, CountedAreSent, Counted, Sent
<1>10. HoldInv'
  <2>1. \A l, v : Pending(l, v)' <=> Pending(l, v)
    BY <1>1, QuietService DEF Pending
  <2>2. \A l, d : WillHold(l, d)' <=> WillHold(l, d)
    BY <1>1, <2>1, QuietService, SameHolds
  <2>3. Counted' = Counted
    BY <1>1 DEF Counted
  <2>4. QED
    BY <1>1, <1>4, <2>1, <2>2, <2>3 DEF IInv, HoldInv
<1>11. ScoreInv'
  BY <1>1 DEF ScoreInv
<1>12. QED
  BY <1>2, <1>3, <1>5, <1>6, <1>7, <1>8, <1>9, <1>10, <1>11 DEF IInv

\* Nothing moves.
LEMMA StepStutter == IInv /\ UNCHANGED vars => IInv'
<1> SUFFICES ASSUME IInv, UNCHANGED vars PROVE IInv'
  OBVIOUS
<1>1. /\ UNCHANGED <<service, dumped>>
      /\ UNCHANGED <<repository, iee_data, pc, image, loop, scores, history>>
  BY DEF vars
<1>2. UNCHANGED <<r, opened, counters, pc, image, req_buffer, iee_data, sound>>
  BY <1>1 DEF repository, loop, history
<1>3. TypeOK'
  <2>1. dumped' \in SUBSET Connections
    BY <1>1 DEF IInv, TypeOK
  <2>2. QED
    BY <1>1, <2>1, QuietService, LocalTypes DEF IInv
<1>4. /\ LibraryInv' /\ CountersInv' /\ IdleInv' /\ AddInv' /\ RestInv' /\ WalkInv'
      /\ Counted' = Counted /\ \A c : HavingNow(c)' = HavingNow(c)
      /\ \A l : InBatch(l)' <=> InBatch(l)
  BY <1>1, LocalFrame
<1>5. ConnectionInv' /\ AnswerInv'
  BY <1>1, <1>2, QuietService DEF IInv, ConnectionInv, AnswerInv, Storage!SearchRequest
<1>6. RecordInv'
  BY <1>1, <1>2, QuietService DEF IInv, RecordInv
<1>7. SentInv'
  BY <1>1, <1>2, <1>4, QuietService DEF IInv, SentInv, CountedAreSent, Sent
<1>8. \A l, v : Pending(l, v)' <=> Pending(l, v)
  BY <1>1, <1>2, QuietService DEF Pending
<1>9. \A l, d : WillHold(l, d)' <=> WillHold(l, d)
  BY <1>1, <1>8, QuietService, SameHolds
<1>10. HoldInv'
  BY <1>2, <1>4, <1>8, <1>9 DEF IInv, HoldInv
<1>11. ScoreInv'
  BY <1>1, <1>2, <1>9, QuietService, ScoresStay DEF IInv, ScoreInv
<1>12. QED
  BY <1>3, <1>4, <1>5, <1>6, <1>7, <1>10, <1>11 DEF IInv

LEMMA NextIInv == IInv /\ [Next]_vars => IInv'
<1> SUFFICES ASSUME IInv, [Next]_vars PROVE IInv'
  OBVIOUS
<1>1. CASE RepositoryInit
  BY <1>1, StepRepositoryInit
<1>2. CASE RepositoryClear \/ Crash
  BY <1>2, StepForget
<1>3. CASE OpenMap \/ WriteMap
  BY <1>3, StepMap
<1>4. CASE ReadMap
  BY <1>4, StepReadMap
<1>5. CASE DumpBench
  BY <1>5, StepDumpBench
<1>6. CASE \E img \in Images : AddImage(img) \/ SearchImage(img)
  BY <1>6, StepAddImage, StepSearchImage
<1>7. CASE AddPosting
  BY <1>7, StepAddPosting
<1>8. CASE SendAdd
  BY <1>8, StepSendAdd
<1>9. CASE FinishAdd
  BY <1>9, StepFinishAdd
<1>10. CASE RequestLabel
  BY <1>10, StepRequestLabel
<1>11. CASE SendSearch
  BY <1>11, StepSendSearch
<1>12. CASE ReceiveAnswer
  BY <1>12, StepReceiveAnswer
<1>13. CASE Respond
  BY <1>13, StepRespond
<1>14. CASE Serve
  BY <1>14, StepServe
<1>15. CASE UNCHANGED vars
  BY <1>15, StepStutter
<1>16. QED
  BY <1>1, <1>2, <1>3, <1>4, <1>5, <1>6, <1>7, <1>8, <1>9, <1>10, <1>11, <1>12, <1>13,
     <1>14, <1>15 DEF Next, OperationStep

----------------------------------------------------------------------------
(* Theorems *)

\* The invariant holds in every state of the image index (trusted.cpp, repository.cpp)
\* and its storage.
THEOREM IndexInvariant == Spec => []IInv
<1>1. Init => IInv
  BY InitIInv
<1>2. IInv /\ [Next]_vars => IInv'
  BY NextIInv
<1>3. QED
  BY <1>1, <1>2, PTL DEF Spec

\* No counter, no loop and no queue of the enclave leaves its type: counters never
\* count more than the images there were.
THEOREM IndexIsTyped == Spec => []TypeOK
<1>1. IInv => TypeOK
  BY DEF IInv
<1>2. QED
  BY <1>1, IndexInvariant, PTL

\* What a counter counts is stored, on its way or in the batch (add_image raises
\* counters before anything is sent), whatever was cleared, crashed or reloaded.
THEOREM NoCountWithoutPosting == Spec => []CountedAreSent
<1>1. IInv => CountedAreSent
  BY DEF IInv, SentInv
<1>2. QED
  BY <1>1, IndexInvariant, PTL

\* calc_idf's log10(total_docs / counter) is never the logarithm of less than 1.
THEOREM NoNegativeWeight == Spec => []WeightsNotNegative
<1>1. ASSUME IInv PROVE WeightsNotNegative
  <2> SUFFICES ASSUME pc = "idle", NEW c \in Centres PROVE counters[c] <= total_docs
    BY DEF WeightsNotNegative, Open, Idle
  <2> DEFINE T == {d \in Docs : library[d] # {}}
  <2>1. counters[c] = Cardinality(Having(library, c)) /\ counters[c] \in Nat
    BY <1>1, BetweenIs, ConstantTypes DEF IInv, CountersInv, TypeOK
  <2>2. Having(library, c) \subseteq T
    BY DEF Having, Posted
  <2>3. IsFiniteSet(T)
    <3>1. IsFiniteSet(Docs)
      BY ConstantTypes, FS_Interval DEF Docs
    <3>2. QED
      BY <3>1, FS_Subset
  <2>4. Cardinality(Having(library, c)) <= Cardinality(T) /\ Cardinality(T) \in Nat
    BY <2>2, <2>3, FS_Subset, FS_CardinalityType
  <2>5. Cardinality(T) <= total_docs /\ total_docs \in Nat
    BY <1>1, ConstantTypes DEF IInv, LibraryInv, Plausible, TypeOK
  <2>6. QED
    BY <2>1, <2>4, <2>5
<1>2. QED
  BY <1>1, IndexInvariant, PTL

\* A search that waits on its socket has its own answer, or its request is still
\* the last of its connection: it never takes another batch's answer.
THEOREM AnswersAreOwn == Spec => []AnswerIsComing
<1>1. ASSUME IInv PROVE AnswerIsComing
  BY <1>1 DEF IInv, AnswerInv, ConnectionInv, AnswerIsComing
<1>2. QED
  BY <1>1, IndexInvariant, PTL

\* process_client serves a search without a record to measure it in only after the
\* dump of another connection took the record, and no connection made one since.
THEOREM NoSearchUnrecorded == Spec => []SearchesAreRecorded
<1>1. ASSUME IInv PROVE SearchesAreRecorded
  <2> SUFFICES ASSUME running, NEW s \in Connections,
                      requests[s] # <<>>, Head(requests[s]).op = "search"
               PROVE  recorded \/ \E t \in dumped : t # s
    BY DEF SearchesAreRecorded
  <2>1. requests[s] \in Seq(Storage!Request)
    BY <1>1 DEF IInv, TypeOK, Storage!TypeOK
  <2>2. 1 \in DOMAIN requests[s] /\ requests[s][1] = Head(requests[s])
    BY <2>1, EmptySeq, LenProperties
  <2>3. RecordedAt(s, 1)
    BY <1>1, <2>2 DEF IInv, RecordInv, NotSearch
  <2>4. \A k : ~(k \in 1 .. 1 - 1)
    OBVIOUS
  <2>5. QED
    BY <2>3, <2>4 DEF RecordedAt
<1>2. QED
  BY <1>1, IndexInvariant, PTL

\* A search returns the postings of its repository's documents for the centres of
\* its query, each once: no batch boundary of add_image or search_image loses or
\* repeats one, for any size of the batches.
THEOREM SearchesAreExact == Spec => []SearchIsExact
<1>1. ASSUME IInv PROVE SearchIsExact
  <2> SUFFICES ASSUME pc = "search", to_send = 0, req_buffer = <<>>, sound,
                      \A c \in image : counters[c] > 0
               PROVE  scores = [p \in Centres \X Docs |->
                          IF p[1] \in image /\ p[2] \in Having(library, p[1]) THEN 1 ELSE 0]
    BY DEF SearchIsExact, LoopDone
  <2>0. /\ r # None /\ scores \in [Centres \X Docs -> Nat] /\ image \subseteq Centres
        /\ counters \in [Centres -> 0 .. MaxAdds]
    BY <1>1 DEF IInv, ConnectionInv, TypeOK, Images
  <2>1. Walk = Wanted
    <3>1. \A l \in Labels : l[1] \in image /\ l[2] = 0 => l[2] < counters[l[1]]
      BY <2>0, LabelIs
    <3>2. QED
      BY <3>1 DEF Walk, Wanted
  <2>2. Walked = Walk
    <3>1. /\ Walked \subseteq Walk /\ IsFiniteSet(Walk)
          /\ Cardinality(Walked) \in Nat /\ Cardinality(Wanted) \in Nat
      BY <1>1, WalkIs, ConstantTypes DEF IInv, Walked
    <3>2. 0 + Cardinality(Walked) = Cardinality(Wanted)
      BY <1>1 DEF IInv, WalkInv
    <3>3. Cardinality(Walked) = Cardinality(Walk)
      BY <2>1, <3>1, <3>2
    <3>4. QED
      BY <3>1, <3>3, FS_Subset
  <2>3. Answered = Walk
    BY <2>2 DEF Answered
  <2>4. ASSUME NEW c \in Centres, NEW d \in Docs
        PROVE  scores[<<c, d>>] = IF c \in image /\ d \in Having(library, c) THEN 1 ELSE 0
    <3>1. HavingNow(c) = Having(library, c)
      BY <1>1, BetweenIs
    <3>2. scores[<<c, d>>] = IF \E l \in Walk : l[1] = c /\ WillHold(l, d) THEN 1 ELSE 0
      BY <1>1, <2>3 DEF IInv, ScoreInv
    <3>3. ASSUME NEW l \in Walk, l[1] = c, WillHold(l, d)
          PROVE  c \in image /\ d \in Having(library, c)
      <4>1. l \in Labels /\ c \in image /\ l[2] < counters[c] /\ l = <<c, l[2]>>
        BY <2>1, <3>3, LabelIs DEF Wanted
      <4>2. l[2] \in 0 .. counters[c] - 1
        BY <2>0, <4>1, LabelIs
      <4>3. QED
        BY <1>1, <2>0, <3>1, <3>3, <4>1, <4>2, EveryLabelHeld
    <3>4. ASSUME c \in image, d \in Having(library, c)
          PROVE  \E l \in Walk : l[1] = c /\ WillHold(l, d)
      <4>1. PICK n \in 0 .. counters[c] - 1 : WillHold(<<c, n>>, d)
        BY <1>1, <2>0, <3>1, <3>4 DEF IInv, HoldInv
      <4>2. n \in 0 .. MaxAdds /\ n < counters[c]
        BY <2>0, ConstantTypes
      <4>3. <<c, n>> \in Labels
        BY <4>2, LabelIs
      <4>4. <<c, n>> \in Walk
        BY <3>4, <4>2, <4>3 DEF Walk
      <4>5. QED
        BY <4>1, <4>4
    <3>5. QED
      BY <3>2, <3>3, <3>4
  <2>5. QED
    BY <2>0, <2>4
<1>2. QED
  BY <1>1, IndexInvariant, PTL
=============================================================================
