------------------------ MODULE HashmapNetMaskProofs ------------------------
(***************************************************************************)
(* Proofs about the two parts of librip that compute with powers of two:   *)
(* the tables of the hash map, which are doublings of the smallest one,    *)
(* and the net masks.                                                      *)
(***************************************************************************)
EXTENDS Hashmap, NetMask, TLAPS, WellFoundedInduction

\* Most leaves need no arithmetic; those that do cite SMT.
USE Zenon

(***************************************************************************)
(* Tables, and the items in them.                                          *)
(***************************************************************************)
LEMMA ItemFacts ==
    /\ NULL \notin Item
    /\ \A e \in Item : /\ e.dib \in Nat /\ e.dib >= 1 /\ e.key \in Key /\ e.val \in Val
                       /\ Farther(e) \in Item /\ Farther(e).dib = e.dib + 1
                       /\ Farther(e).key = e.key /\ Farther(e).val = e.val
  BY NullAssumption, SMT DEF Item, Farther

LEMMA NextFacts ==
    ASSUME NEW n \in Nat, n >= 1, NEW x \in 0 .. n - 1
    PROVE  /\ Mask(x + 1, n) \in 0 .. n - 1
           /\ Mask(x + 1, n) = IF x + 1 = n THEN 0 ELSE x + 1
<1>1. CASE x + 1 = n
  <2>1. n % n = 0
    BY SMT
  <2> QED
    BY <1>1, <2>1, SMT DEF Mask
<1>2. CASE x + 1 # n
  BY <1>2, SMT DEF Mask
<1> QED
  BY <1>1, <1>2

LEMMA HomeFacts ==
    ASSUME NEW hs \in [Key -> HashValues], NEW k \in Key, NEW n \in Nat, n >= 1
    PROVE  Home(hs, k, n) \in 0 .. n - 1
<1>1. hs[k] \in Nat
  BY HashmapAssumption
<1> QED
  BY <1>1, SMT DEF Home, Mask

LEMMA PutTable ==
    ASSUME NEW n \in Nat, NEW b \in Table(n), NEW x \in 0 .. n - 1, NEW e \in Item \cup {NULL}
    PROVE  [b EXCEPT ![x] = e] \in Table(n)
  BY DEF Table

LEMMA EmptyTableType ==
    ASSUME NEW n \in Nat
    PROVE  EmptyTable(n) \in Table(n) /\ Used(EmptyTable(n), n) = {}
  BY DEF EmptyTable, Table, Used

----------------------------------------------------------------------------
(***************************************************************************)
(* Robin hood hashing.  A bucket of a table is empty, so that a walk       *)
(* through non-empty buckets ends before it comes back to its start.       *)
(***************************************************************************)
AllPlaced(hs, b, n) == \A x \in Used(b, n) : Placed(hs, b, n, b[x], x, {})

LEMMA DistType ==
    ASSUME NEW n \in Nat, n >= 1, NEW h \in 0 .. n - 1, NEW x \in 0 .. n - 1
    PROVE  Dist(h, x, n) \in 0 .. n - 1 /\ Dist(h, x, n) \in Nat /\ Dist(h, x, n) \in Int
  BY SMT DEF Dist

LEMMA DistNext ==
    ASSUME NEW n \in Nat, n >= 1, NEW h \in 0 .. n - 1, NEW x \in 0 .. n - 1
    PROVE  Dist(h, Mask(x + 1, n), n) =
             IF Dist(h, x, n) = n - 1 THEN 0 ELSE Dist(h, x, n) + 1
  BY NextFacts, SMT DEF Dist

LEMMA DistFacts ==
    ASSUME NEW n \in Nat, n >= 1, NEW h \in 0 .. n - 1, NEW x \in 0 .. n - 1
    PROVE  /\ Dist(h, x, n) \in 0 .. n - 1
           /\ \A y \in 0 .. n - 1 : Dist(h, y, n) = Dist(h, x, n) => y = x
           /\ Dist(h, h, n) = 0
  BY SMT DEF Dist

\* The walk goes on: the buckets passed are those passed before, and x.
LEMMA WalkOn ==
    ASSUME NEW n \in Nat, n >= 1, NEW h \in 0 .. n - 1, NEW x \in 0 .. n - 1,
           NEW z \in 0 .. n - 1, z # x,
           ~(Dist(h, z, n) < Dist(h, x, n))
    PROVE  /\ Dist(h, Mask(x + 1, n), n) = Dist(h, x, n) + 1
           /\ \A y \in 0 .. n - 1 :
                Dist(h, y, n) < Dist(h, Mask(x + 1, n), n) <=>
                  Dist(h, y, n) < Dist(h, x, n) \/ y = x
<1>1. Dist(h, x, n) \in 0 .. n - 1 /\ Dist(h, z, n) \in 0 .. n - 1
  BY DistType
<1>2. Dist(h, x, n) # n - 1
  BY <1>1, DistFacts, SMT
<1>3. Dist(h, Mask(x + 1, n), n) = Dist(h, x, n) + 1
  BY <1>2, DistType, DistNext
<1>4. ASSUME NEW y \in 0 .. n - 1
      PROVE  Dist(h, y, n) < Dist(h, x, n) + 1 <=> Dist(h, y, n) < Dist(h, x, n) \/ y = x
  <2>1. Dist(h, y, n) \in 0 .. n - 1
    BY DistType
  <2>2. Dist(h, y, n) = Dist(h, x, n) => y = x
    BY DistFacts
  <2> QED
    BY <1>1, <2>1, <2>2, SMT
<1> QED
  BY <1>3, <1>4

\* An item in the first bucket of its key is on its way.
LEMMA FirstPlaced ==
    ASSUME NEW hs \in [Key -> HashValues], NEW n \in Nat, n >= 1, NEW b \in Table(n),
           NEW e \in Item, e.dib = 1
    PROVE  Placed(hs, b, n, e, Mask(hs[e.key], n), {})
<1> DEFINE h == Home(hs, e.key, n)
<1>1. h \in 0 .. n - 1 /\ Mask(hs[e.key], n) = h
  BY ItemFacts, HomeFacts DEF Home
<1> HIDE DEF h
<1>2. Dist(h, h, n) = 0
  BY <1>1, DistFacts
<1>3. \A y \in 0 .. n - 1 : ~(Dist(h, y, n) < Dist(h, h, n))
  BY <1>1, <1>2, DistType, SMT
<1> QED
  BY <1>1, <1>2, <1>3, SMT DEF Placed, Reaches, h

\* Filling an empty bucket, or changing its item.
LEMMA UsedPut ==
    ASSUME NEW n \in Nat, NEW b \in Table(n), NEW x \in 0 .. n - 1, NEW e, e # NULL
    PROVE  Used([b EXCEPT ![x] = e], n) = Used(b, n) \cup {x}
  BY DEF Used, Table

\* An item goes to an empty bucket.
LEMMA PutPlaced ==
    ASSUME NEW hs \in [Key -> HashValues], NEW n \in Nat, n >= 1, NEW b \in Table(n),
           NEW e \in Item, NEW x \in 0 .. n - 1,
           AllPlaced(hs, b, n), Placed(hs, b, n, e, x, {}), b[x] = NULL
    PROVE  AllPlaced(hs, [b EXCEPT ![x] = e], n)
<1> DEFINE c == [b EXCEPT ![x] = e]
<1>1. \A y \in 0 .. n - 1 : c[y] = IF y = x THEN e ELSE b[y]
  BY DEF Table
<1>2. Used(c, n) = Used(b, n) \cup {x}
  BY UsedPut, ItemFacts
<1> HIDE DEF c
<1>3. ASSUME NEW w \in Used(c, n) PROVE Placed(hs, c, n, c[w], w, {})
  <2>1. w \in 0 .. n - 1
    BY DEF Used
  <2>2. CASE w = x
    BY <1>1, <2>1, <2>2 DEF Placed, Reaches
  <2>3. CASE w # x
    <3>1. w \in Used(b, n) /\ c[w] = b[w]
      BY <1>1, <1>2, <2>1, <2>3
    <3>2. Placed(hs, b, n, b[w], w, {})
      BY <3>1 DEF AllPlaced
    <3> QED
      BY <1>1, <3>1, <3>2 DEF Placed, Reaches
  <2> QED
    BY <2>2, <2>3
<1> QED
  BY <1>3 DEF AllPlaced, c

\* An item nearer to its first bucket gives way.
LEMMA SwapPlaced ==
    ASSUME NEW hs \in [Key -> HashValues], NEW n \in Nat, n >= 1, NEW b \in Table(n),
           NEW e \in Item, NEW x \in 0 .. n - 1,
           AllPlaced(hs, b, n), Placed(hs, b, n, e, x, {}),
           b[x] # NULL, b[x].dib < e.dib,
           NEW z \in 0 .. n - 1, b[z] = NULL
    PROVE  /\ AllPlaced(hs, [b EXCEPT ![x] = e], n)
           /\ Placed(hs, [b EXCEPT ![x] = e], n, Farther(b[x]), Mask(x + 1, n), {})
<1> DEFINE c == [b EXCEPT ![x] = e]
<1>1. \A y \in 0 .. n - 1 : c[y] = IF y = x THEN e ELSE b[y]
  BY DEF Table
<1>2. Used(c, n) = Used(b, n) /\ x \in Used(b, n)
  BY UsedPut, ItemFacts, SMT DEF Used
<1>3. b[x] \in Item /\ e # NULL
  BY ItemFacts, SMT DEF Table
<1> HIDE DEF c
<1>4. ASSUME NEW w \in Used(c, n) PROVE Placed(hs, c, n, c[w], w, {})
  <2>1. w \in 0 .. n - 1
    BY DEF Used
  <2>2. CASE w = x
    <3>1. Home(hs, e.key, n) \in 0 .. n - 1
      BY ItemFacts, HomeFacts
    <3>2. \A y \in 0 .. n - 1 : Dist(Home(hs, e.key, n), y, n) \in Int
      BY <3>1, DistType
    <3>3. ASSUME NEW y \in 0 .. n - 1,
                 Dist(Home(hs, e.key, n), y, n) < Dist(Home(hs, e.key, n), x, n)
          PROVE  c[y] # NULL /\ c[y].dib > Dist(Home(hs, e.key, n), y, n)
      <4>1. y # x
        BY <3>2, <3>3, SMT
      <4> QED
        BY <1>1, <3>3, <4>1 DEF Placed, Reaches
    <3> QED
      BY <1>1, <2>1, <2>2, <3>3 DEF Placed, Reaches
  <2>3. CASE w # x
    <3>1. w \in Used(b, n) /\ c[w] = b[w]
      BY <1>1, <1>2, <2>1, <2>3
    <3>2. Placed(hs, b, n, b[w], w, {})
      BY <3>1 DEF AllPlaced
    <3>3. b[w] \in Item
      BY <2>1, <3>1 DEF Table, Used
    <3>4. Home(hs, b[w].key, n) \in 0 .. n - 1
      BY <3>3, ItemFacts, HomeFacts
    <3>5. ASSUME NEW y \in 0 .. n - 1,
                 Dist(Home(hs, b[w].key, n), y, n) < Dist(Home(hs, b[w].key, n), w, n)
          PROVE  c[y] # NULL /\ c[y].dib > Dist(Home(hs, b[w].key, n), y, n)
      <4>1. b[y] # NULL /\ b[y].dib > Dist(Home(hs, b[w].key, n), y, n)
        BY <3>2, <3>5 DEF Placed, Reaches
      <4>2. Dist(Home(hs, b[w].key, n), y, n) \in 0 .. n - 1
        BY <3>4, DistType
      <4> QED
        BY <1>1, <1>3, <4>1, <4>2, ItemFacts, SMT
    <3> QED
      BY <3>1, <3>2, <3>5 DEF Placed, Reaches
  <2> QED
    BY <2>2, <2>3
<1>5. Placed(hs, c, n, Farther(b[x]), Mask(x + 1, n), {})
  <2> DEFINE h == Home(hs, b[x].key, n)
  <2>1. h \in 0 .. n - 1
    BY <1>3, ItemFacts, HomeFacts
  <2>2. Placed(hs, b, n, b[x], x, {})
    BY <1>2 DEF AllPlaced
  <2>3. b[x].dib = Dist(h, x, n) + 1
    BY <2>2 DEF Placed
  <2>4. \A y \in 0 .. n - 1 : Dist(h, y, n) < Dist(h, x, n) =>
          b[y] # NULL /\ b[y].dib > Dist(h, y, n)
    BY <2>2 DEF Placed, Reaches
  <2>5. Farther(b[x]).dib = b[x].dib + 1 /\ Farther(b[x]).key = b[x].key
    BY <1>3, ItemFacts
  <2> HIDE DEF h
  <2>6. /\ Dist(h, Mask(x + 1, n), n) = Dist(h, x, n) + 1
        /\ \A y \in 0 .. n - 1 : Dist(h, y, n) < Dist(h, Mask(x + 1, n), n) <=>
                                   Dist(h, y, n) < Dist(h, x, n) \/ y = x
    BY <2>1, <2>4, WalkOn
  <2>7. ASSUME NEW y \in 0 .. n - 1, Dist(h, y, n) < Dist(h, Mask(x + 1, n), n)
        PROVE  c[y] # NULL /\ c[y].dib > Dist(h, y, n)
    <3>1. CASE y = x
      <4>1. e.dib \in Nat /\ b[x].dib \in Nat
        BY <1>3, ItemFacts
      <4>2. Dist(h, x, n) \in Nat
        BY <2>1, DistType
      <4>3. c[y] = e
        BY <1>1, <3>1
      <4> QED
        BY <1>3, <2>3, <3>1, <4>1, <4>2, <4>3, SMT
    <3>2. CASE y # x
      BY <1>1, <2>4, <2>6, <2>7, <3>2
    <3> QED
      BY <3>1, <3>2
  <2>8. Farther(b[x]).dib = Dist(h, Mask(x + 1, n), n) + 1
    BY <2>3, <2>5, <2>6
  <2> QED
    BY <2>5, <2>7, <2>8 DEF Placed, Reaches, h
<1> QED
  BY <1>4, <1>5 DEF AllPlaced, c

\* The item in hand goes farther.
LEMMA FartherPlaced ==
    ASSUME NEW hs \in [Key -> HashValues], NEW n \in Nat, n >= 1, NEW b \in Table(n),
           NEW e \in Item, NEW x \in 0 .. n - 1,
           Placed(hs, b, n, e, x, {}),
           b[x] # NULL, ~(b[x].dib < e.dib),
           NEW z \in 0 .. n - 1, b[z] = NULL
    PROVE  Placed(hs, b, n, Farther(e), Mask(x + 1, n), {})
<1> DEFINE h == Home(hs, e.key, n)
<1>1. h \in 0 .. n - 1
  BY ItemFacts, HomeFacts
<1>2. /\ e.dib = Dist(h, x, n) + 1
      /\ \A y \in 0 .. n - 1 : Dist(h, y, n) < Dist(h, x, n) =>
          b[y] # NULL /\ b[y].dib > Dist(h, y, n)
  BY DEF Placed, Reaches
<1>3. Farther(e).dib = e.dib + 1 /\ Farther(e).key = e.key /\ b[x] \in Item
  BY ItemFacts DEF Table
<1> HIDE DEF h
<1>4. /\ Dist(h, Mask(x + 1, n), n) = Dist(h, x, n) + 1
      /\ \A y \in 0 .. n - 1 : Dist(h, y, n) < Dist(h, Mask(x + 1, n), n) <=>
                                 Dist(h, y, n) < Dist(h, x, n) \/ y = x
  <2>1. z # x /\ ~(Dist(h, z, n) < Dist(h, x, n))
    BY <1>2
  <2> QED
    BY <1>1, <2>1, WalkOn
<1>5. Dist(h, x, n) \in Nat
  BY <1>1, DistType
<1>6. ASSUME NEW y \in 0 .. n - 1, Dist(h, y, n) < Dist(h, Mask(x + 1, n), n)
      PROVE  b[y] # NULL /\ b[y].dib > Dist(h, y, n)
  <2>1. CASE y = x
    <3>1. e.dib \in Nat /\ b[x].dib \in Nat
      BY <1>3, ItemFacts
    <3> QED
      BY <1>2, <1>5, <2>1, <3>1, SMT
  <2>2. CASE y # x
    BY <1>2, <1>4, <1>6, <2>2
  <2> QED
    BY <2>1, <2>2
<1>7. Farther(e).dib = Dist(h, Mask(x + 1, n), n) + 1
  BY <1>2, <1>3, <1>4
<1> QED
  BY <1>3, <1>6, <1>7 DEF Placed, Reaches, h

\* A key that a walk from its first bucket has not met before x, where the
\* bucket is empty or its item nearer than the key would be, is nowhere.
LEMMA NotBeyond ==
    ASSUME NEW hs \in [Key -> HashValues], NEW n \in Nat, n >= 1, NEW b \in Table(n),
           AllPlaced(hs, b, n), NEW k \in Key, NEW x \in 0 .. n - 1,
           NEW w \in Used(b, n), b[w].key = k,
           b[x] # NULL => ~(b[x].dib > Dist(Home(hs, k, n), x, n))
    PROVE  Dist(Home(hs, k, n), w, n) <= Dist(Home(hs, k, n), x, n)
<1>1. Placed(hs, b, n, b[w], w, {}) /\ w \in 0 .. n - 1
  BY DEF AllPlaced, Used
<1>2. Home(hs, k, n) \in 0 .. n - 1
  BY HomeFacts
<1>3. Dist(Home(hs, k, n), w, n) \in Nat /\ Dist(Home(hs, k, n), x, n) \in Nat
  BY <1>1, <1>2, DistType
<1>4. ~(Dist(Home(hs, k, n), x, n) < Dist(Home(hs, k, n), w, n))
  BY <1>1 DEF Placed, Reaches
<1> QED
  BY <1>3, <1>4, SMT

\* Bucket x is free: the item after it moves back, or none is beyond it.
LiveBut(b, n, x) == Used(b, n) \ {x}
AllPlacedBut(hs, b, n, x) == \A w \in LiveBut(b, n, x) : Placed(hs, b, n, b[w], w, {x})

LEMMA NotThrough ==
    ASSUME NEW n \in Nat, n >= 2, NEW h \in 0 .. n - 1, NEW x \in 0 .. n - 1,
           NEW w \in 0 .. n - 1, w # Mask(x + 1, n),
           Dist(h, x, n) < Dist(h, w, n)
    PROVE  /\ Dist(h, Mask(x + 1, n), n) = Dist(h, x, n) + 1
           /\ Dist(h, Mask(x + 1, n), n) < Dist(h, w, n)
           /\ Mask(x + 1, n) # x /\ Mask(x + 1, n) \in 0 .. n - 1
<1> DEFINE y == Mask(x + 1, n)
<1>1. y \in 0 .. n - 1 /\ y # x
  BY NextFacts, SMT
<1>2. /\ Dist(h, x, n) \in 0 .. n - 1 /\ Dist(h, w, n) \in 0 .. n - 1
      /\ Dist(h, y, n) = IF Dist(h, x, n) = n - 1 THEN 0 ELSE Dist(h, x, n) + 1
  BY DistType, DistNext, SMT
<1>3. Dist(h, w, n) # Dist(h, y, n)
  BY <1>1, DistFacts, SMT
<1> QED
  BY <1>1, <1>2, <1>3, SMT

LEMMA FreePlaced ==
    ASSUME NEW hs \in [Key -> HashValues], NEW n \in Nat, n >= 2, NEW b \in Table(n),
           NEW x \in 0 .. n - 1, AllPlacedBut(hs, b, n, x),
           b[Mask(x + 1, n)] # NULL => b[Mask(x + 1, n)].dib <= 1
    PROVE  AllPlaced(hs, [b EXCEPT ![x] = NULL], n)
<1> DEFINE c == [b EXCEPT ![x] = NULL]
           next == Mask(x + 1, n)
<1>1. \A y \in 0 .. n - 1 : c[y] = IF y = x THEN NULL ELSE b[y]
  BY DEF Table
<1> HIDE DEF c
<1>2. ASSUME NEW w \in Used(c, n) PROVE Placed(hs, c, n, c[w], w, {})
  <2>1. w \in 0 .. n - 1 /\ w # x /\ c[w] = b[w] /\ b[w] # NULL
    BY <1>1 DEF Used
  <2>2. Placed(hs, b, n, b[w], w, {x})
    BY <2>1 DEF AllPlacedBut, LiveBut, Used
  <2>3. b[w] \in Item
    BY <2>1 DEF Table
  <2> DEFINE h == Home(hs, b[w].key, n)
  <2>4. h \in 0 .. n - 1
    BY <2>3, ItemFacts, HomeFacts, SMT
  <2>5. /\ b[w].dib = Dist(h, w, n) + 1
        /\ \A y \in 0 .. n - 1 : y # x /\ Dist(h, y, n) < Dist(h, w, n) =>
             b[y] # NULL /\ b[y].dib > Dist(h, y, n)
    BY <2>2 DEF Placed, Reaches
  <2> HIDE DEF h
  <2>6. ~(Dist(h, x, n) < Dist(h, w, n))
    <3> SUFFICES ASSUME Dist(h, x, n) < Dist(h, w, n) PROVE FALSE
      OBVIOUS
    <3>1. Dist(h, x, n) \in Nat /\ Dist(h, w, n) \in Nat
      BY <2>1, <2>4, DistType, SMT
    <3>2. CASE w = next
      <4>1. b[w].dib <= 1
        BY <2>1, <3>2
      <4> QED
        BY <2>5, <3>1, <4>1, SMT
    <3>3. CASE w # next
      <4>1. /\ Dist(h, next, n) = Dist(h, x, n) + 1 /\ Dist(h, next, n) < Dist(h, w, n)
            /\ next # x /\ next \in 0 .. n - 1
        BY <2>1, <2>4, <3>3, NotThrough
      <4> HIDE DEF next
      <4>2. b[next] # NULL /\ b[next].dib > Dist(h, next, n)
        BY <2>5, <4>1
      <4>3. b[next] \in Item
        BY <4>1, <4>2 DEF Table
      <4>4. b[next].dib \in Nat
        BY <4>3, ItemFacts
      <4>5. b[next].dib <= 1
        BY <4>2 DEF next
      <4> QED
        BY <3>1, <4>1, <4>2, <4>4, <4>5, SMT
    <3> QED
      BY <3>2, <3>3
  <2>7. ASSUME NEW y \in 0 .. n - 1, Dist(h, y, n) < Dist(h, w, n)
        PROVE  c[y] # NULL /\ c[y].dib > Dist(h, y, n)
    BY <1>1, <2>5, <2>6, <2>7
  <2> QED
    BY <2>1, <2>5, <2>7 DEF Placed, Reaches, h
<1> QED
  BY <1>2 DEF AllPlaced, c

LEMMA ShiftPlaced ==
    ASSUME NEW hs \in [Key -> HashValues], NEW n \in Nat, n >= 2, NEW b \in Table(n),
           NEW x \in 0 .. n - 1, AllPlacedBut(hs, b, n, x),
           b[Mask(x + 1, n)] # NULL, b[Mask(x + 1, n)].dib > 1
    PROVE  AllPlacedBut(hs, [b EXCEPT ![x] = [b[Mask(x + 1, n)] EXCEPT !.dib = @ - 1]], n,
                        Mask(x + 1, n))
<1> DEFINE next == Mask(x + 1, n)
           e == [b[next] EXCEPT !.dib = @ - 1]
           c == [b EXCEPT ![x] = e]
<1>1. next \in 0 .. n - 1 /\ next # x /\ n >= 1
  BY NextFacts, SMT
<1>2. b[next] \in Item /\ b[next].dib > 1
  BY <1>1 DEF Table
<1>3. e \in Item /\ e.dib = b[next].dib - 1 /\ e.key = b[next].key /\ e # NULL
  BY <1>2, NullAssumption, SMT DEF Item
<1>4. \A y \in 0 .. n - 1 : c[y] = IF y = x THEN e ELSE b[y]
  BY DEF Table
<1>5. Placed(hs, b, n, b[next], next, {x})
  BY <1>1 DEF AllPlacedBut, LiveBut, Used
<1>6. b[next].dib \in Nat
  BY <1>2, ItemFacts
<1> HIDE DEF c, e
<1>7. ASSUME NEW w \in LiveBut(c, n, next) PROVE Placed(hs, c, n, c[w], w, {next})
  <2>1. w \in 0 .. n - 1 /\ w # next
    BY DEF LiveBut, Used
  <2>2. CASE w = x
    <3> DEFINE h == Home(hs, b[next].key, n)
    <3>1. h \in 0 .. n - 1
      BY <1>2, ItemFacts, HomeFacts, SMT
    <3>2. /\ b[next].dib = Dist(h, next, n) + 1
          /\ \A y \in 0 .. n - 1 : y # x /\ Dist(h, y, n) < Dist(h, next, n) =>
               b[y] # NULL /\ b[y].dib > Dist(h, y, n)
      BY <1>5 DEF Placed, Reaches
    <3> HIDE DEF h
    <3>3. Dist(h, x, n) \in 0 .. n - 1
      BY <1>1, <3>1, DistType
    <3>4. Dist(h, next, n) = IF Dist(h, x, n) = n - 1 THEN 0 ELSE Dist(h, x, n) + 1
      BY <3>1, DistType, DistNext, SMT
    <3> HIDE DEF next
    <3>5. Dist(h, next, n) = Dist(h, x, n) + 1
      BY <1>2, <3>2, <3>3, <3>4, SMT
    <3>6. e.dib = Dist(h, x, n) + 1
      BY <1>3, <3>2, <3>3, <3>5, SMT
    <3>7. ASSUME NEW y \in (0 .. n - 1) \ {next}, Dist(h, y, n) < Dist(h, x, n)
          PROVE  c[y] # NULL /\ c[y].dib > Dist(h, y, n)
      <4>1. Dist(h, y, n) \in Int
        <5>1. y \in 0 .. n - 1
          BY <3>7
        <5> QED
          BY <1>1, <3>1, <5>1, DistType
      <4>2. y # x /\ Dist(h, y, n) < Dist(h, next, n)
        <5>1. \A p, q \in Int : p < q => p # q /\ p < q + 1
          BY SMT
        <5>2. Dist(h, x, n) \in Int
          BY <3>3, SMT
        <5> QED
          BY <3>5, <3>7, <4>1, <5>1, <5>2
      <4> QED
        BY <1>4, <3>2, <4>2
    <3>8. c[w] = e /\ e.key = b[next].key
      BY <1>3, <1>4, <2>2
    <3> QED
      BY <2>2, <3>6, <3>7, <3>8 DEF Placed, Reaches, h
  <2>3. CASE w # x
    <3>1. c[w] = b[w] /\ b[w] # NULL
      BY <1>4, <2>1, <2>3 DEF LiveBut, Used
    <3>2. Placed(hs, b, n, b[w], w, {x})
      BY <2>1, <2>3, <3>1 DEF AllPlacedBut, LiveBut, Used
    <3>3. b[w] \in Item
      BY <2>1, <3>1 DEF Table
    <3> DEFINE h == Home(hs, b[w].key, n)
    <3>4. h \in 0 .. n - 1
      BY <3>3, ItemFacts, HomeFacts, SMT
    <3>5. /\ b[w].dib = Dist(h, w, n) + 1
          /\ \A y \in 0 .. n - 1 : y # x /\ Dist(h, y, n) < Dist(h, w, n) =>
               b[y] # NULL /\ b[y].dib > Dist(h, y, n)
      BY <3>2 DEF Placed, Reaches
    <3> HIDE DEF h
    <3>6. ASSUME NEW y \in (0 .. n - 1) \ {next}, Dist(h, y, n) < Dist(h, w, n)
          PROVE  c[y] # NULL /\ c[y].dib > Dist(h, y, n)
      <4>1. CASE y = x
        <5>1. /\ Dist(h, next, n) = Dist(h, x, n) + 1 /\ Dist(h, next, n) < Dist(h, w, n)
          BY <2>1, <3>4, <3>6, <4>1, NotThrough
        <5> HIDE DEF next
        <5>2. b[next].dib > Dist(h, next, n)
          BY <1>1, <3>5, <5>1
        <5>3. Dist(h, x, n) \in Int
          BY <1>1, <3>4, DistType
        <5> QED
          BY <1>3, <1>4, <1>6, <4>1, <5>1, <5>2, <5>3, SMT
      <4>2. CASE y # x
        BY <1>4, <3>5, <3>6, <4>2
      <4> QED
        BY <4>1, <4>2
    <3> QED
      BY <3>1, <3>5, <3>6 DEF Placed, Reaches, h
  <2> QED
    BY <2>2, <2>3
<1> QED
  BY <1>7 DEF AllPlacedBut, c, e

----------------------------------------------------------------------------
(***************************************************************************)
(* What the invariant says of the table between two calls and while it is  *)
(* searched, of the item in hand while hashmap_set probes, and of the      *)
(* table while hashmap_delete shifts.                                      *)
(***************************************************************************)
UniqueIn(b, S) == \A x, y \in S : b[x].key = b[y].key => x = y

Sound(hs, b, n, c) ==
    /\ AllPlaced(hs, b, n)
    /\ UniqueIn(b, Used(b, n))
    /\ c = Cardinality(Used(b, n)) /\ c < n

Free(hs, b, n, c, x) ==
    /\ AllPlacedBut(hs, b, n, x)
    /\ UniqueIn(b, LiveBut(b, n, x))
    /\ c = Cardinality(LiveBut(b, n, x)) + 1 /\ c < n

\* The item in hand is on its way, and meets its key only ahead.
InHand(hs, b, n, e, x, k) ==
    /\ Placed(hs, b, n, e, x, {})
    /\ \A w \in Used(b, n) : b[w].key = e.key =>
         /\ e.key = k
         /\ Dist(Home(hs, k, n), w, n) >= Dist(Home(hs, k, n), x, n)

LEMMA UsedType ==
    ASSUME NEW n \in Nat, NEW b \in Table(n), NEW w \in Used(b, n)
    PROVE  w \in 0 .. n - 1 /\ b[w] \in Item /\ b[w].key \in Key
<1>1. w \in 0 .. n - 1 /\ b[w] \in Item
  BY DEF Used, Table
<1> QED
  BY <1>1, ItemFacts

LEMMA SoundStart ==
    ASSUME NEW hs \in [Key -> HashValues], NEW n \in Nat, n >= 1, NEW b \in Table(n),
           NEW k \in Key, NEW v \in Val
    PROVE  InHand(hs, b, n, [dib |-> 1, key |-> k, val |-> v], Mask(hs[k], n), k)
<1> DEFINE e == [dib |-> 1, key |-> k, val |-> v]
<1>1. e \in Item /\ e.dib = 1 /\ e.key = k
  BY SMT DEF Item
<1> HIDE DEF e
<1>2. Placed(hs, b, n, e, Mask(hs[k], n), {})
  BY <1>1, FirstPlaced
<1>3. ASSUME NEW w \in Used(b, n)
      PROVE  Dist(Home(hs, k, n), w, n) >= Dist(Home(hs, k, n), Mask(hs[k], n), n)
  <2>1. w \in 0 .. n - 1 /\ Home(hs, k, n) \in 0 .. n - 1
    BY HomeFacts, UsedType
  <2>2. Dist(Home(hs, k, n), Home(hs, k, n), n) = 0
    BY <2>1, DistFacts
  <2>3. Dist(Home(hs, k, n), w, n) \in Nat
    BY <2>1, DistType
  <2> QED
    BY <2>2, <2>3, SMT DEF Home
<1> QED
  BY <1>1, <1>2, <1>3 DEF InHand, e

\* At an empty bucket, or one with a nearer item, the key in hand is nowhere.
LEMMA NowhereElse ==
    ASSUME NEW hs \in [Key -> HashValues], NEW n \in Nat, n >= 1, NEW b \in Table(n),
           NEW e \in Item, NEW x \in 0 .. n - 1, NEW k \in Key,
           AllPlaced(hs, b, n), InHand(hs, b, n, e, x, k),
           b[x] # NULL => b[x].dib < e.dib /\ b[x].key # e.key
    PROVE  \A w \in Used(b, n) : b[w].key # e.key
<1> SUFFICES ASSUME NEW w \in Used(b, n), b[w].key = e.key PROVE FALSE
  OBVIOUS
<1> DEFINE h == Home(hs, k, n)
<1>1. e.key = k /\ Dist(h, w, n) >= Dist(h, x, n) /\ e.dib = Dist(h, x, n) + 1
  BY DEF InHand, Placed
<1>2. h \in 0 .. n - 1 /\ w \in 0 .. n - 1 /\ b[w] \in Item
  BY HomeFacts, UsedType
<1> HIDE DEF h
<1>3. Dist(h, w, n) \in Nat /\ Dist(h, x, n) \in Nat
  BY <1>2, DistType
<1>4. b[x] # NULL => b[x] \in Item
  BY DEF Table
<1>5. b[x] # NULL => b[x].dib \in Nat /\ ~(b[x].dib > Dist(h, x, n))
  BY <1>1, <1>3, <1>4, ItemFacts, SMTT(30)
<1>6. Dist(h, w, n) <= Dist(h, x, n)
  BY <1>1, <1>5, NotBeyond DEF h
<1>7. w = x
  <2>1. Dist(h, w, n) = Dist(h, x, n)
    BY <1>1, <1>3, <1>6, SMT
  <2> QED
    BY <1>2, <2>1, DistFacts
<1> QED
  BY <1>7 DEF Used

\* Only the value of an item changes.
LEMMA SoundReplace ==
    ASSUME NEW hs \in [Key -> HashValues], NEW n \in Nat, n >= 1, NEW b \in Table(n),
           NEW x \in 0 .. n - 1, NEW v \in Val, NEW c,
           Sound(hs, b, n, c), b[x] # NULL
    PROVE  Sound(hs, [b EXCEPT ![x].val = v], n, c)
<1> DEFINE f == [b[x] EXCEPT !.val = v]
           a == [b EXCEPT ![x].val = v]
<1>1. b[x] \in Item
  BY DEF Table
<1>2. f \in Item
  BY <1>1 DEF Item
<1>3. \A y \in 0 .. n - 1 : a[y] = IF y = x THEN f ELSE b[y]
  BY DEF Table
<1>4. f.dib = b[x].dib /\ f.key = b[x].key
  BY <1>1 DEF Item
<1>5. f # NULL
  BY <1>2, ItemFacts
<1> HIDE DEF a, f
<1>6. \A y \in 0 .. n - 1 : /\ a[y] # NULL <=> b[y] # NULL
                            /\ a[y].dib = b[y].dib /\ a[y].key = b[y].key
  BY <1>3, <1>4, <1>5
<1>7. Used(a, n) = Used(b, n)
  BY <1>6 DEF Used
<1>8. ASSUME NEW w \in Used(a, n) PROVE Placed(hs, a, n, a[w], w, {})
  <2>1. Placed(hs, b, n, b[w], w, {})
    BY <1>7 DEF Sound, AllPlaced
  <2>2. w \in 0 .. n - 1
    BY DEF Used
  <2> QED
    BY <1>6, <2>1, <2>2 DEF Placed, Reaches
<1>9. UniqueIn(a, Used(a, n))
  BY <1>6, <1>7 DEF Sound, UniqueIn, Used
<1> QED
  BY <1>7, <1>8, <1>9 DEF Sound, AllPlaced, a

----------------------------------------------------------------------------
(***************************************************************************)
(* The items of a set S of buckets, and what the rounds do to them.        *)
(***************************************************************************)
In(b, S, k, v) == \E x \in S : b[x].key = k /\ b[x].val = v

LEMMA TakeIn ==
    ASSUME NEW b, NEW S, NEW x \in S, NEW k, NEW v
    PROVE  In(b, S, k, v) <=> In(b, S \ {x}, k, v) \/ (b[x].key = k /\ b[x].val = v)
  BY DEF In

LEMMA PutIn ==
    ASSUME NEW n \in Nat, NEW b \in Table(n), NEW x \in 0 .. n - 1, NEW e \in Item, NEW k, NEW v
    PROVE  In([b EXCEPT ![x] = e], Used([b EXCEPT ![x] = e], n), k, v) <=>
             In(b, Used(b, n) \ {x}, k, v) \/ (e.key = k /\ e.val = v)
<1> DEFINE c == [b EXCEPT ![x] = e]
<1>1. c[x] = e /\ \A y \in 0 .. n - 1 : y # x => c[y] = b[y]
  BY DEF Table
<1>2. Used(c, n) = (Used(b, n) \ {x}) \cup {x}
  BY <1>1, ItemFacts DEF Used
<1>3. \A y \in Used(b, n) \ {x} : c[y] = b[y]
  BY <1>1 DEF Used
<1> HIDE DEF c
<1>4. In(c, Used(c, n), k, v) <=> In(b, Used(b, n) \ {x}, k, v) \/ (e.key = k /\ e.val = v)
  BY <1>1, <1>2, <1>3 DEF In
<1> QED
  BY <1>4 DEF c

LEMMA DropIn ==
    ASSUME NEW n \in Nat, NEW b \in Table(n), NEW x \in 0 .. n - 1, NEW k, NEW v
    PROVE  /\ In([b EXCEPT ![x] = NULL], Used([b EXCEPT ![x] = NULL], n), k, v)
                <=> In(b, Used(b, n) \ {x}, k, v)
           /\ In([b EXCEPT ![x] = NULL], LiveBut([b EXCEPT ![x] = NULL], n, x), k, v)
                <=> In(b, Used(b, n) \ {x}, k, v)
<1> DEFINE c == [b EXCEPT ![x] = NULL]
<1>1. c[x] = NULL /\ \A y \in 0 .. n - 1 : y # x => c[y] = b[y]
  BY DEF Table
<1>2. Used(c, n) = Used(b, n) \ {x} /\ LiveBut(c, n, x) = Used(b, n) \ {x}
  BY <1>1 DEF Used, LiveBut
<1>3. \A y \in Used(b, n) \ {x} : c[y] = b[y]
  BY <1>1 DEF Used
<1> HIDE DEF c
<1>4. /\ In(c, Used(c, n), k, v) <=> In(b, Used(b, n) \ {x}, k, v)
      /\ In(c, LiveBut(c, n, x), k, v) <=> In(b, Used(b, n) \ {x}, k, v)
  BY <1>2, <1>3 DEF In
<1> QED
  BY <1>4 DEF c

\* The item of bucket y, no longer there, is in bucket x, which was free.
LEMMA ShiftIn ==
    ASSUME NEW n \in Nat, NEW b \in Table(n), NEW x \in 0 .. n - 1, NEW y \in 0 .. n - 1, x # y,
           b[y] # NULL, NEW e \in Item, e.key = b[y].key, e.val = b[y].val, NEW k, NEW v
    PROVE  In([b EXCEPT ![x] = e], LiveBut([b EXCEPT ![x] = e], n, y), k, v)
             <=> In(b, LiveBut(b, n, x), k, v)
<1> DEFINE c == [b EXCEPT ![x] = e]
<1>1. c[x] = e /\ \A w \in 0 .. n - 1 : w # x => c[w] = b[w]
  BY DEF Table
<1>2. /\ LiveBut(c, n, y) = (LiveBut(b, n, x) \ {y}) \cup {x}
      /\ y \in LiveBut(b, n, x)
  BY <1>1, ItemFacts DEF Used, LiveBut
<1>3. \A w \in LiveBut(b, n, x) : c[w] = b[w]
  BY <1>1 DEF Used, LiveBut
<1> HIDE DEF c
<1>4. In(c, LiveBut(c, n, y), k, v) <=> In(b, LiveBut(b, n, x), k, v)
  BY <1>1, <1>2, <1>3 DEF In
<1> QED
  BY <1>4 DEF c

LEMMA OnlyIn ==
    ASSUME NEW b, NEW S, UniqueIn(b, S), NEW x \in S, NEW v
    PROVE  /\ In(b, S, b[x].key, v) <=> v = b[x].val
           /\ ~In(b, S \ {x}, b[x].key, v)
  BY DEF UniqueIn, In

\* A search for the key of the call has not met it in the buckets before x.
Unmet(hs, b, n, k, x) ==
    \A y \in 0 .. n - 1 : Dist(Home(hs, k, n), y, n) < Dist(Home(hs, k, n), x, n)
                            => b[y] # NULL /\ b[y].key # k

\* An empty bucket ends the search.
LEMMA NotFound ==
    ASSUME NEW hs \in [Key -> HashValues], NEW n \in Nat, n >= 1, NEW b \in Table(n),
           AllPlaced(hs, b, n), NEW k \in Key, NEW x \in 0 .. n - 1,
           b[x] = NULL, Unmet(hs, b, n, k, x)
    PROVE  \A w \in Used(b, n) : b[w].key # k
<1> SUFFICES ASSUME NEW w \in Used(b, n), b[w].key = k PROVE FALSE
  OBVIOUS
<1>1. w \in 0 .. n - 1 /\ w # x
  BY DEF Used
<1>2. Dist(Home(hs, k, n), w, n) <= Dist(Home(hs, k, n), x, n)
  BY NotBeyond
<1>3. Home(hs, k, n) \in 0 .. n - 1
  BY HomeFacts
<1>4. /\ Dist(Home(hs, k, n), w, n) \in Int /\ Dist(Home(hs, k, n), x, n) \in Int
      /\ Dist(Home(hs, k, n), w, n) # Dist(Home(hs, k, n), x, n)
  BY <1>1, <1>3, DistType, DistFacts
<1>5. Dist(Home(hs, k, n), w, n) < Dist(Home(hs, k, n), x, n)
  BY <1>2, <1>4, SMT
<1> QED
  BY <1>1, <1>5 DEF Unmet

----------------------------------------------------------------------------
(***************************************************************************)
(* The powers of two.                                                      *)
(***************************************************************************)
\* A set of natural numbers has a least element: an induction over numbers is
\* a proof that the set of counterexamples has none.
LEMMA LeastNatural ==
    ASSUME NEW T, T \subseteq Nat, T # {}
    PROVE  \E x \in T : \A y \in T : x <= y
<1> DEFINE R == OpToRel(<, Nat)
<1>1. IsWellFoundedOn(R, Nat)
  BY NatLessThanWellFounded
<1>2. \A x, y \in Nat : y < x => <<y, x>> \in R
  BY DEF OpToRel
<1> HIDE DEF R
<1>3. PICK x \in T : \A y \in T : ~(<<y, x>> \in R)
  BY <1>1, WFMin
<1>4. \A y \in T : ~(y < x)
  BY <1>2, <1>3
<1>5. \A y \in T : x <= y
  BY <1>4, SMT
<1> QED
  BY <1>5

\* The function that Pow2 is defined to be, as far as m.
Doubles(g, m) ==
    /\ g \in [0..m -> Nat]
    /\ g[0] = 1
    /\ \A k \in 1..m : g[k] = 2 * g[k - 1]

LEMMA DoublesExists ==
    \A m \in Nat : \E g : Doubles(g, m)
<1> DEFINE T == {m \in Nat : ~ \E g : Doubles(g, m)}
<1> SUFFICES ASSUME T # {} PROVE FALSE
  OBVIOUS
<1>1. PICK m \in T : \A y \in T : m <= y
  BY LeastNatural
<1>2. CASE m = 0
  <2>1. Doubles([k \in 0..0 |-> 1], 0)
    BY SMT DEF Doubles
  <2> QED BY <1>2, <2>1
<1>3. CASE m # 0
  <2>1. m - 1 \in Nat /\ m - 1 \notin T
    BY <1>1, <1>3, SMT
  <2>2. PICK g : Doubles(g, m - 1)
    BY <2>1
  <2> DEFINE h == [k \in 0..m |-> IF k = m THEN 2 * g[m - 1] ELSE g[k]]
  <2>3. Doubles(h, m)
    BY <2>1, <2>2, <1>3, SMT DEF Doubles
  <2> QED BY <2>3
<1> QED BY <1>2, <1>3

LEMMA DoublesUnique ==
    ASSUME NEW m \in Nat, NEW n \in Nat, NEW g, NEW h, Doubles(g, m), Doubles(h, n)
    PROVE  \A k \in Nat : k <= m /\ k <= n => g[k] = h[k]
<1> DEFINE T == {k \in Nat : k <= m /\ k <= n /\ g[k] # h[k]}
<1> SUFFICES ASSUME T # {} PROVE FALSE
  OBVIOUS
<1>1. PICK k \in T : \A y \in T : k <= y
  BY LeastNatural
<1>2. k # 0
  BY <1>1 DEF Doubles
<1>3. k - 1 \in Nat /\ k - 1 \notin T
  BY <1>1, <1>2, SMT
<1>4. g[k] = 2 * g[k - 1] /\ h[k] = 2 * h[k - 1]
  BY <1>2, <1>1, SMT DEF Doubles
<1> QED BY <1>3, <1>4, <1>1, SMT

\* Pow2 satisfies the equation it is defined by.
LEMMA Pow2Equation ==
    Pow2 = [n \in Nat |-> IF n = 0 THEN 1 ELSE 2 * Pow2[n - 1]]
<1> DEFINE D(m) == CHOOSE g : Doubles(g, m)
           F == [m \in Nat |-> D(m)[m]]
<1>1. \A m \in Nat : Doubles(D(m), m)
  BY DoublesExists
<1>2. \A m \in Nat : F[m] = D(m)[m]
  OBVIOUS
<1> HIDE DEF D
<1>3. ASSUME NEW m \in Nat PROVE F[m] = IF m = 0 THEN 1 ELSE 2 * F[m - 1]
  <2>1. CASE m = 0
    BY <1>1, <1>2, <2>1 DEF Doubles
  <2>2. CASE m # 0
    <3>1. D(m)[m - 1] = D(m - 1)[m - 1]
      BY <1>1, <2>2, DoublesUnique, SMT
    <3>2. D(m)[m] = 2 * D(m)[m - 1]
      BY <1>1, <2>2, SMT DEF Doubles
    <3> QED BY <3>1, <3>2, <1>2, <2>2, SMT
  <2> QED BY <2>1, <2>2
<1>4. F = [m \in Nat |-> IF m = 0 THEN 1 ELSE 2 * F[m - 1]]
  BY <1>3
<1> HIDE DEF F
<1>5. \E f : f = [m \in Nat |-> IF m = 0 THEN 1 ELSE 2 * f[m - 1]]
  BY <1>4
<1> QED
  BY <1>5 DEF Pow2

LEMMA Pow2Step ==
    /\ Pow2[0] = 1
    /\ \A n \in Nat : Pow2[n + 1] = 2 * Pow2[n]
<1>1. \A n \in Nat : Pow2[n] = IF n = 0 THEN 1 ELSE 2 * Pow2[n - 1]
  BY Pow2Equation
<1>2. ASSUME NEW n \in Nat PROVE Pow2[n + 1] = 2 * Pow2[n]
  <2>1. n + 1 \in Nat /\ n + 1 # 0 /\ (n + 1) - 1 = n
    BY SMT
  <2>2. Pow2[n + 1] = 2 * Pow2[(n + 1) - 1]
    BY <1>1, <2>1
  <2> QED
    BY <2>1, <2>2
<1> QED
  BY <1>1, <1>2

LEMMA Pow2Type ==
    \A n \in Nat : Pow2[n] \in Nat /\ Pow2[n] > n
<1> DEFINE T == {n \in Nat : ~(Pow2[n] \in Nat /\ Pow2[n] > n)}
<1> SUFFICES ASSUME T # {} PROVE FALSE
  OBVIOUS
<1>1. PICK n \in T : \A y \in T : n <= y
  BY LeastNatural
<1>2. n # 0
  BY <1>1, Pow2Step, SMT
<1>3. n - 1 \in Nat /\ n - 1 \notin T
  BY <1>1, <1>2, SMT
<1>4. Pow2[(n - 1) + 1] = 2 * Pow2[n - 1]
  BY <1>3, Pow2Step
<1> QED
  BY <1>1, <1>3, <1>4, SMT

----------------------------------------------------------------------------
(***************************************************************************)
(* The sizes of the table.                                                 *)
(***************************************************************************)
LEMMA MinCapFacts ==
    MinCap \in Nat /\ MinCap >= 2 /\ \E h \in Nat : MinCap = 2 * h
<1>1. PICK k \in 1..MinCap : MinCap = Pow2[k]
  BY HashmapAssumption
<1>2. k - 1 \in Nat /\ (k - 1) + 1 = k /\ k \in Nat
  BY HashmapAssumption, SMT
<1>3. Pow2[k] = 2 * Pow2[k - 1]
  BY <1>2, Pow2Step
<1>4. Pow2[k - 1] \in Nat /\ Pow2[k] > k
  BY <1>2, Pow2Type
<1> QED
  BY <1>1, <1>2, <1>3, <1>4, HashmapAssumption, SMT

LEMMA AtLeast ==
    ASSUME NEW a \in Nat, NEW b \in Nat, NEW c \in Nat, a >= 1, b >= c
    PROVE  a * b \in Nat /\ a * b >= c
<1>1. a * b = b + (a - 1) * b /\ (a - 1) * b >= 0
  BY SMT
<1> QED
  BY <1>1, SMT

\* Every size is even, so that halving it loses nothing.
LEMMA SizeFacts ==
    ASSUME NEW m, NEW n \in Sizes(m), m \in Nat
    PROVE  /\ n \in Nat /\ n >= MinCap /\ n >= 2
           /\ n \in Sizes(n)
           /\ n = 2 * (n \div 2) /\ n \div 2 \in Nat /\ n \div 2 >= 1
<1>1. PICK k \in 0..m : n = MinCap * Pow2[k]
  BY DEF Sizes
<1>2. k \in Nat /\ Pow2[k] \in Nat /\ Pow2[k] >= 1 /\ Pow2[k] >= k
  BY <1>1, Pow2Type, SMT
<1>3. n \in Nat /\ n >= MinCap
  BY <1>1, <1>2, MinCapFacts, AtLeast, SMT
<1>4. n >= k
  BY <1>1, <1>2, MinCapFacts, AtLeast, SMT
<1>5. n \in Sizes(n)
  BY <1>1, <1>2, <1>3, <1>4, SMT DEF Sizes
<1>6. PICK h \in Nat : MinCap = 2 * h
  BY MinCapFacts
<1>7. n = 2 * (h * Pow2[k]) /\ h * Pow2[k] \in Nat
  BY <1>1, <1>2, <1>6, SMT
<1> QED
  BY <1>3, <1>5, <1>7, MinCapFacts, SMT

\* The loop of hashmap_new_with_allocator finds a size that is large enough.
LEMMA CapacityFacts ==
    ASSUME NEW c \in Nat
    PROVE  Capacity(c) \in Sizes(c) /\ Capacity(c) >= c
<1> DEFINE T == {k \in Nat : MinCap * Pow2[k] >= c}
<1>1. c \in T
  BY Pow2Type, MinCapFacts, AtLeast, SMT
<1>2. PICK k \in T : \A y \in T : k <= y
  <2>1. T \subseteq Nat /\ T # {}
    BY <1>1
  <2> HIDE DEF T
  <2> QED
    BY <2>1, LeastNatural
<1>3. k \in 0..c /\ MinCap * Pow2[k] >= c
  BY <1>1, <1>2, SMT
<1> DEFINE s == MinCap * Pow2[k]
<1>4. s \in Sizes(c)
  BY <1>3 DEF Sizes
<1>5. s = MinCap \/ s \div 2 < c
  <2>1. CASE k = 0
    BY <2>1, Pow2Step, MinCapFacts, SMT
  <2>2. CASE k # 0
    <3>1. k - 1 \in Nat /\ (k - 1) + 1 = k /\ k - 1 \notin T
      BY <1>2, <2>2, SMT
    <3>2. Pow2[k - 1] \in Nat /\ Pow2[k] = 2 * Pow2[k - 1]
      BY <3>1, Pow2Step, Pow2Type
    <3> DEFINE p == MinCap * Pow2[k - 1]
    <3>3. p < c /\ p \in Nat
      BY <3>1, <3>2, MinCapFacts, SMT
    <3>4. s = 2 * p
      BY <3>2, MinCapFacts, SMT
    <3> QED
      BY <3>3, <3>4, SMT
  <2> QED
    BY <2>1, <2>2
<1>6. \E x \in Sizes(c) : x >= c /\ (x = MinCap \/ x \div 2 < c)
  BY <1>3, <1>4, <1>5
<1> QED
  BY <1>6 DEF Capacity

LEMMA LoadFacts ==
    ASSUME NEW n \in Nat, NEW h \in Nat, n = 2 * h, h >= 1
    PROVE  growat(n) < n /\ shrinkat(n) < h
<1>1. n * GROW_AT <= n * 99 /\ n * GROW_AT \in Nat
  BY HashmapAssumption, SMT
<1>2. h * SHRINK_AT <= h * 49 /\ h * SHRINK_AT \in Nat
  BY HashmapAssumption, SMT
<1>3. n * SHRINK_AT = 2 * (h * SHRINK_AT)
  BY HashmapAssumption, SMT
<1> QED
  BY <1>1, <1>2, <1>3, SMT DEF growat, shrinkat

----------------------------------------------------------------------------
(***************************************************************************)
(* Types and frames.                                                       *)
(***************************************************************************)
LEMMA SizeType ==
    TypeOK => /\ nbuckets \in Nat /\ nbuckets >= 2 /\ nbuckets >= 1 /\ nbuckets >= MinCap
              /\ nbuckets = 2 * (nbuckets \div 2)
              /\ nbuckets \div 2 \in Nat /\ nbuckets \div 2 >= 1
<1> SUFFICES ASSUME TypeOK PROVE nbuckets \in Nat
  BY SizeFacts, SMT DEF TypeOK, MapType
<1>1. nbuckets \in Sizes(nbuckets)
  BY DEF TypeOK, MapType
<1>2. PICK k \in 0..nbuckets : nbuckets = MinCap * Pow2[k]
  BY <1>1 DEF Sizes
<1>3. k \in Nat
  BY <1>2, SMT
<1> QED
  BY <1>2, <1>3, Pow2Type, MinCapFacts, SMT

LEMMA Indexed ==
    ASSUME TypeOK
    PROVE  /\ \A k \in Key : Mask(hash[k], nbuckets) \in 0 .. nbuckets - 1
           /\ \A x \in 0 .. nbuckets - 1 : Mask(x + 1, nbuckets) \in 0 .. nbuckets - 1
           /\ \A x \in 0 .. nbuckets - 1 : buckets[x] # NULL => buckets[x] \in Item
<1>1. nbuckets \in Nat /\ nbuckets >= 1
  BY SizeType
<1>2. hash \in [Key -> HashValues] /\ buckets \in Table(nbuckets)
  BY DEF TypeOK, MapType, LoopType
<1>3. \A k \in Key : Mask(hash[k], nbuckets) \in 0 .. nbuckets - 1
  BY <1>1, <1>2, HomeFacts DEF Home
<1>4. \A x \in 0 .. nbuckets - 1 : Mask(x + 1, nbuckets) \in 0 .. nbuckets - 1
  BY <1>1, NextFacts
<1>5. \A x \in 0 .. nbuckets - 1 : buckets[x] # NULL => buckets[x] \in Item
  BY <1>2 DEF Table
<1> QED
  BY <1>3, <1>4, <1>5

LEMMA Indexed2 ==
    ASSUME TypeOK, pc = "move"
    PROVE  /\ nbuckets2 \in Nat /\ nbuckets2 >= 2 /\ nbuckets2 >= 1
           /\ nbuckets2 \in Sizes(nbuckets2)
           /\ \A k \in Key : Mask(hash[k], nbuckets2) \in 0 .. nbuckets2 - 1
           /\ \A x \in 0 .. nbuckets2 - 1 : Mask(x + 1, nbuckets2) \in 0 .. nbuckets2 - 1
           /\ \A x \in 0 .. nbuckets2 - 1 : buckets2[x] # NULL => buckets2[x] \in Item
<1>1. nbuckets2 \in Nat /\ nbuckets2 \in Sizes(nbuckets2)
  BY DEF TypeOK, MapType, LoopType
<1>2. nbuckets2 >= 2 /\ nbuckets2 >= 1
  BY <1>1, SizeFacts, SMT
<1>3. hash \in [Key -> HashValues] /\ buckets2 \in Table(nbuckets2)
  BY DEF TypeOK, MapType, LoopType
<1>4. \A k \in Key : Mask(hash[k], nbuckets2) \in 0 .. nbuckets2 - 1
  BY <1>1, <1>2, <1>3, HomeFacts DEF Home
<1>5. \A x \in 0 .. nbuckets2 - 1 : Mask(x + 1, nbuckets2) \in 0 .. nbuckets2 - 1
  BY <1>1, <1>2, NextFacts
<1>6. \A x \in 0 .. nbuckets2 - 1 : buckets2[x] # NULL => buckets2[x] \in Item
  BY <1>3 DEF Table
<1> QED
  BY <1>1, <1>2, <1>4, <1>5, <1>6

\* The table that a shrinking or a growing asks for.
LEMMA NewTable ==
    ASSUME TypeOK
    PROVE  /\ Capacity(new_cap) \in Nat
           /\ Capacity(new_cap) \in Sizes(Capacity(new_cap))
           /\ Capacity(new_cap) >= new_cap
           /\ EmptyTable(Capacity(new_cap)) \in Table(Capacity(new_cap))
<1>1. new_cap \in Nat
  BY SizeType, SMT DEF new_cap
<1>2. Capacity(new_cap) \in Sizes(new_cap) /\ Capacity(new_cap) >= new_cap
  BY <1>1, CapacityFacts
<1> QED
  BY <1>1, <1>2, SizeFacts, EmptyTableType

LEMMA TypeStep ==
    TypeOK /\ Frames /\ (pc = "shift" => count >= 1) /\ [Next]_vars => TypeOK'
<1> SUFFICES ASSUME TypeOK, Frames, pc = "shift" => count >= 1, [Next]_vars PROVE TypeOK'
  OBVIOUS
<1> USE DEF mapVars, callerVars, newVars
<1>1. nbuckets \in Nat /\ nbuckets >= 2 /\ buckets \in Table(nbuckets)
  BY SizeType DEF TypeOK, MapType
<1>2. MapType /\ CallType /\ LoopType
  BY DEF TypeOK
<1> USE <1>1, <1>2
<1>3. pc \in {"probe", "find", "shift"} => i \in 0 .. nbuckets - 1
  BY SMT DEF LoopType
<1>4. pc = "probe" => entry \in Item
  BY DEF CallType, Frames
<1>5. ASSUME Return, UNCHANGED callerVars PROVE CallType'
  BY <1>5 DEF Return, CallType
<1>6. ASSUME Return, UNCHANGED <<nbuckets, callerVars>> PROVE LoopType'
  <2> USE <1>6
  <2>1. EmptyTable(0) \in Table(0) /\ 0 \in Nat
    BY EmptyTableType
  <2>2. pc' \in {"idle", "iter"} /\ iter' \in 0..nbuckets'
    BY DEF Return, LoopType
  <2> QED
    BY <2>1, <2>2, SMT DEF Return, LoopType
<1>7. ASSUME NEW w, NEW k \in Key, Find(w, k), w \in {"get", "delete"},
             oom' \in BOOLEAN, iter' \in 0..nbuckets
      PROVE  TypeOK'
  <2> USE <1>7
  <2>1. i' \in 0 .. nbuckets - 1
    BY Indexed DEF Find
  <2>2. MapType'
    BY DEF Find, MapType
  <2>3. CallType'
    BY DEF Find, CallType
  <2> QED
    BY <2>1, <2>2, <2>3, SMT DEF Find, LoopType, TypeOK
<1>8. ASSUME NEW k \in Key, NEW v \in Val, hashmap_set(k, v) PROVE TypeOK'
  <2> USE <1>8
  <2>1. MapType'
    BY DEF hashmap_set, MapType
  <2>2. CASE count >= growat(nbuckets)
    <3>1. CallType'
      BY <2>2 DEF hashmap_set, CallType
    <3> QED
      BY <2>2, <2>1, <3>1 DEF hashmap_set, LoopType, Frames, TypeOK
  <2>3. CASE ~(count >= growat(nbuckets))
    <3>1. Probe(k, v, nbuckets)
      BY <2>3 DEF hashmap_set
    <3>2. i' \in 0 .. nbuckets - 1
      BY <3>1, Indexed DEF Probe
    <3>3. entry' \in Item /\ pc' = "probe"
      BY <3>1, SMT DEF Probe, Item
    <3>4. CallType'
      BY <3>3 DEF hashmap_set, CallType
    <3> QED
      BY <3>2, <3>3, <2>1, <3>4, SMT DEF hashmap_set, LoopType, TypeOK
  <2> QED
    BY <2>2, <2>3
<1>9. ASSUME NEW k \in Key, hashmap_get(k) \/ hashmap_delete(k) PROVE TypeOK'
  <2>1. iter \in 0..nbuckets /\ oom \in BOOLEAN
    BY DEF LoopType, MapType
  <2> QED
    BY <1>7, <1>9, <2>1 DEF hashmap_get, hashmap_delete
<1>10. CASE IterStart
  <2> USE <1>10
  <2>1. MapType'
    BY DEF IterStart, MapType
  <2>2. CallType'
    BY DEF IterStart, CallType
  <2> QED
    BY <2>1, <2>2, SMT DEF IterStart, LoopType, TypeOK
<1>11. CASE SetInsert
  <2> USE <1>11
  <2>1. buckets' \in Table(nbuckets)
    BY <1>3, <1>4, PutTable DEF SetInsert
  <2>2. MapType'
    BY <2>1, SMT DEF SetInsert, MapType
  <2>3. CallType'
    BY <1>5 DEF SetInsert
  <2> QED
    BY <1>6, <2>2, <2>3 DEF SetInsert, TypeOK
<1>12. CASE SetReplace
  <2> USE <1>12
  <2>1. entry \in Item /\ buckets[i] \in Item /\ i \in 0 .. nbuckets - 1
    BY <1>3, <1>4, Indexed DEF SetReplace
  <2>2. [buckets[i] EXCEPT !.val = entry.val] \in Item
    BY <2>1 DEF Item
  <2>3. buckets[i].val \in Val
    BY <2>1, ItemFacts
  <2>4. buckets' \in Table(nbuckets)
    BY <2>1, <2>2, PutTable DEF SetReplace
  <2>5. MapType'
    BY <2>3, <2>4 DEF SetReplace, MapType
  <2>6. CallType'
    BY <1>5 DEF SetReplace
  <2> QED
    BY <1>6, <2>5, <2>6 DEF SetReplace, TypeOK
<1>13. CASE SetFarther
  <2> USE <1>13
  <2>1. entry \in Item /\ buckets[i] \in Item /\ i \in 0 .. nbuckets - 1
    BY <1>3, <1>4, Indexed DEF SetFarther
  <2>2. buckets' \in Table(nbuckets)
    BY <2>1, PutTable DEF SetFarther
  <2>3. entry' \in Item
    BY <2>1, ItemFacts DEF SetFarther
  <2>4. i' \in 0 .. nbuckets - 1
    BY <2>1, Indexed DEF SetFarther
  <2>5. MapType'
    BY <2>2 DEF SetFarther, MapType
  <2>6. CallType'
    BY <2>3 DEF SetFarther, CallType
  <2> QED
    BY <2>4, <2>5, <2>6, SMT DEF SetFarther, LoopType, TypeOK
<1>14. CASE FindNothing
  <2> USE <1>14
  <2>1. MapType'
    BY DEF FindNothing, MapType
  <2>2. CallType'
    BY <1>5 DEF FindNothing
  <2> QED
    BY <1>6, <2>1, <2>2 DEF FindNothing, TypeOK
<1>15. CASE FindNext
  <2> USE <1>15
  <2>1. i' \in 0 .. nbuckets - 1
    BY <1>3, Indexed DEF FindNext
  <2>2. MapType'
    BY DEF FindNext, MapType
  <2>3. CallType'
    BY DEF FindNext, CallType
  <2> QED
    BY <2>1, <2>2, <2>3, SMT DEF FindNext, LoopType, TypeOK
<1>16. CASE GetFound
  <2> USE <1>16
  <2>1. buckets[i].val \in Val
    BY <1>3, Indexed, ItemFacts DEF GetFound
  <2>2. MapType'
    BY <2>1 DEF GetFound, MapType
  <2>3. CallType'
    BY <1>5 DEF GetFound
  <2> QED
    BY <1>6, <2>2, <2>3 DEF GetFound, TypeOK
<1>17. CASE DeleteFound
  <2> USE <1>17
  <2>1. buckets[i].val \in Val
    BY <1>3, Indexed, ItemFacts DEF DeleteFound
  <2>2. buckets' \in Table(nbuckets)
    BY <1>3, PutTable DEF DeleteFound
  <2>3. MapType'
    BY <2>1, <2>2 DEF DeleteFound, MapType
  <2>4. CallType'
    BY DEF DeleteFound, CallType
  <2> QED
    BY <1>3, <2>3, <2>4 DEF DeleteFound, LoopType, TypeOK
<1>18. CASE DeleteShift
  <2> USE <1>18
  <2>1. Mask(i + 1, nbuckets) \in 0 .. nbuckets - 1 /\ i \in 0 .. nbuckets - 1
    BY <1>3, Indexed DEF DeleteShift
  <2>2. /\ buckets[Mask(i + 1, nbuckets)] \in Item
        /\ buckets[Mask(i + 1, nbuckets)].dib > 1
    BY <2>1, Indexed DEF DeleteShift
  <2>3. [buckets[Mask(i + 1, nbuckets)] EXCEPT !.dib = @ - 1] \in Item
    BY <2>2, SMT DEF Item
  <2>4. buckets' \in Table(nbuckets)
    BY <2>1, <2>3, PutTable DEF DeleteShift
  <2>5. i' = Mask(i + 1, nbuckets)
    BY DEF DeleteShift
  <2>6. MapType'
    BY <2>4 DEF DeleteShift, MapType
  <2>7. CallType'
    BY DEF DeleteShift, CallType
  <2> QED
    BY <2>1, <2>5, <2>6, <2>7, SMT DEF DeleteShift, LoopType, TypeOK
<1>19. CASE DeleteLast
  <2> USE <1>19
  <2>1. buckets' \in Table(nbuckets)
    BY <1>3, PutTable DEF DeleteLast
  <2>2. count' \in Nat
    <3>1. count \in Nat /\ count >= 1 /\ count' = count - 1
      BY DEF DeleteLast, MapType
    <3> QED
      BY <3>1, SMT
  <2>3. MapType'
    BY <2>1, <2>2 DEF DeleteLast, MapType
  <2>4. CASE pc' = "alloc" /\ UNCHANGED <<op, key, val, entry, i, newVars>>
    <3>1. CallType'
      BY <2>4 DEF DeleteLast, CallType
    <3> QED
      BY <2>4, <2>3, <3>1 DEF DeleteLast, LoopType, TypeOK
  <2>5. CASE Return
    BY <1>5, <1>6, <2>3, <2>5 DEF DeleteLast, TypeOK
  <2> QED
    BY <2>4, <2>5 DEF DeleteLast
<1>20. CASE ResizeFails
  <2> USE <1>20
  <2>1. MapType'
    BY DEF ResizeFails, MapType
  <2>2. CallType'
    BY <1>5 DEF ResizeFails
  <2> QED
    BY <1>6, <2>1, <2>2 DEF ResizeFails, TypeOK
<1>21. CASE ResizeStart
  <2> USE <1>21
  <2>1. /\ Capacity(new_cap) \in Nat /\ Capacity(new_cap) \in Sizes(Capacity(new_cap))
        /\ EmptyTable(Capacity(new_cap)) \in Table(Capacity(new_cap))
    BY NewTable
  <2>2. entry' = NULL
    BY DEF ResizeStart, Frames
  <2>3. MapType'
    BY DEF ResizeStart, MapType
  <2>4. CallType'
    BY DEF ResizeStart, CallType
  <2> QED
    BY <2>1, <2>2, <2>3, <2>4, SMT DEF ResizeStart, LoopType, TypeOK
<1>22. CASE ResizeSkip
  <2> USE <1>22
  <2>1. MapType'
    BY DEF ResizeSkip, MapType
  <2>2. CallType'
    BY DEF ResizeSkip, CallType
  <2> QED
    BY <2>1, <2>2, SMT DEF ResizeSkip, LoopType, TypeOK
<1>23. CASE ResizeTake
  <2> USE <1>23
  <2>1. i \in 0 .. nbuckets - 1
    BY SMT DEF ResizeTake, LoopType
  <2>2. buckets[i] \in Item
    BY <2>1, Indexed DEF ResizeTake
  <2>3. entry' \in Item
    BY <2>2, SMT DEF ResizeTake, Item
  <2>4. j' \in 0 .. nbuckets2 - 1 /\ nbuckets2 \in Nat
    BY <2>2, ItemFacts, Indexed2 DEF ResizeTake
  <2>5. MapType'
    BY DEF ResizeTake, MapType
  <2>6. CallType'
    BY <2>3 DEF ResizeTake, CallType
  <2> QED
    BY <2>1, <2>3, <2>4, <2>5, <2>6, SMT DEF ResizeTake, LoopType, TypeOK
<1>24. CASE ResizePut
  <2> USE <1>24
  <2>1. j \in 0 .. nbuckets2 - 1 /\ entry \in Item /\ nbuckets2 \in Nat
    BY SMT DEF ResizePut, LoopType, CallType
  <2>2. buckets2' \in Table(nbuckets2)
    BY <2>1, PutTable DEF ResizePut, LoopType
  <2>3. i' \in 0..nbuckets
    BY SMT DEF ResizePut, LoopType
  <2>4. MapType'
    BY DEF ResizePut, MapType
  <2>5. CallType'
    BY DEF ResizePut, CallType
  <2> QED
    BY <2>1, <2>2, <2>3, <2>4, <2>5 DEF ResizePut, LoopType, TypeOK
<1>25. CASE ResizeFarther
  <2> USE <1>25
  <2>1. j \in 0 .. nbuckets2 - 1 /\ entry \in Item /\ nbuckets2 \in Nat
    BY SMT DEF ResizeFarther, LoopType, CallType
  <2>2. buckets2[j] \in Item
    BY <2>1, Indexed2 DEF ResizeFarther
  <2>3. buckets2' \in Table(nbuckets2)
    BY <2>1, PutTable DEF ResizeFarther, LoopType
  <2>4. entry' \in Item
    BY <2>1, <2>2, ItemFacts DEF ResizeFarther
  <2>5. j' \in 0 .. nbuckets2 - 1
    BY <2>1, Indexed2 DEF ResizeFarther
  <2>6. MapType'
    BY DEF ResizeFarther, MapType
  <2>7. CallType'
    BY <2>4 DEF ResizeFarther, CallType
  <2> QED
    BY <2>1, <2>3, <2>5, <2>6, <2>7, SMTT(30) DEF ResizeFarther, LoopType, TypeOK
<1>26. CASE ResizeDone
  <2> USE <1>26
  <2>1. nbuckets2 \in Nat /\ nbuckets2 >= 2 /\ nbuckets2 \in Sizes(nbuckets2)
    BY Indexed2 DEF ResizeDone
  <2>2. iter' = 0 /\ 0 \in Nat /\ EmptyTable(0) \in Table(0)
    BY EmptyTableType DEF ResizeDone, Frames
  <2>3. MapType'
    BY <2>1 DEF ResizeDone, MapType, LoopType
  <2>4. CASE op = "set"
    <3>1. Probe(key, val, nbuckets2) /\ key \in Key /\ val \in Val
      BY <2>4 DEF ResizeDone, Frames
    <3>2. i' \in 0 .. nbuckets2 - 1
      BY <3>1, Indexed2 DEF ResizeDone, Probe
    <3>3. entry' \in Item /\ pc' = "probe"
      BY <3>1, SMT DEF Probe, Item
    <3>4. CallType'
      BY <2>4, <3>3 DEF ResizeDone, CallType
    <3> QED
      BY <2>1, <2>2, <2>4, <3>2, <3>3, <2>3, <3>4, SMT DEF ResizeDone, LoopType, TypeOK
  <2>5. CASE op # "set"
    <3>1. CallType'
      BY <1>5, <2>5 DEF ResizeDone
    <3>2. pc' \in {"idle", "iter"} /\ i' = 0 /\ j' = 0
      BY <2>5 DEF ResizeDone, Return
    <3> QED
      BY <2>1, <2>2, <2>5, <3>2, <2>3, <3>1, SMT DEF ResizeDone, Return, LoopType, TypeOK
  <2> QED
    BY <2>4, <2>5
<1>27. CASE IterNext
  <2> USE <1>27
  <2>1. MapType'
    BY DEF IterNext, MapType
  <2>2. CallType'
    BY DEF IterNext, CallType
  <2> QED
    BY <2>1, <2>2, SMT DEF IterNext, LoopType, TypeOK
<1>28. CASE IterDelete
  <2> USE <1>28
  <2>1. iter \in 0 .. nbuckets - 1
    BY SMT DEF IterDelete, LoopType
  <2>2. buckets[iter].key \in Key
    BY <2>1, Indexed, ItemFacts DEF IterDelete
  <2>3. Find("delete", buckets[iter].key) /\ oom' \in BOOLEAN
    BY DEF IterDelete
  <2>4. iter' = 0
    BY DEF IterDelete
  <2>5. iter' \in 0..nbuckets /\ "delete" \in {"get", "delete"}
    BY <2>4, SMT
  <2> QED
    BY <1>7, <2>2, <2>3, <2>5
<1>29. CASE IterEnd
  <2> USE <1>29
  <2>1. MapType'
    BY DEF IterEnd, MapType
  <2>2. CallType'
    BY DEF IterEnd, CallType
  <2> QED
    BY <2>1, <2>2, SMT DEF IterEnd, LoopType, TypeOK
<1>30. CASE UNCHANGED vars
  BY <1>30, SMT DEF vars, TypeOK, MapType, CallType, LoopType
<1> QED
  BY <1>8, <1>9, <1>10, <1>11, <1>12, <1>13, <1>14, <1>15, <1>16, <1>17, <1>18,
     <1>19, <1>20, <1>21, <1>22, <1>23, <1>24, <1>25, <1>26, <1>27, <1>28, <1>29,
     <1>30
     DEF Next, Set, Search, Shift, Resize, Iterate

LEMMA FramesStep ==
    TypeOK /\ Frames /\ [Next]_vars => Frames'
<1> SUFFICES ASSUME TypeOK, Frames, [Next]_vars PROVE Frames'
  OBVIOUS
<1> USE DEF mapVars, callerVars, newVars
<1>1. ASSUME Return, UNCHANGED callerVars, pc # "iter" PROVE Frames'
  BY <1>1 DEF Return, Frames
<1>2. ASSUME NEW k \in Key, NEW w, Find(w, k), w \in {"get", "delete"}, pc \in {"idle", "iter"},
             iter' = 0, collecting => w = "delete"
      PROVE  Frames'
  BY <1>2 DEF Find, Frames
<1>3. ASSUME NEW k \in Key, NEW v \in Val, hashmap_set(k, v) PROVE Frames'
  <2>1. entry' = NULL \/ entry' \in Item
    BY <1>3, SMT DEF hashmap_set, Probe, Item, Frames
  <2>2. entry' \in Item => entry' # NULL
    BY ItemFacts
  <2>3. CASE count >= growat(nbuckets)
    BY <1>3, <2>3 DEF hashmap_set, Frames
  <2>4. CASE ~(count >= growat(nbuckets))
    <3>1. entry' \in Item /\ pc' = "probe"
      BY <1>3, <2>4, SMT DEF hashmap_set, Probe, Item
    <3> QED
      BY <1>3, <2>2, <3>1 DEF hashmap_set, Frames
  <2> QED
    BY <2>3, <2>4
<1>4. ASSUME NEW k \in Key, hashmap_get(k) \/ hashmap_delete(k) PROVE Frames'
  <2>1. iter' = 0 /\ ~collecting
    BY <1>4 DEF hashmap_get, hashmap_delete, Frames
  <2> QED
    BY <1>2, <1>4, <2>1 DEF hashmap_get, hashmap_delete
<1>5. CASE IterStart
  BY <1>5 DEF IterStart, Frames
<1>6. CASE SetInsert
  BY <1>1, <1>6 DEF SetInsert
<1>7. CASE SetReplace
  BY <1>1, <1>7 DEF SetReplace
<1>8. CASE SetFarther
  <2>1. entry \in Item /\ buckets[i] \in Item
    <3>1. i \in 0 .. nbuckets - 1 /\ entry \in Item
      BY <1>8, SizeType, SMT DEF SetFarther, TypeOK, CallType, LoopType, Frames
    <3> QED
      BY <1>8, <3>1, Indexed DEF SetFarther
  <2>2. entry' # NULL
    BY <1>8, <2>1, ItemFacts DEF SetFarther
  <2> QED
    BY <1>8, <2>2 DEF SetFarther, Frames
<1>9. CASE FindNothing
  BY <1>1, <1>9 DEF FindNothing
<1>10. CASE FindNext
  BY <1>10 DEF FindNext, Frames
<1>11. CASE GetFound
  BY <1>1, <1>11 DEF GetFound
<1>12. CASE DeleteFound
  BY <1>12 DEF DeleteFound, Frames
<1>13. CASE DeleteShift
  BY <1>13 DEF DeleteShift, Frames
<1>14. CASE DeleteLast
  <2>1. CASE nbuckets > MinCap /\ count - 1 <= shrinkat(nbuckets)
    BY <1>14, <2>1 DEF DeleteLast, Frames
  <2>2. CASE ~(nbuckets > MinCap /\ count - 1 <= shrinkat(nbuckets))
    BY <1>1, <1>14, <2>2 DEF DeleteLast
  <2> QED
    BY <2>1, <2>2
<1>15. CASE ResizeFails
  BY <1>1, <1>15 DEF ResizeFails
<1>16. CASE ResizeStart
  BY <1>16 DEF ResizeStart, Frames
<1>17. CASE ResizeSkip
  BY <1>17 DEF ResizeSkip, Frames
<1>18. CASE ResizeTake
  BY <1>18 DEF ResizeTake, Frames
<1>19. CASE ResizePut
  BY <1>19 DEF ResizePut, Frames
<1>20. CASE ResizeFarther
  <2>1. entry \in Item /\ buckets2[j] \in Item
    <3>1. j \in 0 .. nbuckets2 - 1 /\ entry \in Item
      <4>1. pc = "move" /\ entry # NULL
        BY <1>20 DEF ResizeFarther
      <4>2. j \in Nat /\ j < nbuckets2 /\ nbuckets2 \in Nat /\ entry \in Item
        BY <4>1 DEF TypeOK, CallType, LoopType
      <4> QED
        BY <4>1, <4>2, SMT
    <3> QED
      BY <1>20, <3>1, Indexed2, ZenonT(30) DEF ResizeFarther
  <2>2. entry' # NULL
    BY <1>20, <2>1, ItemFacts DEF ResizeFarther
  <2> QED
    BY <1>20, <2>2 DEF ResizeFarther, Frames
<1>21. CASE ResizeDone
  <2>1. CASE op = "set"
    <3>1. Probe(key, val, nbuckets2) /\ key \in Key /\ val \in Val
      BY <1>21, <2>1 DEF ResizeDone, Frames
    <3>2. entry' \in Item /\ pc' = "probe"
      BY <3>1, SMT DEF Probe, Item
    <3>3. entry' # NULL
      BY <3>2, ItemFacts
    <3> QED
      BY <1>21, <2>1, <3>2, <3>3 DEF ResizeDone, Frames
  <2>2. CASE op # "set"
    BY <1>1, <1>21, <2>2 DEF ResizeDone
  <2> QED
    BY <2>1, <2>2
<1>22. CASE IterNext
  BY <1>22 DEF IterNext, Frames
<1>23. CASE IterDelete
  <2>1. iter \in 0 .. nbuckets - 1
    BY <1>23, SizeType, SMT DEF IterDelete, TypeOK, LoopType
  <2>2. buckets[iter].key \in Key
    BY <1>23, <2>1, Indexed, ItemFacts DEF IterDelete
  <2>3. iter' = 0 /\ "delete" \in {"get", "delete"} /\ pc \in {"idle", "iter"}
    BY <1>23 DEF IterDelete
  <2>4. Find("delete", buckets[iter].key)
    BY <1>23 DEF IterDelete
  <2> QED
    BY <1>2, <2>2, <2>3, <2>4
<1>24. CASE IterEnd
  BY <1>24 DEF IterEnd, Frames
<1>25. CASE UNCHANGED vars
  BY <1>25 DEF vars, Frames
<1> QED
  BY <1>3, <1>4, <1>5, <1>6, <1>7, <1>8, <1>9, <1>10, <1>11, <1>12, <1>13, <1>14,
     <1>15, <1>16, <1>17, <1>18, <1>19, <1>20, <1>21, <1>22, <1>23, <1>24, <1>25,
     SMTT(30)
     DEF Next, Set, Search, Shift, Resize, Iterate

----------------------------------------------------------------------------
(***************************************************************************)
(* Net masks.                                                              *)
(***************************************************************************)
LEMMA Pow2Sum ==
    \A a \in Nat : \A b \in Nat : Pow2[a + b] = Pow2[a] * Pow2[b]
<1> SUFFICES ASSUME NEW a \in Nat PROVE \A b \in Nat : Pow2[a + b] = Pow2[a] * Pow2[b]
  OBVIOUS
<1> DEFINE T == {b \in Nat : Pow2[a + b] # Pow2[a] * Pow2[b]}
<1> SUFFICES ASSUME T # {} PROVE FALSE
  OBVIOUS
<1>1. PICK b \in T : \A y \in T : b <= y
  BY LeastNatural
<1>2. b \in Nat /\ Pow2[a] \in Nat
  BY <1>1, Pow2Type
<1>3. b # 0
  BY <1>1, <1>2, Pow2Step, SMT
<1>4. b - 1 \in Nat /\ b - 1 \notin T
  BY <1>1, <1>2, <1>3, SMT
<1>5. a + (b - 1) \in Nat /\ (a + (b - 1)) + 1 = a + b /\ (b - 1) + 1 = b
  BY <1>2, <1>4, SMT
<1>6. Pow2[a + b] = 2 * Pow2[a + (b - 1)] /\ Pow2[b] = 2 * Pow2[b - 1] /\ Pow2[b - 1] \in Nat
  BY <1>4, <1>5, Pow2Step, Pow2Type
<1>7. Pow2[a + (b - 1)] = Pow2[a] * Pow2[b - 1]
  BY <1>4
<1>8. 2 * (Pow2[a] * Pow2[b - 1]) = Pow2[a] * (2 * Pow2[b - 1])
  BY <1>2, <1>6, SMT
<1> QED
  BY <1>1, <1>6, <1>7, <1>8

LEMMA Pow2Less ==
    ASSUME NEW a \in Nat, NEW b \in Nat, a < b
    PROVE  2 * Pow2[a] <= Pow2[b]
<1>1. b - a - 1 \in Nat /\ (a + 1) + (b - a - 1) = b /\ a + 1 \in Nat
  BY SMT
<1>2. Pow2[b] = Pow2[a + 1] * Pow2[b - a - 1]
  BY <1>1, Pow2Sum
<1>3. /\ Pow2[a + 1] = 2 * Pow2[a] /\ Pow2[a] \in Nat /\ Pow2[b - a - 1] \in Nat
      /\ Pow2[b - a - 1] >= 1
  BY <1>1, Pow2Step, Pow2Type, SMT
<1>4. ASSUME NEW x \in Nat, NEW y \in Nat, y >= 1 PROVE x <= x * y
  <2>1. x * y = x + x * (y - 1) /\ x * (y - 1) >= 0
    BY <1>4, SMT
  <2> QED
    BY <2>1, SMT
<1> QED
  BY <1>1, <1>2, <1>3, <1>4, SMT

\* Division with remainder.
LEMMA Quotient ==
    ASSUME NEW d \in Nat, d >= 1, NEW q \in Nat, NEW r \in 0 .. d - 1
    PROVE  (q * d + r) \div d = q /\ (q * d + r) % d = r
<1> DEFINE x == q * d + r
           p == x \div d
           s == x % d
<1>1. x \in Nat
  BY SMT
<1>2. p \in Int /\ s \in 0 .. d - 1 /\ x = d * p + s
  BY <1>1, SMT
<1>3. ASSUME NEW u \in Int, NEW v \in Int, u < v PROVE d * u + d <= d * v
  <2>1. d * v = d * u + d * (v - u) /\ v - u >= 1
    BY <1>3, SMT
  <2>2. d * (v - u) = d + d * (v - u - 1) /\ d * (v - u - 1) >= 0
    BY <1>3, SMT
  <2> QED
    BY <2>1, <2>2, SMT
<1> HIDE DEF p, s
<1>4. ~(p < q) /\ ~(q < p)
  BY <1>2, <1>3, SMT
<1>5. p = q
  BY <1>2, <1>4, SMT
<1> QED
  BY <1>2, <1>5, SMT DEF p, s

\* The word of four octets, the last one first.
Value(d, o0, o1, o2, o3) == o0 + o1 * d + o2 * (d * d) + o3 * (d * d * d)

LEMMA TwoDigits ==
    ASSUME NEW d \in Nat, NEW m \in Nat, d >= 1, m >= 1, NEW a \in 0 .. m - 1, NEW b \in 0 .. d - 1
    PROVE  m * d \in Nat /\ m * d >= 1 /\ a + b * m \in 0 .. m * d - 1
<1>1. b * m \in Nat /\ m * d \in Nat
  BY SMT
<1>2. m * d = b * m + (d - b) * m /\ (d - b) * m = m + (d - b - 1) * m /\ (d - b - 1) * m >= 0
  BY SMT
<1> QED
  BY <1>1, <1>2, SMT

LEMMA Octets ==
    ASSUME NEW d \in Nat, d >= 1, NEW o0 \in 0 .. d - 1, NEW o1 \in 0 .. d - 1,
           NEW o2 \in 0 .. d - 1, NEW o3 \in 0 .. d - 1, NEW x, x = Value(d, o0, o1, o2, o3)
    PROVE  /\ x \in 0 .. d * d * d * d - 1
           /\ x % d = o0
           /\ (x \div d) % d = o1
           /\ (x \div (d * d)) % d = o2
           /\ (x \div (d * d * d)) % d = o3
<1> DEFINE r1 == o0 + o1 * d
           r2 == r1 + o2 * (d * d)
<1>1. d * d \in Nat /\ d * d >= 1 /\ r1 \in 0 .. d * d - 1
  BY TwoDigits
<1>2. d * d * d \in Nat /\ d * d * d >= 1 /\ r2 \in 0 .. d * d * d - 1
  <2> HIDE DEF r1
  <2> QED
    BY <1>1, TwoDigits
<1>3. x \in 0 .. d * d * d * d - 1 /\ x = o3 * (d * d * d) + r2
  <2>1. x = r2 + o3 * (d * d * d)
    BY DEF Value
  <2> HIDE DEF r1, r2
  <2>2. r2 + o3 * (d * d * d) \in 0 .. d * d * d * d - 1
    BY <1>2, TwoDigits
  <2> QED
    BY <1>2, <2>1, <2>2, SMT
<1>4. x \div (d * d * d) = o3
  <2> HIDE DEF r1, r2
  <2> QED
    BY <1>2, <1>3, Quotient, SMT
<1>5. x \div (d * d) = o3 * d + o2
  <2> DEFINE q == o3 * d + o2
  <2>1. q \in Nat /\ x = q * (d * d) + r1
    <3> HIDE DEF r1
    <3>1. o3 * (d * d * d) = (o3 * d) * (d * d) /\ o2 * (d * d) \in Int /\ o3 * d \in Nat
      BY <1>1, SMT
    <3>2. q * (d * d) = (o3 * d) * (d * d) + o2 * (d * d)
      BY <1>1, <3>1, SMT
    <3> QED
      BY <1>1, <1>3, <3>1, <3>2, SMT
  <2> HIDE DEF q, r1
  <2>2. x \div (d * d) = q
    BY <1>1, <2>1, Quotient, SMT
  <2> QED
    BY <2>2 DEF q
<1>6. x \div d = (o3 * d + o2) * d + o1 /\ x % d = o0
  <2> DEFINE q == (o3 * d + o2) * d + o1
  <2>1. q \in Nat /\ x = q * d + o0
    <3>1. o3 * (d * d * d) = ((o3 * d) * d) * d /\ o2 * (d * d) = (o2 * d) * d
      BY <1>1, SMT
    <3>2. (o3 * d + o2) * d = (o3 * d) * d + o2 * d /\ (o3 * d) * d \in Nat /\ o2 * d \in Nat
      BY SMT
    <3>3. q * d = ((o3 * d) * d) * d + (o2 * d) * d + o1 * d
      BY <3>2, SMT
    <3>4. x = o0 + o1 * d + o2 * (d * d) + o3 * (d * d * d)
      BY DEF Value
    <3> QED
      BY <3>1, <3>2, <3>3, <3>4, SMT
  <2> HIDE DEF q
  <2>2. x \div d = q /\ x % d = o0
    BY <2>1, Quotient
  <2> QED
    BY <2>2 DEF q
<1>7. (o3 * d + o2) % d = o2 /\ ((o3 * d + o2) * d + o1) % d = o1 /\ o3 % d = o3
  <2>1. o3 * d + o2 \in Nat /\ 0 * d + o3 = o3
    BY SMT
  <2>2. (o3 * d + o2) % d = o2
    <3>1. o3 \in Nat /\ o3 * d + o2 \in Int
      BY <2>1, SMT
    <3> QED
      BY <3>1, Quotient
  <2>3. (0 * d + o3) % d = o3
    BY Quotient
  <2>4. ASSUME NEW q \in Nat PROVE (q * d + o1) % d = o1
    BY Quotient
  <2> QED
    BY <2>1, <2>2, <2>3, <2>4
<1> QED
  BY <1>3, <1>4, <1>5, <1>6, <1>7

LEMMA HasOctets ==
    ASSUME NEW d \in Nat, d >= 1, NEW x \in 0 .. d * d * d * d - 1
    PROVE  \E o0, o1, o2, o3 \in 0 .. d - 1 : x = Value(d, o0, o1, o2, o3)
<1> DEFINE q1 == x \div d
           q2 == q1 \div d
           q3 == q2 \div d
           o0 == x % d
           o1 == q1 % d
           o2 == q2 % d
<1>1. x \in Nat /\ d * d \in Nat /\ d * d * d \in Nat
  BY SMT
<1>2. ASSUME NEW y \in Nat
      PROVE  y \div d \in Nat /\ y % d \in 0 .. d - 1 /\ y = d * (y \div d) + (y % d)
  <2> DEFINE q == y \div d
             r == y % d
  <2>1. q \in Int /\ r \in 0 .. d - 1 /\ y = d * q + r
    BY SMT
  <2> HIDE DEF q, r
  <2>2. ASSUME q < 0 PROVE FALSE
    <3>1. d * q + d = d * (q + 1) /\ d * (q + 1) <= 0
      BY <2>1, <2>2, SMT
    <3> QED
      BY <2>1, <3>1, SMT
  <2>3. q \in Nat
    BY <2>1, <2>2, SMT
  <2> QED
    BY <2>1, <2>3 DEF q, r
<1>3. q1 \in Nat /\ o0 \in 0 .. d - 1 /\ x = d * q1 + o0
  BY <1>1, <1>2
<1> HIDE DEF q1, o0
<1>4. q2 \in Nat /\ o1 \in 0 .. d - 1 /\ q1 = d * q2 + o1
  BY <1>2, <1>3
<1> HIDE DEF q2, o1
<1>5. q3 \in Nat /\ o2 \in 0 .. d - 1 /\ q2 = d * q3 + o2
  BY <1>2, <1>4
<1> HIDE DEF q3, o2
<1>6. x = Value(d, o0, o1, o2, q3)
  <2>1. d * q2 = (d * d) * q3 + d * o2 /\ d * q1 = d * (d * q2) + d * o1
    BY <1>3, <1>4, <1>5, SMT
  <2>2. d * (d * q2) = (d * d * d) * q3 + (d * d) * o2
    BY <1>5, <2>1, SMT
  <2> QED
    BY <1>1, <1>3, <1>4, <1>5, <2>1, <2>2, SMT DEF Value
<1>7. q3 \in 0 .. d - 1
  <2>1. x >= (d * d * d) * q3
    <3>1. o1 * d >= 0 /\ o2 * (d * d) >= 0 /\ q3 * (d * d * d) = (d * d * d) * q3
      BY <1>1, <1>4, <1>5, SMT
    <3>2. x = o0 + o1 * d + o2 * (d * d) + q3 * (d * d * d)
      BY <1>6 DEF Value
    <3> QED
      BY <1>1, <1>3, <1>4, <1>5, <3>1, <3>2, SMT
  <2>2. ASSUME q3 >= d PROVE FALSE
    <3>1. ASSUME NEW m \in Nat PROVE m * q3 >= m * d
      <4>1. m * q3 = m * d + m * (q3 - d) /\ m * (q3 - d) >= 0
        BY <1>5, <2>2, SMT
      <4> QED
        BY <1>5, <4>1, SMT
    <3>2. (d * d * d) * q3 >= d * d * d * d
      BY <1>1, <3>1
    <3> QED
      BY <1>1, <1>5, <2>1, <3>2, SMT
  <2> QED
    BY <1>5, <2>2, SMT
<1> QED
  BY <1>3, <1>4, <1>5, <1>6, <1>7

LEMMA WordFacts ==
    LET d == Pow2[OctetBits]
    IN  /\ d \in Nat /\ d >= 1 /\ Pow2[0 * OctetBits] = 1 /\ Pow2[1 * OctetBits] = d
        /\ Pow2[2 * OctetBits] = d * d /\ Pow2[3 * OctetBits] = d * d * d
        /\ Word = 0 .. d * d * d * d - 1 /\ W \in Nat /\ W >= 4
<1> DEFINE n == OctetBits
           d == Pow2[n]
<1>1. /\ n \in Nat /\ n >= 1 /\ 0 * n = 0 /\ 1 * n = n /\ 2 * n = n + n
      /\ 3 * n = (n + n) + n /\ 4 * n = ((n + n) + n) + n
  BY OctetAssumption, SMT
<1>2. n + n \in Nat /\ (n + n) + n \in Nat
  BY <1>1, SMT
<1>3. d \in Nat /\ d >= 1
  BY <1>1, Pow2Type, SMT
<1>4. Pow2[n + n] = d * d
  BY <1>1, Pow2Sum
<1>5. Pow2[(n + n) + n] = d * d * d
  BY <1>1, <1>2, <1>4, Pow2Sum
<1>6. Pow2[((n + n) + n) + n] = d * d * d * d
  BY <1>1, <1>2, <1>5, Pow2Sum
<1>7. W \in Nat /\ W >= 4
  BY <1>1, SMT DEF W
<1> QED
  BY <1>1, <1>3, <1>4, <1>5, <1>6, <1>7, Pow2Step DEF Word, W

\* The octets of a word the other way around, and back again.
LEMMA SwapTwice ==
    ASSUME NEW x \in Word
    PROVE  Swap(x) \in Word /\ Swap(Swap(x)) = x
<1> DEFINE d == Pow2[OctetBits]
           octet(y, n) == (y \div Pow2[n * OctetBits]) % d
<1>1. /\ d \in Nat /\ d >= 1 /\ Pow2[0 * OctetBits] = 1 /\ Pow2[1 * OctetBits] = d
      /\ Pow2[2 * OctetBits] = d * d /\ Pow2[3 * OctetBits] = d * d * d
      /\ Word = 0 .. d * d * d * d - 1
  BY WordFacts
<1>2. \A y : Swap(y) = octet(y, 3) + octet(y, 2) * d + octet(y, 1) * Pow2[2 * OctetBits]
                         + octet(y, 0) * Pow2[3 * OctetBits]
  BY DEF Swap
<1> HIDE DEF d
<1>3. ASSUME NEW o0 \in 0 .. d - 1, NEW o1 \in 0 .. d - 1, NEW o2 \in 0 .. d - 1,
             NEW o3 \in 0 .. d - 1, NEW y, y = Value(d, o0, o1, o2, o3)
      PROVE  y \in Word /\ Swap(y) = Value(d, o3, o2, o1, o0)
  <2>1. /\ y \in 0 .. d * d * d * d - 1
        /\ y % d = o0
        /\ (y \div d) % d = o1
        /\ (y \div (d * d)) % d = o2
        /\ (y \div (d * d * d)) % d = o3
    BY <1>1, <1>3, Octets, SMT
  <2>2. y \div 1 = y
    BY <1>1, <2>1, SMT
  <2>3. octet(y, 0) = o0 /\ octet(y, 1) = o1 /\ octet(y, 2) = o2 /\ octet(y, 3) = o3
    BY <1>1, <2>1, <2>2
  <2> HIDE DEF octet
  <2>4. Swap(y) = o3 + o2 * d + o1 * (d * d) + o0 * (d * d * d)
    BY <1>1, <1>2, <2>3
  <2> QED
    BY <1>1, <2>1, <2>4 DEF Value
<1> HIDE DEF octet
<1>4. PICK o0, o1, o2, o3 \in 0 .. d - 1 : x = Value(d, o0, o1, o2, o3)
  <2>1. d \in Nat /\ d >= 1 /\ x \in 0 .. d * d * d * d - 1
    BY <1>1
  <2> QED
    BY <2>1, HasOctets
<1>5. Swap(x) = Value(d, o3, o2, o1, o0)
  BY <1>3, <1>4, SMT
<1>6. Swap(x) \in Word /\ Swap(Swap(x)) = Value(d, o0, o1, o2, o3)
  BY <1>3, <1>5, SMT
<1> QED
  BY <1>4, <1>6

LEMMA Pow2Most ==
    ASSUME NEW a \in Nat, NEW b \in Nat, a <= b
    PROVE  Pow2[a] <= Pow2[b]
<1>1. Pow2[a] \in Nat /\ Pow2[b] \in Nat
  BY Pow2Type
<1> QED
  BY <1>1, Pow2Less, SMT

\* __builtin_clz has one result, but for 0.
LEMMA OneCount ==
    ASSUME NEW x \in Word, x # 0, NEW n \in Clz(x), NEW m \in Clz(x)
    PROVE  n = m
<1>1. W \in Nat /\ x \in Int
  BY WordFacts, SMT DEF Word
<1>2. ASSUME NEW l \in Clz(x)
      PROVE  /\ l \in 0 .. W - 1 /\ Pow2[W - 1 - l] <= x /\ x < Pow2[W - l]
             /\ Pow2[W - 1 - l] \in Nat /\ Pow2[W - l] \in Nat
  <2>1. l \in 0 .. W - 1 /\ Pow2[W - 1 - l] <= x /\ x < Pow2[W - l]
    BY <1>2 DEF Clz
  <2> QED
    BY <1>1, <2>1, Pow2Type, SMT
<1>3. ASSUME NEW l \in Clz(x), NEW k \in Clz(x), l < k PROVE FALSE
  <2>1. W - k \in Nat /\ W - 1 - l \in Nat /\ W - k <= W - 1 - l
    BY <1>1, <1>2, <1>3, SMT
  <2>2. Pow2[W - k] <= Pow2[W - 1 - l]
    BY <2>1, Pow2Most
  <2> QED
    BY <1>1, <1>2, <2>2, SMT
<1>4. ~(n < m) /\ ~(m < n)
  BY <1>3
<1> QED
  BY <1>1, <1>2, <1>4, SMT

\* The mask of a prefix: a one for each bit of the prefix, and then zeros.
LEMMA MaskOfPrefix ==
    ASSUME NEW n \in 1 .. W - 1
    PROVE  LET h == PrefixMask(W - n)
           IN  /\ h = Pow2[W] - Pow2[n] /\ h \in Word /\ h # 0 /\ h # Ones
               /\ Not(h) = Pow2[n] - 1 /\ Not(h) # 0
               /\ n \in Ctz(h) /\ W - n \in Clz(Not(h))
<1> DEFINE h == PrefixMask(W - n)
           p == Pow2[n]
           c == Pow2[W - n - 1]
<1>1. W \in Nat /\ n \in Nat /\ W - n \in 1 .. W - 1 /\ W - (W - n) = n /\ W - 1 - (W - n) = n - 1
      /\ n - 1 \in Nat /\ (n - 1) + 1 = n /\ W - n - 1 \in Nat
      /\ (n + 1) + (W - n - 1) = W /\ n + 1 \in Nat
  BY WordFacts, SMT
<1>2. /\ p \in Nat /\ p > n /\ c \in Nat /\ c >= 1 /\ Pow2[W] \in Nat /\ Pow2[n - 1] \in Nat
      /\ Pow2[n + 1] \in Nat /\ Pow2[n - 1] >= 1
  BY <1>1, Pow2Type, SMT
<1>3. p = 2 * Pow2[n - 1] /\ Pow2[n + 1] = 2 * p
  BY <1>1, Pow2Step
<1>4. Pow2[W] = Pow2[n + 1] * c
  BY <1>1, Pow2Sum
<1>5. h = Pow2[W] - p /\ Ones = Pow2[W] - 1
  BY <1>1, <1>2, SMT DEF PrefixMask, Ones
<1>6. 2 * p <= Pow2[W]
  BY <1>1, <1>3, Pow2Most, SMT
<1> HIDE DEF h, p, c
<1>7. h \in Word /\ h # 0 /\ h # Ones /\ Not(h) = p - 1 /\ Not(h) # 0
  BY <1>1, <1>2, <1>5, <1>6, SMT DEF Word, Not
<1>8. n \in Ctz(h)
  <2>1. /\ h = (c - 1) * (2 * p) + p /\ c - 1 \in Nat /\ 2 * p \in Nat /\ 2 * p >= 1
        /\ p \in 0 .. 2 * p - 1
    <3>1. (2 * p) * c = (c - 1) * (2 * p) + 2 * p
      BY <1>2, SMT
    <3> QED
      BY <1>1, <1>2, <1>3, <1>4, <1>5, <3>1, SMT
  <2>2. h % Pow2[n + 1] = p
    BY <1>3, <2>1, Quotient, ZenonT(30)
  <2>3. h = (2 * (c - 1) + 1) * p + 0 /\ 2 * (c - 1) + 1 \in Nat /\ 0 \in 0 .. p - 1 /\ p >= 1
    <3>1. (c - 1) * (2 * p) = (2 * (c - 1)) * p
      BY <1>2, SMT
    <3> QED
      BY <1>1, <1>2, <2>1, <3>1, SMT
  <2>4. h % p = 0
    BY <1>2, <2>3, Quotient
  <2>5. p # 0
    BY <1>1, <1>2, SMT
  <2> QED
    BY <1>1, <1>7, <2>2, <2>4, <2>5, SMT DEF Ctz, p
<1>9. W - n \in Clz(Not(h))
  <2>1. Pow2[n - 1] <= p - 1 /\ p - 1 < p
    BY <1>1, <1>2, <1>3, SMT
  <2> QED
    BY <1>1, <1>7, <2>1, SMT DEF Clz, p
<1> QED
  BY <1>5, <1>7, <1>8, <1>9 DEF h, p

\* A word whose leading ones and trailing zeros add up to its width.
LEMMA PrefixOfMask ==
    ASSUME NEW h \in Word, h # 0, h # Ones, NEW z \in Ctz(h), NEW o \in Clz(Not(h)), o + z = W
    PROVE  o \in 1 .. W - 1 /\ h = PrefixMask(o)
<1>1. W \in Nat /\ h \in Int /\ Pow2[W] \in Nat
  BY WordFacts, Pow2Type, SMT DEF Word
<1>2. z \in 0 .. W - 1 /\ h % Pow2[z] = 0
  BY DEF Ctz
<1>3. Not(h) # 0 /\ Not(h) = Pow2[W] - 1 - h
  BY <1>1, SMT DEF Not, Ones
<1>4. o \in 0 .. W - 1 /\ Not(h) < Pow2[W - o]
  BY <1>3 DEF Clz
<1>5. W - o = z /\ o \in 1 .. W - 1 /\ z \in Nat /\ W - z \in Nat /\ z + (W - z) = W
  BY <1>1, <1>2, <1>4, SMT
<1> DEFINE p == Pow2[z]
           t == Pow2[W - z]
           q == h \div p
<1>6. p \in Nat /\ p >= 1 /\ t \in Nat /\ Pow2[W] = p * t
  <2>1. Pow2[z + (W - z)] = p * t
    BY <1>5, Pow2Sum
  <2>2. p \in Nat /\ p > z /\ t \in Nat
    BY <1>5, Pow2Type
  <2> QED
    BY <1>5, <2>1, <2>2, SMTT(30)
<1>7. q \in Int /\ h = p * q
  BY <1>1, <1>2, <1>6, SMT
<1>8. Pow2[W] - p <= h /\ h < Pow2[W]
  BY <1>1, <1>3, <1>4, <1>5, <1>6, SMT DEF Word
<1> HIDE DEF p, t, q
<1>9. q = t - 1
  <2>1. ASSUME NEW u \in Int, NEW v \in Int, u < v PROVE p * u + p <= p * v
    <3>1. p * v = p * u + p * (v - u) /\ p * (v - u) = p + p * (v - u - 1) /\ p * (v - u - 1) >= 0
      BY <1>6, <2>1, SMT
    <3> QED
      BY <1>6, <3>1, SMT
  <2>2. ~(t <= q)
    <3>1. ASSUME t <= q PROVE p * t <= p * q
      BY <1>6, <1>7, <2>1, <3>1, SMT
    <3> QED
      BY <1>6, <1>7, <1>8, <3>1, SMT
  <2>3. ~(q < t - 1)
    <3>1. ASSUME q < t - 1 PROVE p * q + p <= p * (t - 1)
      BY <1>6, <1>7, <2>1, <3>1, SMT
    <3>2. p * (t - 1) = p * t - p
      BY <1>6, SMT
    <3> QED
      BY <1>6, <1>7, <1>8, <3>1, <3>2, SMT
  <2> QED
    BY <1>6, <1>7, <2>2, <2>3, SMT
<1>10. h = Pow2[W] - p
  <2>1. p * (t - 1) = p * t - p
    BY <1>6, SMT
  <2> QED
    BY <1>6, <1>7, <1>9, <2>1
<1> QED
  BY <1>1, <1>5, <1>6, <1>10, SMT DEF PrefixMask, Ones, p

\* prefix_len_to_subnet shifts all the ones but those of the prefix out.
LEMMA ShiftedOnes ==
    ASSUME NEW n \in 0 .. W - 1
    PROVE  (Ones * Pow2[n]) % Pow2[W] = Pow2[W] - Pow2[n]
<1> DEFINE p == Pow2[n]
           m == Pow2[W]
<1>1. W \in Nat /\ n \in Nat /\ n <= W
  BY WordFacts, SMT
<1>2. p \in Nat /\ m \in Nat /\ p >= 1 /\ p <= m
  BY <1>1, Pow2Type, Pow2Most, SMT
<1>3. Ones = m - 1
  BY DEF Ones
<1> HIDE DEF p, m
<1>4. (m - 1) * p = (p - 1) * m + (m - p)
  BY <1>2, SMT
<1>5. ((p - 1) * m + (m - p)) % m = m - p
  <2>1. p - 1 \in Nat /\ m - p \in 0 .. m - 1 /\ m >= 1
    BY <1>2, SMT
  <2> QED
    BY <1>2, <2>1, Quotient
<1> QED
  BY <1>3, <1>4, <1>5 DEF p, m

(***************************************************************************)
(* What is known of the mask at each stage.                                *)
(***************************************************************************)
MaskInv ==
    /\ prefix \in -1 .. W + 1
    /\ mask \in Word
    /\ stage = "configured" => mask = 0
    /\ stage \in {"sent", "accepted"} /\ prefix >= 0 => mask \in prefix_len_to_subnet(prefix)
    /\ stage = "accepted" => is_net_mask_valid(mask) /\ kernel \in get_prefix_len(mask)
    /\ stage = "refused" /\ mask # 0 => ~is_net_mask_valid(mask)

LEMMA SubnetType ==
    ASSUME NEW len \in Nat, NEW m \in prefix_len_to_subnet(len)
    PROVE  /\ m \in Word /\ len <= W
           /\ len = 0 => Swap(m) \in {0, Ones}
           /\ len # 0 => Swap(m) = Pow2[W] - Pow2[W - len]
<1>1. W \in Nat /\ Pow2[W] \in Nat /\ Pow2[W] >= 1 /\ Word = 0 .. Pow2[W] - 1
  BY WordFacts, Pow2Type, SMT DEF Word
<1>2. len <= W
  <2>1. ~(len > W)
    BY DEF prefix_len_to_subnet
  <2> QED
    BY <1>1, <2>1, SMT
<1>3. PICK h \in ShiftLeft(Ones, W - len) : m = Swap(h)
  <2>1. ~(len > W)
    BY <1>1, <1>2, SMT
  <2> QED
    BY <2>1 DEF prefix_len_to_subnet
<1>4. h \in Word /\ (len = 0 => h \in {0, Ones}) /\ (len # 0 => h = Pow2[W] - Pow2[W - len])
  <2>1. CASE len = 0
    <3>1. W - len >= W
      BY <1>1, <2>1, SMT
    <3>2. h \in {0, Ones}
      BY <3>1, <1>3 DEF ShiftLeft
    <3> QED
      BY <1>1, <2>1, <3>2, SMT DEF Ones
  <2>2. CASE len # 0
    <3>1. W - len \in 0 .. W - 1 /\ ~(W - len >= W) /\ W - len \in Nat
      BY <1>1, <1>2, <2>2, SMT
    <3>2. h = (Ones * Pow2[W - len]) % Pow2[W]
      BY <3>1, <1>3 DEF ShiftLeft
    <3>3. h = Pow2[W] - Pow2[W - len]
      BY <3>1, <3>2, ShiftedOnes
    <3>4. Pow2[W - len] \in Nat /\ Pow2[W - len] >= 1 /\ Pow2[W - len] <= Pow2[W]
      BY <1>1, <3>1, Pow2Type, Pow2Most, SMT
    <3> QED
      BY <1>1, <2>2, <3>3, <3>4, SMT
  <2> QED
    BY <2>1, <2>2
<1>5. Swap(h) \in Word /\ Swap(Swap(h)) = h
  BY <1>4, SwapTwice
<1> QED
  BY <1>2, <1>3, <1>4, <1>5

LEMMA MaskStep == MaskInv /\ [MaskNext]_maskVars => MaskInv'
<1> SUFFICES ASSUME MaskInv, [MaskNext]_maskVars PROVE MaskInv'
  OBVIOUS
<1>1. CASE Advertise
  <2>1. mask' \in Word
    <3>1. prefix \in Int
      BY WordFacts, SMT DEF MaskInv
    <3>2. prefix >= 0 => prefix \in Nat
      BY <3>1, SMT
    <3> QED
      BY <1>1, <3>2, SubnetType DEF Advertise
  <2>2. prefix >= 0 => mask' \in prefix_len_to_subnet(prefix)
    <3>1. ~(prefix >= 0 /\ prefix = -1)
      BY SMT
    <3> QED
      BY <1>1, <3>1 DEF Advertise
  <2>3. stage' = "sent" /\ prefix' = prefix
    BY <1>1 DEF Advertise
  <2> QED
    BY <2>1, <2>2, <2>3 DEF MaskInv
<1>2. CASE Reject
  <2>1. stage = "configured" /\ stage' = "refused" /\ mask' = mask /\ prefix' = prefix
    BY <1>2 DEF Reject
  <2> QED
    BY <2>1 DEF MaskInv
<1>3. CASE is_entry_valid
  <2>1. stage = "sent" /\ mask' = mask /\ prefix' = prefix
    BY <1>3 DEF is_entry_valid
  <2>2. CASE is_net_mask_valid(mask)
    <3>1. stage' = "accepted" /\ kernel' \in get_prefix_len(mask)
      BY <1>3, <2>2 DEF is_entry_valid
    <3> QED
      BY <2>1, <2>2, <3>1 DEF MaskInv
  <2>3. CASE ~is_net_mask_valid(mask)
    <3>1. stage' = "refused"
      BY <1>3, <2>3 DEF is_entry_valid
    <3> QED
      BY <2>1, <2>3, <3>1 DEF MaskInv
  <2> QED
    BY <2>2, <2>3
<1>4. CASE Done \/ UNCHANGED maskVars
  BY <1>4 DEF Done, maskVars, MaskInv
<1> QED
  BY <1>1, <1>2, <1>3, <1>4 DEF MaskNext

LEMMA MaskInvariant == MaskSpec => []MaskInv
<1>1. MaskInit => MaskInv
  <2> SUFFICES ASSUME MaskInit PROVE MaskInv
    OBVIOUS
  <2>1. 0 \in Word
    BY WordFacts, Pow2Type, SMT DEF Word
  <2> QED
    BY <2>1 DEF MaskInit, MaskInv
<1> QED
  BY <1>1, MaskStep, PTL DEF MaskSpec

\* What is accepted is the mask of a prefix, and its length is what is counted.
LEMMA Accepted ==
    ASSUME NEW m \in Word, is_net_mask_valid(m), NEW n \in get_prefix_len(m)
    PROVE  n \in 1 .. W - 1 /\ Swap(m) = PrefixMask(n)
<1> DEFINE h == Swap(m)
<1>1. h \in Word
  BY SwapTwice
<1>2. h # 0 /\ h # Ones /\ n \in Clz(Not(h))
  BY DEF is_net_mask_valid, get_prefix_len
<1>3. PICK z \in Ctz(h), o \in Clz(Not(h)) : o + z = W
  BY DEF is_net_mask_valid
<1> HIDE DEF h
<1>4. o \in 1 .. W - 1 /\ h = PrefixMask(o)
  BY <1>1, <1>2, <1>3, PrefixOfMask
<1>5. Not(h) \in Word /\ Not(h) # 0
  <2>1. Pow2[W] \in Nat
    BY WordFacts, Pow2Type
  <2> QED
    BY <1>1, <1>2, <2>1, SMT DEF Not, Ones, Word
<1>6. n = o
  BY <1>2, <1>3, <1>5, OneCount
<1> QED
  BY <1>4, <1>6 DEF h

(***************************************************************************)
(* For octets of any width: the neighbour's kernel route has the prefix    *)
(* length the first router was configured with, through both byte swaps,   *)
(* and although the shift of prefix_len_to_subnet and the count of         *)
(* get_prefix_len are undefined at the ends of their range.                *)
(***************************************************************************)
THEOREM PrefixSurvives == MaskSpec => []InstalledAsConfigured
<1>1. MaskInv => InstalledAsConfigured
  <2> SUFFICES ASSUME MaskInv, stage = "accepted", prefix >= 0 PROVE kernel = prefix
    BY DEF InstalledAsConfigured
  <2>1. /\ mask \in Word /\ mask \in prefix_len_to_subnet(prefix)
        /\ is_net_mask_valid(mask) /\ kernel \in get_prefix_len(mask)
    BY DEF MaskInv
  <2>2. W \in Nat /\ prefix \in Nat /\ Pow2[W] \in Nat
    BY WordFacts, Pow2Type, SMT DEF MaskInv
  <2>3. kernel \in 1 .. W - 1 /\ Swap(mask) = PrefixMask(kernel)
    BY <2>1, Accepted
  <2>4. Swap(mask) # 0 /\ Swap(mask) # Ones
    BY <2>1 DEF is_net_mask_valid
  <2>5. prefix <= W /\ prefix # 0 /\ Swap(mask) = Pow2[W] - Pow2[W - prefix]
    BY <2>1, <2>2, <2>4, SubnetType
  <2>6. /\ W - kernel \in 1 .. W - 1 /\ W - (W - kernel) = kernel /\ W - prefix \in Nat
        /\ W - kernel \in Nat
    BY <2>2, <2>3, <2>5, SMT
  <2>7. Swap(mask) = Pow2[W] - Pow2[W - kernel]
    BY <2>3, <2>6, MaskOfPrefix
  <2>8. Pow2[W - kernel] = Pow2[W - prefix] /\ Pow2[W - prefix] >= 1 /\ Pow2[W - prefix] \in Nat
    <3>1. Pow2[W - kernel] \in Nat /\ Pow2[W - prefix] \in Nat /\ Pow2[W - prefix] > W - prefix
      BY <2>6, Pow2Type
    <3> QED
      BY <2>2, <2>5, <2>6, <2>7, <3>1, SMT
  <2>9. ASSUME NEW a \in Nat, NEW b \in Nat, Pow2[a] = Pow2[b], Pow2[b] >= 1, Pow2[b] \in Nat
        PROVE  ~(a < b)
    BY <2>9, Pow2Less, SMT
  <2>10. ~(W - kernel < W - prefix) /\ ~(W - prefix < W - kernel)
    BY <2>6, <2>8, <2>9
  <2> QED
    BY <2>2, <2>3, <2>10, SMT
<1> QED
  BY <1>1, MaskInvariant, PTL

(***************************************************************************)
(* For octets of any width: is_net_mask_valid accepts a mask exactly when  *)
(* it is the mask of a prefix that is neither empty nor a single host, and *)
(* get_prefix_len then counts that prefix.                                 *)
(***************************************************************************)
THEOREM OnlyPrefixesAccepted == MaskSpec => []AcceptsExactlyPrefixes
<1>1. MaskInv => AcceptsExactlyPrefixes
  <2> SUFFICES ASSUME MaskInv PROVE AcceptsExactlyPrefixes
    OBVIOUS
  <2>1. mask \in Word
    BY DEF MaskInv
  <2>2. stage = "accepted" => kernel \in 1 .. W - 1 /\ Swap(mask) = PrefixMask(kernel)
    BY <2>1, Accepted DEF MaskInv
  <2>3. ASSUME stage = "refused", mask # 0, NEW len \in 1 .. W - 1, Swap(mask) = PrefixMask(len)
        PROVE  FALSE
    <3>1. W \in Nat /\ W - len \in 1 .. W - 1 /\ W - (W - len) = len /\ len + (W - len) = W
      BY WordFacts, SMT
    <3> DEFINE h == PrefixMask(len)
    <3>2. h # 0 /\ h # Ones /\ W - len \in Ctz(h) /\ len \in Clz(Not(h))
      BY <3>1, MaskOfPrefix
    <3>3. is_net_mask_valid(mask)
      BY <2>3, <3>1, <3>2 DEF is_net_mask_valid
    <3> QED
      BY <2>3, <3>3 DEF MaskInv
  <2> QED
    BY <2>2, <2>3 DEF AcceptsExactlyPrefixes
<1> QED
  BY <1>1, MaskInvariant, PTL
=============================================================================
