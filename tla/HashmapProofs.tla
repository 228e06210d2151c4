--------------------------- MODULE HashmapProofs ---------------------------
(***************************************************************************)
(* Proofs about the hash map: what every round of its loops keeps true,    *)
(* for any number of keys, any hash values and any sizes.                  *)
(***************************************************************************)
EXTENDS HashmapNetMaskProofs, FiniteSetTheorems

\* Most leaves need no arithmetic; those that do cite SMT.
USE Zenon

(***************************************************************************)
(* The rounds of hashmap_set and hashmap_delete.                           *)
(***************************************************************************)
LEMMA UsedFacts ==
    ASSUME NEW n \in Nat, NEW b \in Table(n)
    PROVE  /\ IsFiniteSet(Used(b, n)) /\ Cardinality(Used(b, n)) \in Nat
           /\ Cardinality(Used(b, n)) < n => \E z \in 0 .. n - 1 : b[z] = NULL
<1>1. IsFiniteSet(0 .. n - 1) /\ Cardinality(0 .. n - 1) = n
  <2>1. 0 \in Int /\ n - 1 \in Int
    BY SMT
  <2> QED
    BY <2>1, FS_Interval, SMT
<1>2. Used(b, n) \subseteq 0 .. n - 1
  BY SMT DEF Used
<1>3. IsFiniteSet(Used(b, n))
  BY <1>1, <1>2, FS_Subset, SMT
<1>4. Cardinality(Used(b, n)) \in Nat
  BY <1>3, FS_CardinalityType, SMT
<1>5. ASSUME ~ \E z \in 0 .. n - 1 : b[z] = NULL
      PROVE  Used(b, n) = 0 .. n - 1
  BY <1>5, SMT DEF Used
<1> QED
  BY <1>1, <1>3, <1>4, <1>5, SMT

LEMMA RemoveOne ==
    ASSUME NEW S, IsFiniteSet(S), NEW x \in S
    PROVE  /\ IsFiniteSet(S \ {x})
           /\ Cardinality(S \ {x}) \in Nat
           /\ Cardinality(S) = Cardinality(S \ {x}) + 1
<1>1. IsFiniteSet(S \ {x}) /\ Cardinality(S \ {x}) = Cardinality(S) - 1
  BY FS_RemoveElement, SMT
<1>2. Cardinality(S) \in Nat /\ Cardinality(S \ {x}) \in Nat
  BY <1>1, FS_CardinalityType, SMT
<1> QED
  BY <1>1, <1>2, SMT

LEMMA EmptyTableFacts ==
    ASSUME NEW n \in Nat
    PROVE  /\ EmptyTable(n) \in Table(n)
           /\ Used(EmptyTable(n), n) = {}
           /\ Cardinality(Used(EmptyTable(n), n)) = 0
  BY EmptyTableType, FS_EmptySet, SMT

LEMMA SomeEmpty ==
    ASSUME NEW n \in Nat, NEW b \in Table(n), NEW hs, NEW c, Sound(hs, b, n, c)
    PROVE  \E z \in 0 .. n - 1 : b[z] = NULL
  BY UsedFacts, SMT DEF Sound

LEMMA SoundInsert ==
    ASSUME NEW hs \in [Key -> HashValues], NEW n \in Nat, n >= 1, NEW b \in Table(n),
           NEW e \in Item, NEW x \in 0 .. n - 1, NEW k \in Key, NEW c \in Nat,
           Sound(hs, b, n, c), c + 1 < n, InHand(hs, b, n, e, x, k), b[x] = NULL
    PROVE  Sound(hs, [b EXCEPT ![x] = e], n, c + 1)
<1>1. AllPlaced(hs, b, n) /\ Placed(hs, b, n, e, x, {})
  BY SMT DEF Sound, InHand
<1>2. \A w \in Used(b, n) : b[w].key # e.key
  BY <1>1, NowhereElse, SMT
<1>3. AllPlaced(hs, [b EXCEPT ![x] = e], n)
  BY <1>1, PutPlaced, SMT
<1>4. /\ Used([b EXCEPT ![x] = e], n) = Used(b, n) \cup {x}
      /\ Cardinality(Used([b EXCEPT ![x] = e], n)) = Cardinality(Used(b, n)) + 1
  <2>1. e # NULL
    BY ItemFacts, SMT
  <2>2. Used([b EXCEPT ![x] = e], n) = Used(b, n) \cup {x} /\ x \notin Used(b, n)
    BY <2>1, SMT DEF Used, Table
  <2>3. IsFiniteSet(Used(b, n))
    BY UsedFacts, SMT
  <2> QED
    BY <2>2, <2>3, FS_AddElement
<1>5. UniqueIn([b EXCEPT ![x] = e], Used(b, n) \cup {x})
  <2>1. \A y \in Used(b, n) : y # x /\ y \in 0 .. n - 1
    BY SMT DEF Used
  <2>2. \A y \in 0 .. n - 1 : [b EXCEPT ![x] = e][y] = IF y = x THEN e ELSE b[y]
    BY SMT DEF Table
  <2>3. UniqueIn(b, Used(b, n))
    BY SMT DEF Sound
  <2> QED
    BY <1>2, <2>1, <2>2, <2>3, SMT DEF UniqueIn
<1> QED
  BY <1>3, <1>4, <1>5 DEF Sound

LEMMA SoundSwap ==
    ASSUME NEW hs \in [Key -> HashValues], NEW n \in Nat, n >= 1, NEW b \in Table(n),
           NEW e \in Item, NEW x \in 0 .. n - 1, NEW k \in Key, NEW c,
           Sound(hs, b, n, c), InHand(hs, b, n, e, x, k),
           b[x] # NULL, b[x].key # e.key, b[x].dib < e.dib
    PROVE  /\ Sound(hs, [b EXCEPT ![x] = e], n, c)
           /\ InHand(hs, [b EXCEPT ![x] = e], n, Farther(b[x]), Mask(x + 1, n), k)
<1> DEFINE a == [b EXCEPT ![x] = e]
<1>1. AllPlaced(hs, b, n) /\ Placed(hs, b, n, e, x, {}) /\ UniqueIn(b, Used(b, n))
  BY SMT DEF Sound, InHand
<1>2. \A w \in Used(b, n) : b[w].key # e.key
  BY <1>1, NowhereElse, SMT
<1>3. PICK z \in 0 .. n - 1 : b[z] = NULL
  BY SomeEmpty, SMT
<1>4. AllPlaced(hs, a, n) /\ Placed(hs, a, n, Farther(b[x]), Mask(x + 1, n), {})
  BY <1>1, <1>3, SwapPlaced, SMT
<1>5. e # NULL /\ b[x] \in Item
  BY ItemFacts, SMT DEF Table
<1>6. Used(a, n) = Used(b, n) /\ x \in Used(b, n)
  BY <1>5, SMT DEF Used, Table
<1>7. \A y \in 0 .. n - 1 : a[y] = IF y = x THEN e ELSE b[y]
  BY SMT DEF Table
<1>8. \A w \in Used(b, n) : w \in 0 .. n - 1
  BY DEF Used
<1> HIDE DEF a
<1>9. UniqueIn(a, Used(a, n))
  BY <1>1, <1>2, <1>6, <1>7, <1>8 DEF UniqueIn
<1>10. \A w \in Used(a, n) : a[w].key # b[x].key
  BY <1>1, <1>2, <1>6, <1>7, <1>8 DEF UniqueIn
<1>11. Farther(b[x]).key = b[x].key
  BY <1>5, ItemFacts
<1> QED
  BY <1>4, <1>6, <1>9, <1>10, <1>11 DEF Sound, InHand, a

LEMMA SoundFarther ==
    ASSUME NEW hs \in [Key -> HashValues], NEW n \in Nat, n >= 1, NEW b \in Table(n),
           NEW e \in Item, NEW x \in 0 .. n - 1, NEW k \in Key, NEW c,
           Sound(hs, b, n, c), InHand(hs, b, n, e, x, k),
           b[x] # NULL, b[x].key # e.key, ~(b[x].dib < e.dib)
    PROVE  InHand(hs, b, n, Farther(e), Mask(x + 1, n), k)
<1>1. Placed(hs, b, n, e, x, {}) /\ Farther(e).key = e.key
  BY ItemFacts DEF InHand
<1>2. PICK z \in 0 .. n - 1 : b[z] = NULL
  BY SomeEmpty
<1>3. Placed(hs, b, n, Farther(e), Mask(x + 1, n), {})
  BY <1>1, <1>2, FartherPlaced
<1>4. ASSUME NEW w \in Used(b, n), b[w].key = e.key
      PROVE  /\ e.key = k
             /\ Dist(Home(hs, k, n), w, n) >= Dist(Home(hs, k, n), Mask(x + 1, n), n)
  <2> DEFINE h == Home(hs, k, n)
  <2>1. e.key = k /\ Dist(h, w, n) >= Dist(h, x, n)
    BY <1>4, SMT DEF InHand
  <2>2. h \in 0 .. n - 1 /\ w \in 0 .. n - 1
    BY HomeFacts, UsedType
  <2>3. ~(Dist(h, z, n) < Dist(h, x, n)) /\ z # x
    BY <1>1, <1>2, <2>1 DEF Placed, Reaches
  <2> HIDE DEF h
  <2>4. Dist(h, Mask(x + 1, n), n) = Dist(h, x, n) + 1
    BY <2>2, <2>3, WalkOn
  <2>5. Dist(h, w, n) # Dist(h, x, n)
    BY <1>4, <2>2, DistFacts
  <2>6. Dist(h, w, n) \in Nat /\ Dist(h, x, n) \in Nat
    BY <2>2, DistType
  <2>7. Dist(h, w, n) >= Dist(h, Mask(x + 1, n), n)
    BY <2>1, <2>4, <2>5, <2>6, SMT
  <2> QED
    BY <2>1, <2>7 DEF h
<1> QED
  BY <1>1, <1>3, <1>4 DEF InHand

\* hashmap_delete frees the bucket it has found.
LEMMA FreeFound ==
    ASSUME NEW hs \in [Key -> HashValues], NEW n \in Nat, n >= 1, NEW b \in Table(n),
           NEW x \in 0 .. n - 1, NEW c, Sound(hs, b, n, c), b[x] # NULL
    PROVE  Free(hs, [b EXCEPT ![x] = NULL], n, c, x)
<1> DEFINE a == [b EXCEPT ![x] = NULL]
<1>1. \A y \in 0 .. n - 1 : a[y] = IF y = x THEN NULL ELSE b[y]
  BY SMT DEF Table
<1> HIDE DEF a
<1>2. LiveBut(a, n, x) = Used(b, n) \ {x} /\ x \in Used(b, n)
  BY <1>1, SMT DEF LiveBut, Used
<1>3. AllPlacedBut(hs, a, n, x)
  <2> SUFFICES ASSUME NEW w \in Used(b, n), w # x PROVE Placed(hs, a, n, a[w], w, {x})
    BY <1>2 DEF AllPlacedBut
  <2>1. Placed(hs, b, n, b[w], w, {})
    BY SMT DEF Sound, AllPlaced
  <2>2. w \in 0 .. n - 1 /\ a[w] = b[w]
    BY <1>1, SMT DEF Used
  <2> QED
    BY <1>1, <2>1, <2>2, SMT DEF Placed, Reaches
<1>4. UniqueIn(a, LiveBut(a, n, x))
  <2>1. \A w \in Used(b, n) \ {x} : a[w] = b[w]
    BY <1>1, SMT DEF Used
  <2> QED
    BY <1>2, <2>1 DEF Sound, UniqueIn
<1>5. IsFiniteSet(Used(b, n))
  BY UsedFacts, SMT
<1>6. Cardinality(Used(b, n)) = Cardinality(Used(b, n) \ {x}) + 1
  BY <1>2, <1>5, RemoveOne, SMT
<1> QED
  BY <1>2, <1>3, <1>4, <1>6 DEF Sound, Free, a

LEMMA FreeShift ==
    ASSUME NEW hs \in [Key -> HashValues], NEW n \in Nat, n >= 2, NEW b \in Table(n),
           NEW x \in 0 .. n - 1, NEW c, Free(hs, b, n, c, x),
           b[Mask(x + 1, n)] # NULL, b[Mask(x + 1, n)].dib > 1
    PROVE  Free(hs, [b EXCEPT ![x] = [b[Mask(x + 1, n)] EXCEPT !.dib = @ - 1]], n, c,
                Mask(x + 1, n))
<1> DEFINE next == Mask(x + 1, n)
           e == [b[next] EXCEPT !.dib = @ - 1]
           a == [b EXCEPT ![x] = e]
<1>1. next \in 0 .. n - 1 /\ next # x
  <2>1. n >= 1
    BY SMT
  <2>2. next \in 0 .. n - 1 /\ next = IF x + 1 = n THEN 0 ELSE x + 1
    BY <2>1, NextFacts, SMT
  <2> HIDE DEF next
  <2> QED
    BY <2>2, SMT
<1>2. b[next] \in Item /\ b[next].dib > 1
  BY <1>1, SMT DEF Table
<1>3. e \in Item /\ e.key = b[next].key /\ e # NULL
  BY <1>2, NullAssumption, SMT DEF Item
<1>4. \A y \in 0 .. n - 1 : a[y] = IF y = x THEN e ELSE b[y]
  BY SMT DEF Table
<1>5. AllPlacedBut(hs, a, n, next)
  BY ShiftPlaced, SMT DEF Free
<1> HIDE DEF a, e
<1>6. /\ LiveBut(a, n, next) = (LiveBut(b, n, x) \ {next}) \cup {x}
      /\ next \in LiveBut(b, n, x) /\ x \notin LiveBut(b, n, x)
  BY <1>1, <1>3, <1>4 DEF LiveBut, Used
<1> HIDE DEF next
<1>7. UniqueIn(a, LiveBut(a, n, next))
  <2>1. /\ a[x].key = b[next].key
        /\ \A w \in LiveBut(b, n, x) : a[w] = b[w]
    BY <1>3, <1>4 DEF LiveBut, Used
  <2> QED
    BY <1>6, <2>1, SMT DEF Free, UniqueIn
<1>8. Cardinality(LiveBut(a, n, next)) = Cardinality(LiveBut(b, n, x))
  <2>1. IsFiniteSet(LiveBut(b, n, x))
    BY UsedFacts, FS_Subset, SMT DEF LiveBut
  <2>2. /\ IsFiniteSet(LiveBut(b, n, x) \ {next})
        /\ Cardinality(LiveBut(b, n, x)) = Cardinality(LiveBut(b, n, x) \ {next}) + 1
    BY <1>6, <2>1, RemoveOne, SMT
  <2>3. x \notin LiveBut(b, n, x) \ {next}
    BY <1>6, SMT
  <2> QED
    BY <1>6, <2>2, <2>3, FS_AddElement
<1> QED
  BY <1>5, <1>7, <1>8, SMT DEF Free, a, e, next

LEMMA FreeLast ==
    ASSUME NEW hs \in [Key -> HashValues], NEW n \in Nat, n >= 2, NEW b \in Table(n),
           NEW x \in 0 .. n - 1, NEW c \in Nat, Free(hs, b, n, c, x),
           b[Mask(x + 1, n)] # NULL => b[Mask(x + 1, n)].dib <= 1
    PROVE  Sound(hs, [b EXCEPT ![x] = NULL], n, c - 1)
<1> DEFINE a == [b EXCEPT ![x] = NULL]
<1>1. AllPlaced(hs, a, n)
  BY FreePlaced, SMT DEF Free
<1>2. \A y \in 0 .. n - 1 : a[y] = IF y = x THEN NULL ELSE b[y]
  BY SMT DEF Table
<1> HIDE DEF a
<1>3. Used(a, n) = LiveBut(b, n, x)
  BY <1>2, SMT DEF LiveBut, Used
<1>4. UniqueIn(a, Used(a, n))
  <2>1. \A w \in LiveBut(b, n, x) : a[w] = b[w]
    BY <1>2, SMT DEF LiveBut, Used
  <2> QED
    BY <1>3, <2>1, SMT DEF Free, UniqueIn
<1>5. Cardinality(LiveBut(b, n, x)) \in Nat
  BY UsedFacts, FS_Subset, FS_CardinalityType, SMT DEF LiveBut
<1> QED
  BY <1>1, <1>3, <1>4, <1>5, SMT DEF Free, Sound, a

----------------------------------------------------------------------------
(***************************************************************************)
(* The rounds of resize0.  S is what is left of the old table b; b2, with  *)
(* n2 buckets, is the new one, and e the item in hand, at its bucket y.    *)
(***************************************************************************)
Moves(hs, b, S, b2, n2, e, y, c) ==
    /\ AllPlaced(hs, b2, n2)
    /\ UniqueIn(b, S) /\ UniqueIn(b2, Used(b2, n2))
    /\ \A v \in S, w \in Used(b2, n2) : b[v].key # b2[w].key
    /\ c = Cardinality(S) + Cardinality(Used(b2, n2)) + (IF e # NULL THEN 1 ELSE 0)
    /\ c < n2
    /\ e # NULL => /\ Placed(hs, b2, n2, e, y, {})
                   /\ \A v \in S : b[v].key # e.key
                   /\ \A w \in Used(b2, n2) : b2[w].key # e.key

\* The new table is empty, and all of the old one is left.
LEMMA MoveStart ==
    ASSUME NEW hs, NEW b, NEW n, NEW c \in Nat, NEW n2 \in Nat, NEW y,
           Sound(hs, b, n, c), c < n2
    PROVE  Moves(hs, b, Used(b, n), EmptyTable(n2), n2, NULL, y, c)
<1>1. Used(EmptyTable(n2), n2) = {} /\ Cardinality(Used(EmptyTable(n2), n2)) = 0
  BY EmptyTableFacts
<1> QED
  BY <1>1, SMT DEF Moves, Sound, AllPlaced, UniqueIn

\* An item of the old table is taken in hand.
LEMMA MoveTake ==
    ASSUME NEW hs \in [Key -> HashValues], NEW b, NEW S, IsFiniteSet(S),
           NEW n2 \in Nat, n2 >= 1, NEW b2 \in Table(n2), NEW y, NEW c,
           Moves(hs, b, S, b2, n2, NULL, y, c),
           NEW x \in S, NEW e \in Item, e.key = b[x].key, e.dib = 1
    PROVE  Moves(hs, b, S \ {x}, b2, n2, e, Mask(hs[b[x].key], n2), c)
<1>1. e # NULL
  BY ItemFacts
<1>2. Placed(hs, b2, n2, e, Mask(hs[b[x].key], n2), {})
  BY FirstPlaced
<1>3. Cardinality(S) = Cardinality(S \ {x}) + 1 /\ Cardinality(S \ {x}) \in Nat
  BY RemoveOne, SMT
<1>4. Cardinality(Used(b2, n2)) \in Nat
  BY UsedFacts
<1>5. /\ AllPlaced(hs, b2, n2) /\ UniqueIn(b2, Used(b2, n2)) /\ c < n2
      /\ c = Cardinality(S) + Cardinality(Used(b2, n2)) + 0
  BY DEF Moves
<1>6. /\ UniqueIn(b, S \ {x})
      /\ \A v \in S \ {x} : b[v].key # e.key
      /\ \A v \in S \ {x}, w \in Used(b2, n2) : b[v].key # b2[w].key
      /\ \A w \in Used(b2, n2) : b2[w].key # e.key
  BY DEF Moves, UniqueIn
<1>7. c = Cardinality(S \ {x}) + Cardinality(Used(b2, n2)) + 1
  BY <1>3, <1>4, <1>5, SMT
<1> QED
  BY <1>1, <1>2, <1>5, <1>6, <1>7 DEF Moves

\* The item in hand goes to an empty bucket of the new table.
LEMMA MovePut ==
    ASSUME NEW hs \in [Key -> HashValues], NEW b, NEW S, Cardinality(S) \in Nat,
           NEW n2 \in Nat, n2 >= 1, NEW b2 \in Table(n2), NEW e \in Item,
           NEW y \in 0 .. n2 - 1, NEW c,
           Moves(hs, b, S, b2, n2, e, y, c), b2[y] = NULL
    PROVE  Moves(hs, b, S, [b2 EXCEPT ![y] = e], n2, NULL, y, c)
<1> DEFINE a == [b2 EXCEPT ![y] = e]
<1>1. e # NULL
  BY ItemFacts, SMT
<1>2. /\ AllPlaced(hs, b2, n2) /\ Placed(hs, b2, n2, e, y, {}) /\ UniqueIn(b, S) /\ c < n2
      /\ c = Cardinality(S) + Cardinality(Used(b2, n2)) + 1
  BY <1>1, SMT DEF Moves
<1>3. AllPlaced(hs, a, n2)
  BY <1>2, PutPlaced, SMT
<1>4. \A v \in 0 .. n2 - 1 : a[v] = IF v = y THEN e ELSE b2[v]
  BY SMT DEF Table
<1> HIDE DEF a
<1>5. Used(a, n2) = Used(b2, n2) \cup {y} /\ y \notin Used(b2, n2)
  BY <1>1, <1>4, SMT DEF Used
<1>6. IsFiniteSet(Used(b2, n2)) /\ Cardinality(Used(b2, n2)) \in Nat
  BY UsedFacts, SMT
<1>7. Cardinality(Used(a, n2)) = Cardinality(Used(b2, n2)) + 1
  BY <1>5, <1>6, FS_AddElement
<1>8. a[y] = e /\ \A w \in Used(b2, n2) : a[w] = b2[w]
  BY <1>4, SMT DEF Used
<1>9. /\ UniqueIn(a, Used(a, n2))
      /\ \A v \in S, w \in Used(a, n2) : b[v].key # a[w].key
  BY <1>1, <1>5, <1>8, SMT DEF Moves, UniqueIn
<1>10. c = Cardinality(S) + Cardinality(Used(a, n2)) + 0
  BY <1>2, <1>6, <1>7, SMT
<1> QED
  BY <1>2, <1>3, <1>9, <1>10 DEF Moves, a

\* Some bucket of the new table is empty while an item is in hand.
LEMMA MoveEmpty ==
    ASSUME NEW hs, NEW b, NEW S, Cardinality(S) \in Nat,
           NEW n2 \in Nat, NEW b2 \in Table(n2), NEW e, NEW y, NEW c,
           Moves(hs, b, S, b2, n2, e, y, c)
    PROVE  \E z \in 0 .. n2 - 1 : b2[z] = NULL
<1>1. Cardinality(Used(b2, n2)) \in Nat
  BY UsedFacts
<1>2. Cardinality(Used(b2, n2)) < n2
  BY <1>1, SMT DEF Moves
<1> QED
  BY <1>2, UsedFacts, SMT

LEMMA MoveSwap ==
    ASSUME NEW hs \in [Key -> HashValues], NEW b, NEW S, Cardinality(S) \in Nat,
           NEW n2 \in Nat, n2 >= 1, NEW b2 \in Table(n2), NEW e \in Item,
           NEW y \in 0 .. n2 - 1, NEW c,
           Moves(hs, b, S, b2, n2, e, y, c), b2[y] # NULL, b2[y].dib < e.dib
    PROVE  Moves(hs, b, S, [b2 EXCEPT ![y] = e], n2, Farther(b2[y]), Mask(y + 1, n2), c)
<1> DEFINE a == [b2 EXCEPT ![y] = e]
           f == Farther(b2[y])
<1>1. e # NULL /\ b2[y] \in Item
  BY ItemFacts, SMT DEF Table
<1>2. f \in Item /\ f # NULL /\ f.key = b2[y].key
  BY <1>1, ItemFacts, SMT
<1>3. /\ AllPlaced(hs, b2, n2) /\ Placed(hs, b2, n2, e, y, {}) /\ UniqueIn(b, S) /\ c < n2
      /\ c = Cardinality(S) + Cardinality(Used(b2, n2)) + 1
  BY <1>1 DEF Moves
<1>4. PICK z \in 0 .. n2 - 1 : b2[z] = NULL
  BY MoveEmpty, SMTT(20)
<1>5. AllPlaced(hs, a, n2) /\ Placed(hs, a, n2, f, Mask(y + 1, n2), {})
  BY <1>3, <1>4, SwapPlaced, SMTT(20)
<1>6. \A v \in 0 .. n2 - 1 : a[v] = IF v = y THEN e ELSE b2[v]
  BY SMT DEF Table
<1> HIDE DEF a, f
<1>7. Used(a, n2) = Used(b2, n2) /\ y \in Used(b2, n2)
  BY <1>1, <1>6, SMT DEF Used
<1>8. a[y] = e /\ \A w \in Used(b2, n2) : w # y => a[w] = b2[w]
  BY <1>6, SMT DEF Used
<1>9. /\ \A v \in S : b[v].key # e.key
      /\ \A v \in S, w \in Used(b2, n2) : b[v].key # b2[w].key
      /\ \A w \in Used(b2, n2) : b2[w].key # e.key
      /\ UniqueIn(b2, Used(b2, n2))
  BY <1>1 DEF Moves
<1>10. UniqueIn(a, Used(a, n2))
  BY <1>7, <1>8, <1>9 DEF UniqueIn
<1>11. \A v \in S, w \in Used(a, n2) : b[v].key # a[w].key
  BY <1>7, <1>8, <1>9
<1>12. \A v \in S : b[v].key # f.key
  BY <1>2, <1>7, <1>9
<1>13. \A w \in Used(a, n2) : a[w].key # f.key
  BY <1>2, <1>7, <1>8, <1>9 DEF UniqueIn
<1> QED
  BY <1>2, <1>3, <1>5, <1>7, <1>10, <1>11, <1>12, <1>13 DEF Moves, a, f

LEMMA MoveFarther ==
    ASSUME NEW hs \in [Key -> HashValues], NEW b, NEW S, Cardinality(S) \in Nat,
           NEW n2 \in Nat, n2 >= 1, NEW b2 \in Table(n2), NEW e \in Item,
           NEW y \in 0 .. n2 - 1, NEW c,
           Moves(hs, b, S, b2, n2, e, y, c), b2[y] # NULL, ~(b2[y].dib < e.dib)
    PROVE  Moves(hs, b, S, b2, n2, Farther(e), Mask(y + 1, n2), c)
<1>1. e # NULL /\ Farther(e) # NULL /\ Farther(e).key = e.key
  BY ItemFacts, SMT
<1>2. PICK z \in 0 .. n2 - 1 : b2[z] = NULL
  BY MoveEmpty, SMTT(20)
<1>3. Placed(hs, b2, n2, e, y, {})
  BY <1>1 DEF Moves
<1>4. Placed(hs, b2, n2, Farther(e), Mask(y + 1, n2), {})
  BY <1>2, <1>3, FartherPlaced
<1> QED
  BY <1>1, <1>4 DEF Moves

LEMMA MoveDone ==
    ASSUME NEW hs, NEW b, NEW n2 \in Nat, NEW b2 \in Table(n2), NEW y, NEW c,
           Moves(hs, b, {}, b2, n2, NULL, y, c)
    PROVE  Sound(hs, b2, n2, c)
<1>1. Cardinality({}) = 0 /\ Cardinality(Used(b2, n2)) \in Nat
  BY FS_EmptySet, UsedFacts, SMT
<1>2. /\ AllPlaced(hs, b2, n2) /\ UniqueIn(b2, Used(b2, n2)) /\ c < n2
      /\ c = Cardinality({}) + Cardinality(Used(b2, n2)) + 0
  BY DEF Moves
<1>3. c = Cardinality(Used(b2, n2))
  BY <1>1, <1>2, SMT
<1> QED
  BY <1>2, <1>3 DEF Sound

----------------------------------------------------------------------------
(***************************************************************************)
(* What the invariant says in each of the loops.                           *)
(***************************************************************************)
Invs == RobinHood /\ EmptyBucket /\ OneOfEach

LiveShape ==
    TypeOK /\ Frames =>
      /\ pc \notin {"shift", "move"} => Live = Used(buckets, nbuckets)
      /\ pc = "shift" => Live = LiveBut(buckets, nbuckets, i)
      /\ pc # "move" => Used(buckets2, nbuckets2) = {} /\ Cardinality(Used(buckets2, nbuckets2)) = 0

CalmShape ==
    TypeOK /\ Frames /\ pc \in {"idle", "iter", "find", "alloc"} =>
      (Invs <=> Sound(hash, buckets, nbuckets, count))

ProbeShape ==
    TypeOK /\ Frames /\ pc = "probe" =>
      (Invs <=> /\ Sound(hash, buckets, nbuckets, count) /\ count + 1 < nbuckets
                /\ InHand(hash, buckets, nbuckets, entry, i, key))

ShiftShape ==
    TypeOK /\ Frames /\ pc = "shift" => (Invs <=> Free(hash, buckets, nbuckets, count, i))

LEMMA LiveFinite ==
    ASSUME TypeOK
    PROVE  /\ IsFiniteSet(Live) /\ Cardinality(Live) \in Nat
           /\ IsFiniteSet(Used(buckets2, nbuckets2))
           /\ Cardinality(Used(buckets2, nbuckets2)) \in Nat
<1>1. IsFiniteSet(Used(buckets, nbuckets))
  BY SizeType, UsedFacts DEF TypeOK, MapType, LoopType
<1>2. Live \subseteq Used(buckets, nbuckets)
  BY SMT DEF Live
<1> QED
  BY <1>1, <1>2, FS_Subset, FS_CardinalityType, UsedFacts DEF TypeOK, MapType, LoopType

LEMMA TypeFrames ==
    HInv /\ [Next]_vars => TypeOK' /\ Frames'
<1> SUFFICES ASSUME HInv, [Next]_vars PROVE TypeOK' /\ Frames'
  BY SMT
<1>1. TypeOK /\ Frames /\ EmptyBucket
  BY DEF HInv
<1>2. pc = "shift" => count >= 1
  BY <1>1, LiveFinite, SMT DEF EmptyBucket
<1> QED
  BY <1>1, <1>2, TypeStep, FramesStep

LEMMA LiveShapeNow == LiveShape
<1> SUFFICES ASSUME TypeOK, Frames
             PROVE  /\ pc \notin {"shift", "move"} => Live = Used(buckets, nbuckets)
                    /\ pc = "shift" => Live = LiveBut(buckets, nbuckets, i)
                    /\ pc # "move" => /\ Used(buckets2, nbuckets2) = {}
                                      /\ Cardinality(Used(buckets2, nbuckets2)) = 0
  BY SMT DEF LiveShape
<1>1. pc \notin {"shift", "move"} => Live = Used(buckets, nbuckets)
  BY SMT DEF Live
<1>2. pc = "shift" => Live = LiveBut(buckets, nbuckets, i)
  BY DEF Live, LiveBut
<1>3. pc # "move" => Used(buckets2, nbuckets2) = {}
  BY SMT DEF Frames, Used
<1> QED
  BY <1>1, <1>2, <1>3, FS_EmptySet

LEMMA LiveShapeNext == LiveShape'
  BY LiveShapeNow, PTL

LEMMA CalmShapeNow == CalmShape
<1> SUFFICES ASSUME TypeOK, Frames, pc \in {"idle", "iter", "find", "alloc"}
             PROVE  Invs <=> Sound(hash, buckets, nbuckets, count)
  BY SMT DEF CalmShape
<1>1. /\ Live = Used(buckets, nbuckets)
      /\ Used(buckets2, nbuckets2) = {} /\ Cardinality(Used(buckets2, nbuckets2)) = 0
  BY LiveShapeNow DEF LiveShape
<1>2. RobinHood <=> AllPlaced(hash, buckets, nbuckets)
  BY <1>1 DEF RobinHood, AllPlaced
<1>3. EmptyBucket <=> count = Cardinality(Used(buckets, nbuckets)) /\ count < nbuckets
  BY <1>1, LiveFinite, SMT DEF EmptyBucket
<1>4. OneOfEach <=> UniqueIn(buckets, Used(buckets, nbuckets))
  BY <1>1 DEF OneOfEach, UniqueIn
<1> QED
  BY <1>2, <1>3, <1>4 DEF Invs, Sound

LEMMA CalmShapeNext == CalmShape'
  BY CalmShapeNow, PTL

LEMMA ProbeShapeNow == ProbeShape
<1> SUFFICES ASSUME TypeOK, Frames, pc = "probe"
             PROVE  Invs <=> /\ Sound(hash, buckets, nbuckets, count) /\ count + 1 < nbuckets
                             /\ InHand(hash, buckets, nbuckets, entry, i, key)
  BY SMT DEF ProbeShape
<1>1. /\ Live = Used(buckets, nbuckets)
      /\ Used(buckets2, nbuckets2) = {} /\ Cardinality(Used(buckets2, nbuckets2)) = 0
  BY LiveShapeNow DEF LiveShape
<1>2. RobinHood <=> /\ AllPlaced(hash, buckets, nbuckets)
                    /\ Placed(hash, buckets, nbuckets, entry, i, {})
  BY <1>1 DEF RobinHood, AllPlaced
<1>3. EmptyBucket <=> /\ count = Cardinality(Used(buckets, nbuckets)) /\ count < nbuckets
                      /\ count + 1 < nbuckets
  BY <1>1, LiveFinite, SMT DEF EmptyBucket
<1>4. OneOfEach <=>
        /\ UniqueIn(buckets, Used(buckets, nbuckets))
        /\ \A w \in Used(buckets, nbuckets) : buckets[w].key = entry.key =>
             /\ entry.key = key
             /\ Dist(Home(hash, key, nbuckets), w, nbuckets)
                  >= Dist(Home(hash, key, nbuckets), i, nbuckets)
  BY <1>1 DEF OneOfEach, UniqueIn
<1> QED
  BY <1>2, <1>3, <1>4 DEF Invs, Sound, InHand

LEMMA ProbeShapeNext == ProbeShape'
  BY ProbeShapeNow, PTL

LEMMA ShiftShapeNow == ShiftShape
<1> SUFFICES ASSUME TypeOK, Frames, pc = "shift"
             PROVE  Invs <=> Free(hash, buckets, nbuckets, count, i)
  BY SMT DEF ShiftShape
<1>1. /\ Live = LiveBut(buckets, nbuckets, i)
      /\ Used(buckets2, nbuckets2) = {} /\ Cardinality(Used(buckets2, nbuckets2)) = 0
  BY LiveShapeNow DEF LiveShape
<1>2. RobinHood <=> AllPlacedBut(hash, buckets, nbuckets, i)
  BY <1>1 DEF RobinHood, AllPlacedBut
<1>3. EmptyBucket <=> /\ count = Cardinality(LiveBut(buckets, nbuckets, i)) + 1
                      /\ count < nbuckets
  BY <1>1, LiveFinite, SMT DEF EmptyBucket
<1>4. OneOfEach <=> UniqueIn(buckets, LiveBut(buckets, nbuckets, i))
  BY <1>1 DEF OneOfEach, UniqueIn
<1> QED
  BY <1>2, <1>3, <1>4 DEF Invs, Free

LEMMA ShiftShapeNext == ShiftShape'
  BY ShiftShapeNow, PTL

MoveShape ==
    TypeOK /\ Frames /\ pc = "move" =>
      (Invs <=> /\ Moves(hash, buckets, Live, buckets2, nbuckets2, entry, j, count)
                /\ count < nbuckets
                /\ count + (IF op = "set" THEN 1 ELSE 0) < nbuckets2)

LEMMA MoveShapeNow == MoveShape
<1> SUFFICES ASSUME TypeOK, Frames, pc = "move"
             PROVE  Invs <=> /\ Moves(hash, buckets, Live, buckets2, nbuckets2, entry, j, count)
                             /\ count < nbuckets
                             /\ count + (IF op = "set" THEN 1 ELSE 0) < nbuckets2
  BY SMT DEF MoveShape
<1>1. count \in Nat /\ nbuckets2 \in Nat
  BY DEF TypeOK, MapType, LoopType
<1>2. RobinHood <=> /\ AllPlaced(hash, buckets2, nbuckets2)
                    /\ entry # NULL => Placed(hash, buckets2, nbuckets2, entry, j, {})
  BY DEF RobinHood, AllPlaced
<1>3. EmptyBucket <=>
        /\ count = Cardinality(Live) + Cardinality(Used(buckets2, nbuckets2))
                   + (IF entry # NULL THEN 1 ELSE 0)
        /\ count < nbuckets /\ count < nbuckets2
        /\ count + (IF op = "set" THEN 1 ELSE 0) < nbuckets2
  BY <1>1, LiveFinite, SMT DEF EmptyBucket
<1>4. OneOfEach <=>
        /\ UniqueIn(buckets, Live) /\ UniqueIn(buckets2, Used(buckets2, nbuckets2))
        /\ \A v \in Live, w \in Used(buckets2, nbuckets2) : buckets[v].key # buckets2[w].key
        /\ entry # NULL => /\ \A v \in Live : buckets[v].key # entry.key
                           /\ \A w \in Used(buckets2, nbuckets2) : buckets2[w].key # entry.key
  BY DEF OneOfEach, UniqueIn
<1> HIDE DEF AllPlaced, UniqueIn
<1> QED
  BY <1>2, <1>3, <1>4 DEF Invs, Moves

LEMMA MoveShapeNext == MoveShape'
  BY MoveShapeNow, PTL

----------------------------------------------------------------------------
(***************************************************************************)
(* Robin hood hashing, the empty bucket and the distinct keys, together.   *)
(***************************************************************************)
LEMMA InvsStep ==
    HInv /\ [Next]_vars => Invs'
<1> SUFFICES ASSUME TypeOK, Frames, Invs, TypeOK', Frames', [Next]_vars PROVE Invs'
  BY TypeFrames DEF HInv, Invs
<1> USE DEF mapVars, callerVars, newVars
<1>1. /\ hash \in [Key -> HashValues] /\ count \in Nat
      /\ nbuckets \in Nat /\ nbuckets >= 1 /\ nbuckets >= 2 /\ buckets \in Table(nbuckets)
  BY SizeType DEF TypeOK, MapType
<1> USE <1>1
<1>2. /\ pc \in {"probe", "find", "shift"} => i \in 0 .. nbuckets - 1
      /\ pc = "probe" => entry \in Item /\ key \in Key
  BY SMT DEF TypeOK, LoopType, CallType, Frames
<1>3. pc \in {"idle", "iter", "find", "alloc"} => Sound(hash, buckets, nbuckets, count)
  BY CalmShapeNow, SMT DEF CalmShape
<1>4. ASSUME pc' \in {"idle", "iter", "find", "alloc"}, Sound(hash', buckets', nbuckets', count')
      PROVE  Invs'
  BY <1>4, CalmShapeNext DEF CalmShape
<1>5. pc = "probe" => /\ Sound(hash, buckets, nbuckets, count) /\ count + 1 < nbuckets
                      /\ InHand(hash, buckets, nbuckets, entry, i, key)
  BY ProbeShapeNow DEF ProbeShape
<1>6. ASSUME pc' = "probe", Sound(hash', buckets', nbuckets', count'), count' + 1 < nbuckets',
             InHand(hash', buckets', nbuckets', entry', i', key')
      PROVE  Invs'
  BY <1>6, ProbeShapeNext DEF ProbeShape
<1>7. pc = "shift" => Free(hash, buckets, nbuckets, count, i)
  BY ShiftShapeNow DEF ShiftShape
<1>8. ASSUME pc' = "shift", Free(hash', buckets', nbuckets', count', i') PROVE Invs'
  BY <1>8, ShiftShapeNext DEF ShiftShape
<1>9. pc = "move" => /\ Moves(hash, buckets, Live, buckets2, nbuckets2, entry, j, count)
                     /\ count < nbuckets
                     /\ count + (IF op = "set" THEN 1 ELSE 0) < nbuckets2
  BY MoveShapeNow DEF MoveShape
<1>10. ASSUME pc' = "move", Moves(hash', buckets', Live', buckets2', nbuckets2', entry', j', count'),
              count' < nbuckets', count' + (IF op' = "set" THEN 1 ELSE 0) < nbuckets2'
       PROVE  Invs'
  BY <1>10, MoveShapeNext DEF MoveShape
<1>11. pc = "move" => /\ nbuckets2 \in Nat /\ nbuckets2 >= 1 /\ buckets2 \in Table(nbuckets2)
                      /\ IsFiniteSet(Live) /\ Cardinality(Live) \in Nat
                      /\ entry # NULL => entry \in Item /\ j \in 0 .. nbuckets2 - 1
                      /\ i \in 0..nbuckets
  BY Indexed2, LiveFinite, SMT DEF TypeOK, LoopType, CallType
<1>12. ASSUME pc \in {"idle", "iter", "find", "alloc"},
              pc' \in {"idle", "iter", "find", "alloc"},
              UNCHANGED <<hash, buckets, nbuckets, count>>
       PROVE  Invs'
  BY <1>3, <1>4, <1>12
<1>13. ASSUME NEW k \in Key, NEW v \in Val, hashmap_set(k, v) PROVE Invs'
  <2> USE <1>13
  <2>1. Sound(hash, buckets, nbuckets, count)
    BY <1>3 DEF hashmap_set
  <2>2. CASE count >= growat(nbuckets)
    BY <1>12, <2>2 DEF hashmap_set
  <2>3. CASE ~(count >= growat(nbuckets))
    <3>1. /\ pc' = "probe" /\ entry' = [dib |-> 1, key |-> k, val |-> v] /\ key' = k
          /\ i' = Mask(hash[k], nbuckets) /\ UNCHANGED <<hash, buckets, nbuckets, count>>
      BY <2>3 DEF hashmap_set, Probe
    <3>2. InHand(hash, buckets, nbuckets, [dib |-> 1, key |-> k, val |-> v],
                 Mask(hash[k], nbuckets), k)
      BY SoundStart
    <3>3. growat(nbuckets) < nbuckets /\ growat(nbuckets) \in Nat
      <4>1. growat(nbuckets) < nbuckets
        BY SizeType, LoadFacts
      <4>2. nbuckets * GROW_AT \in Nat
        BY HashmapAssumption, SMT
      <4> QED
        BY <4>1, <4>2, SMT DEF growat
    <3>4. count + 1 < nbuckets
      BY <2>3, <3>3, SMT
    <3> QED
      BY <1>6, <2>1, <3>1, <3>2, <3>4
  <2> QED
    BY <2>2, <2>3
<1>14. ASSUME NEW k \in Key, hashmap_get(k) \/ hashmap_delete(k) PROVE Invs'
  BY <1>12, <1>14 DEF hashmap_get, hashmap_delete, Find
<1>15. CASE SetInsert
  <2>1. /\ pc' \in {"idle", "iter", "find", "alloc"}
        /\ buckets' = [buckets EXCEPT ![i] = entry] /\ count' = count + 1
        /\ UNCHANGED <<hash, nbuckets>>
    BY <1>15 DEF SetInsert, Return
  <2>2. pc = "probe" /\ buckets[i] = NULL
    BY <1>15 DEF SetInsert
  <2>3. Sound(hash, [buckets EXCEPT ![i] = entry], nbuckets, count + 1)
    BY <1>2, <1>5, <2>2, SoundInsert
  <2> QED
    BY <1>4, <2>1, <2>3
<1>16. CASE SetReplace
  <2>1. /\ pc' \in {"idle", "iter", "find", "alloc"}
        /\ buckets' = [buckets EXCEPT ![i].val = entry.val] /\ UNCHANGED <<hash, nbuckets, count>>
    BY <1>16, SMT DEF SetReplace, Return
  <2>2. pc = "probe" /\ buckets[i] # NULL
    BY <1>16 DEF SetReplace
  <2>3. entry.val \in Val
    BY <1>2, <2>2, ItemFacts
  <2>4. Sound(hash, [buckets EXCEPT ![i].val = entry.val], nbuckets, count)
    BY <1>2, <1>5, <2>2, <2>3, SoundReplace, SMTT(30)
  <2> QED
    BY <1>4, <2>1, <2>4, SMT
<1>17. CASE SetFarther
  <2> USE <1>17
  <2>1. /\ pc = "probe" /\ pc' = "probe" /\ i' = Mask(i + 1, nbuckets)
        /\ buckets[i] # NULL /\ buckets[i].key # entry.key
        /\ UNCHANGED <<hash, nbuckets, count, key>>
    BY DEF SetFarther
  <2>2. CASE buckets[i].dib < entry.dib
    <3>1. buckets' = [buckets EXCEPT ![i] = entry] /\ entry' = Farther(buckets[i])
      BY <2>2 DEF SetFarther
    <3>2. /\ Sound(hash, [buckets EXCEPT ![i] = entry], nbuckets, count)
          /\ InHand(hash, [buckets EXCEPT ![i] = entry], nbuckets, Farther(buckets[i]),
                    Mask(i + 1, nbuckets), key)
      BY <1>2, <1>5, <2>1, <2>2, SoundSwap
    <3> QED
      BY <1>5, <1>6, <2>1, <3>1, <3>2
  <2>3. CASE ~(buckets[i].dib < entry.dib)
    <3>1. entry' = Farther(entry) /\ buckets' = buckets
      BY <2>3 DEF SetFarther
    <3>2. InHand(hash, buckets, nbuckets, Farther(entry), Mask(i + 1, nbuckets), key)
      BY <1>2, <1>5, <2>1, <2>3, SoundFarther, SMTT(30)
    <3> QED
      BY <1>5, <1>6, <2>1, <3>1, <3>2, SMTT(30)
  <2> QED
    BY <2>2, <2>3
<1>18. CASE FindNothing
  BY <1>12, <1>18 DEF FindNothing, Return
<1>19. CASE FindNext
  BY <1>12, <1>19 DEF FindNext
<1>20. CASE GetFound
  BY <1>12, <1>20 DEF GetFound, Return
<1>21. CASE ResizeFails
  BY <1>12, <1>21 DEF ResizeFails, Return
<1>22. CASE IterStart
  BY <1>12, <1>22 DEF IterStart
<1>23. CASE IterNext
  BY <1>12, <1>23 DEF IterNext
<1>24. CASE IterDelete
  BY <1>12, <1>24 DEF IterDelete, Find
<1>25. CASE IterEnd
  BY <1>12, <1>25 DEF IterEnd
<1>26. CASE DeleteFound
  <2>1. /\ pc = "find" /\ buckets[i] # NULL /\ pc' = "shift"
        /\ buckets' = [buckets EXCEPT ![i] = NULL] /\ UNCHANGED <<hash, nbuckets, count, i>>
    BY <1>26 DEF DeleteFound
  <2>2. Free(hash, [buckets EXCEPT ![i] = NULL], nbuckets, count, i)
    BY <1>2, <1>3, <2>1, FreeFound
  <2> QED
    BY <1>8, <2>1, <2>2
<1>27. CASE DeleteShift
  <2>1. /\ pc = "shift" /\ pc' = "shift" /\ i' = Mask(i + 1, nbuckets)
        /\ buckets' = [buckets EXCEPT ![i] = [buckets[Mask(i + 1, nbuckets)] EXCEPT !.dib = @ - 1]]
        /\ UNCHANGED <<hash, nbuckets, count>>
    BY <1>27, SMT DEF DeleteShift
  <2>2. buckets[Mask(i + 1, nbuckets)] # NULL /\ buckets[Mask(i + 1, nbuckets)].dib > 1
    BY <1>27 DEF DeleteShift
  <2>3. Free(hash, [buckets EXCEPT ![i] = [buckets[Mask(i + 1, nbuckets)] EXCEPT !.dib = @ - 1]],
             nbuckets, count, Mask(i + 1, nbuckets))
    BY <1>2, <1>7, <2>1, <2>2, FreeShift
  <2> QED
    BY <1>8, <2>1, <2>3, SMT
<1>28. CASE DeleteLast
  <2>1. /\ pc = "shift" /\ pc' \in {"idle", "iter", "find", "alloc"}
        /\ buckets' = [buckets EXCEPT ![i] = NULL] /\ count' = count - 1
        /\ UNCHANGED <<hash, nbuckets>>
    BY <1>28, SMT DEF DeleteLast, Return
  <2>2. buckets[Mask(i + 1, nbuckets)] # NULL => buckets[Mask(i + 1, nbuckets)].dib <= 1
    BY <1>28 DEF DeleteLast
  <2>3. Sound(hash, [buckets EXCEPT ![i] = NULL], nbuckets, count - 1)
    BY <1>2, <1>7, <2>1, <2>2, FreeLast
  <2> QED
    BY <1>4, <2>1, <2>3, SMTT(30)
<1>29. CASE ResizeStart
  <2>1. /\ pc = "alloc" /\ pc' = "move" /\ i' = 0
        /\ nbuckets2' = Capacity(new_cap) /\ buckets2' = EmptyTable(Capacity(new_cap))
        /\ UNCHANGED <<hash, buckets, nbuckets, count, op, entry>>
    BY <1>29 DEF ResizeStart
  <2>2. entry = NULL /\ op \in {"set", "delete"}
    BY <2>1 DEF Frames
  <2>3. Live' = Used(buckets, nbuckets)
    <3>1. \A x \in Used(buckets, nbuckets) : x >= 0
      BY SMT DEF Used
    <3> QED
      BY <2>1, <2>2, <3>1 DEF Live
  <2>4. count < nbuckets /\ Sound(hash, buckets, nbuckets, count)
    BY <1>3, <2>1 DEF Sound
  <2>5. Capacity(new_cap) \in Nat /\ Capacity(new_cap) >= new_cap
    BY NewTable
  <2>6. count + (IF op = "set" THEN 1 ELSE 0) < Capacity(new_cap)
    <3>1. CASE op = "set"
      <4>1. new_cap = nbuckets * 2
        BY <3>1 DEF new_cap
      <4> QED
        BY <2>4, <2>5, <3>1, <4>1, SMT
    <3>2. CASE op = "delete"
      <4>1. new_cap = nbuckets \div 2
        BY <3>2 DEF new_cap
      <4>2. count <= shrinkat(nbuckets)
        BY <2>1, <3>2 DEF Frames
      <4>3. shrinkat(nbuckets) < nbuckets \div 2
        BY SizeType, LoadFacts
      <4>4. nbuckets * SHRINK_AT \in Nat
        BY HashmapAssumption, SMT
      <4>5. shrinkat(nbuckets) \in Int /\ nbuckets \div 2 \in Int
        BY <4>4, SMT DEF shrinkat
      <4>6. op # "set"
        BY <3>2
      <4> QED
        BY <2>5, <4>1, <4>2, <4>3, <4>5, <4>6, SMT
    <3> QED
      BY <2>2, <3>1, <3>2
  <2>7. count < Capacity(new_cap)
    BY <2>5, <2>6, SMT
  <2>8. Moves(hash, buckets, Used(buckets, nbuckets), EmptyTable(Capacity(new_cap)),
              Capacity(new_cap), NULL, j', count)
    BY <2>4, <2>5, <2>7, MoveStart
  <2> QED
    BY <1>10, <2>1, <2>2, <2>3, <2>4, <2>6, <2>8, SMT
<1>30. CASE ResizeSkip
  <2>1. /\ pc = "move" /\ pc' = "move" /\ i' = i + 1 /\ entry = NULL /\ buckets[i] = NULL
        /\ UNCHANGED <<hash, buckets, nbuckets, count, op, entry, j, buckets2, nbuckets2>>
    BY <1>30 DEF ResizeSkip
  <2>2. Live' = Live
    BY <1>11, <2>1, SMT DEF Live, Used
  <2> QED
    BY <1>9, <1>10, <2>1, <2>2
<1>31. CASE ResizeTake
  <2>1. /\ pc = "move" /\ pc' = "move" /\ entry = NULL /\ i < nbuckets /\ buckets[i] # NULL
        /\ entry' = [buckets[i] EXCEPT !.dib = 1] /\ j' = Mask(hash[buckets[i].key], nbuckets2)
        /\ UNCHANGED <<hash, buckets, nbuckets, count, op, i, buckets2, nbuckets2>>
    BY <1>31 DEF ResizeTake
  <2>2. i \in 0 .. nbuckets - 1
    BY <1>11, <2>1, SMT
  <2>3. buckets[i] \in Item
    BY <2>1, <2>2, Indexed
  <2>4. entry' \in Item /\ entry'.key = buckets[i].key /\ entry'.dib = 1
    BY <2>1, <2>3, SMT DEF Item
  <2>5. entry' # NULL
    BY <2>4, ItemFacts
  <2>6. Live' = Live \ {i} /\ i \in Live
    BY <2>1, <2>2, <2>5, SMT DEF Live, Used
  <2>7. Moves(hash, buckets, Live, buckets2, nbuckets2, NULL, j, count)
    BY <1>9, <2>1
  <2>8. Moves(hash, buckets, Live \ {i}, buckets2, nbuckets2, entry',
              Mask(hash[buckets[i].key], nbuckets2), count)
    BY <1>11, <2>1, <2>4, <2>6, <2>7, MoveTake
  <2> QED
    BY <1>9, <1>10, <2>1, <2>6, <2>8
<1>32. CASE ResizePut
  <2>1. /\ pc = "move" /\ pc' = "move" /\ entry # NULL /\ entry' = NULL /\ i' = i + 1
        /\ buckets2[j] = NULL /\ buckets2' = [buckets2 EXCEPT ![j] = entry]
        /\ UNCHANGED <<hash, buckets, nbuckets, count, op, j, nbuckets2>>
    BY <1>32 DEF ResizePut
  <2>2. Live' = Live
    BY <1>11, <2>1, SMT DEF Live, Used
  <2>3. Moves(hash, buckets, Live, [buckets2 EXCEPT ![j] = entry], nbuckets2, NULL, j, count)
    BY <1>9, <1>11, <2>1, MovePut
  <2> QED
    BY <1>9, <1>10, <2>1, <2>2, <2>3, SMT
<1>33. CASE ResizeFarther
  <2> USE <1>33
  <2>1. /\ pc = "move" /\ pc' = "move" /\ entry # NULL /\ buckets2[j] # NULL
        /\ j' = Mask(j + 1, nbuckets2)
        /\ UNCHANGED <<hash, buckets, nbuckets, count, op, i, nbuckets2>>
    BY SMT DEF ResizeFarther
  <2>2. buckets2[j] \in Item /\ entry \in Item
    BY <1>11, <2>1, Indexed2
  <2>3. entry' # NULL
    BY <2>2, ItemFacts DEF ResizeFarther
  <2>4. Live' = Live
    BY <2>1, <2>3 DEF Live
  <2>5. CASE buckets2[j].dib < entry.dib
    <3>1. buckets2' = [buckets2 EXCEPT ![j] = entry] /\ entry' = Farther(buckets2[j])
      BY <2>5 DEF ResizeFarther
    <3>2. Moves(hash, buckets, Live, [buckets2 EXCEPT ![j] = entry], nbuckets2,
                Farther(buckets2[j]), Mask(j + 1, nbuckets2), count)
      BY <1>9, <1>11, <2>1, <2>5, MoveSwap, SMTT(30)
    <3> QED
      BY <1>9, <1>10, <2>1, <2>4, <3>1, <3>2, SMTT(30)
  <2>6. CASE ~(buckets2[j].dib < entry.dib)
    <3>1. buckets2' = buckets2 /\ entry' = Farther(entry)
      BY <2>6 DEF ResizeFarther
    <3>2. Moves(hash, buckets, Live, buckets2, nbuckets2,
                Farther(entry), Mask(j + 1, nbuckets2), count)
      BY <1>9, <1>11, <2>1, <2>6, MoveFarther, SMTT(30)
    <3> QED
      BY <1>9, <1>10, <2>1, <2>4, <3>1, <3>2, SMTT(30)
  <2> QED
    BY <2>5, <2>6, SMT
<1>34. CASE ResizeDone
  <2> USE <1>34
  <2>1. /\ pc = "move" /\ entry = NULL /\ i = nbuckets
        /\ buckets' = buckets2 /\ nbuckets' = nbuckets2 /\ UNCHANGED <<hash, count>>
    BY DEF ResizeDone
  <2>2. Live = {}
    BY <2>1, SMT DEF Live, Used
  <2>3. Moves(hash, buckets, {}, buckets2, nbuckets2, NULL, j, count)
    BY <1>9, <2>1, <2>2
  <2>4. Sound(hash, buckets2, nbuckets2, count)
    BY <1>11, <2>1, <2>3, MoveDone
  <2>5. CASE op = "set"
    <3>1. /\ pc' = "probe" /\ entry' = [dib |-> 1, key |-> key, val |-> val] /\ key' = key
          /\ i' = Mask(hash[key], nbuckets2)
      BY <2>5 DEF ResizeDone, Probe
    <3>2. key \in Key /\ val \in Val
      BY <2>5 DEF Frames
    <3>3. InHand(hash, buckets2, nbuckets2, [dib |-> 1, key |-> key, val |-> val],
                 Mask(hash[key], nbuckets2), key)
      BY <1>11, <2>1, <3>2, SoundStart, SMT
    <3>4. count + 1 < nbuckets2
      BY <1>9, <2>1, <2>5
    <3> QED
      BY <1>6, <2>1, <2>4, <3>1, <3>3, <3>4
  <2>6. CASE op # "set"
    <3>1. pc' \in {"idle", "iter", "find", "alloc"}
      BY <2>6 DEF ResizeDone, Return
    <3> QED
      BY <1>4, <2>1, <2>4, <3>1
  <2> QED
    BY <2>5, <2>6
<1>35. CASE UNCHANGED vars
  <2> USE <1>35
  <2>1. Live' = Live
    BY DEF vars, Live
  <2>2. RobinHood'
    BY <2>1 DEF vars, Invs, RobinHood
  <2>3. EmptyBucket'
    BY <2>1 DEF vars, Invs, EmptyBucket
  <2>4. OneOfEach'
    BY <2>1 DEF vars, Invs, OneOfEach
  <2> QED
    BY <2>2, <2>3, <2>4 DEF Invs
<1> QED
  BY <1>13, <1>14, <1>15, <1>16, <1>17, <1>18, <1>19, <1>20, <1>21, <1>22, <1>23,
     <1>24, <1>25, <1>26, <1>27, <1>28, <1>29, <1>30, <1>31, <1>32, <1>33, <1>34,
     <1>35, SMTT(30)
     DEF Next, Set, Search, Shift, Resize, Iterate

----------------------------------------------------------------------------
(***************************************************************************)
(* What the searches have passed.                                          *)
(***************************************************************************)
LEMMA UnmetFirst ==
    ASSUME NEW hs \in [Key -> HashValues], NEW n \in Nat, n >= 1, NEW b, NEW k \in Key
    PROVE  Unmet(hs, b, n, k, Mask(hs[k], n))
<1>1. Home(hs, k, n) \in 0 .. n - 1
  BY HomeFacts, SMT
<1>2. Dist(Home(hs, k, n), Home(hs, k, n), n) = 0
  BY <1>1, DistFacts, SMT
<1>3. \A y \in 0 .. n - 1 : Dist(Home(hs, k, n), y, n) \in Nat
  BY <1>1, DistType
<1> QED
  BY <1>2, <1>3, SMT DEF Unmet, Home

LEMMA UnmetNext ==
    ASSUME NEW hs \in [Key -> HashValues], NEW n \in Nat, n >= 1, NEW b \in Table(n), NEW k \in Key,
           NEW x \in 0 .. n - 1, NEW c, Sound(hs, b, n, c),
           Unmet(hs, b, n, k, x), b[x] # NULL, b[x].key # k
    PROVE  Unmet(hs, b, n, k, Mask(x + 1, n))
<1>1. PICK z \in 0 .. n - 1 : b[z] = NULL
  BY SomeEmpty, SMT
<1>2. Home(hs, k, n) \in 0 .. n - 1
  BY HomeFacts, SMT
<1>3. ~(Dist(Home(hs, k, n), z, n) < Dist(Home(hs, k, n), x, n)) /\ z # x
  BY <1>1 DEF Unmet
<1>4. \A y \in 0 .. n - 1 : Dist(Home(hs, k, n), y, n) < Dist(Home(hs, k, n), Mask(x + 1, n), n)
        <=> Dist(Home(hs, k, n), y, n) < Dist(Home(hs, k, n), x, n) \/ y = x
  BY <1>2, <1>3, WalkOn
<1> QED
  BY <1>4 DEF Unmet

LEMMA SearchedStep ==
    HInv /\ [Next]_vars => Searched'
<1> SUFFICES ASSUME TypeOK, Frames, Invs, Searched, TypeOK', Frames', [Next]_vars
             PROVE  Searched'
  BY TypeFrames DEF HInv, Invs
<1> USE DEF mapVars, callerVars, newVars
<1>1. /\ hash \in [Key -> HashValues]
      /\ nbuckets \in Nat /\ nbuckets >= 1 /\ buckets \in Table(nbuckets)
  BY SizeType DEF TypeOK, MapType
<1> USE <1>1
<1>2. ASSUME pc' \notin {"probe", "find"}, pc' = "iter" => iter' = 0 PROVE Searched'
  <2>1. \A x \in Live' : ~(x < 0)
    BY SMT DEF Live, Used
  <2> QED
    BY <1>2, <2>1 DEF Searched
<1>3. ASSUME pc' = "probe", entry'.key = key', entry'.val = val' PROVE Searched'
  BY <1>3 DEF Searched
<1>4. ASSUME pc' = "find", Unmet(hash', buckets', nbuckets', key', i'),
             collecting' => \E x \in Live' : buckets'[x].key = key' /\ buckets'[x].val = Due
      PROVE  Searched'
  BY <1>4 DEF Searched, Unmet
<1>5. ASSUME pc # "iter", Return, UNCHANGED iter PROVE Searched'
  <2>1. iter = 0
    BY <1>5 DEF Frames
  <2> QED
    BY <1>2, <1>5, <2>1 DEF Return
<1>6. ASSUME NEW k \in Key, NEW v \in Val, hashmap_set(k, v) PROVE Searched'
  <2>1. CASE count >= growat(nbuckets)
    BY <1>2, <1>6, <2>1 DEF hashmap_set
  <2>2. CASE ~(count >= growat(nbuckets))
    <3>1. /\ pc' = "probe" /\ entry' = [dib |-> 1, key |-> k, val |-> v] /\ key' = k /\ val' = v
      BY <1>6, <2>2 DEF hashmap_set, Probe
    <3>2. entry'.key = k /\ entry'.val = v
      BY <3>1, SMT
    <3> QED
      BY <1>3, <3>1, <3>2
  <2> QED
    BY <2>1, <2>2
<1>7. ASSUME NEW k \in Key, hashmap_get(k) \/ hashmap_delete(k) PROVE Searched'
  <2>1. /\ pc = "idle" /\ pc' = "find" /\ key' = k /\ i' = Mask(hash[k], nbuckets)
        /\ UNCHANGED <<hash, buckets, nbuckets, collecting>>
    BY <1>7 DEF hashmap_get, hashmap_delete, Find
  <2>2. ~collecting
    BY <2>1 DEF Frames
  <2>3. Unmet(hash, buckets, nbuckets, k, Mask(hash[k], nbuckets))
    BY UnmetFirst
  <2> QED
    BY <1>4, <2>1, <2>2, <2>3
<1>8. CASE SetInsert \/ SetReplace
  BY <1>5, <1>8 DEF SetInsert, SetReplace
<1>9. CASE SetFarther
  <2> USE <1>9
  <2>1. /\ pc = "probe" /\ pc' = "probe" /\ buckets[i] # NULL /\ buckets[i].key # entry.key
        /\ UNCHANGED <<nbuckets, key, val>>
    BY DEF SetFarther
  <2>2. i \in 0 .. nbuckets - 1 /\ entry \in Item /\ buckets[i] \in Item
    <3>1. i \in 0 .. nbuckets - 1
      BY <2>1, SMT DEF TypeOK, LoopType
    <3> QED
      BY <2>1, <3>1, Indexed DEF TypeOK, CallType, Frames
  <2>3. /\ Live = Used(buckets, nbuckets) /\ Live' = Used(buckets', nbuckets)
    BY <2>1 DEF Live
  <2>4. CASE ~(buckets[i].dib < entry.dib)
    <3>1. buckets' = buckets /\ entry'.key = entry.key /\ entry'.val = entry.val
      BY <2>2, <2>4, ItemFacts DEF SetFarther
    <3> QED
      BY <2>1, <2>3, <3>1 DEF Searched
  <2>5. CASE buckets[i].dib < entry.dib
    <3>1. /\ buckets' = [buckets EXCEPT ![i] = entry]
          /\ entry'.key = buckets[i].key /\ entry'.val = buckets[i].val
      BY <2>2, <2>5, ItemFacts DEF SetFarther
    <3>2. /\ buckets'[i] = entry
          /\ \A x \in 0 .. nbuckets - 1 : x # i => buckets'[x] = buckets[x]
          /\ Live' = Live \cup {i}
      BY <2>2, <2>3, <3>1, ItemFacts, SMT DEF Table, Used
    <3>3. CASE entry.key = key
      <4>1. entry.val = val
        BY <2>1, <3>3 DEF Searched
      <4> QED
        BY <2>1, <3>1, <3>2, <3>3, <4>1 DEF Searched
    <3>4. CASE entry.key # key
      <4>1. PICK x \in Live : buckets[x].key = key /\ buckets[x].val = val
        BY <2>1, <3>4 DEF Searched
      <4>2. CASE x = i
        BY <1>3, <2>1, <3>1, <4>1, <4>2
      <4>3. CASE x # i
        <5>1. x \in 0 .. nbuckets - 1 /\ i \in Live
          BY <2>1, <2>2, <2>3, <4>1 DEF Used
        <5>2. buckets[i].key # key
          BY <4>1, <4>3, <5>1 DEF Invs, OneOfEach
        <5> QED
          BY <2>1, <3>1, <3>2, <4>1, <4>3, <5>1, <5>2 DEF Searched
      <4> QED
        BY <4>2, <4>3
    <3> QED
      BY <3>3, <3>4
  <2> QED
    BY <2>4, <2>5
<1>10. CASE FindNothing \/ GetFound
  BY <1>5, <1>10 DEF FindNothing, GetFound
<1>11. CASE FindNext
  <2>1. /\ pc = "find" /\ pc' = "find" /\ buckets[i] # NULL /\ buckets[i].key # key
        /\ i' = Mask(i + 1, nbuckets) /\ UNCHANGED <<hash, buckets, nbuckets, key, collecting>>
    BY <1>11 DEF FindNext
  <2>2. i \in 0 .. nbuckets - 1 /\ key \in Key
    BY <2>1, SMT DEF TypeOK, LoopType, Frames
  <2>3. Sound(hash, buckets, nbuckets, count)
    BY <2>1, CalmShapeNow DEF CalmShape
  <2>4. Unmet(hash, buckets, nbuckets, key, i)
    BY <2>1 DEF Searched, Unmet
  <2>5. Unmet(hash, buckets, nbuckets, key, Mask(i + 1, nbuckets))
    BY <2>1, <2>2, <2>3, <2>4, UnmetNext
  <2>6. Live' = Live
    BY <2>1 DEF Live
  <2> QED
    BY <1>4, <2>1, <2>5, <2>6 DEF Searched
<1>12. CASE DeleteFound
  BY <1>2, <1>12 DEF DeleteFound
<1>13. CASE DeleteShift
  BY <1>2, <1>13 DEF DeleteShift
<1>14. CASE DeleteLast
  <2>1. CASE nbuckets > MinCap /\ count - 1 <= shrinkat(nbuckets)
    BY <1>2, <1>14, <2>1 DEF DeleteLast
  <2>2. CASE ~(nbuckets > MinCap /\ count - 1 <= shrinkat(nbuckets))
    BY <1>5, <1>14, <2>2 DEF DeleteLast
  <2> QED
    BY <2>1, <2>2
<1>15. CASE ResizeFails
  BY <1>5, <1>15 DEF ResizeFails
<1>16. CASE ResizeStart \/ ResizeSkip \/ ResizeTake \/ ResizePut
  BY <1>2, <1>16 DEF ResizeStart, ResizeSkip, ResizeTake, ResizePut
<1>17. CASE ResizeFarther
  BY <1>2, <1>17 DEF ResizeFarther
<1>18. CASE ResizeDone
  <2>1. CASE op = "set"
    <3>1. /\ pc' = "probe" /\ entry' = [dib |-> 1, key |-> key, val |-> val] /\ UNCHANGED <<key, val>>
      BY <1>18, <2>1 DEF ResizeDone, Probe
    <3>2. entry'.key = key /\ entry'.val = val
      BY <3>1, SMT
    <3> QED
      BY <1>3, <3>1, <3>2
  <2>2. CASE op # "set"
    BY <1>5, <1>18, <2>2 DEF ResizeDone
  <2> QED
    BY <2>1, <2>2
<1>19. CASE IterStart \/ IterEnd
  BY <1>2, <1>19 DEF IterStart, IterEnd
<1>20. CASE IterNext
  <2>1. /\ pc = "iter" /\ pc' = "iter" /\ (buckets[iter] # NULL => buckets[iter].val # Due)
        /\ iter' = iter + 1 /\ UNCHANGED <<buckets, nbuckets>>
    BY <1>20 DEF IterNext
  <2>2. Live' = Live /\ Live = Used(buckets, nbuckets)
    BY <2>1 DEF Live
  <2>3. \A x \in Live : x < iter + 1 => x < iter \/ x = iter
    BY <2>2, SMT DEF TypeOK, LoopType, Used
  <2>4. \A x \in Live : buckets[x] # NULL
    BY <2>2 DEF Used
  <2> QED
    BY <2>1, <2>2, <2>3, <2>4 DEF Searched
<1>21. CASE IterDelete
  <2>1. /\ pc = "iter" /\ pc' = "find" /\ iter < nbuckets
        /\ buckets[iter] # NULL /\ buckets[iter].val = Due
        /\ key' = buckets[iter].key /\ i' = Mask(hash[buckets[iter].key], nbuckets)
        /\ UNCHANGED <<hash, buckets, nbuckets, collecting>>
    BY <1>21 DEF IterDelete, Find
  <2>2. iter \in 0 .. nbuckets - 1
    BY <2>1, SMT DEF TypeOK, LoopType
  <2>3. buckets[iter].key \in Key
    BY <2>1, <2>2, Indexed, ItemFacts
  <2>4. Unmet(hash, buckets, nbuckets, buckets[iter].key, Mask(hash[buckets[iter].key], nbuckets))
    BY <2>3, UnmetFirst
  <2>5. iter \in Live'
    BY <2>1, <2>2 DEF Live, Used
  <2> QED
    BY <1>4, <2>1, <2>4, <2>5
<1>22. CASE UNCHANGED vars
  <2>1. Live' = Live
    BY <1>22 DEF vars, Live
  <2> QED
    BY <1>22, <2>1 DEF vars, Searched
<1> QED
  BY <1>6, <1>7, <1>8, <1>9, <1>10, <1>11, <1>12, <1>13, <1>14, <1>15, <1>16,
     <1>17, <1>18, <1>19, <1>20, <1>21, <1>22, SMTT(30)
     DEF Next, Set, Search, Shift, Resize, Iterate

----------------------------------------------------------------------------
LEMMA InitHInv == Init => HInv
<1> SUFFICES ASSUME Init PROVE HInv
  BY SMT
<1>1. /\ nbuckets = Capacity(0) /\ buckets = EmptyTable(nbuckets) /\ count = 0
      /\ nbuckets2 = 0 /\ buckets2 = EmptyTable(nbuckets2)
      /\ i = 0 /\ j = 0 /\ iter = 0
      /\ hash \in [Key -> HashValues]
  BY DEF Init
<1>2. nbuckets \in Sizes(nbuckets) /\ nbuckets \in Nat /\ nbuckets >= 1
  <2>1. Capacity(0) \in Sizes(0)
    BY CapacityFacts, SMT
  <2> QED
    BY <1>1, <2>1, SizeFacts, SMT
<1>3. buckets \in Table(nbuckets) /\ buckets2 \in Table(nbuckets2)
  BY <1>1, <1>2, EmptyTableFacts, SMT
<1>4. MapType
  <2>1. oom \in BOOLEAN /\ ret \in Val \cup {NULL}
    BY DEF Init
  <2>2. count \in Nat
    BY <1>1, SMT
  <2> QED
    BY <1>1, <1>2, <1>3, <2>1, <2>2 DEF MapType
<1>5. CallType
  BY DEF Init, CallType
<1>6. pc = "idle" /\ op = "none" /\ entry = NULL /\ ~collecting
  BY DEF Init
<1>7. LoopType
  BY <1>1, <1>2, <1>3, <1>6, SMT DEF LoopType
<1>8. TypeOK
  BY <1>4, <1>5, <1>7 DEF TypeOK
<1>9. Frames
  BY <1>1, <1>6 DEF Frames
<1>10. Used(buckets, nbuckets) = {} /\ Cardinality(Used(buckets, nbuckets)) = 0
  BY <1>1, <1>2, EmptyTableFacts, SMT
<1>11. Sound(hash, buckets, nbuckets, count)
  BY <1>1, <1>2, <1>10, SMT DEF Sound, AllPlaced, UniqueIn
<1>12. Invs
  BY <1>6, <1>8, <1>9, <1>11, CalmShapeNow DEF CalmShape
<1>13. Searched
  BY <1>6 DEF Searched
<1> QED
  BY <1>8, <1>9, <1>12, <1>13 DEF HInv, Invs

(***************************************************************************)
(* In every state of the hash map, for any keys, any hash values, any      *)
(* sizes and any load factors, what the loops of hashmap.c rely on holds.  *)
(***************************************************************************)
THEOREM HashmapInvariant == Spec => []HInv
<1>1. HInv /\ [Next]_vars => HInv'
  BY TypeFrames, InvsStep, SearchedStep DEF HInv, Invs
<1> QED
  BY <1>1, InitHInv, PTL DEF Spec

(***************************************************************************)
(* Every item lies where hashmap_get and hashmap_delete look for it: no    *)
(* empty bucket and no nearer item lies before it, in the table, in the    *)
(* new one of resize0, and around a bucket that a deletion has freed.      *)
(***************************************************************************)
THEOREM ItemsAreFound == Spec => []RobinHood
<1>1. HInv => RobinHood
  BY DEF HInv
<1> QED
  BY <1>1, HashmapInvariant, PTL

(***************************************************************************)
(* count is the number of items, and some bucket is always empty, so that  *)
(* the for (;;) loops of hashmap.c meet one.                               *)
(***************************************************************************)
THEOREM AlwaysAnEmptyBucket == Spec => []EmptyBucket
<1>1. HInv => EmptyBucket
  BY DEF HInv
<1> QED
  BY <1>1, HashmapInvariant, PTL
=============================================================================
