------------------------ MODULE HashmapTableProofs -------------------------
(***************************************************************************)
(* Proofs about the hash map: it implements the table that rip_db.c relies *)
(* on.                                                                     *)
(***************************************************************************)
EXTENDS HashmapProofs

\* Most leaves need no arithmetic; those that do cite SMT.
USE Zenon

(***************************************************************************)
(* What the table contains, in each of the loops.                          *)
(***************************************************************************)
HasShape ==
    TypeOK /\ Frames => \A k \in Key, v \in Val :
      /\ pc \in {"idle", "iter", "find", "alloc"} =>
           (Has(k, v) <=> In(buckets, Used(buckets, nbuckets), k, v))
      /\ pc = "probe" =>
           (Has(k, v) <=> \/ k = key /\ entry.key = k /\ In(buckets, Used(buckets, nbuckets), k, v)
                          \/ k # key /\ In(buckets, Used(buckets, nbuckets), k, v)
                          \/ k # key /\ entry.key = k /\ entry.val = v)
      /\ pc = "shift" => (Has(k, v) <=> In(buckets, LiveBut(buckets, nbuckets, i), k, v))
      /\ pc = "move" =>
           (Has(k, v) <=> \/ In(buckets, Live, k, v)
                          \/ entry # NULL /\ entry.key = k /\ entry.val = v
                          \/ In(buckets2, Used(buckets2, nbuckets2), k, v))

LEMMA HasShapeNow == HasShape
<1> SUFFICES ASSUME TypeOK, Frames, NEW k \in Key, NEW v \in Val
             PROVE  /\ pc \in {"idle", "iter", "find", "alloc"} =>
                         (Has(k, v) <=> In(buckets, Used(buckets, nbuckets), k, v))
                    /\ pc = "probe" =>
                         (Has(k, v) <=>
                            \/ k = key /\ entry.key = k /\ In(buckets, Used(buckets, nbuckets), k, v)
                            \/ k # key /\ In(buckets, Used(buckets, nbuckets), k, v)
                            \/ k # key /\ entry.key = k /\ entry.val = v)
                    /\ pc = "shift" => (Has(k, v) <=> In(buckets, LiveBut(buckets, nbuckets, i), k, v))
                    /\ pc = "move" =>
                         (Has(k, v) <=> \/ In(buckets, Live, k, v)
                                        \/ entry # NULL /\ entry.key = k /\ entry.val = v
                                        \/ In(buckets2, Used(buckets2, nbuckets2), k, v))
  BY DEF HasShape
<1>1. /\ pc \notin {"shift", "move"} => Live = Used(buckets, nbuckets)
      /\ pc = "shift" => Live = LiveBut(buckets, nbuckets, i)
      /\ pc # "move" => Used(buckets2, nbuckets2) = {}
  BY LiveShapeNow DEF LiveShape
<1>2. CASE pc \in {"idle", "iter", "find", "alloc"}
  <2>1. entry = NULL /\ ~New(k) /\ Live = Used(buckets, nbuckets) /\ Used(buckets2, nbuckets2) = {}
    BY <1>1, <1>2 DEF Frames, New
  <2> QED
    BY <1>2, <2>1 DEF Has, In
<1>3. CASE pc = "probe"
  <2>1. /\ entry # NULL /\ (New(k) <=> k = key)
        /\ Live = Used(buckets, nbuckets) /\ Used(buckets2, nbuckets2) = {}
    BY <1>1, <1>3 DEF Frames, New
  <2> QED
    BY <1>3, <2>1 DEF Has, In
<1>4. CASE pc = "shift"
  <2>1. /\ entry = NULL /\ ~New(k)
        /\ Live = LiveBut(buckets, nbuckets, i) /\ Used(buckets2, nbuckets2) = {}
    BY <1>1, <1>4 DEF Frames, New
  <2> QED
    BY <1>4, <2>1 DEF Has, In
<1>5. CASE pc = "move"
  <2>1. ~New(k)
    BY <1>5 DEF New
  <2> QED
    BY <1>5, <2>1 DEF Has, In
<1> QED
  BY <1>2, <1>3, <1>4, <1>5

LEMMA HasShapeNext == HasShape'
  BY HasShapeNow, PTL

\* A key has one value, wherever its item lies.
LEMMA HasOne ==
    ASSUME HInv, NEW k \in Key, NEW v \in Val, NEW w \in Val, Has(k, v), Has(k, w)
    PROVE  v = w
<1>1. TypeOK /\ Frames /\ OneOfEach
  BY DEF HInv
<1> DEFINE Hand(u) == entry # NULL /\ entry.key = k /\ entry.val = u /\ ~New(k)
           New2(u) == In(buckets2, Used(buckets2, nbuckets2), k, u)
<1>2. \A u : Has(k, u) => In(buckets, Live, k, u) \/ Hand(u) \/ New2(u)
  BY DEF Has, In
<1>3. \A u : Hand(u) => ~(\E x \in Live : buckets[x].key = k)
  <2>1. entry # NULL => pc \in {"probe", "move"}
    BY <1>1 DEF Frames
  <2>2. pc = "probe" => op = "set"
    BY <1>1 DEF Frames
  <2> QED
    BY <1>1, <2>1, <2>2 DEF OneOfEach, New
<1>4. \A u, t : Hand(u) => ~New2(t)
  <2>1. pc # "move" => Used(buckets2, nbuckets2) = {}
    BY <1>1, LiveShapeNow DEF LiveShape
  <2> QED
    BY <1>1, <2>1 DEF OneOfEach, In
<1>5. \A u, t : In(buckets, Live, k, u) => ~New2(t)
  BY <1>1 DEF OneOfEach, In
<1>6. \A u, t : New2(u) /\ New2(t) => u = t
  BY <1>1 DEF OneOfEach, In
<1>7. \A u, t : In(buckets, Live, k, u) /\ In(buckets, Live, k, t) => u = t
  BY <1>1 DEF OneOfEach, In
<1>8. \A u, t : In(buckets, Live, k, u) => ~Hand(t)
  BY <1>3 DEF In
<1> QED
  BY <1>2, <1>4, <1>5, <1>6, <1>7, <1>8

TableShape ==
    HInv => /\ Contents \in [Key -> Val \cup {NULL}]
            /\ \A k \in Key, v \in Val : Contents[k] = v <=> Has(k, v)

LEMMA TableShapeNow == TableShape
<1> SUFFICES ASSUME HInv
             PROVE  /\ Contents \in [Key -> Val \cup {NULL}]
                    /\ \A k \in Key, v \in Val : Contents[k] = v <=> Has(k, v)
  BY DEF TableShape
<1>1. ASSUME NEW k \in Key
      PROVE  /\ Contents[k] \in Val \cup {NULL}
             /\ \A v \in Val : Contents[k] = v <=> Has(k, v)
  <2>1. Contents[k] = IF \E v \in Val : Has(k, v) THEN CHOOSE v \in Val : Has(k, v) ELSE NULL
    BY DEF Contents
  <2>2. CASE \E v \in Val : Has(k, v)
    <3>1. Contents[k] \in Val /\ Has(k, Contents[k])
      BY <2>1, <2>2
    <3>2. \A v \in Val : Has(k, v) => v = Contents[k]
      BY <3>1, HasOne
    <3> QED
      BY <3>1, <3>2
  <2>3. CASE ~ \E v \in Val : Has(k, v)
    <3>1. Contents[k] = NULL /\ NULL \notin Val
      BY <2>1, <2>3, HashmapAssumption
    <3> QED
      BY <2>3, <3>1
  <2> QED
    BY <2>2, <2>3
<1>2. Contents = [k \in Key |-> Contents[k]]
  BY DEF Contents
<1> QED
  BY <1>1, <1>2

LEMMA TableShapeNext == TableShape'
  BY TableShapeNow, PTL

LEMMA SameTable ==
    ASSUME NEW T \in [Key -> Val \cup {NULL}], NEW U \in [Key -> Val \cup {NULL}],
           \A k \in Key, v \in Val : U[k] = v <=> T[k] = v
    PROVE  U = T
<1>1. ASSUME NEW k \in Key PROVE U[k] = T[k]
  <2>1. U[k] \in Val \cup {NULL} /\ T[k] \in Val \cup {NULL} /\ NULL \notin Val
    BY HashmapAssumption
  <2> QED
    BY <2>1
<1> QED
  BY <1>1, SMT

\* What a step does to the items is what it does to the table.
LEMMA TableKept ==
    ASSUME HInv, HInv', \A k \in Key, v \in Val : Has(k, v)' <=> Has(k, v)
    PROVE  Contents' = Contents
<1>1. /\ Contents \in [Key -> Val \cup {NULL}]
      /\ \A k \in Key, v \in Val : Contents[k] = v <=> Has(k, v)
  BY TableShapeNow DEF TableShape
<1>2. /\ Contents' \in [Key -> Val \cup {NULL}]
      /\ \A k \in Key, v \in Val : Contents'[k] = v <=> Has(k, v)'
  BY TableShapeNext DEF TableShape
<1>3. \A k \in Key, v \in Val : Contents'[k] = v <=> Contents[k] = v
  BY <1>1, <1>2
<1> QED
  BY <1>1, <1>2, <1>3, SameTable, SMTT(30)

LEMMA TablePut ==
    ASSUME HInv, HInv', NEW l \in Key, NEW w \in Val \cup {NULL},
           \A k \in Key, v \in Val : Has(k, v)' <=> \/ k = l /\ v = w
                                                    \/ k # l /\ Has(k, v)
    PROVE  Contents' = [Contents EXCEPT ![l] = w]
<1> DEFINE T == [Contents EXCEPT ![l] = w]
<1>1. /\ Contents \in [Key -> Val \cup {NULL}]
      /\ \A k \in Key, v \in Val : Contents[k] = v <=> Has(k, v)
  BY TableShapeNow DEF TableShape
<1>2. /\ Contents' \in [Key -> Val \cup {NULL}]
      /\ \A k \in Key, v \in Val : Contents'[k] = v <=> Has(k, v)'
  BY TableShapeNext DEF TableShape
<1>3. T \in [Key -> Val \cup {NULL}]
  BY <1>1
<1>4. T[l] = w /\ \A k \in Key : k # l => T[k] = Contents[k]
  BY <1>1
<1> HIDE DEF T
<1>5. \A k \in Key, v \in Val : Contents'[k] = v <=> T[k] = v
  BY <1>1, <1>2, <1>4
<1>6. Contents' = T
  BY <1>2, <1>3, <1>5, SameTable
<1> QED
  BY <1>6 DEF T

LEMMA NoItem ==
    ASSUME HInv, NEW k \in Key, \A v \in Val : ~Has(k, v)
    PROVE  Contents[k] = NULL
<1>1. /\ Contents \in [Key -> Val \cup {NULL}]
      /\ \A v \in Val : Contents[k] = v <=> Has(k, v)
  BY TableShapeNow DEF TableShape
<1>2. Contents[k] \in Val \cup {NULL}
  BY <1>1
<1> QED
  BY <1>1, <1>2

LEMMA OneItem ==
    ASSUME HInv, NEW k \in Key, NEW v \in Val, Has(k, v)
    PROVE  Contents[k] = v
  BY TableShapeNow DEF TableShape

\* What the invariant says of a call in one of the loops over the table.
LEMMA LoopFacts ==
    ASSUME HInv, pc \in {"probe", "find", "shift"}
    PROVE  /\ hash \in [Key -> HashValues]
           /\ nbuckets \in Nat /\ nbuckets >= 1 /\ buckets \in Table(nbuckets)
           /\ i \in 0 .. nbuckets - 1 /\ key \in Key
           /\ pc # "shift" => Sound(hash, buckets, nbuckets, count)
<1>1. TypeOK /\ Frames /\ Invs
  BY DEF HInv, Invs
<1>2. hash \in [Key -> HashValues] /\ buckets \in Table(nbuckets)
  BY <1>1 DEF TypeOK, MapType
<1>3. nbuckets \in Nat /\ nbuckets >= 1 /\ i \in 0 .. nbuckets - 1
  BY <1>1, SizeType, SMT DEF TypeOK, LoopType
<1>4. key \in Key
  BY <1>1 DEF Frames
<1>5. pc # "shift" => Sound(hash, buckets, nbuckets, count)
  BY <1>1, CalmShapeNow, ProbeShapeNow DEF CalmShape, ProbeShape
<1> QED
  BY <1>2, <1>3, <1>4, <1>5

LEMMA ProbeFacts ==
    ASSUME HInv, pc = "probe"
    PROVE  /\ entry \in Item /\ val \in Val /\ op = "set"
           /\ InHand(hash, buckets, nbuckets, entry, i, key)
           /\ entry.key = key => entry.val = val
           /\ entry.key # key =>
                \E x \in Used(buckets, nbuckets) : buckets[x].key = key /\ buckets[x].val = val
<1>1. TypeOK /\ Frames /\ Invs /\ Searched
  BY DEF HInv, Invs
<1>2. entry \in Item /\ val \in Val /\ op = "set"
  BY <1>1 DEF TypeOK, CallType, Frames
<1>3. InHand(hash, buckets, nbuckets, entry, i, key)
  BY <1>1, ProbeShapeNow DEF ProbeShape
<1>4. Live = Used(buckets, nbuckets)
  BY <1>1, LiveShapeNow DEF LiveShape
<1> QED
  BY <1>1, <1>2, <1>3, <1>4 DEF Searched

\* Nothing but a new value, or nothing at all, lies under the key of the call.
LEMMA NewItem ==
    ASSUME HInv, pc = "probe", buckets[i] # NULL => buckets[i].dib < entry.dib /\ buckets[i].key # entry.key
    PROVE  /\ \A v \in Val : ~Has(key, v)
           /\ entry.key = key => \A v : ~In(buckets, Used(buckets, nbuckets), key, v)
           /\ entry.key # key => \A v : In(buckets, Used(buckets, nbuckets), key, v) <=> v = val
<1>1. entry.key = key => \A v : ~In(buckets, Used(buckets, nbuckets), key, v)
  <2>1. \A w \in Used(buckets, nbuckets) : buckets[w].key # entry.key
    BY LoopFacts, ProbeFacts, NowhereElse, SMT DEF Sound
  <2> QED
    BY <2>1 DEF In
<1>2. ASSUME entry.key # key PROVE \A v : In(buckets, Used(buckets, nbuckets), key, v) <=> v = val
  <2>1. PICK x \in Used(buckets, nbuckets) : buckets[x].key = key /\ buckets[x].val = val
    BY <1>2, ProbeFacts
  <2>2. UniqueIn(buckets, Used(buckets, nbuckets))
    BY LoopFacts DEF Sound
  <2> QED
    BY <2>1, <2>2, OnlyIn
<1>3. \A v \in Val : ~Has(key, v)
  BY <1>1, LoopFacts, HasShapeNow DEF HasShape, HInv
<1> QED
  BY <1>1, <1>2, <1>3

LEMMA InsertTable ==
    ASSUME HInv, HInv', SetInsert
    PROVE  Contents[key] = NULL /\ Contents' = [Contents EXCEPT ![key] = val]
<1>1. /\ pc = "probe" /\ buckets[i] = NULL /\ pc' \in {"idle", "iter", "find", "alloc"}
      /\ buckets' = [buckets EXCEPT ![i] = entry] /\ nbuckets' = nbuckets
  BY DEF SetInsert, Return
<1>2. /\ nbuckets \in Nat /\ buckets \in Table(nbuckets) /\ i \in 0 .. nbuckets - 1 /\ key \in Key
      /\ entry \in Item /\ val \in Val /\ (entry.key = key => entry.val = val)
  BY <1>1, LoopFacts, ProbeFacts
<1>3. /\ \A v \in Val : ~Has(key, v)
      /\ entry.key = key => \A v : ~In(buckets, Used(buckets, nbuckets), key, v)
      /\ entry.key # key => \A v : In(buckets, Used(buckets, nbuckets), key, v) <=> v = val
  BY <1>1, NewItem
<1>4. Used(buckets, nbuckets) \ {i} = Used(buckets, nbuckets)
  BY <1>1 DEF Used
<1>5. ASSUME NEW k \in Key, NEW v \in Val
      PROVE  Has(k, v)' <=> \/ k = key /\ v = val
                            \/ k # key /\ Has(k, v)
  <2>1. Has(k, v)' <=> In(buckets', Used(buckets', nbuckets'), k, v)
    BY <1>1, HasShapeNext DEF HasShape, HInv
  <2>2. In(buckets', Used(buckets', nbuckets'), k, v) <=>
          In(buckets, Used(buckets, nbuckets), k, v) \/ (entry.key = k /\ entry.val = v)
    <3>1. In([buckets EXCEPT ![i] = entry], Used([buckets EXCEPT ![i] = entry], nbuckets), k, v) <=>
            \/ In(buckets, Used(buckets, nbuckets) \ {i}, k, v)
            \/ entry.key = k /\ entry.val = v
      BY <1>2, PutIn
    <3> QED
      BY <1>1, <1>4, <3>1, SMT
  <2>3. k # key => (Has(k, v) <=> \/ In(buckets, Used(buckets, nbuckets), k, v)
                                  \/ entry.key = k /\ entry.val = v)
    BY <1>1, HasShapeNow DEF HasShape, HInv
  <2> QED
    BY <1>2, <1>3, <2>1, <2>2, <2>3
<1>6. Contents[key] = NULL
  BY <1>2, <1>3, NoItem
<1> QED
  BY <1>2, <1>5, <1>6, TablePut

LEMMA ReplaceTable ==
    ASSUME HInv, HInv', SetReplace
    PROVE  Contents[key] = buckets[i].val /\ Contents' = [Contents EXCEPT ![key] = val]
<1> DEFINE e == [buckets[i] EXCEPT !.val = entry.val]
<1>1. /\ pc = "probe" /\ buckets[i] # NULL /\ buckets[i].key = entry.key
      /\ pc' \in {"idle", "iter", "find", "alloc"}
      /\ buckets' = [buckets EXCEPT ![i] = e] /\ nbuckets' = nbuckets
  BY DEF SetReplace, Return
<1>2. /\ nbuckets \in Nat /\ buckets \in Table(nbuckets) /\ i \in 0 .. nbuckets - 1 /\ key \in Key
      /\ entry \in Item /\ val \in Val
      /\ InHand(hash, buckets, nbuckets, entry, i, key)
      /\ UniqueIn(buckets, Used(buckets, nbuckets))
      /\ entry.key = key => entry.val = val
  BY <1>1, LoopFacts, ProbeFacts DEF Sound
<1>3. i \in Used(buckets, nbuckets)
  BY <1>1, <1>2 DEF Used
<1>4. buckets[i] \in Item
  BY <1>1, <1>2, SMT DEF Table
<1>5. entry.key = key /\ entry.val = val /\ buckets[i].key = key
  BY <1>1, <1>2, <1>3 DEF InHand
<1>6. e \in Item /\ e.key = key /\ e.val = val /\ buckets[i].val \in Val
  BY <1>2, <1>4, <1>5, SMT DEF Item
<1> HIDE DEF e
<1>7. ASSUME NEW k \in Key, NEW v \in Val
      PROVE  /\ Has(k, v)' <=> \/ k = key /\ v = val
                               \/ k # key /\ Has(k, v)
             /\ k = key => (Has(k, v) <=> v = buckets[i].val)
  <2>1. Has(k, v)' <=> In(buckets', Used(buckets', nbuckets'), k, v)
    BY <1>1, HasShapeNext DEF HasShape, HInv
  <2>2. In(buckets', Used(buckets', nbuckets'), k, v) <=>
          In(buckets, Used(buckets, nbuckets) \ {i}, k, v) \/ (k = key /\ val = v)
    <3>1. In([buckets EXCEPT ![i] = e], Used([buckets EXCEPT ![i] = e], nbuckets), k, v) <=>
            \/ In(buckets, Used(buckets, nbuckets) \ {i}, k, v)
            \/ e.key = k /\ e.val = v
      BY <1>2, <1>6, PutIn
    <3> QED
      BY <1>1, <1>6, <3>1, SMT
  <2>3. Has(k, v) <=> In(buckets, Used(buckets, nbuckets), k, v)
    BY <1>1, <1>5, HasShapeNow DEF HasShape, HInv
  <2>4. In(buckets, Used(buckets, nbuckets), k, v) <=>
          In(buckets, Used(buckets, nbuckets) \ {i}, k, v) \/ (k = key /\ v = buckets[i].val)
    BY <1>3, <1>5, TakeIn
  <2>5. ~In(buckets, Used(buckets, nbuckets) \ {i}, buckets[i].key, v)
    BY <1>2, <1>3, OnlyIn
  <2> QED
    BY <1>5, <2>1, <2>2, <2>3, <2>4, <2>5
<1>8. Contents[key] = buckets[i].val
  BY <1>2, <1>6, <1>7, OneItem
<1> QED
  BY <1>2, <1>7, <1>8, TablePut

LEMMA FartherTable ==
    ASSUME HInv, HInv', SetFarther
    PROVE  Contents' = Contents
<1>1. /\ pc = "probe" /\ pc' = "probe" /\ buckets[i] # NULL /\ buckets[i].key # entry.key
      /\ nbuckets' = nbuckets /\ key' = key
  BY DEF SetFarther
<1>2. /\ nbuckets \in Nat /\ buckets \in Table(nbuckets) /\ i \in 0 .. nbuckets - 1
      /\ entry \in Item /\ UniqueIn(buckets, Used(buckets, nbuckets))
  BY <1>1, LoopFacts, ProbeFacts DEF Sound
<1>3. buckets[i] \in Item
  BY <1>1, <1>2, SMT DEF Table
<1>4. i \in Used(buckets, nbuckets)
  BY <1>1, <1>2 DEF Used
<1>5. ASSUME NEW k \in Key, NEW v \in Val PROVE Has(k, v)' <=> Has(k, v)
  <2>1. Has(k, v) <=>
          \/ k = key /\ entry.key = k /\ In(buckets, Used(buckets, nbuckets), k, v)
          \/ k # key /\ In(buckets, Used(buckets, nbuckets), k, v)
          \/ k # key /\ entry.key = k /\ entry.val = v
    BY <1>1, HasShapeNow DEF HasShape, HInv
  <2>2. Has(k, v)' <=>
          \/ k = key /\ entry'.key = k /\ In(buckets', Used(buckets', nbuckets), k, v)
          \/ k # key /\ In(buckets', Used(buckets', nbuckets), k, v)
          \/ k # key /\ entry'.key = k /\ entry'.val = v
    BY <1>1, HasShapeNext DEF HasShape, HInv
  <2>3. CASE ~(buckets[i].dib < entry.dib)
    <3>1. buckets' = buckets /\ entry'.key = entry.key /\ entry'.val = entry.val
      BY <1>2, <2>3, ItemFacts DEF SetFarther
    <3> QED
      BY <2>1, <2>2, <3>1
  <2>4. CASE buckets[i].dib < entry.dib
    <3>1. /\ buckets' = [buckets EXCEPT ![i] = entry]
          /\ entry'.key = buckets[i].key /\ entry'.val = buckets[i].val
      BY <1>3, <2>4, ItemFacts DEF SetFarther
    <3>2. In(buckets', Used(buckets', nbuckets), k, v) <=>
            In(buckets, Used(buckets, nbuckets) \ {i}, k, v) \/ (entry.key = k /\ entry.val = v)
      <4>1. In([buckets EXCEPT ![i] = entry], Used([buckets EXCEPT ![i] = entry], nbuckets), k, v)
              <=> \/ In(buckets, Used(buckets, nbuckets) \ {i}, k, v)
                  \/ entry.key = k /\ entry.val = v
        BY <1>2, PutIn
      <4> QED
        BY <3>1, <4>1, SMT
    <3>3. In(buckets, Used(buckets, nbuckets), k, v) <=>
            \/ In(buckets, Used(buckets, nbuckets) \ {i}, k, v)
            \/ buckets[i].key = k /\ buckets[i].val = v
      BY <1>4, TakeIn
    <3>4. CASE k # key
      BY <2>1, <2>2, <3>1, <3>2, <3>3, <3>4
    <3>5. CASE k = key
      <4>1. ~Has(k, v)
        BY <1>1, <2>4, <3>5, NewItem
      <4>2. ~In(buckets, Used(buckets, nbuckets) \ {i}, buckets[i].key, v)
        BY <1>2, <1>4, OnlyIn
      <4> QED
        BY <1>1, <2>2, <3>1, <3>2, <3>5, <4>1, <4>2
    <3> QED
      BY <3>4, <3>5
  <2> QED
    BY <2>3, <2>4
<1> QED
  BY <1>5, TableKept

\* The steps outside the loops, and the searches, leave the table as it is.
LEMMA CalmTable ==
    ASSUME HInv, HInv', UNCHANGED <<buckets, nbuckets>>,
           pc \in {"idle", "iter", "find", "alloc"}, pc' \in {"idle", "iter", "find", "alloc"}
    PROVE  Contents' = Contents
<1>1. ASSUME NEW k \in Key, NEW v \in Val PROVE Has(k, v)' <=> Has(k, v)
  <2>1. Has(k, v) <=> In(buckets, Used(buckets, nbuckets), k, v)
    BY HasShapeNow DEF HasShape, HInv
  <2>2. Has(k, v)' <=> In(buckets', Used(buckets', nbuckets'), k, v)
    BY HasShapeNext DEF HasShape, HInv
  <2> QED
    BY <2>1, <2>2
<1> QED
  BY <1>1, TableKept

\* A loop of hashmap_set starts, in a table that holds what the old one did.
LEMMA ProbeTable ==
    ASSUME HInv, HInv', pc' = "probe", entry'.key = key',
           \A k \in Key, v \in Val : Has(k, v) <=> In(buckets', Used(buckets', nbuckets'), k, v)
    PROVE  Contents' = Contents
<1>1. ASSUME NEW k \in Key, NEW v \in Val PROVE Has(k, v)' <=> Has(k, v)
  <2>1. Has(k, v)' <=>
          \/ k = key' /\ entry'.key = k /\ In(buckets', Used(buckets', nbuckets'), k, v)
          \/ k # key' /\ In(buckets', Used(buckets', nbuckets'), k, v)
          \/ k # key' /\ entry'.key = k /\ entry'.val = v
    BY HasShapeNext DEF HasShape, HInv
  <2> QED
    BY <2>1
<1> QED
  BY <1>1, TableKept

LEMMA SetTable ==
    ASSUME HInv, HInv', NEW l \in Key, NEW w \in Val, hashmap_set(l, w)
    PROVE  Contents' = Contents
<1>1. /\ pc = "idle" /\ UNCHANGED <<buckets, nbuckets>>
  BY DEF hashmap_set
<1>2. CASE count >= growat(nbuckets)
  <2>1. pc' = "alloc"
    BY <1>2 DEF hashmap_set
  <2> QED
    BY <1>1, <2>1, CalmTable
<1>3. CASE ~(count >= growat(nbuckets))
  <2>1. pc' = "probe" /\ entry' = [dib |-> 1, key |-> l, val |-> w] /\ key' = l
    BY <1>3 DEF hashmap_set, Probe
  <2>2. entry'.key = key'
    BY <2>1, SMT
  <2>3. \A k \in Key, v \in Val : Has(k, v) <=> In(buckets', Used(buckets', nbuckets'), k, v)
    BY <1>1, HasShapeNow DEF HasShape, HInv
  <2> QED
    BY <2>1, <2>2, <2>3, ProbeTable
<1> QED
  BY <1>2, <1>3

LEMMA NothingFound ==
    ASSUME HInv, FindNothing
    PROVE  Contents[key] = NULL /\ key \in Key /\ ~collecting
<1>1. pc = "find" /\ buckets[i] = NULL
  BY DEF FindNothing
<1>2. AllPlaced(hash, buckets, nbuckets) /\ key \in Key
  BY <1>1, LoopFacts DEF Sound
<1>3. Unmet(hash, buckets, nbuckets, key, i)
  BY <1>1 DEF HInv, Searched, Unmet
<1>4. \A w \in Used(buckets, nbuckets) : buckets[w].key # key
  BY <1>1, <1>2, <1>3, LoopFacts, NotFound
<1>5. \A v \in Val : ~Has(key, v)
  BY <1>1, <1>2, <1>4, HasShapeNow DEF HasShape, HInv, In
<1>6. Live = Used(buckets, nbuckets)
  BY <1>1 DEF Live
<1>7. ~collecting
  BY <1>1, <1>4, <1>6 DEF HInv, Searched
<1> QED
  BY <1>2, <1>5, <1>7, NoItem

\* hashmap_get and hashmap_delete return the item of their key.
LEMMA ItemFound ==
    ASSUME HInv, pc = "find", buckets[i] # NULL, buckets[i].key = key
    PROVE  /\ Contents[key] = buckets[i].val /\ key \in Key
           /\ collecting => Contents[key] = Due
           /\ i \in Used(buckets, nbuckets)
<1>1. /\ nbuckets \in Nat /\ buckets \in Table(nbuckets) /\ i \in 0 .. nbuckets - 1 /\ key \in Key
      /\ UniqueIn(buckets, Used(buckets, nbuckets))
  BY LoopFacts DEF Sound
<1>2. i \in Used(buckets, nbuckets)
  BY <1>1 DEF Used
<1>3. buckets[i] \in Item
  BY <1>1, SMT DEF Table
<1>4. buckets[i].val \in Val /\ Due \in Val
  BY <1>3, ItemFacts, HashmapAssumption
<1>5. \A v \in Val : Has(key, v) <=> In(buckets, Used(buckets, nbuckets), key, v)
  BY <1>1, HasShapeNow DEF HasShape, HInv
<1>6. Has(key, buckets[i].val)
  BY <1>2, <1>4, <1>5 DEF In
<1>7. collecting => Has(key, Due)
  <2>1. Live = Used(buckets, nbuckets)
    BY DEF Live
  <2>2. collecting => \E x \in Live : buckets[x].key = key /\ buckets[x].val = Due
    BY DEF HInv, Searched
  <2> QED
    BY <1>4, <1>5, <2>1, <2>2 DEF In
<1> QED
  BY <1>1, <1>2, <1>4, <1>6, <1>7, OneItem

LEMMA DeleteTable ==
    ASSUME HInv, HInv', DeleteFound
    PROVE  Contents' = [Contents EXCEPT ![key] = NULL]
<1>1. /\ pc = "find" /\ buckets[i] # NULL /\ buckets[i].key = key /\ pc' = "shift"
      /\ buckets' = [buckets EXCEPT ![i] = NULL] /\ nbuckets' = nbuckets /\ i' = i
  BY DEF DeleteFound
<1>2. /\ nbuckets \in Nat /\ buckets \in Table(nbuckets) /\ i \in 0 .. nbuckets - 1 /\ key \in Key
      /\ UniqueIn(buckets, Used(buckets, nbuckets)) /\ i \in Used(buckets, nbuckets)
  BY <1>1, LoopFacts, ItemFound DEF Sound
<1>3. ASSUME NEW k \in Key, NEW v \in Val
      PROVE  Has(k, v)' <=> \/ k = key /\ v = NULL
                            \/ k # key /\ Has(k, v)
  <2>1. Has(k, v) <=> In(buckets, Used(buckets, nbuckets), k, v)
    BY <1>1, HasShapeNow DEF HasShape, HInv
  <2>2. Has(k, v)' <=> In(buckets', LiveBut(buckets', nbuckets', i'), k, v)
    BY <1>1, HasShapeNext DEF HasShape, HInv
  <2>3. In([buckets EXCEPT ![i] = NULL], LiveBut([buckets EXCEPT ![i] = NULL], nbuckets, i), k, v)
          <=> In(buckets, Used(buckets, nbuckets) \ {i}, k, v)
    BY <1>2, DropIn
  <2>4. In(buckets, Used(buckets, nbuckets), k, v) <=>
          \/ In(buckets, Used(buckets, nbuckets) \ {i}, k, v)
          \/ key = k /\ buckets[i].val = v
    BY <1>1, <1>2, TakeIn
  <2>5. ~In(buckets, Used(buckets, nbuckets) \ {i}, buckets[i].key, v)
    BY <1>2, OnlyIn
  <2>6. Has(k, v)' <=> In(buckets, Used(buckets, nbuckets) \ {i}, k, v)
    BY <1>1, <2>2, <2>3, SMT
  <2>7. v # NULL
    BY HashmapAssumption
  <2> QED
    BY <1>1, <2>1, <2>4, <2>5, <2>6, <2>7
<1> QED
  BY <1>2, <1>3, TablePut

LEMMA ShiftTable ==
    ASSUME HInv, HInv', DeleteShift
    PROVE  Contents' = Contents
<1> DEFINE next == Mask(i + 1, nbuckets)
           e == [buckets[next] EXCEPT !.dib = @ - 1]
<1>1. /\ pc = "shift" /\ pc' = "shift" /\ buckets[next] # NULL /\ buckets[next].dib > 1
      /\ buckets' = [buckets EXCEPT ![i] = e] /\ nbuckets' = nbuckets /\ i' = next
  BY DEF DeleteShift
<1>2. nbuckets \in Nat /\ buckets \in Table(nbuckets) /\ i \in 0 .. nbuckets - 1 /\ nbuckets >= 2
  BY <1>1, LoopFacts, SizeType DEF HInv
<1>3. next \in 0 .. nbuckets - 1 /\ i # next
  BY <1>2, NextFacts, SMT
<1>4. buckets[next] \in Item
  BY <1>1, <1>2, <1>3, SMTT(30) DEF Table
<1>5. e \in Item /\ e.key = buckets[next].key /\ e.val = buckets[next].val
  BY <1>1, <1>4, SMTT(30) DEF Item
<1> HIDE DEF e, next
<1>6. ASSUME NEW k \in Key, NEW v \in Val PROVE Has(k, v)' <=> Has(k, v)
  <2>1. Has(k, v) <=> In(buckets, LiveBut(buckets, nbuckets, i), k, v)
    BY <1>1, HasShapeNow DEF HasShape, HInv
  <2>2. Has(k, v)' <=> In(buckets', LiveBut(buckets', nbuckets', i'), k, v)
    BY <1>1, HasShapeNext DEF HasShape, HInv
  <2>3. In([buckets EXCEPT ![i] = e], LiveBut([buckets EXCEPT ![i] = e], nbuckets, next), k, v)
          <=> In(buckets, LiveBut(buckets, nbuckets, i), k, v)
    BY <1>1, <1>2, <1>3, <1>5, ShiftIn
  <2> QED
    BY <1>1, <2>1, <2>2, <2>3, SMTT(30)
<1> QED
  BY <1>6, TableKept

LEMMA LastTable ==
    ASSUME HInv, HInv', DeleteLast
    PROVE  Contents' = Contents
<1>1. /\ pc = "shift" /\ pc' \in {"idle", "iter", "find", "alloc"}
      /\ buckets' = [buckets EXCEPT ![i] = NULL] /\ nbuckets' = nbuckets
  BY DEF DeleteLast, Return
<1>2. nbuckets \in Nat /\ buckets \in Table(nbuckets) /\ i \in 0 .. nbuckets - 1
  BY <1>1, LoopFacts
<1>3. ASSUME NEW k \in Key, NEW v \in Val PROVE Has(k, v)' <=> Has(k, v)
  <2>1. Has(k, v) <=> In(buckets, LiveBut(buckets, nbuckets, i), k, v)
    BY <1>1, HasShapeNow DEF HasShape, HInv
  <2>2. Has(k, v)' <=> In(buckets', Used(buckets', nbuckets'), k, v)
    BY <1>1, HasShapeNext DEF HasShape, HInv
  <2>3. In([buckets EXCEPT ![i] = NULL], Used([buckets EXCEPT ![i] = NULL], nbuckets), k, v)
          <=> In(buckets, LiveBut(buckets, nbuckets, i), k, v)
    BY <1>2, DropIn DEF LiveBut
  <2> QED
    BY <1>1, <2>1, <2>2, <2>3, SMTT(30)
<1> QED
  BY <1>3, TableKept

\* The items that resize0 has still to move.
LEMMA ToMove ==
    ASSUME HInv, pc = "move"
    PROVE  /\ nbuckets \in Nat /\ i \in 0 .. nbuckets
           /\ Live = {x \in Used(buckets, nbuckets) : IF entry = NULL THEN x >= i ELSE x > i}
<1>1. TypeOK
  BY DEF HInv
<1>2. nbuckets \in Nat /\ i \in 0 .. nbuckets
  BY <1>1, SizeType, SMT DEF TypeOK, LoopType
<1>3. Live = {x \in Used(buckets, nbuckets) : IF entry = NULL THEN x >= i ELSE x > i}
  BY DEF Live
<1> QED
  BY <1>2, <1>3

LEMMA StartTable ==
    ASSUME HInv, HInv', ResizeStart
    PROVE  Contents' = Contents
<1>1. /\ pc = "alloc" /\ pc' = "move" /\ buckets' = buckets /\ nbuckets' = nbuckets
      /\ nbuckets2' = Capacity(new_cap) /\ buckets2' = EmptyTable(Capacity(new_cap))
      /\ i' = 0 /\ entry' = entry
  BY DEF ResizeStart, mapVars
<1>2. entry = NULL /\ Capacity(new_cap) \in Nat
  BY <1>1, NewTable DEF HInv, Frames
<1>3. Used(buckets2', nbuckets2') = {}
  BY <1>1, <1>2, EmptyTableType
<1>4. Live' = Used(buckets, nbuckets)
  <2>1. Live' = {x \in Used(buckets, nbuckets) : x >= 0}
    BY <1>1, <1>2 DEF Live
  <2> QED
    BY <2>1, SMT DEF Used
<1>5. ASSUME NEW k \in Key, NEW v \in Val PROVE Has(k, v)' <=> Has(k, v)
  <2>1. Has(k, v) <=> In(buckets, Used(buckets, nbuckets), k, v)
    BY <1>1, HasShapeNow DEF HasShape, HInv
  <2>2. Has(k, v)' <=> \/ In(buckets', Live', k, v)
                       \/ entry' # NULL /\ entry'.key = k /\ entry'.val = v
                       \/ In(buckets2', Used(buckets2', nbuckets2'), k, v)
    BY <1>1, HasShapeNext DEF HasShape, HInv
  <2>3. ~In(buckets2', Used(buckets2', nbuckets2'), k, v)
    BY <1>3 DEF In
  <2> QED
    BY <1>1, <1>2, <1>4, <2>1, <2>2, <2>3
<1> QED
  BY <1>5, TableKept

LEMMA SkipTable ==
    ASSUME HInv, HInv', ResizeSkip
    PROVE  Contents' = Contents
<1>1. /\ pc = "move" /\ pc' = "move" /\ buckets' = buckets /\ nbuckets' = nbuckets
      /\ nbuckets2' = nbuckets2 /\ buckets2' = buckets2
      /\ buckets[i] = NULL /\ i' = i + 1 /\ entry' = entry /\ entry = NULL
  BY DEF ResizeSkip, mapVars, newVars
<1>2. Live' = Live
  <2>1. /\ nbuckets \in Nat /\ i \in 0 .. nbuckets
        /\ Live = {x \in Used(buckets, nbuckets) : x >= i}
    BY <1>1, ToMove
  <2>2. Live' = {x \in Used(buckets, nbuckets) : x >= i + 1}
    BY <1>1 DEF Live
  <2> QED
    BY <1>1, <2>1, <2>2, SMT DEF Used
<1>3. ASSUME NEW k \in Key, NEW v \in Val PROVE Has(k, v)' <=> Has(k, v)
  <2>1. Has(k, v) <=> \/ In(buckets, Live, k, v)
                      \/ entry # NULL /\ entry.key = k /\ entry.val = v
                      \/ In(buckets2, Used(buckets2, nbuckets2), k, v)
    BY <1>1, HasShapeNow DEF HasShape, HInv
  <2>2. Has(k, v)' <=> \/ In(buckets', Live', k, v)
                       \/ entry' # NULL /\ entry'.key = k /\ entry'.val = v
                       \/ In(buckets2', Used(buckets2', nbuckets2'), k, v)
    BY <1>1, HasShapeNext DEF HasShape, HInv
  <2> QED
    BY <1>1, <1>2, <2>1, <2>2
<1> QED
  BY <1>3, TableKept

LEMMA TakeTable ==
    ASSUME HInv, HInv', ResizeTake
    PROVE  Contents' = Contents
<1>1. /\ pc = "move" /\ pc' = "move" /\ buckets' = buckets /\ nbuckets' = nbuckets
      /\ nbuckets2' = nbuckets2 /\ buckets2' = buckets2 /\ i' = i
      /\ buckets[i] # NULL /\ entry' = [buckets[i] EXCEPT !.dib = 1] /\ entry = NULL
  BY DEF ResizeTake, mapVars
<1>2. /\ nbuckets \in Nat /\ i \in 0 .. nbuckets - 1
      /\ Live = {x \in Used(buckets, nbuckets) : x >= i}
  <2>1. i < nbuckets
    BY DEF ResizeTake
  <2>2. /\ nbuckets \in Nat /\ i \in 0 .. nbuckets
        /\ Live = {x \in Used(buckets, nbuckets) : x >= i}
    BY <1>1, ToMove
  <2>3. i \in 0 .. nbuckets - 1
    BY <2>1, <2>2, SMT
  <2> QED
    BY <2>2, <2>3
<1>3. buckets[i] \in Item
  BY <1>1, <1>2, Indexed DEF HInv
<1>4. entry' \in Item /\ entry' # NULL /\ entry'.key = buckets[i].key /\ entry'.val = buckets[i].val
  <2>1. entry' \in Item /\ entry'.key = buckets[i].key /\ entry'.val = buckets[i].val
    BY <1>1, <1>3, SMT DEF Item
  <2> QED
    BY <2>1, NullAssumption
<1>5. i \in Live /\ Live' = Live \ {i}
  <2>1. Live' = {x \in Used(buckets, nbuckets) : x > i}
    BY <1>1, <1>4 DEF Live
  <2> QED
    BY <1>1, <1>2, <2>1, SMT DEF Used
<1>6. ASSUME NEW k \in Key, NEW v \in Val PROVE Has(k, v)' <=> Has(k, v)
  <2>1. Has(k, v) <=> \/ In(buckets, Live, k, v)
                      \/ entry # NULL /\ entry.key = k /\ entry.val = v
                      \/ In(buckets2, Used(buckets2, nbuckets2), k, v)
    BY <1>1, HasShapeNow DEF HasShape, HInv
  <2>2. Has(k, v)' <=> \/ In(buckets', Live', k, v)
                       \/ entry' # NULL /\ entry'.key = k /\ entry'.val = v
                       \/ In(buckets2', Used(buckets2', nbuckets2'), k, v)
    BY <1>1, HasShapeNext DEF HasShape, HInv
  <2>3. In(buckets, Live, k, v) <=>
          In(buckets, Live \ {i}, k, v) \/ (buckets[i].key = k /\ buckets[i].val = v)
    BY <1>5, TakeIn
  <2>4. In(buckets', Live', k, v) <=> In(buckets, Live \ {i}, k, v)
    BY <1>1, <1>5
  <2>5. In(buckets2', Used(buckets2', nbuckets2'), k, v) <=> In(buckets2, Used(buckets2, nbuckets2), k, v)
    BY <1>1
  <2> QED
    BY <1>1, <1>4, <2>1, <2>2, <2>3, <2>4, <2>5
<1> QED
  BY <1>6, TableKept

LEMMA InNewTable ==
    ASSUME HInv, pc = "move", entry # NULL
    PROVE  /\ nbuckets2 \in Nat /\ buckets2 \in Table(nbuckets2) /\ j \in 0 .. nbuckets2 - 1
           /\ entry \in Item
<1>1. TypeOK
  BY DEF HInv
<1>2. nbuckets2 \in Nat /\ j \in 0 .. nbuckets2 - 1
  BY <1>1, SMT DEF TypeOK, LoopType
<1> QED
  BY <1>1, <1>2 DEF TypeOK, LoopType, CallType

LEMMA PutTableKept ==
    ASSUME HInv, HInv', ResizePut
    PROVE  Contents' = Contents
<1>1. /\ pc = "move" /\ pc' = "move" /\ buckets' = buckets /\ nbuckets' = nbuckets
      /\ nbuckets2' = nbuckets2 /\ buckets2' = [buckets2 EXCEPT ![j] = entry] /\ i' = i + 1
      /\ buckets2[j] = NULL /\ entry # NULL /\ entry' = NULL
  BY DEF ResizePut, mapVars
<1>2. /\ nbuckets2 \in Nat /\ buckets2 \in Table(nbuckets2) /\ j \in 0 .. nbuckets2 - 1
      /\ entry \in Item
  BY <1>1, InNewTable
<1>3. Live' = Live
  <2>1. /\ nbuckets \in Nat /\ i \in 0 .. nbuckets
        /\ Live = {x \in Used(buckets, nbuckets) : x > i}
    BY <1>1, ToMove
  <2>2. Live' = {x \in Used(buckets, nbuckets) : x >= i + 1}
    BY <1>1 DEF Live
  <2> QED
    BY <1>1, <2>1, <2>2, SMTT(30) DEF Used
<1>4. Used(buckets2, nbuckets2) \ {j} = Used(buckets2, nbuckets2)
  BY <1>1 DEF Used
<1>5. ASSUME NEW k \in Key, NEW v \in Val PROVE Has(k, v)' <=> Has(k, v)
  <2>1. Has(k, v) <=> \/ In(buckets, Live, k, v)
                      \/ entry # NULL /\ entry.key = k /\ entry.val = v
                      \/ In(buckets2, Used(buckets2, nbuckets2), k, v)
    BY <1>1, HasShapeNow DEF HasShape, HInv
  <2>2. Has(k, v)' <=> \/ In(buckets', Live', k, v)
                       \/ entry' # NULL /\ entry'.key = k /\ entry'.val = v
                       \/ In(buckets2', Used(buckets2', nbuckets2'), k, v)
    BY <1>1, HasShapeNext DEF HasShape, HInv
  <2>3. In([buckets2 EXCEPT ![j] = entry], Used([buckets2 EXCEPT ![j] = entry], nbuckets2), k, v)
          <=> \/ In(buckets2, Used(buckets2, nbuckets2) \ {j}, k, v)
              \/ entry.key = k /\ entry.val = v
    BY <1>2, PutIn
  <2>4. In(buckets2', Used(buckets2', nbuckets2'), k, v)
          <=> In(buckets2, Used(buckets2, nbuckets2), k, v) \/ (entry.key = k /\ entry.val = v)
    BY <1>1, <1>4, <2>3, SMT
  <2>5. In(buckets', Live', k, v) <=> In(buckets, Live, k, v)
    BY <1>1, <1>3
  <2> QED
    BY <1>1, <2>1, <2>2, <2>4, <2>5
<1> QED
  BY <1>5, TableKept

LEMMA FartherTable2 ==
    ASSUME HInv, HInv', ResizeFarther
    PROVE  Contents' = Contents
<1>1. /\ pc = "move" /\ pc' = "move" /\ buckets' = buckets /\ nbuckets' = nbuckets
      /\ nbuckets2' = nbuckets2 /\ i' = i /\ buckets2[j] # NULL /\ entry # NULL
  BY DEF ResizeFarther, mapVars
<1>2. /\ nbuckets2 \in Nat /\ buckets2 \in Table(nbuckets2) /\ j \in 0 .. nbuckets2 - 1
      /\ entry \in Item
  BY <1>1, InNewTable
<1>3. buckets2[j] \in Item
  BY <1>1, <1>2, SMT DEF Table
<1>4. j \in Used(buckets2, nbuckets2)
  BY <1>1, <1>2 DEF Used
<1>5. entry' # NULL
  BY <1>2, <1>3, ItemFacts, NullAssumption DEF ResizeFarther
<1>6. Live' = Live
  BY <1>1, <1>5 DEF Live
<1>7. ASSUME NEW k \in Key, NEW v \in Val PROVE Has(k, v)' <=> Has(k, v)
  <2>1. Has(k, v) <=> \/ In(buckets, Live, k, v)
                      \/ entry.key = k /\ entry.val = v
                      \/ In(buckets2, Used(buckets2, nbuckets2), k, v)
    BY <1>1, HasShapeNow DEF HasShape, HInv
  <2>2. Has(k, v)' <=> \/ In(buckets, Live, k, v)
                       \/ entry'.key = k /\ entry'.val = v
                       \/ In(buckets2', Used(buckets2', nbuckets2), k, v)
    BY <1>1, <1>5, <1>6, HasShapeNext DEF HasShape, HInv
  <2>3. CASE ~(buckets2[j].dib < entry.dib)
    <3>1. buckets2' = buckets2 /\ entry'.key = entry.key /\ entry'.val = entry.val
      BY <1>2, <2>3, ItemFacts DEF ResizeFarther
    <3> QED
      BY <2>1, <2>2, <3>1
  <2>4. CASE buckets2[j].dib < entry.dib
    <3>1. /\ buckets2' = [buckets2 EXCEPT ![j] = entry]
          /\ entry'.key = buckets2[j].key /\ entry'.val = buckets2[j].val
      BY <1>3, <2>4, ItemFacts DEF ResizeFarther
    <3>2. In([buckets2 EXCEPT ![j] = entry], Used([buckets2 EXCEPT ![j] = entry], nbuckets2), k, v)
            <=> \/ In(buckets2, Used(buckets2, nbuckets2) \ {j}, k, v)
                \/ entry.key = k /\ entry.val = v
      BY <1>2, PutIn
    <3>3. In(buckets2, Used(buckets2, nbuckets2), k, v) <=>
            \/ In(buckets2, Used(buckets2, nbuckets2) \ {j}, k, v)
            \/ buckets2[j].key = k /\ buckets2[j].val = v
      BY <1>4, TakeIn
    <3>4. In(buckets2', Used(buckets2', nbuckets2), k, v) <=>
            In(buckets2, Used(buckets2, nbuckets2) \ {j}, k, v) \/ (entry.key = k /\ entry.val = v)
      BY <3>1, <3>2, SMT
    <3> QED
      BY <2>1, <2>2, <3>1, <3>3, <3>4
  <2> QED
    BY <2>3, <2>4
<1> QED
  BY <1>7, TableKept

\* When resize0 is done, everything has been moved.
LEMMA DoneTable ==
    ASSUME HInv, HInv', ResizeDone
    PROVE  Contents' = Contents
<1>1. /\ pc = "move" /\ buckets' = buckets2 /\ nbuckets' = nbuckets2
      /\ i = nbuckets /\ entry = NULL
  BY DEF ResizeDone
<1>2. Live = {}
  <2>1. /\ nbuckets \in Nat
        /\ Live = {x \in Used(buckets, nbuckets) : x >= i}
    BY <1>1, ToMove
  <2> QED
    BY <1>1, <2>1, SMT DEF Used
<1>3. \A k \in Key, v \in Val : Has(k, v) <=> In(buckets', Used(buckets', nbuckets'), k, v)
  <2>1. \A k \in Key, v \in Val :
          Has(k, v) <=> \/ In(buckets, Live, k, v)
                        \/ entry # NULL /\ entry.key = k /\ entry.val = v
                        \/ In(buckets2, Used(buckets2, nbuckets2), k, v)
    BY <1>1, HasShapeNow DEF HasShape, HInv
  <2>2. \A k, v : ~In(buckets, Live, k, v)
    BY <1>2 DEF In
  <2> QED
    BY <1>1, <2>1, <2>2
<1>4. CASE op = "set"
  <2>1. pc' = "probe" /\ entry' = [dib |-> 1, key |-> key, val |-> val] /\ key' = key
    BY <1>4 DEF ResizeDone, Probe
  <2>2. entry'.key = key'
    BY <2>1, SMT
  <2> QED
    BY <1>3, <2>1, <2>2, ProbeTable
<1>5. CASE op # "set"
  <2>1. pc' \in {"idle", "iter", "find", "alloc"}
    BY <1>5 DEF ResizeDone, Return
  <2>2. \A k \in Key, v \in Val : Has(k, v)' <=> In(buckets', Used(buckets', nbuckets'), k, v)
    BY <2>1, HasShapeNext DEF HasShape, HInv
  <2>3. \A k \in Key, v \in Val : Has(k, v)' <=> Has(k, v)
    BY <1>3, <2>2
  <2> QED
    BY <2>3, TableKept
<1> QED
  BY <1>4, <1>5

\* The iteration has ended, and found nothing that is due since it last started.
LEMMA NothingDue ==
    ASSUME HInv, IterEnd
    PROVE  \A k \in Key : Contents[k] # Due
<1>1. pc = "iter" /\ iter >= nbuckets /\ nbuckets \in Nat /\ iter \in 0..nbuckets /\ Due \in Val
  <2>1. pc = "iter" /\ iter >= nbuckets
    BY DEF IterEnd
  <2> QED
    BY <2>1, SizeType, HashmapAssumption, SMTT(30) DEF HInv, TypeOK, LoopType
<1>2. \A x \in Used(buckets, nbuckets) : buckets[x].val # Due
  <2>1. \A x \in Used(buckets, nbuckets) : x < iter
    BY <1>1, SMT DEF Used
  <2>2. Live = Used(buckets, nbuckets)
    BY <1>1 DEF Live
  <2>3. \A x \in Live : x < iter => buckets[x].val # Due
    BY <1>1 DEF HInv, Searched
  <2> QED
    BY <2>1, <2>2, <2>3
<1>3. \A k \in Key : ~Has(k, Due)
  <2>1. \A k \in Key : Has(k, Due) <=> In(buckets, Used(buckets, nbuckets), k, Due)
    BY <1>1, HasShapeNow DEF HasShape, HInv
  <2> QED
    BY <1>2, <2>1 DEF In
<1> QED
  BY <1>1, <1>3, TableShapeNow DEF TableShape

Running == op = "set" \/ (op = "delete" /\ pc = "find")

\* A step that leaves the table, the result and the callers' state alone.
LEMMA Unseen ==
    ASSUME Contents' = Contents, UNCHANGED <<ret, oom, collecting>>, Running' <=> Running
    PROVE  [Abstract!Next]_(Abstract!vars)
<1>1. (op = "set" \/ (op = "delete" /\ pc = "find"))' = (op = "set" \/ (op = "delete" /\ pc = "find"))
  BY SMT DEF Running
<1> QED
  BY <1>1 DEF Abstract!vars

\* The steps by which a call shows: one for each action of the table.
LEMMA Called ==
    ASSUME Contents' = Contents, UNCHANGED <<ret, collecting>>, oom' = FALSE, ~Running, Running'
    PROVE  [Abstract!Next]_(Abstract!vars)
<1>1. (op = "set" \/ (op = "delete" /\ pc = "find"))' = TRUE
  BY SMT DEF Running
<1>2. Abstract!Call
  BY <1>1 DEF Abstract!Call, Running
<1> QED
  BY <1>2 DEF Abstract!Next

LEMMA HasSet ==
    ASSUME NEW k \in Key, NEW v \in Val, Contents' = [Contents EXCEPT ![k] = v], ret' = Contents[k],
           UNCHANGED <<oom, collecting>>, ~collecting, Running, ~Running'
    PROVE  [Abstract!Next]_(Abstract!vars)
<1>1. (op = "set" \/ (op = "delete" /\ pc = "find"))' = FALSE
  BY SMT DEF Running
<1>2. Abstract!Set(k, v)
  BY <1>1 DEF Abstract!Set, Running
<1> QED
  BY <1>2 DEF Abstract!Next

LEMMA HasFailed ==
    ASSUME Contents' = Contents, ret' = NULL, UNCHANGED collecting, oom' = TRUE,
           ~collecting, Running, ~Running'
    PROVE  [Abstract!Next]_(Abstract!vars)
<1>1. (op = "set" \/ (op = "delete" /\ pc = "find"))' = FALSE
  BY SMT DEF Running
<1>2. Abstract!Fail
  BY <1>1 DEF Abstract!Fail, Running
<1> QED
  BY <1>2 DEF Abstract!Next

LEMMA HasGot ==
    ASSUME NEW k \in Key, Contents' = Contents, ret' = Contents[k],
           UNCHANGED <<oom, collecting>>, ~collecting, ~Running, ~Running'
    PROVE  [Abstract!Next]_(Abstract!vars)
<1>1. (op = "set" \/ (op = "delete" /\ pc = "find"))' = (op = "set" \/ (op = "delete" /\ pc = "find"))
  BY SMT DEF Running
<1>2. Abstract!Get(k)
  BY <1>1 DEF Abstract!Get, Running
<1> QED
  BY <1>2 DEF Abstract!Next

LEMMA HasDeleted ==
    ASSUME NEW k \in Key, Contents' = [Contents EXCEPT ![k] = NULL], ret' = Contents[k],
           UNCHANGED <<oom, collecting>>, collecting => Contents[k] = Due, Running, ~Running'
    PROVE  [Abstract!Next]_(Abstract!vars)
<1>1. (op = "set" \/ (op = "delete" /\ pc = "find"))' = FALSE
  BY SMT DEF Running
<1>2. Abstract!Delete(k)
  BY <1>1 DEF Abstract!Delete, Running
<1> QED
  BY <1>2 DEF Abstract!Next

LEMMA Collects ==
    ASSUME Contents' = Contents, UNCHANGED <<ret, oom>>, ~Running, ~Running',
           \/ ~collecting /\ collecting' = TRUE
           \/ collecting /\ collecting' = FALSE /\ \A k \in Key : Contents[k] # Due
    PROVE  [Abstract!Next]_(Abstract!vars)
<1>1. (op = "set" \/ (op = "delete" /\ pc = "find"))' = (op = "set" \/ (op = "delete" /\ pc = "find"))
  BY SMT DEF Running
<1>2. Abstract!Collect \/ Abstract!Collected
  BY <1>1 DEF Abstract!Collect, Abstract!Collected, Running
<1> QED
  BY <1>2 DEF Abstract!Next

\* What runs in each loop, and that the caller collects only by deleting.
LEMMA RunFacts ==
    ASSUME HInv
    PROVE  /\ pc \in {"idle", "iter", "shift"} => ~Running
           /\ pc = "probe" => Running /\ ~collecting
           /\ pc = "find" => op \in {"get", "delete"} /\ (Running <=> op = "delete")
           /\ op = "get" => ~collecting
           /\ pc \in {"alloc", "move"} => op \in {"set", "delete"} /\ (Running <=> op = "set")
           /\ op = "set" => ~collecting
           /\ pc = "iter" => collecting
           /\ pc = "idle" => ~collecting
  BY DEF HInv, Frames, Running

LEMMA CallSteps ==
    ASSUME HInv, HInv',
           \/ \E k \in Key : (\E v \in Val : hashmap_set(k, v)) \/ hashmap_get(k) \/ hashmap_delete(k)
           \/ IterStart
           \/ Iterate
    PROVE  [Abstract!Next]_(Abstract!vars)
<1>1. ASSUME NEW k \in Key, NEW v \in Val, hashmap_set(k, v) PROVE [Abstract!Next]_(Abstract!vars)
  <2>1. pc = "idle" /\ op' = "set" /\ UNCHANGED <<ret, collecting>> /\ oom' = FALSE
    BY <1>1 DEF hashmap_set, callerVars
  <2>2. ~Running /\ Running'
    BY <2>1, RunFacts DEF Running
  <2>3. Contents' = Contents
    BY <1>1, SetTable
  <2> QED
    BY <2>1, <2>2, <2>3, Called
<1>2. ASSUME NEW k \in Key, hashmap_get(k) PROVE [Abstract!Next]_(Abstract!vars)
  <2>1. /\ pc = "idle" /\ op' = "get" /\ pc' = "find" /\ UNCHANGED <<ret, collecting, oom>>
        /\ UNCHANGED <<buckets, nbuckets>>
    BY <1>2 DEF hashmap_get, Find
  <2>2. Running' <=> Running
    BY <2>1, RunFacts, SMT DEF Running
  <2>3. Contents' = Contents
    BY <2>1, CalmTable
  <2> QED
    BY <2>1, <2>2, <2>3, Unseen
<1>3. ASSUME NEW k \in Key, hashmap_delete(k) PROVE [Abstract!Next]_(Abstract!vars)
  <2>1. /\ pc = "idle" /\ op' = "delete" /\ pc' = "find" /\ UNCHANGED <<ret, collecting>>
        /\ oom' = FALSE /\ UNCHANGED <<buckets, nbuckets>>
    BY <1>3 DEF hashmap_delete, Find
  <2>2. ~Running /\ Running'
    BY <2>1, RunFacts DEF Running
  <2>3. Contents' = Contents
    BY <2>1, CalmTable
  <2> QED
    BY <2>1, <2>2, <2>3, Called
<1>4. CASE IterStart
  <2>1. /\ pc = "idle" /\ pc' = "iter" /\ op' = op /\ UNCHANGED <<ret, oom, buckets, nbuckets>>
        /\ collecting' = TRUE
    BY <1>4 DEF IterStart, mapVars
  <2>2. ~collecting /\ ~Running /\ ~Running'
    BY <2>1, RunFacts, SMT DEF Running
  <2>3. Contents' = Contents
    BY <2>1, CalmTable
  <2> QED
    BY <2>1, <2>2, <2>3, Collects
<1>5. CASE IterNext
  <2>1. /\ pc = "iter" /\ pc' = "iter" /\ op' = op
        /\ UNCHANGED <<ret, oom, collecting, buckets, nbuckets>>
    BY <1>5 DEF IterNext, mapVars
  <2>2. Running' <=> Running
    BY <2>1, SMT DEF Running
  <2>3. Contents' = Contents
    BY <2>1, CalmTable
  <2> QED
    BY <2>1, <2>2, <2>3, Unseen
<1>6. CASE IterDelete
  <2>1. /\ pc = "iter" /\ op' = "delete" /\ pc' = "find" /\ UNCHANGED <<ret, collecting>>
        /\ oom' = FALSE /\ UNCHANGED <<buckets, nbuckets>>
    BY <1>6 DEF IterDelete, Find
  <2>2. ~Running /\ Running'
    BY <2>1, RunFacts DEF Running
  <2>3. Contents' = Contents
    BY <2>1, CalmTable
  <2> QED
    BY <2>1, <2>2, <2>3, Called
<1>7. CASE IterEnd
  <2>1. /\ pc = "iter" /\ pc' = "idle" /\ op' = op /\ UNCHANGED <<ret, oom, buckets, nbuckets>>
        /\ collecting' = FALSE
    BY <1>7 DEF IterEnd, mapVars
  <2>2. collecting /\ ~Running /\ ~Running'
    BY <2>1, RunFacts, SMT DEF Running
  <2>3. Contents' = Contents /\ \A k \in Key : Contents[k] # Due
    BY <1>7, <2>1, CalmTable, NothingDue
  <2> QED
    BY <2>1, <2>2, <2>3, Collects
<1> QED
  BY <1>1, <1>2, <1>3, <1>4, <1>5, <1>6, <1>7 DEF Iterate

LEMMA SetSteps ==
    ASSUME HInv, HInv', Set
    PROVE  [Abstract!Next]_(Abstract!vars)
<1>1. pc = "probe" /\ UNCHANGED <<oom, collecting>>
  BY DEF Set, SetInsert, SetReplace, SetFarther, callerVars
<1>2. key \in Key /\ val \in Val /\ Running /\ ~collecting
  BY <1>1, LoopFacts, ProbeFacts, RunFacts
<1>3. CASE SetInsert
  <2>1. ret' = NULL /\ op' = "none"
    BY <1>3 DEF SetInsert, Return
  <2>2. ~Running'
    BY <2>1, SMT DEF Running
  <2>3. Contents[key] = NULL /\ Contents' = [Contents EXCEPT ![key] = val]
    BY <1>3, InsertTable
  <2>4. ret' = Contents[key]
    BY <2>1, <2>3
  <2> QED
    BY <1>1, <1>2, <2>2, <2>3, <2>4, HasSet
<1>4. CASE SetReplace
  <2>1. ret' = buckets[i].val /\ op' = "none"
    BY <1>4 DEF SetReplace, Return
  <2>2. ~Running'
    BY <2>1, SMT DEF Running
  <2>3. Contents[key] = buckets[i].val /\ Contents' = [Contents EXCEPT ![key] = val]
    BY <1>4, ReplaceTable
  <2>4. ret' = Contents[key]
    BY <2>1, <2>3
  <2> QED
    BY <1>1, <1>2, <2>2, <2>3, <2>4, HasSet
<1>5. CASE SetFarther
  <2>1. UNCHANGED <<ret, op, pc>>
    BY <1>5 DEF SetFarther
  <2>2. Running' <=> Running
    BY <2>1 DEF Running
  <2>3. Contents' = Contents
    BY <1>5, FartherTable
  <2> QED
    BY <1>1, <2>1, <2>2, <2>3, Unseen
<1> QED
  BY <1>3, <1>4, <1>5 DEF Set

LEMMA SearchSteps ==
    ASSUME HInv, HInv', Search
    PROVE  [Abstract!Next]_(Abstract!vars)
<1>1. pc = "find" /\ UNCHANGED <<oom, collecting>>
  BY DEF Search, FindNothing, FindNext, GetFound, DeleteFound, mapVars, callerVars
<1>2. key \in Key /\ op \in {"get", "delete"} /\ (Running <=> op = "delete") /\ (op = "get" => ~collecting)
  BY <1>1, LoopFacts, RunFacts
<1>3. CASE FindNothing
  <2>1. ret' = NULL /\ op' = "none" /\ pc' \in {"idle", "iter"} /\ UNCHANGED <<buckets, nbuckets>>
    BY <1>3 DEF FindNothing, Return, mapVars
  <2>2. ~Running'
    BY <2>1, SMT DEF Running
  <2>3. Contents' = Contents
    BY <1>1, <2>1, CalmTable
  <2>4. Contents[key] = NULL /\ ~collecting
    BY <1>3, NothingFound
  <2>5. ret' = Contents[key]
    BY <2>1, <2>4
  <2>6. CASE op = "get"
    <3>1. ~Running
      BY <1>2, <2>6, SMT
    <3> QED
      BY <1>1, <1>2, <2>2, <2>3, <2>4, <2>5, <3>1, HasGot
  <2>7. CASE op = "delete"
    <3>1. Contents \in [Key -> Val \cup {NULL}]
      BY TableShapeNow DEF TableShape
    <3>2. Contents' = [Contents EXCEPT ![key] = NULL]
      BY <1>2, <2>3, <2>4, <3>1, SMTT(30)
    <3>3. Running
      BY <1>2, <2>7
    <3> QED
      BY <1>1, <1>2, <2>2, <2>4, <2>5, <3>2, <3>3, HasDeleted
  <2> QED
    BY <1>2, <2>6, <2>7
<1>4. CASE FindNext
  <2>1. UNCHANGED <<ret, op, pc, buckets, nbuckets>>
    BY <1>4 DEF FindNext, mapVars
  <2>2. Running' <=> Running
    BY <2>1 DEF Running
  <2>3. Contents' = Contents
    BY <1>1, <2>1, CalmTable
  <2> QED
    BY <1>1, <2>1, <2>2, <2>3, Unseen
<1>5. CASE GetFound
  <2>1. /\ ret' = buckets[i].val /\ op = "get" /\ op' = "none" /\ pc' \in {"idle", "iter"}
        /\ UNCHANGED <<buckets, nbuckets>> /\ buckets[i] # NULL /\ buckets[i].key = key
    BY <1>5 DEF GetFound, Return, mapVars
  <2>2. ~Running /\ ~Running'
    BY <1>2, <2>1, SMT DEF Running
  <2>3. Contents' = Contents
    BY <1>1, <2>1, CalmTable
  <2>4. ret' = Contents[key]
    BY <1>1, <2>1, ItemFound
  <2> QED
    BY <1>1, <1>2, <2>1, <2>2, <2>3, <2>4, HasGot
<1>6. CASE DeleteFound
  <2>1. /\ ret' = buckets[i].val /\ op = "delete" /\ op' = op /\ pc' = "shift"
        /\ buckets[i] # NULL /\ buckets[i].key = key
    BY <1>6 DEF DeleteFound
  <2>2. Running /\ ~Running'
    BY <1>2, <2>1, SMT DEF Running
  <2>3. Contents' = [Contents EXCEPT ![key] = NULL]
    BY <1>6, DeleteTable
  <2>4. ret' = Contents[key] /\ (collecting => Contents[key] = Due)
    BY <1>1, <2>1, ItemFound
  <2> QED
    BY <1>1, <1>2, <2>2, <2>3, <2>4, HasDeleted
<1> QED
  BY <1>3, <1>4, <1>5, <1>6 DEF Search

LEMMA ShiftSteps ==
    ASSUME HInv, HInv', Shift
    PROVE  [Abstract!Next]_(Abstract!vars)
<1>1. pc = "shift" /\ UNCHANGED <<ret, oom, collecting>> /\ op' \in {op, "none"} /\ pc' # "find"
  BY DEF Shift, DeleteShift, DeleteLast, Return, callerVars
<1>2. op = "delete"
  BY <1>1 DEF HInv, Frames
<1>3. Running' <=> Running
  BY <1>1, <1>2, SMT DEF Running
<1>4. Contents' = Contents
  BY ShiftTable, LastTable DEF Shift
<1> QED
  BY <1>1, <1>3, <1>4, Unseen

\* A failing resize0 shows only in hashmap_set.
LEMMA ResizeSteps ==
    ASSUME HInv, HInv', Resize
    PROVE  [Abstract!Next]_(Abstract!vars)
<1>1. pc \in {"alloc", "move"} /\ UNCHANGED collecting
  BY DEF Resize, ResizeFails, ResizeStart, ResizeSkip, ResizeTake, ResizePut, ResizeFarther,
     ResizeDone, callerVars
<1>2. op \in {"set", "delete"} /\ (Running <=> op = "set") /\ (op = "set" => ~collecting)
  BY <1>1, RunFacts
<1>3. CASE ResizeFails
  <2>1. pc = "alloc" /\ op' = "none" /\ pc' \in {"idle", "iter"} /\ UNCHANGED <<buckets, nbuckets>>
    BY <1>3 DEF ResizeFails, Return
  <2>2. ~Running'
    BY <2>1, SMT DEF Running
  <2>3. Contents' = Contents
    BY <2>1, CalmTable
  <2>4. CASE op = "set"
    <3>1. oom' = TRUE /\ ret' = NULL
      BY <1>3, <2>4 DEF ResizeFails
    <3> QED
      BY <1>1, <1>2, <2>2, <2>3, <2>4, <3>1, HasFailed
  <2>5. CASE op # "set"
    <3>1. UNCHANGED <<oom, ret>>
      BY <1>3, <2>5 DEF ResizeFails
    <3> QED
      BY <1>1, <1>2, <2>2, <2>3, <2>5, <3>1, Unseen
  <2> QED
    BY <2>4, <2>5
<1>4. CASE ResizeDone
  <2>1. UNCHANGED <<oom, ret>> /\ (op = "set" => op' = op) /\ (op # "set" => op' = "none")
    BY <1>4 DEF ResizeDone, Return
  <2>2. Running' <=> Running
    BY <1>2, <2>1, SMTT(30) DEF Running
  <2>3. Contents' = Contents
    BY <1>4, DoneTable
  <2> QED
    BY <1>1, <2>1, <2>2, <2>3, Unseen
<1>5. CASE ResizeStart \/ ResizeSkip \/ ResizeTake \/ ResizePut \/ ResizeFarther
  <2>1. UNCHANGED <<ret, oom, op>> /\ pc' = "move"
    BY <1>5 DEF ResizeStart, ResizeSkip, ResizeTake, ResizePut, ResizeFarther, mapVars
  <2>2. Running' <=> Running
    BY <1>2, <2>1, SMT DEF Running
  <2>3. Contents' = Contents
    BY <1>5, StartTable, SkipTable, TakeTable, PutTableKept, FartherTable2
  <2> QED
    BY <1>1, <2>1, <2>2, <2>3, Unseen
<1> QED
  BY <1>3, <1>4, <1>5 DEF Resize

(***************************************************************************)
(* hashmap.c implements the table rip_db.c is written against: for any     *)
(* keys, values and hash function, any powers of two and thresholds, and   *)
(* whether or not malloc fails, every call returns the item the table      *)
(* holds and leaves every other one as it was, through swaps, shifts,      *)
(* growing and shrinking; and the deleting loop of rip_t_gc_expired leaves *)
(* nothing that is due.                                                    *)
(***************************************************************************)
THEOREM HashmapIsATable == Spec => ImplementsTable
<1>1. Init /\ HInv => Abstract!Init
  <2> SUFFICES ASSUME Init, HInv PROVE Abstract!Init
    BY SMT
  <2>1. pc = "idle" /\ op = "none" /\ ret = NULL /\ oom = FALSE /\ collecting = FALSE
    BY DEF Init
  <2>2. (op = "set" \/ (op = "delete" /\ pc = "find")) = FALSE
    BY <2>1, SMT
  <2>3. \A k \in Key, v \in Val : ~Has(k, v)
    <3>1. nbuckets = Capacity(0) /\ buckets = EmptyTable(Capacity(0)) /\ nbuckets \in Nat
      BY SizeType DEF Init, HInv
    <3>2. Used(buckets, nbuckets) = {}
      BY <3>1, EmptyTableType
    <3>3. \A k \in Key, v \in Val : Has(k, v) <=> In(buckets, Used(buckets, nbuckets), k, v)
      BY <2>1, HasShapeNow DEF HasShape, HInv
    <3> QED
      BY <3>2, <3>3 DEF In
  <2>4. Contents = [k \in Key |-> NULL]
    BY <2>3 DEF Contents
  <2> QED
    BY <2>1, <2>2, <2>4 DEF Abstract!Init
<1>2. HInv /\ HInv' /\ [Next]_vars => [Abstract!Next]_(Abstract!vars)
  <2> SUFFICES ASSUME HInv, HInv', [Next]_vars PROVE [Abstract!Next]_(Abstract!vars)
    BY SMT
  <2>1. CASE UNCHANGED vars
    <3>1. UNCHANGED <<ret, oom, collecting, op, pc>>
      BY <2>1 DEF vars, mapVars, callerVars
    <3>2. \A k \in Key, v \in Val : Has(k, v)' <=> Has(k, v)
      <4>1. UNCHANGED <<buckets, nbuckets, pc, op, key, entry, i, buckets2, nbuckets2>>
        BY <2>1 DEF vars, mapVars, newVars
      <4>2. Live' = Live
        BY <4>1 DEF Live
      <4> QED
        BY <4>1, <4>2 DEF Has, New
    <3>3. Contents' = Contents
      BY <3>2, TableKept
    <3> QED
      BY <3>1, <3>3, Unseen DEF Running
  <2>2. CASE Next
    BY <2>2, CallSteps, SetSteps, SearchSteps, ShiftSteps, ResizeSteps DEF Next
  <2> QED
    BY <2>1, <2>2
<1> QED
  BY <1>1, <1>2, HashmapInvariant, PTL DEF Spec, ImplementsTable, Abstract!Spec
=============================================================================
