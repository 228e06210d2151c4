--------------------------- MODULE RipdLifeProofs ---------------------------
(***************************************************************************)
(* Proof that the daemon implements RouteLife: every step, seen through    *)
(* the mapping of RipdLife, is a step of RouteLife or changes nothing.     *)
(***************************************************************************)
EXTENDS RipdProofs, RipdLife

\* The route in use that a usable route stands for, and a pending one.
Used(b, k) == [nh |-> k.nh, metric |-> Ntohl(b.ok[k].metric)]
UsedPending(p) == [nh |-> p.key.nh, metric |-> Ntohl(p.desc.metric)]

\* The members of the sets of the mapping.
LEMMA InUseIs ==
    ASSUME NEW b, NEW p, NEW d, NEW r
    PROVE  r \in InUse(b, p, d) <=>
             \/ \E k \in Learned(b) : k.dst = d /\ r = Used(b, k)
             \/ p # NULL /\ p.key.dst = d /\ r = UsedPending(p)
BY ZenonT(30) DEF InUse, Used, UsedPending

\* The same for the dead routes.
LEMMA DeadIs ==
    ASSUME NEW b, NEW d \in Dest, NEW n
    PROVE  n \in LifeDead(b)[d] <=> \E k \in Items(b.garbage) : k.dst = d /\ n = k.nh
BY ZenonT(30) DEF LifeDead

\* The same for the routes not yet advertised.
LEMMA ChangedIs ==
    ASSUME NEW b, NEW p, NEW d \in Dest, NEW n
    PROVE  n \in LifeChanged(b, p)[d] <=>
             \/ \E k \in Learned(b) \cup Items(b.garbage) :
                   k.dst = d /\ Route(b, k).changed /\ n = k.nh
             \/ p # NULL /\ p.key.dst = d /\ n = p.key.nh
BY ZenonT(30) DEF LifeChanged, Unadvertised

\* The three are functions on the networks.
LEMMA LifeFunctions ==
    ASSUME NEW b, NEW p
    PROVE  /\ LifeRoute(b, p) = [d \in Dest |-> LifeRoute(b, p)[d]]
           /\ LifeDead(b) = [d \in Dest |-> LifeDead(b)[d]]
           /\ LifeChanged(b, p) = [d \in Dest |-> LifeChanged(b, p)[d]]
BY DEF LifeRoute, LifeDead, LifeChanged

\* The dead routes, without a pending route to choose.
LEMMA DeadFunctions ==
    ASSUME NEW b
    PROVE  LifeDead(b) = [d \in Dest |-> LifeDead(b)[d]]
BY LifeFunctions, Zenon

\* Two functions on the networks with the same values are the same.
LEMMA Pointwise ==
    ASSUME NEW f, NEW g, f = [d \in Dest |-> f[d]], g = [d \in Dest |-> g[d]],
           \A d \in Dest : f[d] = g[d]
    PROVE  f = g
<1>1. [d \in Dest |-> f[d]] = [d \in Dest |-> g[d]]
  OBVIOUS
<1> QED
  BY <1>1, Zenon

\* A function that differs from another in one place (the provers rewrite EXCEPT).
With(f, e, v) == [f EXCEPT ![e] = v]

\* It is given by its values.
LEMMA Changes ==
    ASSUME NEW f, NEW g, f = [d \in Dest |-> f[d]], g = [d \in Dest |-> g[d]],
           NEW e \in Dest, NEW v, \A d \in Dest : g[d] = IF d = e THEN v ELSE f[d]
    PROVE  g = With(f, e, v)
<1>1. With(f, e, v) = [d \in Dest |-> IF d = e THEN v ELSE f[d]]
  BY DEF With
<1>2. [d \in Dest |-> g[d]] = [d \in Dest |-> IF d = e THEN v ELSE f[d]]
  OBVIOUS
<1> QED
  BY <1>1, <1>2, Zenon

\* What is in use, when there is one route, or none, or the same as before.
LEMMA RouteIs ==
    ASSUME NEW b, NEW p, NEW d \in Dest
    PROVE  /\ InUse(b, p, d) = {} => LifeRoute(b, p)[d] = NULL
           /\ \A r : InUse(b, p, d) = {r} => LifeRoute(b, p)[d] = r
           /\ \A c, q : InUse(c, q, d) = InUse(b, p, d) =>
                           LifeRoute(c, q)[d] = LifeRoute(b, p)[d]
<1>1. \A r : InUse(b, p, d) = {r} => LifeRoute(b, p)[d] = r
  <2> SUFFICES ASSUME NEW r, InUse(b, p, d) = {r} PROVE LifeRoute(b, p)[d] = r
    OBVIOUS
  <2>1. LifeRoute(b, p)[d] = CHOOSE x \in InUse(b, p, d) : TRUE
    BY DEF LifeRoute
  <2> QED
    BY <2>1
<1>2. InUse(b, p, d) = {} => LifeRoute(b, p)[d] = NULL
  BY DEF LifeRoute
<1>3. \A c, q : InUse(c, q, d) = InUse(b, p, d) => LifeRoute(c, q)[d] = LifeRoute(b, p)[d]
  BY DEF LifeRoute
<1> QED
  BY <1>1, <1>2, <1>3

\* The one usable route of a network is the one in use.
LEMMA OnlyRoute ==
    ASSUME NEW b, NEW k \in Learned(b), k.dst \in Dest,
           \A j \in Learned(b) : j.dst = k.dst => j = k
    PROVE  LifeRoute(b, NULL)[k.dst] = Used(b, k)
<1>1. \A r : r \in InUse(b, NULL, k.dst) <=> r = Used(b, k)
  BY InUseIs
<1>2. InUse(b, NULL, k.dst) = {Used(b, k)}
  BY <1>1
<1> QED
  BY <1>2, RouteIs

\* A learned key is given by its neighbour and its network.
LEMMA KeyOf ==
    ASSUME NEW j \in LearnedKeys, NEW k \in LearnedKeys, j.nh = k.nh, j.dst = k.dst
    PROVE  j = k
BY DEF LearnedKeys, LearnedKey

\* Usable learned routes and garbage have learned keys.
LEMMA LearnedAreKeys ==
    ASSUME NEW b, GoodDb(b)
    PROVE  Learned(b) \cup Items(b.garbage) \subseteq LearnedKeys
BY DEF GoodDb, GoodRoute, Learned, Items

\* Which table the route of a key is in.
LEMMA RouteOfTable ==
    ASSUME NEW b, GoodDb(b), NEW k
    PROVE  /\ k \in Learned(b) => Route(b, k) = b.ok[k] /\ k \notin Items(b.garbage)
           /\ k \in Items(b.garbage) => Route(b, k) = b.garbage[k] /\ k \notin Learned(b)
BY DEF GoodDb, GoodRoute, Learned, Items, Route

----------------------------------------------------------------------------
(***************************************************************************)
(* What changes of the tables look like through the mapping.  b and p are  *)
(* the database and the pending route before, c and q after.               *)
(***************************************************************************)
\* Routes that keep their metrics are the same routes in use.
LEMMA SameRoutes ==
    ASSUME NEW b, NEW c, NEW p, Learned(c) = Learned(b),
           \A k \in Learned(b) : c.ok[k].metric = b.ok[k].metric
    PROVE  LifeRoute(c, p) = LifeRoute(b, p)
<1>1. \A k \in Learned(b) : Used(c, k) = Used(b, k)
  BY DEF Used
<1>2. ASSUME NEW d \in Dest PROVE InUse(c, p, d) = InUse(b, p, d)
  <2>1. ASSUME NEW r PROVE r \in InUse(c, p, d) <=> r \in InUse(b, p, d)
    BY <1>1, InUseIs
  <2> QED
    BY <2>1, ZenonT(30)
<1>3. \A d \in Dest : LifeRoute(c, p)[d] = LifeRoute(b, p)[d]
  BY <1>2, RouteIs
<1> QED
  BY <1>3, LifeFunctions, Pointwise

\* Routes that stay where they are, with their mark, are no news.
LEMMA SameNews ==
    ASSUME NEW b, NEW c, NEW p, Learned(c) = Learned(b), Items(c.garbage) = Items(b.garbage),
           \A k \in Learned(b) \cup Items(b.garbage) : Route(c, k).changed <=> Route(b, k).changed
    PROVE  LifeDead(c) = LifeDead(b) /\ LifeChanged(c, p) = LifeChanged(b, p)
<1>1. LifeDead(c) = LifeDead(b)
  BY DEF LifeDead
<1>2. ASSUME NEW d \in Dest PROVE LifeChanged(c, p)[d] = LifeChanged(b, p)[d]
  <2>1. \A n : n \in LifeChanged(c, p)[d] <=> n \in LifeChanged(b, p)[d]
    BY ChangedIs
  <2> QED
    BY <2>1, ZenonT(30)
<1>3. LifeChanged(c, p) = LifeChanged(b, p)
  BY <1>2, LifeFunctions, Pointwise
<1> QED
  BY <1>1, <1>3

\* Once nothing is marked changed, everything is advertised.
LEMMA NoNews ==
    ASSUME NEW c, \A k \in Learned(c) \cup Items(c.garbage) : ~Route(c, k).changed
    PROVE  LifeChanged(c, NULL) = [d \in Dest |-> {}]
<1>1. ASSUME NEW d \in Dest PROVE LifeChanged(c, NULL)[d] = {}
  <2>1. \A n : n \notin LifeChanged(c, NULL)[d]
    BY ChangedIs
  <2> QED
    BY <2>1
<1>2. LifeChanged(c, NULL) = [d \in Dest |-> LifeChanged(c, NULL)[d]]
  BY LifeFunctions
<1> QED
  BY <1>1, <1>2, Zenon

\* Garbage goes: the marks that go with it are those of no other route.
LEMMA ForgetTables ==
    ASSUME NEW b, NEW c, GoodDb(b), GoodDb(c),
           \A k \in Key : c.ok[k] = b.ok[k] /\ c.garbage[k] \in {NULL, b.garbage[k]}
    PROVE  /\ LifeRoute(c, NULL) = LifeRoute(b, NULL)
           /\ \A d \in Dest : LifeDead(c)[d] \subseteq LifeDead(b)[d]
           /\ LifeChanged(c, NULL) =
                [d \in Dest |-> LifeChanged(b, NULL)[d] \ (LifeDead(b)[d] \ LifeDead(c)[d])]
<1>1. Learned(c) = Learned(b) /\ \A k \in Learned(b) : c.ok[k] = b.ok[k]
  BY DEF Learned
<1>2. LifeRoute(c, NULL) = LifeRoute(b, NULL)
  BY <1>1, SameRoutes
<1>3. \A k \in Items(c.garbage) : k \in Items(b.garbage) /\ c.garbage[k] = b.garbage[k]
  BY DEF Items
<1>4. ASSUME NEW d \in Dest PROVE LifeDead(c)[d] \subseteq LifeDead(b)[d]
  <2>1. \A n : n \in LifeDead(c)[d] => n \in LifeDead(b)[d]
    BY <1>3, DeadIs
  <2> QED
    BY <2>1
<1>5. \A j, k \in Learned(b) \cup Items(b.garbage) : j.nh = k.nh /\ j.dst = k.dst => j = k
  BY LearnedAreKeys, KeyOf
<1>6. \A k \in Learned(c) \cup Items(c.garbage) : Route(c, k) = Route(b, k)
  BY <1>1, <1>3, RouteOfTable
<1>7. ASSUME NEW d \in Dest, NEW n
      PROVE  n \in LifeChanged(c, NULL)[d] <=>
               n \in LifeChanged(b, NULL)[d] \ (LifeDead(b)[d] \ LifeDead(c)[d])
  <2>1. ASSUME n \in LifeChanged(c, NULL)[d]
        PROVE  n \in LifeChanged(b, NULL)[d] /\ ~(n \in LifeDead(b)[d] /\ n \notin LifeDead(c)[d])
    <3>1. PICK k \in Learned(c) \cup Items(c.garbage) :
             k.dst = d /\ Route(c, k).changed /\ n = k.nh
      BY <2>1, ChangedIs
    <3>2. k \in Learned(b) \cup Items(b.garbage)
      BY <1>1, <1>3, <3>1
    <3>3. n \in LifeChanged(b, NULL)[d]
      BY <1>6, <3>1, <3>2, ChangedIs, ZenonT(30)
    <3>4. ASSUME n \in LifeDead(b)[d] PROVE n \in LifeDead(c)[d]
      <4>1. k \in Items(b.garbage)
        BY <1>5, <3>1, <3>2, <3>4, DeadIs
      <4>2. k \in Items(c.garbage)
        BY <1>1, <3>1, <4>1, RouteOfTable
      <4> QED
        BY <3>1, <4>2, DeadIs
    <3> QED
      BY <3>3, <3>4
  <2>2. ASSUME n \in LifeChanged(b, NULL)[d], n \in LifeDead(b)[d] => n \in LifeDead(c)[d]
        PROVE  n \in LifeChanged(c, NULL)[d]
    <3>1. PICK k \in Learned(b) \cup Items(b.garbage) :
             k.dst = d /\ Route(b, k).changed /\ n = k.nh
      BY <2>2, ChangedIs
    <3>2. k \in Learned(c) \cup Items(c.garbage)
      <4>1. CASE k \in Learned(b)
        BY <1>1, <4>1
      <4>2. CASE k \in Items(b.garbage)
        <5>1. n \in LifeDead(c)[d]
          BY <2>2, <3>1, <4>2, DeadIs
        <5>2. PICK j \in Items(c.garbage) : j.dst = d /\ n = j.nh
          BY <5>1, DeadIs
        <5>3. j = k
          BY <1>3, <1>5, <3>1, <5>2, ZenonT(30)
        <5> QED
          BY <5>2, <5>3
      <4> QED
        BY <4>1, <4>2
    <3> QED
      BY <1>6, <3>1, <3>2, ChangedIs, ZenonT(30)
  <2> QED
    BY <2>1, <2>2
<1>8. \A d \in Dest : LifeChanged(c, NULL)[d] =
                        LifeChanged(b, NULL)[d] \ (LifeDead(b)[d] \ LifeDead(c)[d])
  BY <1>7
<1>9. LifeChanged(c, NULL) = [d \in Dest |-> LifeChanged(c, NULL)[d]]
  BY LifeFunctions
<1> QED
  BY <1>2, <1>4, <1>8, <1>9, Zenon

(***************************************************************************)
(* handle_non_existing_route: the route of k leaves the tables and a new   *)
(* one from the same neighbour is pending.                                 *)
(***************************************************************************)
LEMMA UseTables ==
    ASSUME NEW b, NEW c, GoodDb(b), GoodDb(c), NEW k \in LearnedKeys, k \in Key, NEW q, q # NULL,
           q.key = k,
           \A j \in Key : /\ c.ok[j] = IF j = k THEN NULL ELSE b.ok[j]
                          /\ c.garbage[j] = IF j = k THEN NULL ELSE b.garbage[j],
           \A j \in Learned(b) : j.dst = k.dst => j = k
    PROVE  /\ LifeRoute(c, q) = [LifeRoute(b, NULL) EXCEPT ![k.dst] = UsedPending(q)]
           /\ LifeDead(c) = [LifeDead(b) EXCEPT ![k.dst] = @ \ {k.nh}]
           /\ LifeChanged(c, q) = [LifeChanged(b, NULL) EXCEPT ![k.dst] = @ \cup {k.nh}]
<1>0. k.dst \in Dest
  BY KeyFields
<1>1. Learned(c) = Learned(b) \ {k} /\ \A j \in Learned(c) : Used(c, j) = Used(b, j)
  BY DEF Learned, Used
<1>2. Items(c.garbage) = Items(b.garbage) \ {k}
  BY DEF Items
<1>3. \A j, i \in Learned(b) \cup Items(b.garbage) \cup {k} :
         j.nh = i.nh /\ j.dst = i.dst => j = i
  BY LearnedAreKeys, KeyOf
<1>4. \A j \in Learned(c) \cup Items(c.garbage) : Route(c, j) = Route(b, j)
  BY DEF Learned, Items, Route
<1>5. ASSUME NEW d \in Dest
      PROVE  LifeRoute(c, q)[d] = IF d = k.dst THEN UsedPending(q) ELSE LifeRoute(b, NULL)[d]
  <2>1. CASE d = k.dst
    <3>1. \A r : r \in InUse(c, q, d) <=> r = UsedPending(q)
      BY <1>1, <2>1, InUseIs
    <3>2. InUse(c, q, d) = {UsedPending(q)}
      BY <3>1
    <3> QED
      BY <2>1, <3>2, RouteIs
  <2>2. CASE d # k.dst
    <3>1. \A r : r \in InUse(c, q, d) <=> r \in InUse(b, NULL, d)
      BY <1>1, <2>2, InUseIs
    <3>2. InUse(c, q, d) = InUse(b, NULL, d)
      BY <3>1, ZenonT(30)
    <3> QED
      BY <2>2, <3>2, RouteIs
  <2> QED
    BY <2>1, <2>2
<1>6. ASSUME NEW d \in Dest
      PROVE  LifeDead(c)[d] = IF d = k.dst THEN LifeDead(b)[d] \ {k.nh} ELSE LifeDead(b)[d]
  <2>1. \A n : n \in LifeDead(c)[d] <=> \E j \in Items(b.garbage) \ {k} : j.dst = d /\ n = j.nh
    BY <1>2, DeadIs
  <2>2. \A n : n \in LifeDead(b)[d] <=> \E j \in Items(b.garbage) : j.dst = d /\ n = j.nh
    BY DeadIs
  <2>3. CASE d = k.dst
    <3>1. \A n : n \in LifeDead(c)[d] <=> n \in LifeDead(b)[d] /\ n # k.nh
      BY <1>3, <2>1, <2>2, <2>3
    <3> QED
      BY <2>3, <3>1
  <2>4. CASE d # k.dst
    <3>1. \A n : n \in LifeDead(c)[d] <=> n \in LifeDead(b)[d]
      BY <2>1, <2>2, <2>4
    <3> QED
      BY <2>4, <3>1, ZenonT(30)
  <2> QED
    BY <2>3, <2>4
<1>7. ASSUME NEW d \in Dest
      PROVE  LifeChanged(c, q)[d] = IF d = k.dst THEN LifeChanged(b, NULL)[d] \cup {k.nh}
                                                 ELSE LifeChanged(b, NULL)[d]
  <2>1. \A n : n \in LifeChanged(b, NULL)[d] <=>
                 \E j \in Learned(b) \cup Items(b.garbage) :
                    j.dst = d /\ Route(b, j).changed /\ n = j.nh
    BY ChangedIs
  <2>2. \A n : n \in LifeChanged(c, q)[d] <=>
                 \/ \E j \in (Learned(b) \cup Items(b.garbage)) \ {k} :
                       j.dst = d /\ Route(b, j).changed /\ n = j.nh
                 \/ k.dst = d /\ n = k.nh
    <3>1. Learned(c) \cup Items(c.garbage) = (Learned(b) \cup Items(b.garbage)) \ {k}
      BY <1>1, <1>2
    <3> QED
      BY <1>4, <3>1, ChangedIs
  <2>3. CASE d = k.dst
    <3>1. \A n : n \in LifeChanged(c, q)[d] <=> n \in LifeChanged(b, NULL)[d] \/ n = k.nh
      BY <2>1, <2>2, <2>3
    <3> QED
      BY <2>3, <3>1
  <2>4. CASE d # k.dst
    <3>1. \A n : n \in LifeChanged(c, q)[d] <=> n \in LifeChanged(b, NULL)[d]
      BY <2>1, <2>2, <2>4
    <3> QED
      BY <2>4, <3>1, ZenonT(30)
  <2> QED
    BY <2>3, <2>4
<1>8. LifeRoute(c, q) = With(LifeRoute(b, NULL), k.dst, UsedPending(q))
  BY <1>0, <1>5, Changes, LifeFunctions
<1>9. LifeDead(c) = With(LifeDead(b), k.dst, LifeDead(b)[k.dst] \ {k.nh})
  <2> DEFINE v == LifeDead(b)[k.dst] \ {k.nh}
  <2>1. \A d \in Dest : LifeDead(c)[d] = IF d = k.dst THEN v ELSE LifeDead(b)[d]
    BY <1>6, ZenonT(30)
  <2> HIDE DEF v
  <2>2. /\ LifeDead(b) = [d \in Dest |-> LifeDead(b)[d]]
        /\ LifeDead(c) = [d \in Dest |-> LifeDead(c)[d]]
    BY LifeFunctions, Zenon
  <2>3. LifeDead(c) = With(LifeDead(b), k.dst, v)
    BY <1>0, <2>1, <2>2, Changes
  <2> QED
    BY <2>3 DEF v
<1>10. LifeChanged(c, q) =
         With(LifeChanged(b, NULL), k.dst, LifeChanged(b, NULL)[k.dst] \cup {k.nh})
  <2> DEFINE v == LifeChanged(b, NULL)[k.dst] \cup {k.nh}
  <2>1. \A d \in Dest : LifeChanged(c, q)[d] = IF d = k.dst THEN v ELSE LifeChanged(b, NULL)[d]
    BY <1>7, ZenonT(30)
  <2> HIDE DEF v
  <2>2. LifeChanged(c, q) = With(LifeChanged(b, NULL), k.dst, v)
    BY <1>0, <2>1, Changes, LifeFunctions
  <2> QED
    BY <2>2 DEF v
<1> QED
  BY <1>8, <1>9, <1>10 DEF With

(***************************************************************************)
(* rip_rt_timeout_expired: the route of k moves to the garbage, marked     *)
(* changed.                                                                *)
(***************************************************************************)
LEMMA DieTables ==
    ASSUME NEW b, NEW c, GoodDb(b), GoodDb(c), NEW k \in Learned(b),
           NEW r, r # NULL, r.changed,
           \A j \in Key : /\ c.ok[j] = IF j = k THEN NULL ELSE b.ok[j]
                          /\ c.garbage[j] = IF j = k THEN r ELSE b.garbage[j],
           \A j \in Learned(b) : j.dst = k.dst => j = k
    PROVE  /\ LifeRoute(b, NULL)[k.dst] = Used(b, k)
           /\ LifeRoute(c, NULL) = [LifeRoute(b, NULL) EXCEPT ![k.dst] = NULL]
           /\ LifeDead(c) = [LifeDead(b) EXCEPT ![k.dst] = @ \cup {k.nh}]
           /\ LifeChanged(c, NULL) = [LifeChanged(b, NULL) EXCEPT ![k.dst] = @ \cup {k.nh}]
<1>0. k \in Key /\ k.dst \in Dest
  BY KeyFields DEF Learned
<1>1. Learned(c) = Learned(b) \ {k} /\ \A j \in Learned(c) : Used(c, j) = Used(b, j)
  BY DEF Learned, Used
<1>2. Items(c.garbage) = Items(b.garbage) \cup {k}
  BY <1>0 DEF Items
<1>3. \A j, i \in Learned(b) \cup Items(b.garbage) : j.nh = i.nh /\ j.dst = i.dst => j = i
  BY LearnedAreKeys, KeyOf
<1>4. Route(c, k).changed
  BY <1>0, <1>2, RouteOfTable
<1>5. \A j \in (Learned(b) \cup Items(b.garbage)) \ {k} : Route(c, j) = Route(b, j)
  BY DEF Learned, Items, Route
<1>6. ASSUME NEW d \in Dest
      PROVE  LifeRoute(c, NULL)[d] = IF d = k.dst THEN NULL ELSE LifeRoute(b, NULL)[d]
  <2>1. CASE d = k.dst
    <3>1. \A x : x \notin InUse(c, NULL, d)
      BY <1>1, <2>1, InUseIs
    <3>2. InUse(c, NULL, d) = {}
      BY <3>1
    <3> QED
      BY <2>1, <3>2, RouteIs
  <2>2. CASE d # k.dst
    <3>1. \A x : x \in InUse(c, NULL, d) <=> x \in InUse(b, NULL, d)
      BY <1>1, <2>2, InUseIs
    <3>2. InUse(c, NULL, d) = InUse(b, NULL, d)
      BY <3>1, ZenonT(30)
    <3> QED
      BY <2>2, <3>2, RouteIs
  <2> QED
    BY <2>1, <2>2
<1>7. ASSUME NEW d \in Dest
      PROVE  LifeDead(c)[d] = IF d = k.dst THEN LifeDead(b)[d] \cup {k.nh} ELSE LifeDead(b)[d]
  <2>1. \A n : n \in LifeDead(c)[d] <=> \E j \in Items(b.garbage) \cup {k} : j.dst = d /\ n = j.nh
    BY <1>2, DeadIs
  <2>2. \A n : n \in LifeDead(b)[d] <=> \E j \in Items(b.garbage) : j.dst = d /\ n = j.nh
    BY DeadIs
  <2>3. CASE d = k.dst
    <3>1. \A n : n \in LifeDead(c)[d] <=> n \in LifeDead(b)[d] \/ n = k.nh
      BY <2>1, <2>2, <2>3
    <3> QED
      BY <2>3, <3>1
  <2>4. CASE d # k.dst
    <3>1. \A n : n \in LifeDead(c)[d] <=> n \in LifeDead(b)[d]
      BY <2>1, <2>2, <2>4
    <3> QED
      BY <2>4, <3>1, ZenonT(30)
  <2> QED
    BY <2>3, <2>4
<1>8. ASSUME NEW d \in Dest
      PROVE  LifeChanged(c, NULL)[d] = IF d = k.dst THEN LifeChanged(b, NULL)[d] \cup {k.nh}
                                                    ELSE LifeChanged(b, NULL)[d]
  <2>1. \A n : n \in LifeChanged(b, NULL)[d] <=>
                 \E j \in Learned(b) \cup Items(b.garbage) :
                    j.dst = d /\ Route(b, j).changed /\ n = j.nh
    BY ChangedIs
  <2>2. \A n : n \in LifeChanged(c, NULL)[d] <=>
                 \/ \E j \in (Learned(b) \cup Items(b.garbage)) \ {k} :
                       j.dst = d /\ Route(b, j).changed /\ n = j.nh
                 \/ k.dst = d /\ n = k.nh
    <3>1. Learned(c) \cup Items(c.garbage) =
            ((Learned(b) \cup Items(b.garbage)) \ {k}) \cup {k}
      BY <1>1, <1>2
    <3> QED
      BY <1>4, <1>5, <3>1, ChangedIs
  <2>3. CASE d = k.dst
    <3>1. \A n : n \in LifeChanged(c, NULL)[d] <=> n \in LifeChanged(b, NULL)[d] \/ n = k.nh
      BY <2>1, <2>2, <2>3
    <3> QED
      BY <2>3, <3>1
  <2>4. CASE d # k.dst
    <3>1. \A n : n \in LifeChanged(c, NULL)[d] <=> n \in LifeChanged(b, NULL)[d]
      BY <2>1, <2>2, <2>4
    <3> QED
      BY <2>4, <3>1, ZenonT(30)
  <2> QED
    BY <2>3, <2>4
<1>9. LifeRoute(c, NULL) = With(LifeRoute(b, NULL), k.dst, NULL)
  BY <1>0, <1>6, Changes, LifeFunctions
<1>10. LifeDead(c) = With(LifeDead(b), k.dst, LifeDead(b)[k.dst] \cup {k.nh})
  <2> DEFINE v == LifeDead(b)[k.dst] \cup {k.nh}
  <2>1. \A d \in Dest : LifeDead(c)[d] = IF d = k.dst THEN v ELSE LifeDead(b)[d]
    BY <1>7, ZenonT(30)
  <2> HIDE DEF v
  <2>2. /\ LifeDead(b) = [d \in Dest |-> LifeDead(b)[d]]
        /\ LifeDead(c) = [d \in Dest |-> LifeDead(c)[d]]
    BY LifeFunctions, Zenon
  <2>3. LifeDead(c) = With(LifeDead(b), k.dst, v)
    BY <1>0, <2>1, <2>2, Changes
  <2> QED
    BY <2>3 DEF v
<1>11. LifeChanged(c, NULL) =
         With(LifeChanged(b, NULL), k.dst, LifeChanged(b, NULL)[k.dst] \cup {k.nh})
  <2> DEFINE v == LifeChanged(b, NULL)[k.dst] \cup {k.nh}
  <2>1. \A d \in Dest : LifeChanged(c, NULL)[d] = IF d = k.dst THEN v ELSE LifeChanged(b, NULL)[d]
    BY <1>8, ZenonT(30)
  <2> HIDE DEF v
  <2>2. LifeChanged(c, NULL) = With(LifeChanged(b, NULL), k.dst, v)
    BY <1>0, <2>1, Changes, LifeFunctions
  <2> QED
    BY <2>2 DEF v
<1>12. LifeRoute(b, NULL)[k.dst] = Used(b, k)
  BY <1>0, OnlyRoute
<1> QED
  BY <1>9, <1>10, <1>11, <1>12 DEF With

\* c is b with the pending route p entered as r.
Enters(b, c, p, r) ==
    \A j \in Key : /\ c.ok[j] = IF j = p.key THEN r ELSE b.ok[j]
                   /\ c.garbage[j] = b.garbage[j]

\* rip_db_add: the pending route enters the usable routes as it is.
LEMMA AddTables ==
    ASSUME NEW b, NEW c, GoodDb(b), GoodDb(c), NEW p, p # NULL, NEW r, r # NULL,
           p.key \in LearnedKeys, p.key \in Key, b.ok[p.key] = NULL, b.garbage[p.key] = NULL,
           r.changed, ~r.is_local, r.metric = p.desc.metric, Enters(b, c, p, r)
    PROVE  /\ LifeRoute(c, NULL) = LifeRoute(b, p)
           /\ LifeDead(c) = LifeDead(b)
           /\ LifeChanged(c, NULL) = LifeChanged(b, p)
<1> DEFINE k == p.key
<1>0. \A j \in Key : /\ c.ok[j] = IF j = k THEN r ELSE b.ok[j]
                     /\ c.garbage[j] = b.garbage[j]
  BY SMTT(30) DEF Enters
<1>1. /\ Learned(c) = Learned(b) \cup {k}
      /\ k \notin Learned(b) \cup Items(b.garbage)
      /\ \A j \in Learned(b) : Used(c, j) = Used(b, j)
      /\ Used(c, k) = UsedPending(p)
  BY <1>0 DEF Learned, Used, UsedPending, Items
<1>2. Items(c.garbage) = Items(b.garbage)
  BY <1>0 DEF Items
<1>3. Route(c, k).changed
  BY <1>0, <1>1, RouteOfTable, SMTT(30)
<1>4. \A j \in Learned(b) \cup Items(b.garbage) : Route(c, j) = Route(b, j)
  BY <1>0, <1>1 DEF Learned, Items, Route
<1> HIDE DEF k
<1>5. ASSUME NEW d \in Dest PROVE LifeRoute(c, NULL)[d] = LifeRoute(b, p)[d]
  <2>1. \A x : x \in InUse(c, NULL, d) <=> x \in InUse(b, p, d)
    BY <1>1, InUseIs DEF k
  <2>2. InUse(c, NULL, d) = InUse(b, p, d)
    BY <2>1, ZenonT(30)
  <2> QED
    BY <2>2, RouteIs
<1>6. ASSUME NEW d \in Dest PROVE LifeDead(c)[d] = LifeDead(b)[d]
  <2>1. \A n : n \in LifeDead(c)[d] <=> n \in LifeDead(b)[d]
    BY <1>2, DeadIs
  <2> QED
    BY <2>1, ZenonT(30)
<1>7. ASSUME NEW d \in Dest PROVE LifeChanged(c, NULL)[d] = LifeChanged(b, p)[d]
  <2>1. \A n : n \in LifeChanged(c, NULL)[d] <=> n \in LifeChanged(b, p)[d]
    <3>1. Learned(c) \cup Items(c.garbage) = Learned(b) \cup Items(b.garbage) \cup {k}
      BY <1>1, <1>2
    <3> QED
      BY <1>3, <1>4, <3>1, ChangedIs, SMTT(30) DEF k
  <2> QED
    BY <2>1, ZenonT(30)
<1>8. LifeDead(c) = LifeDead(b)
  BY <1>6, DeadFunctions, Pointwise
<1> QED
  BY <1>5, <1>7, <1>8, LifeFunctions, Pointwise

----------------------------------------------------------------------------
(***************************************************************************)
(* The steps of RouteLife, from what a step of the daemon does to its      *)
(* tables.                                                                 *)
(***************************************************************************)
Lives == pc # "exited" /\ pc' # "exited"

\* What RouteLife sees stays the same.
LEMMA Unseen ==
    ASSUME LifeRoute(db', pending') = LifeRoute(db, pending), LifeDead(db') = LifeDead(db),
           LifeChanged(db', pending') = LifeChanged(db, pending),
           pc' = "exited" <=> pc = "exited"
    PROVE  [Life!Next]_(Life!life)
<1>1. (pc # "exited")' = (pc # "exited")
  OBVIOUS
<1> QED
  BY <1>1, Zenon DEF Life!life

\* Garbage is removed.
LEMMA ForgetStep ==
    ASSUME GoodDb(db), GoodDb(db'), Lives, pending = NULL, pending' = NULL,
           \A k \in Key : db'.ok[k] = db.ok[k] /\ db'.garbage[k] \in {NULL, db.garbage[k]}
    PROVE  Life!Next
<1>1. /\ LifeRoute(db', NULL) = LifeRoute(db, NULL)
      /\ \A d \in Dest : LifeDead(db')[d] \subseteq LifeDead(db)[d]
      /\ LifeChanged(db', NULL) =
           [d \in Dest |-> LifeChanged(db, NULL)[d] \ (LifeDead(db)[d] \ LifeDead(db')[d])]
  BY ForgetTables
<1>2. (pc # "exited")' = (pc # "exited")
  BY DEF Lives
<1>3. Life!Forget
  BY <1>1, <1>2, Zenon DEF Life!Forget
<1> QED
  BY <1>3 DEF Life!Next

\* Every route is marked unchanged.
LEMMA AdvertiseStep ==
    ASSUME db \in Db, GoodDb(db), Lives, pending = NULL, pending' = NULL,
           db' = rip_db_mark_all_routes_as_unchanged(db)
    PROVE  Life!Next
<1>1. \A k \in Key : /\ db'.ok[k] = NULL <=> db.ok[k] = NULL
                     /\ db'.garbage[k] = NULL <=> db.garbage[k] = NULL
                     /\ db'.ok[k] # NULL => /\ ~db'.ok[k].changed
                                            /\ db'.ok[k].is_local = db.ok[k].is_local
                                            /\ db'.ok[k].metric = db.ok[k].metric
                     /\ db'.garbage[k] # NULL => ~db'.garbage[k].changed
  BY MarkEffect
<1>2. /\ Learned(db') = Learned(db) /\ Items(db'.garbage) = Items(db.garbage)
      /\ \A k \in Learned(db) : db'.ok[k].metric = db.ok[k].metric
      /\ \A k \in Learned(db') \cup Items(db'.garbage) : ~Route(db', k).changed
  BY <1>1 DEF Learned, Items, Route
<1>3. LifeRoute(db', NULL) = LifeRoute(db, NULL)
  BY <1>2, SameRoutes
<1>4. LifeDead(db') = LifeDead(db)
  BY <1>2 DEF LifeDead
<1>5. LifeChanged(db', NULL) = [d \in Dest |-> {}]
  BY <1>2, NoNews
<1>6. (pc # "exited")' = (pc # "exited")
  BY DEF Lives
<1>7. Life!Advertise
  BY <1>3, <1>4, <1>5, <1>6, Zenon DEF Life!Advertise
<1> QED
  BY <1>7 DEF Life!Next

\* Empty tables are no routes at all.
LEMMA EmptyTables ==
    /\ LifeRoute(rip_db_init, NULL) = [d \in Dest |-> NULL]
    /\ LifeDead(rip_db_init) = [d \in Dest |-> {}]
    /\ LifeChanged(rip_db_init, NULL) = [d \in Dest |-> {}]
<1>1. Learned(rip_db_init) = {} /\ Items(rip_db_init.garbage) = {}
  BY DEF Learned, Items, rip_db_init, HashmapNew
<1>2. \A d \in Dest : LifeRoute(rip_db_init, NULL)[d] = NULL
  <2> SUFFICES ASSUME NEW d \in Dest PROVE LifeRoute(rip_db_init, NULL)[d] = NULL
    OBVIOUS
  <2>1. \A r : r \notin InUse(rip_db_init, NULL, d)
    BY <1>1, InUseIs
  <2>2. InUse(rip_db_init, NULL, d) = {}
    BY <2>1
  <2> QED
    BY <2>2, RouteIs
<1>3. \A d \in Dest : LifeDead(rip_db_init)[d] = {}
  BY <1>1 DEF LifeDead
<1>4. LifeChanged(rip_db_init, NULL) = [d \in Dest |-> {}]
  BY <1>1, NoNews
<1>5. /\ LifeRoute(rip_db_init, NULL) = [d \in Dest |-> LifeRoute(rip_db_init, NULL)[d]]
      /\ LifeDead(rip_db_init) = [d \in Dest |-> LifeDead(rip_db_init)[d]]
  BY LifeFunctions, Zenon
<1>6. LifeRoute(rip_db_init, NULL) = [d \in Dest |-> NULL]
  BY <1>2, <1>5, Zenon
<1>7. LifeDead(rip_db_init) = [d \in Dest |-> {}]
  BY <1>3, <1>5, Zenon
<1> QED
  BY <1>4, <1>6, <1>7

\* A route of LearnedKeys enters: the first one for its network, or a better one.
LEMMA UseStep ==
    ASSUME GoodDb(db), GoodDb(db'), Lives, pending = NULL, pending' # NULL,
           NEW k \in LearnedKeys, k \in Key, pending'.key = k,
           Ntohl(pending'.desc.metric) \in 2..INFINITY_METRIC,
           \A j \in Key : /\ db'.ok[j] = IF j = k THEN NULL ELSE db.ok[j]
                          /\ db'.garbage[j] = IF j = k THEN NULL ELSE db.garbage[j],
           \A j \in Learned(db) : j.dst = k.dst => j = k,
           k \in Learned(db) =>
             /\ Ntohl(pending'.desc.metric) < Ntohl(db.ok[k].metric)
             /\ Ntohl(db.ok[k].metric) \in Nat
    PROVE  Life!Next
<1> DEFINE m == Ntohl(pending'.desc.metric)
           e == k.dst
           n == k.nh
<1>1. /\ LifeRoute(db', pending') = [LifeRoute(db, NULL) EXCEPT ![e] = UsedPending(pending')]
      /\ LifeDead(db') = [LifeDead(db) EXCEPT ![e] = @ \ {n}]
      /\ LifeChanged(db', pending') = [LifeChanged(db, NULL) EXCEPT ![e] = @ \cup {n}]
  BY UseTables
<1>2. UsedPending(pending') = [nh |-> n, metric |-> m]
  BY DEF UsedPending
<1>3. e \in Dest /\ n \in Nbr
  BY DEF LearnedKeys, LearnedKey
<1>4. (pc # "exited")' = (pc # "exited") /\ pc # "exited"
  BY DEF Lives
<1>5. k \in Learned(db) => LifeRoute(db, NULL)[e] = Used(db, k)
  BY <1>3, OnlyRoute, SMTT(30)
<1>6. k \notin Learned(db) => LifeRoute(db, NULL)[e] = NULL
  <2> SUFFICES ASSUME k \notin Learned(db) PROVE LifeRoute(db, NULL)[e] = NULL
    OBVIOUS
  <2>1. \A r : r \notin InUse(db, NULL, e)
    BY InUseIs
  <2>2. InUse(db, NULL, e) = {}
    BY <2>1
  <2> QED
    BY <1>3, <2>2, RouteIs, SMTT(30)
<1>7. Life!Use(e, n, m)
  BY <1>1, <1>2, <1>4, Zenon DEF Life!Use
<1>8. CASE k \in Learned(db)
  <2>1. LifeRoute(db, NULL)[e] = [nh |-> n, metric |-> Ntohl(db.ok[k].metric)]
    BY <1>5, <1>8, SMTT(30) DEF Used
  <2>2. LifeRoute(db, NULL)[e] # NULL
    BY <1>3, <1>8, <2>1, NullAssumption, SMTT(30)
  <2>3. LifeRoute(db, NULL)[e].nh = n /\ m < LifeRoute(db, NULL)[e].metric
    BY <1>8, <2>1
  <2>4. Life!Improve(e, m)
    BY <1>7, <2>2, <2>3, Zenon DEF Life!Improve
  <2> QED
    BY <1>3, <2>4, Zenon DEF Life!Next
<1>9. CASE k \notin Learned(db)
  <2>1. Life!Learn(e, n, m)
    BY <1>6, <1>7, <1>9, Zenon DEF Life!Learn
  <2> QED
    BY <1>3, <2>1, Zenon DEF Life!Next
<1> QED
  BY <1>8, <1>9, ZenonT(30)

\* A route in use moves to the garbage.
LEMMA DieStep ==
    ASSUME GoodDb(db), GoodDb(db'), Lives, pending = NULL, pending' = NULL,
           NEW k \in Learned(db), k \in LearnedKeys, NEW r, r # NULL, r.changed,
           Ntohl(db.ok[k].metric) \in Nat,
           \A j \in Key : /\ db'.ok[j] = IF j = k THEN NULL ELSE db.ok[j]
                          /\ db'.garbage[j] = IF j = k THEN r ELSE db.garbage[j],
           \A j \in Learned(db) : j.dst = k.dst => j = k
    PROVE  Life!Next
<1> DEFINE e == k.dst
           n == k.nh
<1>1. /\ LifeRoute(db, NULL)[e] = Used(db, k)
      /\ LifeRoute(db', NULL) = [LifeRoute(db, NULL) EXCEPT ![e] = NULL]
      /\ LifeDead(db') = [LifeDead(db) EXCEPT ![e] = @ \cup {n}]
      /\ LifeChanged(db', NULL) = [LifeChanged(db, NULL) EXCEPT ![e] = @ \cup {n}]
  BY DieTables
<1>2. e \in Dest /\ n \in Nbr
  BY DEF LearnedKeys, LearnedKey
<1>3. (pc # "exited")' = (pc # "exited")
  BY DEF Lives
<1>4. LifeRoute(db, NULL)[e] # NULL /\ LifeRoute(db, NULL)[e].nh = n
  BY <1>1, <1>2, NullAssumption DEF Used
<1>5. Life!Die(e)
  BY <1>1, <1>3, <1>4, Zenon DEF Life!Die
<1> QED
  BY <1>2, <1>5, Zenon DEF Life!Next

\* The process ends: its tables are empty.
LEMMA EndStep ==
    ASSUME Gone, pc # "exited"
    PROVE  Life!Next
<1>1. /\ LifeRoute(rip_db_init, NULL) = [d \in Dest |-> NULL]
      /\ LifeDead(rip_db_init) = [d \in Dest |-> {}]
      /\ LifeChanged(rip_db_init, NULL) = [d \in Dest |-> {}]
  BY EmptyTables
<1>2. db' = rip_db_init /\ pending' = NULL /\ pc' = "exited"
  BY DEF Gone
<1>3. (pc # "exited")' = FALSE
  BY <1>2
<1>4. Life!End
  BY <1>1, <1>2, <1>3 DEF Life!End
<1> QED
  BY <1>4 DEF Life!Next

----------------------------------------------------------------------------
(***************************************************************************)
(* Each step of the daemon is a step of RouteLife or is not seen.          *)
(***************************************************************************)
\* What the daemon's invariants say of the routes of a network.
LEMMA OneRoute ==
    ASSUME TypeOK, KernelInv, ~ExternalDrop, NEW k \in Key,
           k \in Learned(db) \/ \A r \in kernel : ~(r.dst = k.dst /\ r.prio = 20)
    PROVE  \A j \in Learned(db) : j.dst = k.dst => j = k
<1> SUFFICES ASSUME NEW j \in Learned(db), j.dst = k.dst PROVE j = k
  OBVIOUS
<1>1. \A i \in Learned(db) : i \in Key /\ RouteOf(i) \in kernel
  BY OwnedRoutes DEF KernelInv, RoutesOf, Learned
<1>2. /\ RouteOf(j).dst = k.dst /\ RouteOf(j).prio = 20
      /\ RouteOf(k).dst = k.dst /\ RouteOf(k).prio = 20
  BY DEF RouteOf
<1>3. k \in Learned(db)
  BY <1>1, <1>2
<1>4. RouteOf(j) = RouteOf(k)
  BY <1>1, <1>2, <1>3 DEF KernelInv, KernelUnique
<1> QED
  BY <1>1, <1>3, <1>4, RouteOfInjective

\* Metrics in host order: stored ones, and the one an entry gives a route.
LEMMA HostMetric ==
    /\ \A m \in Nat : Ntohl(Htonl(m)) = m
    /\ \A desc \in Desc : Ntohl(desc.metric) \in Nat /\ desc.metric = Htonl(Ntohl(desc.metric))
<1>1. \A m \in Nat : Ntohl(Htonl(m)) = m
  BY DEF Ntohl, Htonl
<1>2. ASSUME NEW desc \in Desc
      PROVE  Ntohl(desc.metric) \in Nat /\ desc.metric = Htonl(Ntohl(desc.metric))
  <2>1. PICK m \in 1..INFINITY_METRIC : desc.metric = Htonl(m)
    BY DEF Desc, NetMetric
  <2>2. m \in Nat
    BY InfinityType
  <2> QED
    BY <1>1, <2>1, <2>2
<1> QED
  BY <1>1, <1>2

\* A larger stored metric is a larger metric, although both are in network order.
LEMMA StoredOrder ==
    ASSUME NEW a \in Nat, NEW b \in Nat, NEW x, x = Htonl(b), x > Htonl(a)
    PROVE  a < b
BY DEF Htonl

\* The metric of an entry, one hop further, is at least 2.
LEMMA EntryMetric ==
    ASSUME NEW dst, NEW wire \in WireMetric, is_entry_valid(dst, Ntohl(wire))
    PROVE  update_metric(Ntohl(wire)) \in 2..INFINITY_METRIC
<1>1. PICK m \in 0..(INFINITY_METRIC + 1) : wire = Htonl(m)
  BY DEF WireMetric
<1>2. Ntohl(wire) \in Nat
  BY <1>1, HostMetric, InfinityType
<1> QED
  BY <1>2, InfinityType DEF is_entry_valid, is_metric_valid, update_metric

\* An entry is learned, improves its route, or takes a dead route away.
LEMMA EntryLife ==
    ASSUME TypeOK, FullDbInv, FullDbInv', KernelInv, ~ExternalDrop, ~AddFails, handle_ripv2_entry
    PROVE  [Life!Next]_(Life!life)
<1>1. /\ pc = "entry" /\ rx.nbr \in Nbr /\ pending = NULL
      /\ db \in Db /\ GoodDb(db) /\ GoodDb(db')
  BY NoPending, ZenonT(30) DEF handle_ripv2_entry, TypeOK, FullDbInv
<1>2. PICK dst \in Dest \cup {BadDest}, wire \in WireMetric :
          IF ~is_entry_valid(dst, Ntohl(wire))
          THEN /\ rx' = NextEntry
               /\ UNCHANGED <<pc, db, kernel, pending>>
          ELSE LET k == LearnedKey(rx.nbr, dst)
                   desc == build_route_description(Htonl(update_metric(Ntohl(wire))))
               IN  IF db.ok[k] # NULL
                   THEN handle_ok_route_update(k, desc)
                   ELSE handle_non_existing_route(k, desc, rip_db_remove(db, k), kernel)
  BY DEF handle_ripv2_entry
<1>3. CASE UNCHANGED <<pc, db, kernel, pending>>
  BY <1>3, Unseen, ZenonT(30)
<1>4. CASE is_entry_valid(dst, Ntohl(wire)) /\ ~UNCHANGED <<pc, db, kernel, pending>>
  <2> DEFINE k == LearnedKey(rx.nbr, dst)
             m == update_metric(Ntohl(wire))
             desc == build_route_description(Htonl(m))
             old == rip_rtnl_route_create(k, db.ok[k])
  <2>1. k \in LearnedKeys /\ k \in Key
    BY <1>1, <1>4, LearnedKeyType DEF is_entry_valid, Key
  <2>2. desc \in Desc /\ desc.metric = Htonl(m)
    BY <1>4, ReceivedMetric, ZenonT(30) DEF build_route_description, Desc
  <2>3. m \in 2..INFINITY_METRIC
    BY <1>4, EntryMetric, ZenonT(30)
  <2>4. \/ db.ok[k] # NULL /\ db.ok[k].metric > desc.metric
           /\ handle_non_existing_route(k, desc, rip_db_remove(db, k), kernel \ {old})
        \/ db.ok[k] = NULL
           /\ handle_non_existing_route(k, desc, rip_db_remove(db, k), kernel)
    BY <1>2, <1>4, ZenonT(30) DEF handle_ok_route_update, rip_route_delete_route
  <2>5. db.ok[k] # NULL <=> k \in Learned(db)
    BY <1>1, <2>1, Zenon DEF GoodDb, GoodRoute, Learned
  <2>6. db.ok[k] # NULL => db.ok[k] \in Desc /\ old = RouteOf(k)
    <3>1. db.ok[k] # NULL => db.ok[k] \in Desc
      BY <1>1, <2>1, DbFields
    <3> QED
      BY <3>1, RouteCreated
  <2>7. rip_rtnl_route_create(k, desc) = RouteOf(k)
    BY <2>2, RouteCreated
  <2>8. [key |-> k, desc |-> desc] # NULL
    <3>1. [key |-> k, desc |-> desc] \in [key : LearnedKeys, desc : Desc]
      BY <2>1, <2>2
    <3> QED
      BY <3>1, NullAssumption
  <2>9. Ntohl(desc.metric) = m
    BY <2>2, <2>3, HostMetric, InfinityType
  <2>10. k \in Learned(db) =>
            /\ Ntohl(desc.metric) < Ntohl(db.ok[k].metric)
            /\ Ntohl(db.ok[k].metric) \in Nat
    <3> SUFFICES ASSUME k \in Learned(db)
                 PROVE  m < Ntohl(db.ok[k].metric) /\ Ntohl(db.ok[k].metric) \in Nat
      BY <2>9, ZenonT(30)
    <3>1. db.ok[k].metric > Htonl(m)
      BY <2>2, <2>4, <2>5, ZenonT(30)
    <3>2. Ntohl(db.ok[k].metric) \in Nat /\ db.ok[k].metric = Htonl(Ntohl(db.ok[k].metric))
      BY <2>5, <2>6, HostMetric
    <3>3. m \in Nat
      BY <2>3, InfinityType
    <3> QED
      BY <3>1, <3>2, <3>3, StoredOrder, ZenonT(30)
  <2> HIDE DEF k, m, desc, old
  <2>11. /\ db' = rip_db_remove(db, k) /\ Lives
         /\ \A j \in Key : /\ db'.ok[j] = IF j = k THEN NULL ELSE db.ok[j]
                           /\ db'.garbage[j] = IF j = k THEN NULL ELSE db.garbage[j]
    <3>1. db' = rip_db_remove(db, k) /\ pc' \in {"db_add", "entry"}
      BY <2>4, ZenonT(30) DEF handle_non_existing_route
    <3> QED
      BY <1>1, <2>1, <3>1, RemoveEffect, ZenonT(30) DEF Lives
  <2>12. CASE pending' = [key |-> k, desc |-> desc]
    <3>1. k \in Learned(db) \/ \A r \in kernel : ~(r.dst = k.dst /\ r.prio = 20)
      <4> SUFFICES ASSUME k \notin Learned(db)
                   PROVE  ~AlreadyExists(kernel, RouteOf(k))
        BY DEF AlreadyExists, RouteOf
      <4> QED
        BY <1>1, <2>4, <2>5, <2>7, <2>8, <2>12, ZenonT(30) DEF handle_non_existing_route
    <3>2. \A j \in Learned(db) : j.dst = k.dst => j = k
      BY <2>1, <3>1, OneRoute
    <3>3. pending' # NULL /\ pending'.key = k /\ pending'.desc = desc
      BY <2>8, <2>12, ZenonT(30)
    <3>4. Life!Next
      BY <1>1, <2>1, <2>3, <2>9, <2>10, <2>11, <3>2, <3>3, UseStep, SMTT(30)
    <3> QED
      BY <3>4, ZenonT(30)
  <2>13. CASE pending' = pending
    <3>1. k \notin Learned(db)
      <4> SUFFICES ASSUME k \in Learned(db) PROVE FALSE
        BY ZenonT(30)
      <4>1. AlreadyExists(kernel \ {RouteOf(k)}, RouteOf(k))
        BY <1>1, <2>4, <2>5, <2>6, <2>7, <2>8, <2>13, ZenonT(30) DEF handle_non_existing_route
      <4>2. RouteOf(k) \in kernel
        BY OwnedRoutes, ZenonT(30) DEF KernelInv, RoutesOf
      <4> QED
        BY <4>1, <4>2 DEF AlreadyExists, KernelInv, KernelUnique
    <3>2. \A j \in Key : db'.ok[j] = db.ok[j] /\ db'.garbage[j] \in {NULL, db.garbage[j]}
      BY <2>5, <2>11, <3>1, ZenonT(30)
    <3>3. Life!Next
      BY <1>1, <2>11, <2>13, <3>2, ForgetStep, ZenonT(30)
    <3> QED
      BY <3>3
  <2> QED
    BY <2>4, <2>12, <2>13, Zenon DEF handle_non_existing_route
<1> QED
  BY <1>2, <1>3, <1>4, ZenonT(30)

\* A pending route enters the database: it was in use already.
LEMMA AddLife ==
    ASSUME TypeOK, FullDbInv, FullDbInv', ~OutOfMemory, handle_non_existing_route_db_add
    PROVE  [Life!Next]_(Life!life)
<1> DEFINE k == pending.key
           added == [pending.desc EXCEPT !.changed = TRUE]
<1>1. /\ pc = "db_add" /\ pc' = "entry" /\ pending # NULL /\ pending' = NULL
      /\ db' = rip_db_add(db, k, pending.desc)
      /\ k \in LearnedKeys /\ k \in Key /\ pending.desc \in Desc /\ ~pending.desc.is_local
      /\ db.ok[k] = NULL /\ db.garbage[k] = NULL
      /\ db \in Db /\ GoodDb(db) /\ GoodDb(db')
  BY ZenonT(30) DEF handle_non_existing_route_db_add, TypeOK, FullDbInv, PendingInv, Key
<1>2. /\ added \in Desc /\ added # NULL /\ added.changed /\ ~added.is_local
      /\ added.metric = pending.desc.metric
  BY <1>1, DescNotNull, ZenonT(30) DEF Desc
<1> HIDE DEF added
<1>3. Enters(db, db', pending, added)
  BY <1>1, DbFields DEF rip_db_add, HashmapSet, added, Enters
<1>4. /\ LifeRoute(db', NULL) = LifeRoute(db, pending)
      /\ LifeDead(db') = LifeDead(db)
      /\ LifeChanged(db', NULL) = LifeChanged(db, pending)
  BY <1>1, <1>2, <1>3, AddTables, ZenonT(30)
<1> QED
  BY <1>1, <1>4, Unseen, ZenonT(30)

\* A route is counted, or it expires.
LEMMA TimeoutLife ==
    ASSUME TypeOK, FullDbInv, FullDbInv', KernelInv, ~ExternalDrop, ~OutOfMemory,
           rip_t_timeout_route
    PROVE  [Life!Next]_(Life!life)
<1>1. PICK k \in Learned(db) : timeout_count(k) \/ rip_route_timeout_expired(k)
  BY DEF rip_t_timeout_route
<1>2. /\ pc = "timeout" /\ pending = NULL /\ pending' = NULL
      /\ db \in Db /\ GoodDb(db) /\ GoodDb(db')
  BY NoPending DEF rip_t_timeout_route, TypeOK, FullDbInv
<1>3. k \in Key /\ db.ok[k] \in Desc /\ db.ok[k] # NULL /\ Aged(k) \in Desc
      /\ Aged(k) = [db.ok[k] EXCEPT !.timeout_cnt = @ + TIMEOUT_PERIOD_TIMER]
  BY AgedType
<1>4. k \in LearnedKeys /\ db.garbage[k] = NULL
  BY <1>2, <1>3 DEF GoodDb, GoodRoute, Learned
<1>5. CASE timeout_count(k)
  <2>1. /\ Aged(k).is_local = db.ok[k].is_local /\ Aged(k) # NULL
        /\ Aged(k).metric = db.ok[k].metric /\ Aged(k).changed = db.ok[k].changed
    BY <1>3, DescNotNull DEF Desc
  <2>2. \A j \in Key : /\ db'.ok[j] = IF j = k THEN Aged(k) ELSE db.ok[j]
                       /\ db'.garbage[j] = db.garbage[j]
    BY <1>2, <1>5, DbFields DEF timeout_count, HashmapSet
  <2>3. Learned(db') = Learned(db) /\ Items(db'.garbage) = Items(db.garbage)
    BY <1>3, <2>1, <2>2, ZenonT(30) DEF Learned, Items
  <2>4. \A j \in Learned(db) : db'.ok[j].metric = db.ok[j].metric
    BY <2>1, <2>2 DEF Learned
  <2>5. \A j \in Learned(db) \cup Items(db.garbage) : Route(db', j).changed <=> Route(db, j).changed
    BY <1>3, <2>1, <2>2, ZenonT(30) DEF Learned, Items, Route
  <2>6. pc' = pc
    BY <1>5 DEF timeout_count
  <2> QED
    BY <1>2, <2>3, <2>4, <2>5, <2>6, SameRoutes, SameNews, Unseen, SMTT(30)
<1>6. CASE rip_route_timeout_expired(k)
  <2> DEFINE dead == [Aged(k) EXCEPT !.changed = TRUE,
                                     !.metric = Htonl(INFINITY_METRIC),
                                     !.in_routing_table = FALSE, !.gc_age = 0]
  <2>1. rip_rtnl_route_create(k, db.ok[k]) = RouteOf(k)
    BY <1>3, RouteCreated
  <2>2. RouteOf(k) \in kernel
    BY OwnedRoutes DEF KernelInv, RoutesOf
  <2>3. db' = rip_db_move_to_garbage(db, k, dead) /\ pc' = "timeout"
    BY <1>4, <1>6, <2>1, <2>2 DEF rip_route_timeout_expired, rip_route_delete_fails,
       rip_db_move_to_garbage_fails
  <2>4. dead \in Desc /\ dead # NULL /\ dead.changed
    <3>1. dead \in Desc
      BY <1>3, InfiniteType, ZenonT(30) DEF Desc
    <3> QED
      BY <1>3, <3>1, DescNotNull, ZenonT(30) DEF Desc
  <2> HIDE DEF dead
  <2>5. \A j \in Key : /\ db'.ok[j] = IF j = k THEN NULL ELSE db.ok[j]
                       /\ db'.garbage[j] = IF j = k THEN dead ELSE db.garbage[j]
    BY <1>2, <2>3, DbFields DEF rip_db_move_to_garbage, HashmapSet, HashmapDelete
  <2>6. \A j \in Learned(db) : j.dst = k.dst => j = k
    BY <1>3, OneRoute
  <2>7. Ntohl(db.ok[k].metric) \in Nat
    BY <1>3, HostMetric
  <2>8. Lives
    BY <1>2, <2>3, SMTT(30) DEF Lives
  <2>9. Life!Next
    BY <1>2, <1>4, <2>4, <2>5, <2>6, <2>7, <2>8, DieStep
  <2> QED
    BY <2>9
<1> QED
  BY <1>1, <1>5, <1>6

\* Garbage that is due is forgotten.
LEMMA GcLife ==
    ASSUME TypeOK, FullDbInv, FullDbInv', rip_t_gc_expired
    PROVE  [Life!Next]_(Life!life)
<1> DEFINE due(k) == db.garbage[k] # NULL /\ has_time_passed(db.garbage[k])
           kept(map) == [k \in Key |-> IF due(k) THEN NULL ELSE map[k]]
<1>1. /\ pc = "dispatch" /\ pc' \in {"dispatch", "panic"} /\ pending' = pending
      /\ db' = db \/ db' = [db EXCEPT !.ok = kept(@), !.garbage = kept(@)]
  BY DEF rip_t_gc_expired, TimerCallback, Serving, PANIC
<1>2. /\ pending = NULL /\ pending' = NULL /\ db \in Db /\ GoodDb(db) /\ GoodDb(db')
      /\ Lives
  BY <1>1, NoPending DEF TypeOK, FullDbInv, Lives
<1>3. CASE db' = db
  BY <1>1, <1>3, Unseen
<1>4. CASE db' = [db EXCEPT !.ok = kept(@), !.garbage = kept(@)]
  <2>1. db'.ok = kept(db.ok) /\ db'.garbage = kept(db.garbage)
    BY <1>2, <1>4, DbFields, SMTT(30)
  <2>2. \A k \in Key : due(k) => db.ok[k] = NULL
    BY <1>2 DEF GoodDb, GoodRoute
  <2> HIDE DEF due
  <2>3. \A k \in Key : db'.ok[k] = db.ok[k] /\ db'.garbage[k] \in {NULL, db.garbage[k]}
    BY <2>1, <2>2
  <2>4. Life!Next
    BY <1>2, <2>3, ForgetStep, ZenonT(30)
  <2> QED
    BY <2>4
<1> QED
  BY <1>1, <1>3, <1>4

\* An advertised network is not a learned route.
LEMMA StartupLife ==
    ASSUME TypeOK, FullDbInv, add_advertised_network_to_db
    PROVE  [Life!Next]_(Life!life)
<1> DEFINE k == LocalKey(AdvNetworks[n_adv + 1])
           desc == [metric |-> Htonl(1), changed |-> FALSE, is_local |-> TRUE,
                    in_routing_table |-> FALSE, timeout_cnt |-> 0, gc_age |-> 0]
           added == [desc EXCEPT !.changed = TRUE]
<1>1. k \notin LearnedKeys
  <2>1. k.nh = NULL
    BY DEF LocalKey
  <2>2. \A j \in LearnedKeys : j.nh \in Nbr
    BY DEF LearnedKeys, LearnedKey
  <2> QED
    BY <2>1, <2>2, TopologyAssumption
<1>2. /\ pc = "begin" /\ pc' \in {"begin", "returned"} /\ pending' = pending
      /\ db' = db \/ db' = rip_db_add(db, k, desc)
  BY DEF add_advertised_network_to_db, local
<1>3. added.is_local
  OBVIOUS
<1> HIDE DEF k, desc
<1>4. \A j \in Key : /\ db'.garbage[j] = db.garbage[j]
                     /\ db'.ok[j] # db.ok[j] => j = k /\ db'.ok[j] = added
  <2>1. CASE db' = db
    BY <2>1
  <2>2. CASE db' = rip_db_add(db, k, desc)
    <3>1. db'.garbage = db.garbage /\ \A j \in Key : db'.ok[j] = IF j = k THEN added ELSE db.ok[j]
      BY <2>2, DbFields DEF rip_db_add, HashmapSet, TypeOK
    <3> QED
      BY <3>1, ZenonT(30)
  <2> QED
    BY <1>2, <2>1, <2>2, ZenonT(30)
<1> HIDE DEF added
<1>5. GoodDb(db)
  BY SMTT(30) DEF FullDbInv
<1>6. Learned(db') = Learned(db) /\ Items(db'.garbage) = Items(db.garbage)
  BY <1>1, <1>3, <1>4, <1>5 DEF Learned, Items, GoodDb, GoodRoute
<1>7. \A j \in Learned(db) : j \in Key /\ j # k
  BY <1>1, <1>5, LearnedAreKeys DEF Learned
<1>8. \A j \in Items(db.garbage) : j \in Key /\ j # k
  BY <1>1, <1>5, LearnedAreKeys DEF Items
<1>9. \A j \in Learned(db) \cup Items(db.garbage) :
         db'.ok[j] = db.ok[j] /\ Route(db', j) = Route(db, j)
  BY <1>4, <1>7, <1>8 DEF Route
<1> QED
  <2>1. LifeRoute(db', pending) = LifeRoute(db, pending)
    BY <1>6, <1>9, SameRoutes, ZenonT(30)
  <2>2. LifeDead(db') = LifeDead(db) /\ LifeChanged(db', pending) = LifeChanged(db, pending)
    BY <1>6, <1>9, SameNews, ZenonT(30)
  <2> QED
    BY <1>2, <2>1, <2>2, Unseen, ZenonT(30)

\* Ages are not seen.
LEMMA TickLife ==
    ASSUME TypeOK, FullDbInv, Tick
    PROVE  [Life!Next]_(Life!life)
<1>1. \A k \in Key : /\ db'.ok[k] = db.ok[k]
                     /\ db'.garbage[k] = NULL <=> db.garbage[k] = NULL
                     /\ db.garbage[k] # NULL => db'.garbage[k].changed = db.garbage[k].changed
  BY TickEffect
<1>2. Learned(db') = Learned(db) /\ Items(db'.garbage) = Items(db.garbage)
  BY <1>1 DEF Learned, Items
<1>3. \A k \in Learned(db) : db'.ok[k].metric = db.ok[k].metric
  BY <1>1 DEF Learned
<1>4. \A k \in Learned(db) \cup Items(db.garbage) : Route(db', k).changed <=> Route(db, k).changed
  BY <1>1 DEF Learned, Items, Route
<1>5. pc' = pc /\ pending' = pending
  BY DEF Tick, local
<1> QED
  <2>1. LifeRoute(db', pending) = LifeRoute(db, pending)
    BY <1>2, <1>3, SameRoutes, ZenonT(30)
  <2>2. LifeDead(db') = LifeDead(db) /\ LifeChanged(db', pending) = LifeChanged(db, pending)
    BY <1>2, <1>4, SameNews, ZenonT(30)
  <2> QED
    BY <1>5, <2>1, <2>2, Unseen, ZenonT(30)

\* Every step.
LEMMA LifeStep ==
    ASSUME TypeOK, FullDbInv, FullDbInv', KernelInv, ~ExternalDrop, ~OutOfMemory, ~AddFails,
           [Next]_vars
    PROVE  [Life!Next]_(Life!life)
<1> DEFINE Quiet ==
      \/ rip_init_timers \/ rip_begin_fails \/ event_dispatcher_poll \/ dispatch_done
      \/ \E i \in Ifc : rip_handle_response(i) \/ rip_handle_other_message(i)
      \/ rip_handle_response_done
      \/ \E t \in Timer : rip_t_oneshot_expired(t)
      \/ rip_t_timeout_expired \/ rip_t_timeout_done
      \/ sig_handler \/ UNCHANGED vars
<1>1. CASE Quiet
  <2>1. db' = db /\ pending' = pending /\ (pc' = "exited" <=> pc = "exited")
    BY <1>1 DEF rip_init_timers, rip_begin_fails, event_dispatcher_poll, dispatch_done,
       rip_handle_response, rip_handle_other_message, rip_handle_response_done, Serving,
       rip_t_oneshot_expired, rip_t_timeout_expired, TimerCallback, PANIC,
       rip_t_timeout_done, sig_handler, vars, local
  <2> QED
    BY <2>1, Unseen
<1>2. ASSUME pc \in {"check", "dispatch"}, pc' # "exited", pending' = pending,
             db' = db \/ db' = rip_db_mark_all_routes_as_unchanged(db)
      PROVE  [Life!Next]_(Life!life)
  <2>1. pending = NULL /\ pending' = NULL /\ db \in Db /\ GoodDb(db) /\ Lives
    BY <1>2, NoPending DEF TypeOK, FullDbInv, Lives
  <2>2. CASE db' = db
    BY <1>2, <2>2, Unseen
  <2>3. CASE db' = rip_db_mark_all_routes_as_unchanged(db)
    BY <2>1, <2>3, AdvertiseStep
  <2> QED
    BY <1>2, <2>2, <2>3, SMTT(30)
<1>3. CASE check_route_changed
  <2>1. pc = "check" /\ pc' # "exited" /\ pending' = pending
        /\ (db' = db \/ db' = rip_db_mark_all_routes_as_unchanged(db))
    BY <1>3, ZenonT(30) DEF check_route_changed, rip_send_advertisement_multicast, local
  <2> QED
    BY <1>2, <2>1
<1>4. CASE rip_t_update_expired
  <2>1. pc = "dispatch" /\ pc' # "exited" /\ pending' = pending
        /\ (db' = db \/ db' = rip_db_mark_all_routes_as_unchanged(db))
    BY <1>4, ZenonT(30) DEF rip_t_update_expired, rip_send_advertisement_multicast,
       TimerCallback, Serving, PANIC
  <2> QED
    BY <1>2, <2>1
<1>5. CASE atexit_handler \/ exit_without_cleanup
  <2>1. Gone /\ pc # "exited"
    BY <1>5 DEF atexit_handler, rip_cleanup, exit_without_cleanup
  <2>2. Life!Next
    BY <2>1, EndStep
  <2> QED
    BY <2>2
<1>6. CASE Restart
  <2>1. db' = db /\ pending' = pending /\ pc = "exited" /\ pc' = "begin"
    BY <1>6 DEF Restart, local
  <2>2. (pc # "exited")' = TRUE /\ ~(pc # "exited")
    BY <2>1
  <2>3. Life!Start
    BY <2>1, <2>2, Zenon DEF Life!Start
  <2> QED
    BY <2>3 DEF Life!Next
<1>7. CASE handle_ripv2_entry
  BY <1>7, EntryLife
<1>8. CASE handle_non_existing_route_db_add
  BY <1>8, AddLife
<1>9. CASE rip_t_timeout_route
  BY <1>9, TimeoutLife
<1>10. CASE rip_t_gc_expired
  BY <1>10, GcLife
<1>11. CASE add_advertised_network_to_db
  BY <1>11, StartupLife
<1>12. CASE Tick
  BY <1>12, TickLife
<1>13. ~KernelDrop
  BY DEF KernelDrop
<1> HIDE DEF Quiet
<1>14. CASE Quiet
  BY <1>1, <1>14
<1> QED
  <2>1. \/ Quiet \/ check_route_changed \/ rip_t_update_expired
        \/ atexit_handler \/ exit_without_cleanup \/ Restart \/ handle_ripv2_entry
        \/ handle_non_existing_route_db_add \/ rip_t_timeout_route \/ rip_t_gc_expired
        \/ add_advertised_network_to_db \/ Tick \/ KernelDrop
    BY DEF Quiet, Next, Startup, Handlers, Exit, rip_t_triggered_lock_expired, Timer,
       rip_t_request_warmup_expired
  <2> QED
    BY <1>3, <1>4, <1>5, <1>6, <1>7, <1>8, <1>9, <1>10, <1>11, <1>12, <1>13, <1>14, <2>1, Zenon

(***************************************************************************)
(* The daemon implements RouteLife, for any number of neighbours, networks *)
(* and interfaces, with signals, crashes, restarts and failing sends.  The *)
(* kernel refuses a route only because it has one, memory does not run out *)
(* and nobody else removes RIP routes: with any of these a route in use    *)
(* may vanish without having been dead.                                    *)
(***************************************************************************)
THEOREM RoutesLiveAsSpecified ==
    ASSUME ~AddFails, ~OutOfMemory, ~ExternalDrop
    PROVE  Spec => ImplementsLife
<1>1. Init => Life!Init
  <2> SUFFICES ASSUME Init PROVE Life!Init
    OBVIOUS
  <2>1. db = rip_db_init /\ pending = NULL /\ pc = "begin"
    BY DEF Init, Fresh
  <2>2. (pc # "exited") = TRUE
    BY <2>1
  <2> QED
    BY <2>1, <2>2, EmptyTables DEF Life!Init
<1>2. TypeOK /\ FullDbInv /\ FullDbInv' /\ KernelInv /\ [Next]_vars => [Life!Next]_(Life!life)
  BY LifeStep
<1> QED
  BY <1>1, <1>2, TypeCorrect, DbCorrect, KernelAgrees, PTL DEF Spec, ImplementsLife, Life!Spec
============================================================================
