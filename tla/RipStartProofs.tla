--------------------------- MODULE RipStartProofs ---------------------------
(***************************************************************************)
(* Proofs about RipStart, for every configuration file, every set of       *)
(* devices and every fault: what the parser accepts is what is written,    *)
(* and a daemon that reaches its event loop is wired as configured.        *)
(***************************************************************************)
EXTENDS RipStart, FiniteSetTheorems, SequenceTheorems, TLAPS

\* Most leaves need no arithmetic; those that do cite SMT.
USE Zenon

(***************************************************************************)
(* parse_sequence_of_mappings                                              *)
(***************************************************************************)
Lists == Seq(Mapping \cup {NULL})
SeqIdx(value, j) == Cardinality({k \in 1 .. j : IsMapping(value[k])})
Sources(value, i) == {j \in DOMAIN value : IsMapping(value[j]) /\ SeqIdx(value, j) = i}

\* The parsed list is as long as the written one, and its items are mappings.
LEMMA ParsedList ==
    ASSUME NEW value \in Lists
    PROVE  parse_sequence_of_mappings(value) \in Seq(Mapping)
           /\ DOMAIN parse_sequence_of_mappings(value) = DOMAIN value
<1> DEFINE items == parse_sequence_of_mappings(value)
<1>1. items = [i \in DOMAIN value |->
                 IF Sources(value, i) = {} THEN Blank
                 ELSE value[CHOOSE j \in Sources(value, i) : TRUE]]
  BY DEF parse_sequence_of_mappings, Sources, SeqIdx
<1>2. Len(value) \in Nat /\ DOMAIN value = 1 .. Len(value)
  BY SMT DEF Lists
<1>3. Blank \in Mapping
  BY DEF Blank, Mapping, Text
<1>4. ASSUME NEW i \in DOMAIN value PROVE items[i] \in Mapping
  <2>1. CASE Sources(value, i) = {}
    BY <1>1, <1>3, <2>1
  <2>2. CASE Sources(value, i) # {}
    <3> DEFINE j == CHOOSE j \in Sources(value, i) : TRUE
    <3>1. j \in Sources(value, i)
      BY <2>2
    <3>2. value[j] \in Mapping \cup {NULL} /\ value[j] # NULL
      BY <3>1, SMT DEF Sources, IsMapping, Lists
    <3>3. items[i] = value[j]
      BY <1>1, <2>2
    <3> QED
      BY <3>2, <3>3
  <2> QED
    BY <2>1, <2>2
<1>5. items \in [1 .. Len(value) -> Mapping]
  BY <1>1, <1>2, <1>4
<1> QED
  BY <1>2, <1>5, SMT

\* The number of mappings up to an item, when all items are mappings.
LEMMA AllMappings ==
    ASSUME NEW value \in Lists, \A k \in DOMAIN value : value[k] # NULL
    PROVE  parse_sequence_of_mappings(value) = value
<1>2. Len(value) \in Nat /\ DOMAIN value = 1 .. Len(value)
  BY SMT DEF Lists
<1>3. ASSUME NEW j \in DOMAIN value PROVE SeqIdx(value, j) = j
  <2>1. {k \in 1 .. j : IsMapping(value[k])} = 1 .. j
    BY <1>2, SMT DEF IsMapping
  <2>2. Cardinality(1 .. j) = j
    BY <1>2, FS_Interval, SMT
  <2> QED
    BY <2>1, <2>2 DEF SeqIdx
<1>4. ASSUME NEW i \in DOMAIN value PROVE Sources(value, i) = {i}
  BY <1>3 DEF Sources, IsMapping
<1>5. parse_sequence_of_mappings(value) =
        [i \in DOMAIN value |->
           IF Sources(value, i) = {} THEN Blank
           ELSE value[CHOOSE j \in Sources(value, i) : TRUE]]
  BY DEF parse_sequence_of_mappings, Sources, SeqIdx
<1>6. ASSUME NEW i \in DOMAIN value PROVE parse_sequence_of_mappings(value)[i] = value[i]
  BY <1>4, <1>5
<1>7. value = [i \in DOMAIN value |-> value[i]]
  BY SMT DEF Lists
<1> QED
  BY <1>5, <1>6, <1>7

\* An item that was skipped leaves a blank one at the end.
LEMMA SkippedLeavesBlank ==
    ASSUME NEW value \in Lists, NEW k \in DOMAIN value, value[k] = NULL
    PROVE  /\ Len(value) \in DOMAIN value
           /\ parse_sequence_of_mappings(value)[Len(value)] = Blank
<1> DEFINE n == Len(value)
<1>1. n \in Nat /\ DOMAIN value = 1 .. n /\ n \in DOMAIN value
  BY SMT DEF Lists
<1>2. ASSUME NEW j \in DOMAIN value, IsMapping(value[j]) PROVE SeqIdx(value, j) # n
  <2> DEFINE S == {i \in 1 .. j : IsMapping(value[i])}
             T == (1 .. n) \ {k}
  <2>1. IsFiniteSet(1 .. n) /\ Cardinality(1 .. n) = n
    BY <1>1, FS_Interval, SMTT(30)
  <2>2. IsFiniteSet(T) /\ Cardinality(T) = n - 1
    <3>1. k \in 1 .. n
      BY <1>1
    <3> HIDE DEF n
    <3> QED
      BY <2>1, <3>1, FS_RemoveElement
  <2>3. S \subseteq T
    BY <1>1, SMT DEF IsMapping
  <2>4. Cardinality(S) <= n - 1 /\ Cardinality(S) \in Nat
    BY <2>2, <2>3, FS_Subset, FS_CardinalityType, SMT
  <2> QED
    BY <1>1, <2>4, SMT DEF SeqIdx
<1>3. Sources(value, n) = {}
  BY <1>2 DEF Sources
<1> QED
  BY <1>1, <1>3 DEF parse_sequence_of_mappings, Sources, SeqIdx

(***************************************************************************)
(* The inductive invariant.                                                *)
(***************************************************************************)
Device == [dev : Text]
Config == [version : Text, rip_interfaces : Seq(Device) \cup {NULL},
           advertised_networks : Seq(Mapping)]

\* What the loop of parse_rip_configuration has read of document d after n
\* pairs of it: for each key the value of its last pair.
NoneOf(d, key, n) == \A i \in 1 .. n : d.pairs[i].key # key
LastOf(d, key, n, i) ==
    d.pairs[i].key = key /\ \A j \in 1 .. n : j > i => d.pairs[j].key # key
Interfaces(value) ==
    [i \in DOMAIN value |-> [dev |-> parse_sequence_of_mappings(value)[i].dev]]

VersionRead(d, c, n) ==
    \/ NoneOf(d, "version", n) /\ c.version = NULL
    \/ \E i \in 1 .. n : LastOf(d, "version", n, i) /\ d.pairs[i].value \in {c.version, "list"}
InterfacesRead(d, c, n) ==
    \/ NoneOf(d, "rip_interfaces", n) /\ c.rip_interfaces = NULL
    \/ \E i \in 1 .. n : /\ LastOf(d, "rip_interfaces", n, i)
                         /\ d.pairs[i].value # NULL
                         /\ c.rip_interfaces = Interfaces(d.pairs[i].value)
NetworksRead(d, c, n) ==
    \/ NoneOf(d, "advertised_networks", n) /\ c.advertised_networks = <<>>
    \/ \E i \in 1 .. n : /\ LastOf(d, "advertised_networks", n, i)
                         /\ d.pairs[i].value # NULL
                         /\ c.advertised_networks =
                              parse_sequence_of_mappings(d.pairs[i].value)
ReadUpTo(d, c, n) ==
    c \in Config /\ VersionRead(d, c, n) /\ InterfacesRead(d, c, n) /\ NetworksRead(d, c, n)

ParseInv ==
    pc = "parse" => it \in 1 .. Len(doc.pairs) + 1 /\ ReadUpTo(doc, config, it - 1)
AcceptInv ==
    pc \in Accepted \cup {"loop"} =>
      /\ config \in Config
      /\ rip_configuration_validate(config)
      /\ AsWritten

\* The descriptors that rip_create_sockets and rip_setup_sockets leave.
N == Len(config.rip_interfaces)
Dev(i) == config.rip_interfaces[i].dev
Created ==
    /\ next_fd = 3 + 2 * N
    /\ ifcs = [i \in 1 .. N |-> [socket_rx |-> 1 + 2 * i, socket_tx |-> 2 + 2 * i]]
    /\ DOMAIN sockets = 3 .. 2 + 2 * N
    /\ \A i \in 1 .. N : /\ sockets[1 + 2 * i] = [dev |-> Dev(i), options |-> <<>>]
                         /\ sockets[2 + 2 * i] = [dev |-> Dev(i), options |-> <<>>]
SetUp ==
    /\ ifcs = [i \in 1 .. N |-> [socket_rx |-> 2 + 2 * N + i, socket_tx |-> 2 + 2 * i]]
    /\ \A i \in 1 .. N :
         /\ sockets[2 + 2 * N + i] = [dev |-> Dev(i), options |-> setup_socket_multicast_rx]
         /\ sockets[2 + 2 * i] = [dev |-> Dev(i), options |-> setup_socket_multicast_tx]
SocketInv ==
    /\ pc \in {"config", "parse", "create"} => next_fd = 3
    /\ pc = "setup" => Created
    /\ pc \in (Accepted \ {"create", "setup"}) \cup {"loop"} => SetUp

\* The timers that rip_init_timers leaves: it stops at the first one that
\* fails, and starts one before it creates the next.
TimerInv ==
    pc \in {"dispatcher", "loop"} =>
      /\ ctx.timers \in [1 .. 5 -> Nat]
      /\ \A i, j \in 1 .. 5 : i < j /\ ctx.timers[i] = 0 => ctx.timers[j] = 0
      /\ ctx.timers[4] # 0 => {"t_update", "t_request_warmup"} \subseteq ctx.armed
      /\ ctx.timers[5] # 0 => "t_timeout" \in ctx.armed

StateInv ==
    /\ TypeOK
    /\ doc \in Docs
    /\ next_fd \in Nat /\ next_fd >= 3
    /\ pc = "timers" => ctx.ipc # 0
    /\ ctx = [route |-> ctx.route, ipc |-> ctx.ipc, db |-> ctx.db,
              timers |-> ctx.timers, armed |-> ctx.armed]

StartInv == StateInv /\ ParseInv /\ AcceptInv /\ SocketInv /\ TimerInv /\ LoopIsWired

(***************************************************************************)
(* The parser.                                                             *)
(***************************************************************************)
\* The facts about a document that the steps use.
LEMMA DocShape ==
    ASSUME NEW d \in Docs
    PROVE  /\ Len(d.pairs) \in Nat
           /\ DOMAIN d.pairs = 1 .. Len(d.pairs)
           /\ \A i \in 1 .. Len(d.pairs) :
                /\ d.pairs[i].key \in Keys
                /\ d.pairs[i].key = "version" => d.pairs[i].value \in Scalar
                /\ d.pairs[i].key \in {"rip_interfaces", "advertised_networks"}
                     /\ d.pairs[i].value # NULL => d.pairs[i].value \in Lists
<1>1. /\ Len(d.pairs) \in Nat
      /\ DOMAIN d.pairs = 1 .. Len(d.pairs)
      /\ \A i \in DOMAIN d.pairs :
           d.pairs[i].key \in Keys /\ d.pairs[i].value \in Value(d.pairs[i].key)
  BY DocsAssumption
<1>2. Value("version") = Scalar
  BY DEF Value
<1>3. /\ Value("rip_interfaces") = Lists \cup {NULL}
      /\ Value("advertised_networks") = Lists \cup {NULL}
  BY DEF Value, Lists
<1> QED
  BY <1>1, <1>2, <1>3

\* What a turn of the loop makes of its value, if it goes on.
LEMMA ParsedValue ==
    ASSUME NEW d \in Docs, NEW i \in 1 .. Len(d.pairs), NEW bytes \in {"2", "text"},
           d.pairs[i].key # "unknown", parse_value(d.pairs[i], bytes) # NULL
    PROVE  LET key == d.pairs[i].key
               value == d.pairs[i].value
               parsed == parse_value(d.pairs[i], bytes)
           IN  \/ key = "version" /\ parsed \in Scalar /\ value \in {parsed, "list"}
               \/ /\ key = "rip_interfaces" /\ value # NULL
                  /\ parsed = Interfaces(value) /\ parsed \in Seq(Device)
               \/ /\ key = "advertised_networks" /\ value # NULL
                  /\ parsed = parse_sequence_of_mappings(value) /\ parsed \in Seq(Mapping)
<1> DEFINE key == d.pairs[i].key
           value == d.pairs[i].value
           parsed == parse_value(d.pairs[i], bytes)
<1>1. key \in Keys
  BY DocShape
<1>2. CASE key = "version"
  <2>1. value \in Scalar
    BY <1>2, DocShape
  <2>2. parsed = parse_rip_version(value, bytes)
    BY <1>2 DEF parse_value
  <2> QED
    BY <1>2, <2>1, <2>2, ScalarAssumption DEF parse_rip_version
<1>3. CASE key = "rip_interfaces"
  <2>1. parsed = parse_rip_interfaces(value)
    BY <1>3 DEF parse_value
  <2>2. value # NULL /\ parsed = [j \in DOMAIN parse_sequence_of_mappings(value) |->
                                   [dev |-> parse_sequence_of_mappings(value)[j].dev]]
    BY <2>1 DEF parse_rip_interfaces
  <2>3. value \in Lists
    BY <1>3, <2>2, DocShape
  <2> DEFINE items == parse_sequence_of_mappings(value)
  <2>4. items \in Seq(Mapping) /\ DOMAIN items = DOMAIN value
    BY <2>3, ParsedList
  <2>5. parsed = Interfaces(value)
    BY <2>2, <2>4 DEF Interfaces
  <2>6. ASSUME NEW j \in DOMAIN items PROVE [dev |-> items[j].dev] \in Device
    <3>1. items[j] \in Mapping
      BY <2>4, SMTT(30)
    <3> QED
      BY <3>1 DEF Mapping, Device
  <2>7. parsed \in [1 .. Len(items) -> Device] /\ Len(items) \in Nat
    BY <2>2, <2>4, <2>6, SMT
  <2>8. parsed \in Seq(Device)
    <3> HIDE DEF parsed, items
    <3> QED
      BY <2>7, SMT
  <2> QED
    BY <1>3, <2>2, <2>5, <2>8
<1>4. CASE key = "advertised_networks"
  <2>1. parsed = parse_rip_advertised_networks(value)
    BY <1>4 DEF parse_value
  <2>2. value # NULL /\ parsed = parse_sequence_of_mappings(value)
    BY <2>1 DEF parse_rip_advertised_networks
  <2>3. value \in Lists
    BY <1>4, <2>2, DocShape
  <2> QED
    BY <1>4, <2>2, <2>3, ParsedList
<1> QED
  BY <1>1, <1>2, <1>3, <1>4 DEF Keys

\* A turn of the loop: what was read of the other keys stays.
LEMMA OneMorePair ==
    ASSUME NEW d \in Docs, NEW i \in 1 .. Len(d.pairs), NEW c, ReadUpTo(d, c, i - 1),
           NEW bytes \in {"2", "text"}, NEW c2,
           \/ d.pairs[i].key = "unknown" /\ c2 = c
           \/ /\ d.pairs[i].key # "unknown" /\ parse_value(d.pairs[i], bytes) # NULL
              /\ c2 = [c EXCEPT ![d.pairs[i].key] = parse_value(d.pairs[i], bytes)]
    PROVE  ReadUpTo(d, c2, i)
<1> DEFINE key == d.pairs[i].key
           parsed == parse_value(d.pairs[i], bytes)
<1>0. i \in Nat /\ i - 1 \in Nat /\ \A j : j \in 1 .. i <=> j \in 1 .. i - 1 \/ j = i
  BY DocShape, SMT
<1>1. c \in Config
  BY DEF ReadUpTo
<1>2. ASSUME NEW k, k # key PROVE NoneOf(d, k, i - 1) => NoneOf(d, k, i)
  BY <1>0, <1>2 DEF NoneOf
<1>3. ASSUME NEW k, k # key, NEW j \in 1 .. i - 1, LastOf(d, k, i - 1, j)
      PROVE  j \in 1 .. i /\ LastOf(d, k, i, j)
  BY <1>0, <1>3 DEF LastOf
<1>4. i \in 1 .. i /\ LastOf(d, key, i, i)
  BY <1>0, SMT DEF LastOf
<1>5. key # "version" /\ c2.version = c.version => VersionRead(d, c2, i)
  BY <1>2, <1>3 DEF VersionRead, ReadUpTo
<1>6. key # "rip_interfaces" /\ c2.rip_interfaces = c.rip_interfaces => InterfacesRead(d, c2, i)
  BY <1>2, <1>3 DEF InterfacesRead, ReadUpTo
<1>7. key # "advertised_networks" /\ c2.advertised_networks = c.advertised_networks
        => NetworksRead(d, c2, i)
  BY <1>2, <1>3 DEF NetworksRead, ReadUpTo
<1>8. CASE key = "unknown"
  BY <1>1, <1>5, <1>6, <1>7, <1>8 DEF ReadUpTo
<1>9. CASE key = "version" /\ parsed \in Scalar /\ d.pairs[i].value \in {parsed, "list"}
  <2>1. c2 = [c EXCEPT !.version = parsed]
    BY <1>9
  <2>2. c2 \in Config /\ c2.version = parsed /\ c2.rip_interfaces = c.rip_interfaces
        /\ c2.advertised_networks = c.advertised_networks
    BY <1>1, <1>9, <2>1 DEF Config, Text
  <2>3. VersionRead(d, c2, i)
    BY <1>4, <1>9, <2>2 DEF VersionRead
  <2> QED
    BY <1>6, <1>7, <1>9, <2>2, <2>3 DEF ReadUpTo
<1>10. CASE key = "rip_interfaces" /\ d.pairs[i].value # NULL
            /\ parsed = Interfaces(d.pairs[i].value) /\ parsed \in Seq(Device)
  <2>1. c2 = [c EXCEPT !.rip_interfaces = parsed]
    BY <1>10
  <2> HIDE DEF parsed
  <2>2. c2 \in Config /\ c2.rip_interfaces = parsed /\ c2.version = c.version
        /\ c2.advertised_networks = c.advertised_networks
    BY <1>1, <1>10, <2>1, ZenonT(30) DEF Config
  <2>3. InterfacesRead(d, c2, i)
    BY <1>4, <1>10, <2>2 DEF InterfacesRead
  <2> QED
    BY <1>5, <1>7, <1>10, <2>2, <2>3 DEF ReadUpTo
<1>11. CASE key = "advertised_networks" /\ d.pairs[i].value # NULL
            /\ parsed = parse_sequence_of_mappings(d.pairs[i].value) /\ parsed \in Seq(Mapping)
  <2>1. c2 = [c EXCEPT !.advertised_networks = parsed]
    BY <1>11
  <2> HIDE DEF parsed
  <2>2. c2 \in Config /\ c2.advertised_networks = parsed /\ c2.version = c.version
        /\ c2.rip_interfaces = c.rip_interfaces
    BY <1>1, <1>11, <2>1, SMTT(30) DEF Config
  <2>3. NetworksRead(d, c2, i)
    BY <1>4, <1>11, <2>2 DEF NetworksRead
  <2> QED
    BY <1>5, <1>6, <1>11, <2>2, <2>3 DEF ReadUpTo
<1> QED
  <2>1. CASE key # "unknown"
    <3>1. parsed # NULL
      BY <2>1
    <3> QED
      BY <1>9, <1>10, <1>11, <2>1, <3>1, ParsedValue
  <2> QED
    BY <1>8, <2>1

\* Where the last pair of a key is what is written for it.
LEMMA WrittenLast ==
    ASSUME doc \in Docs, NEW key, NEW i \in 1 .. Len(doc.pairs),
           LastOf(doc, key, Len(doc.pairs), i)
    PROVE  Written(key) = doc.pairs[i].value
<1> DEFINE lines == {j \in DOMAIN doc.pairs : doc.pairs[j].key = key}
<1>1. Len(doc.pairs) \in Nat /\ DOMAIN doc.pairs = 1 .. Len(doc.pairs)
  BY DocShape
<1>2. i \in lines /\ \A j \in lines : j <= i
  BY <1>1, SMT DEF LastOf
<1>3. \A m \in lines : (\A j \in lines : m >= j) => m = i
  BY <1>1, <1>2, SMT
<1>4. Max(lines) = i
  <2> HIDE DEF lines
  <2>1. i \in lines /\ \A j \in lines : i >= j
    BY <1>1, <1>2
  <2> QED
    BY <1>3, <2>1 DEF Max
<1> QED
  BY <1>2, <1>4 DEF Written

LEMMA WrittenNot ==
    ASSUME doc \in Docs, NEW key, NoneOf(doc, key, Len(doc.pairs))
    PROVE  Written(key) = NULL
BY DocShape DEF NoneOf, Written

\* rip_read_config: a configuration that was read to the end of the document
\* and passes rip_configuration_validate is the written one.
LEMMA AcceptedIsWritten ==
    ASSUME doc \in Docs, ReadUpTo(doc, config, Len(doc.pairs)),
           rip_configuration_validate(config)
    PROVE  AsWritten
<1> DEFINE n == Len(doc.pairs)
<1>0. n \in Nat /\ config \in Config
  BY DocShape DEF ReadUpTo
<1>1. Written("version") \in {config.version, "list"}
  <2>1. PICK i \in 1 .. n : /\ LastOf(doc, "version", n, i)
                            /\ doc.pairs[i].value \in {config.version, "list"}
    BY DEF ReadUpTo, VersionRead, rip_configuration_validate
  <2> QED
    BY <2>1, WrittenLast
<1>2. /\ Written("rip_interfaces") # NULL
      /\ \A i \in DOMAIN Written("rip_interfaces") : Written("rip_interfaces")[i] # NULL
      /\ config.rip_interfaces =
           [i \in DOMAIN Written("rip_interfaces") |-> [dev |-> Written("rip_interfaces")[i].dev]]
  <2>1. PICK i \in 1 .. n : /\ LastOf(doc, "rip_interfaces", n, i)
                            /\ doc.pairs[i].value # NULL
                            /\ config.rip_interfaces = Interfaces(doc.pairs[i].value)
    BY DEF ReadUpTo, InterfacesRead, rip_configuration_validate
  <2> DEFINE value == doc.pairs[i].value
  <2>2. Written("rip_interfaces") = value
    BY <2>1, WrittenLast
  <2>3. value \in Lists
    BY <2>1, DocShape DEF LastOf
  <2> HIDE DEF value
  <2>4. ASSUME NEW j \in DOMAIN value PROVE parse_sequence_of_mappings(value)[j].dev # NULL
    <3>1. config.rip_interfaces = Interfaces(value)
      BY <2>1 DEF value
    <3>2. j \in DOMAIN config.rip_interfaces
          /\ config.rip_interfaces[j] = [dev |-> parse_sequence_of_mappings(value)[j].dev]
      BY <3>1 DEF Interfaces
    <3>3. config.rip_interfaces[j].dev # NULL
      BY <3>2 DEF rip_configuration_validate
    <3> QED
      BY <3>2, <3>3, SMT
  <2>5. ASSUME NEW j \in DOMAIN value PROVE value[j] # NULL
    BY <2>3, <2>4, SkippedLeavesBlank, SMT DEF Blank
  <2>6. parse_sequence_of_mappings(value) = value
    BY <2>3, <2>5, AllMappings
  <2>7. config.rip_interfaces = [j \in DOMAIN value |-> [dev |-> value[j].dev]]
    BY <2>1, <2>6 DEF Interfaces, value
  <2> QED
    BY <2>1, <2>2, <2>5, <2>7 DEF value
<1>3. config.advertised_networks =
        IF Written("advertised_networks") = NULL THEN <<>> ELSE Written("advertised_networks")
  <2>1. CASE NoneOf(doc, "advertised_networks", n) /\ config.advertised_networks = <<>>
    BY <2>1, WrittenNot
  <2>2. CASE \E i \in 1 .. n : /\ LastOf(doc, "advertised_networks", n, i)
                               /\ doc.pairs[i].value # NULL
                               /\ config.advertised_networks =
                                    parse_sequence_of_mappings(doc.pairs[i].value)
    <3>1. PICK i \in 1 .. n : /\ LastOf(doc, "advertised_networks", n, i)
                              /\ doc.pairs[i].value # NULL
                              /\ config.advertised_networks =
                                   parse_sequence_of_mappings(doc.pairs[i].value)
      BY <2>2
    <3> DEFINE value == doc.pairs[i].value
    <3>2. Written("advertised_networks") = value
      BY <3>1, WrittenLast
    <3>3. value \in Lists
      BY <3>1, DocShape DEF LastOf
    <3> HIDE DEF value
    <3>4. \A j \in DOMAIN value : parse_sequence_of_mappings(value)[j].dev # NULL
      BY <3>1, <3>3, ParsedList DEF value, rip_configuration_validate
    <3>5. \A j \in DOMAIN value : value[j] # NULL
      BY <3>3, <3>4, SkippedLeavesBlank, SMT DEF Blank
    <3>6. parse_sequence_of_mappings(value) = value
      BY <3>3, <3>5, AllMappings
    <3> QED
      BY <3>1, <3>2, <3>6 DEF value
  <2> QED
    BY <2>1, <2>2 DEF ReadUpTo, NetworksRead
<1> QED
  BY <1>1, <1>2, <1>3 DEF AsWritten

(***************************************************************************)
(* The steps.                                                              *)
(***************************************************************************)
Ending == {"returned", "segv", "exit", "fault", "ended"}

LEMMA InitStart == Init => StartInv
<1> SUFFICES ASSUME Init PROVE StartInv
  OBVIOUS
<1>1. pc = "config" /\ next_fd = 3 /\ DOMAIN sockets = {} /\ doc \in Docs
      /\ ctx = [route |-> 0, ipc |-> 0, db |-> FALSE, timers |-> <<>>, armed |-> {}]
  BY DEF Init
<1>2. StateInv
  BY <1>1, SMT DEF StateInv, TypeOK, Accepted, Starting
<1> QED
  BY <1>1, <1>2 DEF StartInv, ParseInv, AcceptInv, SocketInv, TimerInv, LoopIsWired, Accepted

\* A failure, a signal and the exit handler leave the context as it is.
LEMMA EndStep ==
    ASSUME StartInv, pc' \in Ending,
           UNCHANGED <<doc, it, config, ifcs, sockets, ctx, pollfds, next_fd>>
    PROVE  StartInv'
<1>1. StateInv'
  BY DEF StartInv, StateInv, TypeOK, Accepted, Starting, Ending
<1> QED
  BY <1>1 DEF StartInv, ParseInv, AcceptInv, SocketInv, TimerInv, LoopIsWired, Accepted, Ending

LEMMA FailStep == StartInv /\ (Fail \/ Segv) => StartInv'
BY EndStep DEF Fail, Segv, Ending

LEMMA SameWritten ==
    ASSUME UNCHANGED doc
    PROVE  \A key : Written(key)' = Written(key)
BY DEF Written

\* The configuration is not touched after it was accepted.
LEMMA AcceptStep ==
    ASSUME AcceptInv, pc \in Accepted \cup {"loop"}, UNCHANGED <<doc, config>>
    PROVE  AcceptInv'
<1>1. config \in Config /\ rip_configuration_validate(config) /\ AsWritten
  BY DEF AcceptInv
<1>2. AsWritten'
  BY <1>1, SameWritten DEF AsWritten
<1>3. rip_configuration_validate(config)'
  BY <1>1 DEF rip_configuration_validate
<1> QED
  BY <1>1, <1>2, <1>3 DEF AcceptInv

\* The document is opened and its root is found.
LEMMA OpenStep == StartInv /\ rip_configuration_read_and_parse => StartInv'
<1> SUFFICES ASSUME StartInv, rip_configuration_read_and_parse PROVE StartInv'
  OBVIOUS
<1>1. CASE Fail \/ Segv
  BY <1>1, FailStep
<1>2. CASE /\ pc = "config" /\ pc' = "parse"
           /\ config' = [version |-> NULL, rip_interfaces |-> NULL, advertised_networks |-> <<>>]
           /\ it' = 1
           /\ UNCHANGED <<faults, doc, ifcs, sockets, ctx, pollfds, next_fd>>
  <2>1. StateInv'
    BY <1>2 DEF StartInv, StateInv, TypeOK, Accepted, Starting
  <2>2. Len(doc.pairs) \in Nat
    BY DocShape DEF StartInv, StateInv
  <2>3. config' \in Config
    BY <1>2, SMT DEF Config, Text
  <2>4. ReadUpTo(doc, config', 0)
    BY <1>2, <2>3, SMT DEF ReadUpTo, VersionRead, InterfacesRead, NetworksRead, NoneOf
  <2>5. ParseInv'
    BY <1>2, <2>2, <2>4, SMT DEF ParseInv
  <2>6. SocketInv'
    BY <1>2 DEF StartInv, SocketInv, Accepted
  <2> QED
    BY <1>2, <2>1, <2>5, <2>6 DEF StartInv, AcceptInv, TimerInv, LoopIsWired, Accepted
<1> QED
  BY <1>1, <1>2 DEF rip_configuration_read_and_parse

\* One turn of the parser's loop.
LEMMA ParseStep == StartInv /\ parse_rip_configuration => StartInv'
<1> SUFFICES ASSUME StartInv, parse_rip_configuration PROVE StartInv'
  OBVIOUS
<1>0. pc = "parse" /\ it \in DOMAIN doc.pairs /\ doc \in Docs
      /\ ReadUpTo(doc, config, it - 1)
  BY DEF parse_rip_configuration, StartInv, StateInv, ParseInv
<1>1. CASE Fail \/ Segv
  BY <1>1, FailStep
<1>2. ASSUME NEW bytes \in {"2", "text"},
             \/ doc.pairs[it].key = "unknown" /\ config' = config
             \/ /\ doc.pairs[it].key # "unknown" /\ parse_value(doc.pairs[it], bytes) # NULL
                /\ config' = [config EXCEPT ![doc.pairs[it].key] =
                                parse_value(doc.pairs[it], bytes)],
             it' = it + 1,
             UNCHANGED <<faults, pc, doc, ifcs, sockets, ctx, pollfds, next_fd>>
      PROVE  StartInv'
  <2>1. StateInv'
    BY <1>0, <1>2 DEF StartInv, StateInv, TypeOK, Accepted, Starting
  <2>2. Len(doc.pairs) \in Nat /\ it \in 1 .. Len(doc.pairs)
    BY <1>0, DocShape
  <2>3. ReadUpTo(doc, config', it)
    BY <1>0, <1>2, <2>2, OneMorePair, SMTT(30)
  <2>4. ParseInv'
    BY <1>0, <1>2, <2>2, <2>3, SMT DEF ParseInv
  <2>5. SocketInv'
    BY <1>0, <1>2 DEF StartInv, SocketInv, Accepted
  <2> QED
    BY <1>0, <1>2, <2>1, <2>4, <2>5, SMTT(30)
       DEF StartInv, AcceptInv, TimerInv, LoopIsWired, Accepted
<1> QED
  BY <1>1, <1>2 DEF parse_rip_configuration

\* The end of the document, and the validation.
LEMMA ReadStep == StartInv /\ rip_read_config => StartInv'
<1> SUFFICES ASSUME StartInv, rip_read_config PROVE StartInv'
  OBVIOUS
<1>1. CASE Fail
  BY <1>1, FailStep
<1>2. CASE /\ rip_configuration_validate(config) /\ pc' = "create"
           /\ UNCHANGED <<faults, doc, it, config, ifcs, sockets, ctx, pollfds, next_fd>>
  <2>1. pc = "parse" /\ doc \in Docs /\ it \in 1 .. Len(doc.pairs) + 1
        /\ it \notin DOMAIN doc.pairs /\ ReadUpTo(doc, config, it - 1)
    BY DEF rip_read_config, StartInv, StateInv, ParseInv
  <2>2. it - 1 = Len(doc.pairs)
    BY <2>1, DocShape, SMT
  <2>3. AsWritten /\ config \in Config
    BY <1>2, <2>1, <2>2, AcceptedIsWritten, SMTT(30) DEF ReadUpTo
  <2>4. AsWritten'
    BY <1>2, <2>3, SameWritten DEF AsWritten
  <2>5. rip_configuration_validate(config)'
    BY <1>2 DEF rip_configuration_validate
  <2>6. AcceptInv'
    BY <1>2, <2>3, <2>4, <2>5 DEF AcceptInv
  <2>7. StateInv'
    BY <1>2, <2>1, <2>5 DEF StartInv, StateInv, TypeOK, Accepted, Starting
  <2>8. SocketInv'
    BY <1>2, <2>1 DEF StartInv, SocketInv, Accepted
  <2> QED
    BY <1>2, <2>6, <2>7, <2>8 DEF StartInv, ParseInv, TimerInv, LoopIsWired, Accepted
<1> QED
  BY <1>1, <1>2 DEF rip_read_config

\* Accepted interfaces are a list of devices.
LEMMA InterfaceList ==
    ASSUME AcceptInv, pc \in Accepted \cup {"loop"}
    PROVE  N \in Nat /\ DOMAIN config.rip_interfaces = 1 .. N
<1>1. config.rip_interfaces \in Seq(Device)
  BY DEF AcceptInv, Config, rip_configuration_validate
<1> QED
  BY <1>1, SMT DEF N

\* Two sockets for each interface.
LEMMA CreateStep == StartInv /\ rip_create_sockets => StartInv'
<1> SUFFICES ASSUME StartInv, rip_create_sockets PROVE StartInv'
  OBVIOUS
<1>1. CASE Fail
  BY <1>1, FailStep
<1> DEFINE devs == [i \in DOMAIN config.rip_interfaces |-> config.rip_interfaces[i].dev]
           new == next_fd .. next_fd + 2 * Len(devs) - 1
<1>2. CASE /\ ifcs' = [i \in DOMAIN devs |-> [socket_rx |-> next_fd + 2 * i - 2,
                                              socket_tx |-> next_fd + 2 * i - 1]]
           /\ sockets' = [fd \in new |->
                            rip_create_socket_ifname(devs[(fd - next_fd) \div 2 + 1])]
           /\ next_fd' = next_fd + 2 * Len(devs)
           /\ pc' = "setup"
           /\ UNCHANGED <<faults, doc, it, config, ctx, pollfds>>
  <2>1. pc = "create" /\ next_fd = 3
    BY DEF rip_create_sockets, StartInv, SocketInv
  <2>2. N \in Nat /\ DOMAIN config.rip_interfaces = 1 .. N
    BY <2>1, InterfaceList DEF StartInv, Accepted
  <2>3. AcceptInv'
    BY <1>2, <2>1, AcceptStep DEF StartInv, Accepted
  <2>4. DOMAIN devs = 1 .. N /\ \A i \in 1 .. N : devs[i] = Dev(i)
    BY <2>2 DEF Dev
  <2>5. Len(devs) = N
    <3>1. devs \in [1 .. N -> {Dev(i) : i \in 1 .. N}]
      BY <2>2, <2>4
    <3> HIDE DEF devs
    <3> QED
      BY <2>2, <3>1, SMT
  <2> HIDE DEF devs
  <2>6. next_fd' = 3 + 2 * N /\ DOMAIN sockets' = 3 .. 2 + 2 * N
    BY <1>2, <2>1, <2>2, <2>5, SMT
  <2>7. ASSUME NEW i \in 1 .. N
        PROVE  /\ sockets'[1 + 2 * i] = [dev |-> Dev(i), options |-> <<>>]
               /\ sockets'[2 + 2 * i] = [dev |-> Dev(i), options |-> <<>>]
    <3>1. 1 + 2 * i \in new /\ 2 + 2 * i \in new
      BY <2>1, <2>2, <2>5, SMT
    <3>2. ((1 + 2 * i) - 3) \div 2 + 1 = i /\ ((2 + 2 * i) - 3) \div 2 + 1 = i
      BY <2>2, SMTT(30)
    <3> HIDE DEF new
    <3> QED
      BY <1>2, <2>1, <2>4, <3>1, <3>2 DEF rip_create_socket_ifname
  <2>8. ifcs' = [i \in 1 .. N |-> [socket_rx |-> 1 + 2 * i, socket_tx |-> 2 + 2 * i]]
    BY <1>2, <2>1, <2>2, <2>4, SMT
  <2>9. Created'
    BY <1>2, <2>6, <2>7, <2>8 DEF Created, N, Dev
  <2>10. SocketInv'
    BY <1>2, <2>9 DEF SocketInv, Accepted
  <2>11. rip_configuration_validate(config)'
    BY <1>2, <2>3 DEF AcceptInv, Accepted
  <2>12. StateInv'
    BY <1>2, <2>1, <2>2, <2>6, <2>11, SMT DEF StartInv, StateInv, TypeOK, Accepted, Starting
  <2> QED
    BY <1>2, <2>3, <2>10, <2>12, SMTT(30) DEF StartInv, ParseInv, TimerInv, LoopIsWired, Accepted
<1> QED
  BY <1>1, <1>2, ZenonT(30) DEF rip_create_sockets

\* The receiving sockets are created anew.
LEMMA SetupStep == StartInv /\ rip_setup_sockets => StartInv'
<1> SUFFICES ASSUME StartInv, rip_setup_sockets PROVE StartInv'
  OBVIOUS
<1>1. CASE Fail
  BY <1>1, FailStep
<1> DEFINE rx == [i \in DOMAIN ifcs |-> [dev |-> sockets[ifcs[i].socket_rx].dev,
                                         options |-> setup_socket_multicast_rx]]
           new_rx(i) == next_fd + i - 1
<1>2. CASE /\ sockets' = [fd \in DOMAIN sockets \cup {new_rx(i) : i \in DOMAIN ifcs} |->
                            IF fd \notin DOMAIN sockets THEN rx[fd - next_fd + 1]
                            ELSE IF \E i \in DOMAIN ifcs : ifcs[i].socket_tx = fd
                            THEN [sockets[fd] EXCEPT !.options = setup_socket_multicast_tx]
                            ELSE sockets[fd]]
           /\ ifcs' = [i \in DOMAIN ifcs |-> [ifcs[i] EXCEPT !.socket_rx = new_rx(i)]]
           /\ next_fd' = next_fd + Len(ifcs)
           /\ pc' = "route"
           /\ UNCHANGED <<faults, doc, it, config, ctx, pollfds>>
  <2>1. pc = "setup" /\ Created
    BY DEF rip_setup_sockets, StartInv, SocketInv
  <2>2. N \in Nat /\ DOMAIN config.rip_interfaces = 1 .. N
    BY <2>1, InterfaceList DEF StartInv, Accepted
  <2>3. AcceptInv'
    BY <1>2, <2>1, AcceptStep DEF StartInv, Accepted
  <2>4. /\ next_fd = 3 + 2 * N /\ DOMAIN sockets = 3 .. 2 + 2 * N /\ DOMAIN ifcs = 1 .. N
        /\ \A i \in 1 .. N : ifcs[i] = [socket_rx |-> 1 + 2 * i, socket_tx |-> 2 + 2 * i]
    BY <2>1, <2>2 DEF Created
  <2>5. \A i \in 1 .. N : /\ sockets[1 + 2 * i] = [dev |-> Dev(i), options |-> <<>>]
                          /\ sockets[2 + 2 * i] = [dev |-> Dev(i), options |-> <<>>]
    BY <2>1 DEF Created
  <2>6. Len(ifcs) = N
    BY <2>1, <2>2, SMT DEF Created
  <2>7. DOMAIN sockets' = 3 .. 2 + 3 * N /\ next_fd' = 3 + 3 * N
    <3>1. {new_rx(i) : i \in DOMAIN ifcs} = 3 + 2 * N .. 2 + 3 * N
      <4>1. ASSUME NEW x \in 3 + 2 * N .. 2 + 3 * N
            PROVE  x - 2 - 2 * N \in 1 .. N /\ x = new_rx(x - 2 - 2 * N)
        BY <2>2, <2>4, SMT
      <4>2. ASSUME NEW i \in DOMAIN ifcs PROVE new_rx(i) \in 3 + 2 * N .. 2 + 3 * N
        BY <2>2, <2>4, SMTT(30)
      <4> HIDE DEF new_rx
      <4> QED
        BY <2>4, <4>1, <4>2
    <3> HIDE DEF new_rx
    <3> QED
      BY <1>2, <2>2, <2>4, <2>6, <3>1, SMT
  <2>8. ASSUME NEW i \in 1 .. N
        PROVE  sockets'[2 + 2 * N + i] = [dev |-> Dev(i), options |-> setup_socket_multicast_rx]
    <3>1. 2 + 2 * N + i \in DOMAIN sockets' /\ 2 + 2 * N + i \notin DOMAIN sockets
      BY <2>2, <2>4, <2>7, SMT
    <3>2. (2 + 2 * N + i) - next_fd + 1 = i
      BY <2>2, <2>4, SMT
    <3>3. rx[i] = [dev |-> Dev(i), options |-> setup_socket_multicast_rx]
      <4>1. ifcs[i] = [socket_rx |-> 1 + 2 * i, socket_tx |-> 2 + 2 * i]
        BY <2>4
      <4>2. sockets[1 + 2 * i] = [dev |-> Dev(i), options |-> <<>>]
        BY <2>5
      <4> QED
        BY <2>4, <4>1, <4>2, SMT
    <3> HIDE DEF rx, new_rx
    <3> QED
      BY <1>2, <3>1, <3>2, <3>3
  <2>9. ASSUME NEW i \in 1 .. N
        PROVE  sockets'[2 + 2 * i] = [dev |-> Dev(i), options |-> setup_socket_multicast_tx]
    <3>1. 2 + 2 * i \in DOMAIN sockets' /\ 2 + 2 * i \in DOMAIN sockets
      BY <2>2, <2>4, <2>7, SMT
    <3>2. \E j \in DOMAIN ifcs : ifcs[j].socket_tx = 2 + 2 * i
      BY <2>4, SMT
    <3>3. sockets[2 + 2 * i] = [dev |-> Dev(i), options |-> <<>>]
      BY <2>5
    <3> HIDE DEF rx, new_rx
    <3> QED
      BY <1>2, <3>1, <3>2, <3>3, SMT
  <2>10. ifcs' = [i \in 1 .. N |-> [socket_rx |-> 2 + 2 * N + i, socket_tx |-> 2 + 2 * i]]
    <3>1. ASSUME NEW i \in 1 .. N
          PROVE  [ifcs[i] EXCEPT !.socket_rx = new_rx(i)]
                   = [socket_rx |-> 2 + 2 * N + i, socket_tx |-> 2 + 2 * i]
      BY <2>2, <2>4, SMT
    <3> HIDE DEF new_rx
    <3> QED
      BY <1>2, <2>4, <3>1
  <2>11. SetUp'
    BY <1>2, <2>8, <2>9, <2>10, ZenonT(30) DEF SetUp, N, Dev
  <2>12. SocketInv'
    BY <1>2, <2>11 DEF SocketInv, Accepted
  <2>13. rip_configuration_validate(config)'
    BY <1>2, <2>3 DEF AcceptInv, Accepted
  <2>14. StateInv'
    BY <1>2, <2>1, <2>2, <2>7, <2>13, SMTT(30) DEF StartInv, StateInv, TypeOK, Accepted, Starting
  <2> QED
    BY <1>2, <2>3, <2>12, <2>14 DEF StartInv, ParseInv, TimerInv, LoopIsWired, Accepted
<1> QED
  BY <1>1, <1>2 DEF rip_setup_sockets

\* The steps between the sockets and the event loop keep the sockets.
LEMMA SocketStep ==
    ASSUME StartInv, pc \in Accepted \ {"create", "setup"},
           pc' \in (Accepted \ {"create", "setup"}) \cup {"loop"},
           UNCHANGED <<doc, config, ifcs, sockets>>
    PROVE  SocketInv' /\ AcceptInv' /\ rip_configuration_validate(config)'
<1>1. SetUp
  BY DEF StartInv, SocketInv
<1>2. SetUp'
  BY <1>1 DEF SetUp, N, Dev
<1>3. AcceptInv'
  BY AcceptStep DEF StartInv
<1> QED
  BY <1>2, <1>3 DEF SocketInv, AcceptInv, Accepted

LEMMA RouteStep == StartInv /\ rip_route_init => StartInv'
<1> SUFFICES ASSUME StartInv, rip_route_init PROVE StartInv'
  OBVIOUS
<1>1. CASE Fail
  BY <1>1, FailStep
<1>2. CASE /\ ctx' = [ctx EXCEPT !.route = next_fd]
           /\ next_fd' = next_fd + 1 /\ pc' = "db"
           /\ UNCHANGED <<faults, doc, it, config, ifcs, sockets, pollfds>>
  <2>1. pc = "route"
    BY DEF rip_route_init
  <2>2. SocketInv' /\ AcceptInv' /\ rip_configuration_validate(config)'
    BY <1>2, <2>1, SocketStep DEF Accepted
  <2>3. StateInv'
    <3>1. DOMAIN sockets \subseteq 3 .. next_fd - 1 /\ next_fd \in Nat /\ next_fd >= 3
      BY DEF StartInv, StateInv, TypeOK
    <3>2. (DOMAIN sockets)' \subseteq 3 .. next_fd' - 1 /\ next_fd' \in Nat /\ next_fd' >= 3
      BY <1>2, <3>1, SMT
    <3> QED
      BY <1>2, <2>1, <2>2, <3>2 DEF StartInv, StateInv, TypeOK, Accepted, Starting
  <2> QED
    BY <1>2, <2>2, <2>3 DEF StartInv, ParseInv, TimerInv, LoopIsWired, Accepted
<1> QED
  BY <1>1, <1>2 DEF rip_route_init

LEMMA DbStep == StartInv /\ rip_db_init => StartInv'
<1> SUFFICES ASSUME StartInv, rip_db_init PROVE StartInv'
  OBVIOUS
<1>1. CASE Fail
  BY <1>1, FailStep
<1>2. CASE /\ ctx' = [ctx EXCEPT !.db = TRUE] /\ pc' = "networks"
           /\ UNCHANGED <<faults, doc, it, config, ifcs, sockets, pollfds, next_fd>>
  <2>1. pc = "db"
    BY DEF rip_db_init
  <2>2. SocketInv' /\ AcceptInv' /\ rip_configuration_validate(config)'
    BY <1>2, <2>1, SocketStep DEF Accepted
  <2>3. ctx'.db /\ ctx' = [route |-> ctx'.route, ipc |-> ctx'.ipc, db |-> ctx'.db,
                           timers |-> ctx'.timers, armed |-> ctx'.armed]
    <3>1. ctx = [route |-> ctx.route, ipc |-> ctx.ipc, db |-> ctx.db,
                 timers |-> ctx.timers, armed |-> ctx.armed]
      BY DEF StartInv, StateInv
    <3> QED
      BY <1>2, <3>1, ZenonT(30)
  <2>4. StateInv'
    BY <1>2, <2>1, <2>2, <2>3 DEF StartInv, StateInv, TypeOK, Accepted, Starting
  <2> QED
    BY <1>2, <2>2, <2>4 DEF StartInv, ParseInv, TimerInv, LoopIsWired, Accepted
<1> QED
  BY <1>1, <1>2 DEF rip_db_init

LEMMA NetworksStep == StartInv /\ add_advertised_networks_to_db => StartInv'
<1> SUFFICES ASSUME StartInv, add_advertised_networks_to_db PROVE StartInv'
  OBVIOUS
<1>1. CASE Fail
  BY <1>1, FailStep
<1>2. CASE /\ pc' = "ipc"
           /\ UNCHANGED <<faults, doc, it, config, ifcs, sockets, ctx, pollfds, next_fd>>
  <2>1. pc = "networks"
    BY DEF add_advertised_networks_to_db
  <2>2. SocketInv' /\ AcceptInv' /\ rip_configuration_validate(config)'
    BY <1>2, <2>1, SocketStep DEF Accepted
  <2>3. StateInv'
    BY <1>2, <2>1, <2>2 DEF StartInv, StateInv, TypeOK, Accepted, Starting
  <2> QED
    BY <1>2, <2>2, <2>3 DEF StartInv, ParseInv, TimerInv, LoopIsWired, Accepted
<1> QED
  BY <1>1, <1>2 DEF add_advertised_networks_to_db

LEMMA IpcStep == StartInv /\ rip_ipc_alloc_init => StartInv'
<1> SUFFICES ASSUME StartInv, rip_ipc_alloc_init PROVE StartInv'
  OBVIOUS
<1>1. CASE Fail
  BY <1>1, FailStep
<1>2. CASE /\ ctx' = [ctx EXCEPT !.ipc = next_fd]
           /\ next_fd' = next_fd + 1 /\ pc' = "timers"
           /\ UNCHANGED <<faults, doc, it, config, ifcs, sockets, pollfds>>
  <2>1. pc = "ipc"
    BY DEF rip_ipc_alloc_init
  <2>2. SocketInv' /\ AcceptInv' /\ rip_configuration_validate(config)'
    BY <1>2, <2>1, SocketStep DEF Accepted
  <2>3. StateInv'
    <3>1. DOMAIN sockets \subseteq 3 .. next_fd - 1 /\ next_fd \in Nat /\ next_fd >= 3
      BY DEF StartInv, StateInv, TypeOK
    <3>2. (DOMAIN sockets)' \subseteq 3 .. next_fd' - 1 /\ next_fd' \in Nat /\ next_fd' >= 3
      BY <1>2, <3>1, SMT
    <3> QED
      BY <1>2, <2>1, <2>2, <3>2, SMT DEF StartInv, StateInv, TypeOK, Accepted, Starting
  <2> QED
    BY <1>2, <2>2, <2>3 DEF StartInv, ParseInv, TimerInv, LoopIsWired, Accepted
<1> QED
  BY <1>1, <1>2 DEF rip_ipc_alloc_init

\* The positions of the timers in rip_init_timers.
LEMMA TimerNames ==
    /\ DOMAIN Timers = 1 .. 5 /\ Len(Timers) = 5
    /\ Timers[1] = "t_update" /\ Timers[2] = "t_triggered_lock"
    /\ Timers[3] = "t_request_warmup" /\ Timers[4] = "t_timeout" /\ Timers[5] = "t_gc"
BY SMT DEF Timers

\* It stops at the first timer that fails.
LEMMA TimersStep == StartInv /\ rip_init_timers => StartInv'
<1> SUFFICES ASSUME StartInv, rip_init_timers PROVE StartInv'
  OBVIOUS
<1>0. PICK n \in 0 .. Len(Timers), started \in BOOLEAN :
        /\ ~started => n \in 1 .. Len(Timers) - 1 /\ Timers[n] \in StartedAtOnce
        /\ ctx' = [ctx EXCEPT
                     !.timers = [i \in DOMAIN Timers |->
                                   IF i <= n THEN next_fd + i - 1 ELSE 0],
                     !.armed = {Timers[i] : i \in 1 .. (IF started THEN n ELSE n - 1)}
                                 \cap StartedAtOnce]
        /\ next_fd' = next_fd + n
  BY DEF rip_init_timers
<1>1. /\ n \in 0 .. 5
      /\ ~started => n \in 1 .. 4
      /\ ctx' = [ctx EXCEPT
                   !.timers = [i \in 1 .. 5 |-> IF i <= n THEN next_fd + i - 1 ELSE 0],
                   !.armed = {Timers[i] : i \in 1 .. (IF started THEN n ELSE n - 1)}
                               \cap StartedAtOnce]
      /\ next_fd' = next_fd + n
  <2>1. Len(Timers) = 5 /\ DOMAIN Timers = 1 .. 5
    BY TimerNames
  <2>2. Len(Timers) - 1 = 4
    BY <2>1, SMT
  <2> QED
    BY <1>0, <2>1, <2>2
<1>2. /\ pc = "timers" /\ pc' = "dispatcher"
      /\ UNCHANGED <<faults, doc, it, config, ifcs, sockets, pollfds>>
  BY DEF rip_init_timers
<1>3. next_fd \in Nat /\ next_fd >= 3 /\ DOMAIN sockets \subseteq 3 .. next_fd - 1
      /\ ctx = [route |-> ctx.route, ipc |-> ctx.ipc, db |-> ctx.db,
                timers |-> ctx.timers, armed |-> ctx.armed]
      /\ ctx.db /\ ctx.ipc # 0
  BY <1>2 DEF StartInv, StateInv, TypeOK
<1>4. SocketInv' /\ AcceptInv' /\ rip_configuration_validate(config)'
  BY <1>2, SocketStep DEF Accepted
<1> DEFINE timers == [i \in 1 .. 5 |-> IF i <= n THEN next_fd + i - 1 ELSE 0]
           armed == {Timers[i] : i \in 1 .. (IF started THEN n ELSE n - 1)} \cap StartedAtOnce
<1>5. ctx' = [route |-> ctx.route, ipc |-> ctx.ipc, db |-> ctx.db,
              timers |-> timers, armed |-> armed]
  <2> HIDE DEF timers, armed
  <2>1. ctx' = [ctx EXCEPT !.timers = timers, !.armed = armed]
    BY <1>1 DEF timers, armed
  <2> QED
    BY <1>3, <2>1
<1>6. timers \in [1 .. 5 -> Nat] /\ Len(timers) = 5
  <2>1. timers \in [1 .. 5 -> Nat]
    BY <1>3, SMT
  <2> HIDE DEF timers
  <2> QED
    BY <2>1, SMT
<1>7. \A i \in 1 .. 5 : timers[i] = 0 <=> i > n
  BY <1>3, SMT
<1>8. timers[4] # 0 => {"t_update", "t_request_warmup"} \subseteq armed
  <2>1. CASE n >= 4
    <3>1. 1 \in 1 .. (IF started THEN n ELSE n - 1) /\ 3 \in 1 .. (IF started THEN n ELSE n - 1)
      BY <2>1, SMT
    <3>2. {"t_update", "t_request_warmup"} \subseteq StartedAtOnce
      BY DEF StartedAtOnce
    <3> QED
      BY <3>1, <3>2, TimerNames
  <2>2. CASE n < 4
    BY <1>7, <2>2, SMT
  <2> QED
    BY <2>1, <2>2, SMT
<1>9. timers[5] # 0 => "t_timeout" \in armed
  <2>1. CASE n = 5
    <3>1. 4 \in 1 .. (IF started THEN n ELSE n - 1) /\ "t_timeout" \in StartedAtOnce
      BY <2>1, SMT DEF StartedAtOnce
    <3> QED
      BY <3>1, TimerNames
  <2>2. CASE n # 5
    BY <1>1, <1>7, <2>2, SMT
  <2> QED
    BY <2>1, <2>2
<1> HIDE DEF timers, armed
<1>10. \A i, j \in 1 .. 5 : i < j /\ timers[i] = 0 => timers[j] = 0
  BY <1>7, SMT
<1>11. ctx'.timers = timers /\ ctx'.armed = armed /\ ctx'.ipc # 0 /\ ctx'.db
  BY <1>3, <1>5
<1>12. TimerInv'
  BY <1>2, <1>6, <1>8, <1>9, <1>10, <1>11, SMTT(30) DEF TimerInv
<1>13. StateInv'
  <2>1. (DOMAIN sockets)' \subseteq 3 .. next_fd' - 1 /\ next_fd' \in Nat /\ next_fd' >= 3
    BY <1>1, <1>2, <1>3, SMT
  <2>2. Len(ctx'.timers) = Len(Timers)
    BY <1>6, <1>11, TimerNames
  <2>3. ctx' = [route |-> ctx'.route, ipc |-> ctx'.ipc, db |-> ctx'.db,
                timers |-> ctx'.timers, armed |-> ctx'.armed]
    BY <1>5
  <2> QED
    BY <1>2, <1>4, <1>11, <2>1, <2>2, <2>3
       DEF StartInv, StateInv, TypeOK, Accepted, Starting
<1> QED
  BY <1>2, <1>4, <1>12, <1>13 DEF StartInv, ParseInv, LoopIsWired, Accepted

\* The descriptor of each timer.
LEMMA TimerFd ==
    /\ timer_getfd("t_timeout") = ctx.timers[4]
    /\ timer_getfd("t_gc") = ctx.timers[5]
BY TimerNames, SMT DEF timer_getfd

\* The order in which init_event_dispatcher registers the descriptors.
Registered(S, a, b, c, fds) ==
    /\ a \in Seq(S) /\ b \in Seq(S) /\ c \in Seq(S)
    /\ Len(b) = 2 /\ Len(c) = 5
    /\ fds = a \o b \o c
InOrder(a, c, fds) ==
    /\ DOMAIN fds = 1 .. Len(a) + 7
    /\ \A i \in 1 .. Len(a) : fds[i] = a[i]
    /\ fds[Len(a) + 5] = c[3] /\ fds[Len(a) + 6] = c[4]
LEMMA Events ==
    ASSUME NEW S, NEW a, NEW b, NEW c, NEW fds, Registered(S, a, b, c, fds)
    PROVE  InOrder(a, c, fds)
<1>0. /\ a \in Seq(S) /\ b \in Seq(S) /\ c \in Seq(S)
      /\ Len(b) = 2 /\ Len(c) = 5 /\ fds = a \o b \o c
  BY DEF Registered
<1> DEFINE ab == a \o b
<1>1. /\ ab \in Seq(S) /\ Len(ab) = Len(a) + 2 /\ Len(a) \in Nat
      /\ \A i \in 1 .. Len(a) : ab[i] = a[i]
  <2>1. /\ ab \in Seq(S) /\ Len(ab) = Len(a) + Len(b)
        /\ \A i \in 1 .. Len(a) + Len(b) :
             ab[i] = IF i <= Len(a) THEN a[i] ELSE b[i - Len(a)]
    BY <1>0, ConcatProperties
  <2>2. Len(a) \in Nat
    BY <1>0, LenProperties
  <2> HIDE DEF ab
  <2> QED
    BY <1>0, <2>1, <2>2, SMT
<1> HIDE DEF ab
<1>2. /\ DOMAIN (ab \o c) = 1 .. Len(ab) + 5
      /\ \A i \in 1 .. Len(ab) : (ab \o c)[i] = ab[i]
      /\ (ab \o c)[Len(ab) + 3] = c[3] /\ (ab \o c)[Len(ab) + 4] = c[4]
  <2>1. /\ ab \o c \in Seq(S) /\ Len(ab \o c) = Len(ab) + Len(c)
        /\ \A i \in 1 .. Len(ab) + Len(c) :
             (ab \o c)[i] = IF i <= Len(ab) THEN ab[i] ELSE c[i - Len(ab)]
    BY <1>0, <1>1, ConcatProperties, ZenonT(30)
  <2>2. Len(ab) \in Nat /\ DOMAIN (ab \o c) = 1 .. Len(ab \o c)
    BY <1>1, <2>1, LenProperties
  <2> QED
    BY <1>0, <2>1, <2>2, SMT
<1>3. /\ DOMAIN (ab \o c) = 1 .. Len(a) + 7
      /\ \A i \in 1 .. Len(a) : (ab \o c)[i] = a[i]
      /\ (ab \o c)[Len(a) + 5] = c[3] /\ (ab \o c)[Len(a) + 6] = c[4]
  BY <1>1, <1>2, SMT
<1> QED
  BY <1>0, <1>3 DEF ab, InOrder

LEMMA TimedSeq ==
    ASSUME NEW S, NEW f \in [1 .. 5 -> S]
    PROVE  f \in Seq(S) /\ Len(f) = 5
<1>1. f \in Seq(S)
  BY SeqDef
<1>2. Len(f) \in Nat /\ 1 .. Len(f) = 1 .. 5
  BY <1>1, LenProperties
<1> QED
  BY <1>1, <1>2, SMT

\* The dispatcher refuses a descriptor that is there twice, and so a daemon
\* that lacks more than its last timer.
LEMMA DispatcherStep == StartInv /\ init_event_dispatcher => StartInv'
<1> SUFFICES ASSUME StartInv, init_event_dispatcher PROVE StartInv'
  OBVIOUS
<1>1. CASE Fail
  BY <1>1, FailStep
<1> DEFINE rx == [i \in DOMAIN ifcs |-> ifcs[i].socket_rx]
           own == <<ctx.ipc, ctx.route>>
           timed == [i \in DOMAIN TimerEvents |-> timer_getfd(TimerEvents[i])]
           fds == rx \o own \o timed
<1>2. CASE /\ IsInjective(fds) /\ pollfds' = fds /\ pc' = "loop"
           /\ UNCHANGED <<faults, doc, it, config, ifcs, sockets, ctx, next_fd>>
  <2>1. pc = "dispatcher"
    BY DEF init_event_dispatcher
  <2>2. SocketInv' /\ AcceptInv' /\ rip_configuration_validate(config)'
    BY <1>2, <2>1, SocketStep DEF Accepted
  <2>3. StateInv'
    BY <1>2, <2>1, <2>2 DEF StartInv, StateInv, TypeOK, Accepted, Starting
  <2>4. TimerInv'
    BY <1>2, <2>1 DEF StartInv, TimerInv
  <2>5. N \in Nat /\ SetUp
    BY <2>1, InterfaceList DEF StartInv, SocketInv, Accepted
  <2>6. /\ DOMAIN ifcs = 1 .. N /\ Len(ifcs) = N
        /\ \A i \in 1 .. N : ifcs[i] = [socket_rx |-> 2 + 2 * N + i, socket_tx |-> 2 + 2 * i]
    BY <2>5, SMT DEF SetUp
  <2>7. rx \in [1 .. N -> Nat] /\ \A i \in 1 .. N : rx[i] = 2 + 2 * N + i
    BY <2>5, <2>6, SMT
  <2> DEFINE Fd == Nat \cup {ctx.ipc, ctx.route} \cup {timed[i] : i \in 1 .. 5}
  <2>8. timed \in [1 .. 5 -> Fd] /\ timed[3] = ctx.timers[4] /\ timed[4] = ctx.timers[5]
    <3>1. DOMAIN TimerEvents = 1 .. 5 /\ TimerEvents[3] = "t_timeout" /\ TimerEvents[4] = "t_gc"
      BY SMT DEF TimerEvents
    <3> QED
      BY <3>1, TimerFd, SMT
  <2> HIDE DEF rx, timed
  <2>9. rx \in Seq(Fd) /\ Len(rx) = N
    <3>1. rx \in [1 .. N -> Fd]
      BY <2>7
    <3> HIDE DEF Fd
    <3> QED
      BY <2>5, <3>1, SMT
  <2>10. timed \in Seq(Fd) /\ Len(timed) = 5
    BY <2>8, TimedSeq
  <2>a. own \in Seq(Fd) /\ Len(own) = 2
    BY SMT
  <2> HIDE DEF own, Fd
  <2>11. /\ DOMAIN fds = 1 .. N + 7
         /\ \A i \in 1 .. N : fds[i] = rx[i]
         /\ fds[N + 5] = timed[3] /\ fds[N + 6] = timed[4]
    <3>1. fds = rx \o own \o timed
      OBVIOUS
    <3> HIDE DEF fds
    <3>2. Registered(Fd, rx, own, timed, fds)
      BY <2>9, <2>10, <2>a, <3>1 DEF Registered
    <3>3. InOrder(rx, timed, fds)
      BY <3>2, Events
    <3> QED
      BY <2>9, <3>3 DEF InOrder
  <2> HIDE DEF fds
  <2>12. ctx.timers[4] # 0
    <3>1. N + 5 \in DOMAIN fds /\ N + 6 \in DOMAIN fds /\ N + 5 # N + 6
      BY <2>5, <2>11, SMT
    <3>2. ctx.timers[4] # ctx.timers[5]
      BY <1>2, <2>8, <2>11, <3>1, SMT DEF IsInjective
    <3>3. ctx.timers[4] = 0 => ctx.timers[5] = 0
      BY <2>1, SMT DEF StartInv, TimerInv
    <3> QED
      BY <3>2, <3>3
  <2>13. /\ \A i \in 1 .. 5 : ctx.timers[i] = 0 => i = 5
         /\ {"t_update", "t_request_warmup"} \subseteq ctx.armed
         /\ "t_timeout" \in ctx.armed \/ ctx.timers[5] = 0
    BY <2>1, <2>12, SMT DEF StartInv, TimerInv
  <2>14. \A i \in DOMAIN Timers : ctx.timers[i] = 0 => Timers[i] = "t_gc"
    BY <2>13, TimerNames
  <2>15. ASSUME NEW i \in 1 .. N
         PROVE  /\ ifcs[i].socket_rx \in Range(fds)
                /\ sockets[ifcs[i].socket_rx].dev = config.rip_interfaces[i].dev
                /\ {"nonblocking", "port", "multicast"}
                     \subseteq Range(sockets[ifcs[i].socket_rx].options)
                /\ "no_loopback" \in Range(sockets[ifcs[i].socket_tx].options)
    <3>1. sockets[ifcs[i].socket_rx] = [dev |-> Dev(i), options |-> setup_socket_multicast_rx]
      BY <2>5, <2>6 DEF SetUp
    <3>2. sockets[ifcs[i].socket_tx] = [dev |-> Dev(i), options |-> setup_socket_multicast_tx]
      BY <2>5, <2>6 DEF SetUp
    <3>3. i \in DOMAIN fds /\ fds[i] = ifcs[i].socket_rx
      BY <2>5, <2>6, <2>7, <2>11, SMT
    <3>4. ifcs[i].socket_rx \in Range(fds)
      BY <3>3 DEF Range
    <3>5. {"nonblocking", "port", "multicast"} \subseteq Range(setup_socket_multicast_rx)
      BY SMT DEF setup_socket_multicast_rx, Range
    <3>6. "no_loopback" \in Range(setup_socket_multicast_tx)
      BY SMTT(30) DEF setup_socket_multicast_tx, rip_setup_tx_socket, Range
    <3> QED
      BY <3>1, <3>2, <3>4, <3>5, <3>6, SMT DEF Dev
  <2>16. LoopIsWired'
    BY <1>2, <2>6, <2>13, <2>14, <2>15, TimerFd DEF LoopIsWired, N, timer_getfd
  <2> QED
    BY <1>2, <2>2, <2>3, <2>4, <2>16 DEF StartInv, ParseInv
<1> QED
  BY <1>1, <1>2 DEF init_event_dispatcher, event_dispatcher_register_many

\* A state in which nothing more happens.
LEMMA StopStep == StartInv /\ UNCHANGED vars => StartInv'
<1> SUFFICES ASSUME StartInv, UNCHANGED vars PROVE StartInv'
  OBVIOUS
<1> USE DEF vars
<1>1. StateInv'
  BY DEF StartInv, StateInv, TypeOK, rip_configuration_validate
<1>2. ParseInv'
  BY DEF StartInv, ParseInv
<1>3. AcceptInv'
  BY AcceptStep DEF StartInv, AcceptInv
<1>4. SocketInv'
  BY DEF StartInv, SocketInv, Created, SetUp, N, Dev
<1>5. TimerInv'
  BY DEF StartInv, TimerInv
<1>6. LoopIsWired'
  BY DEF StartInv, LoopIsWired, timer_getfd
<1> QED
  BY <1>1, <1>2, <1>3, <1>4, <1>5, <1>6 DEF StartInv

LEMMA StartStep == StartInv /\ [Next]_vars => StartInv'
<1> SUFFICES ASSUME StartInv, [Next]_vars PROVE StartInv'
  OBVIOUS
<1>1. CASE Begin
  BY <1>1, OpenStep, ParseStep, ReadStep, CreateStep, SetupStep, RouteStep, DbStep,
     NetworksStep, IpcStep, TimersStep, DispatcherStep DEF Begin
<1>2. CASE sig_handler \/ atexit_handler \/ exit_again
  BY <1>2, EndStep DEF sig_handler, atexit_handler, exit_again, Ending
<1>3. CASE UNCHANGED vars
  BY <1>3, StopStep
<1> QED
  BY <1>1, <1>2, <1>3 DEF Next, Stop

LEMMA StartCorrect == Spec => []StartInv
BY InitStart, StartStep, PTL DEF Spec

(***************************************************************************)
(* Every step of rip_begin finds what it needs, whichever of them fail.    *)
(***************************************************************************)
THEOREM StartTypes == Spec => []TypeOK
<1>1. StartInv => TypeOK
  BY DEF StartInv, StateInv
<1> QED
  BY <1>1, StartCorrect, PTL

(***************************************************************************)
(* For every document: the configuration that passes                       *)
(* rip_configuration_validate is the written one, item by item, although   *)
(* parse_sequence_of_mappings skips items that are no mappings and counts  *)
(* them all the same.                                                      *)
(***************************************************************************)
THEOREM ParserIsFaithful == Spec => []ReadsWhatIsWritten
<1>1. StartInv => ReadsWhatIsWritten
  BY DEF StartInv, AcceptInv, ReadsWhatIsWritten
<1> QED
  BY <1>1, StartCorrect, PTL

(***************************************************************************)
(* For every configuration and every failure: a daemon in its event loop   *)
(* listens on a bound socket of every configured interface, no descriptor  *)
(* has two handlers, and at most the garbage collection timer is missing,  *)
(* although rip_begin ignores what rip_init_timers returns.                *)
(***************************************************************************)
THEOREM LoopIsAlwaysWired == Spec => []LoopIsWired
<1>1. StartInv => LoopIsWired
  BY DEF StartInv
<1> QED
  BY <1>1, StartCorrect, PTL
=============================================================================
