------------------------------ MODULE RipStart ------------------------------
(***************************************************************************)
(* From the configuration file to the event loop: rip_read_config          *)
(* (utils/config/parse_rip_config.c) and the steps of rip_begin (rip.c),   *)
(* any of which may fail, or be interrupted by a signal.  Ripd begins      *)
(* where this module has a database.                                       *)
(***************************************************************************)
EXTENDS Naturals, Sequences, FiniteSets, FiniteSetsExt, Functions

CONSTANTS
    Ifc,         \* the network devices that exist
    Docs,        \* the configuration files
    Scalar,      \* what is written in them: devices, addresses, numbers, other text
    Faults,      \* what may go wrong: sets of "call", "timer" and "signal"
    NULL

(***************************************************************************)
(* A file is missing, no yaml, an empty document, another document, or a   *)
(* rip_configuration: a sequence of keys with their values.  A key stands  *)
(* for all that begin with it, as KEY_NAME_CMP compares no more.  A list   *)
(* is NULL when the value is no sequence; an item of it is NULL when it is *)
(* no mapping; a field is NULL when it is absent.  A scalar may be "text"  *)
(* where a number or an address is needed, a prefix may be "too_long", and *)
(* "list" is what should be a scalar and is not.                           *)
(***************************************************************************)
Text == Scalar \cup {NULL}
Mapping == [dev : Text, prefix : Text, address : Text]
Value(key) ==
    CASE key = "version" -> Scalar
      [] key \in {"rip_interfaces", "advertised_networks"} ->
           Seq(Mapping \cup {NULL}) \cup {NULL}
      [] OTHER -> {NULL}
Keys == {"version", "rip_interfaces", "advertised_networks", "unknown"}

ASSUME DocsAssumption ==
    \A doc \in Docs :
      /\ doc.file \in {"missing", "no_yaml", "empty", "other", "rip"}
      /\ Len(doc.pairs) \in Nat
      /\ DOMAIN doc.pairs = 1 .. Len(doc.pairs)
      /\ \A i \in DOMAIN doc.pairs :
           doc.pairs[i].key \in Keys /\ doc.pairs[i].value \in Value(doc.pairs[i].key)

ASSUME ScalarAssumption ==
    {"2", "text", "list", "too_long"} \subseteq Scalar

ASSUME FaultsAssumption == Faults \subseteq SUBSET {"call", "timer", "signal"}

Blank == [dev |-> NULL, prefix |-> NULL, address |-> NULL]

Timers == <<"t_update", "t_triggered_lock", "t_request_warmup", "t_timeout", "t_gc">>
TimerEvents == <<"t_update", "t_triggered_lock", "t_timeout", "t_gc", "t_request_warmup">>

VARIABLES
    faults,   \* what may go wrong in this start
    pc,       \* the next step
    doc,      \* the configuration file
    it,       \* the pair of the document that is parsed next
    config,   \* the configuration; NULL before it is read
    ifcs,     \* rip_ifcs: the sockets of each interface
    sockets,  \* the device and the options of each socket
    ctx,      \* the descriptors of route_mngr, ipc_mngr and timers; rip_db
    pollfds,  \* the descriptors the dispatcher waits for
    next_fd   \* descriptors are numbered as they are opened

vars == <<faults, pc, doc, it, config, ifcs, sockets, ctx, pollfds, next_fd>>

\* A system call or an allocation, timerfd_create, and SIGINT or SIGTERM.
CallFails == "call" \in faults
TimerFails == "timer" \in faults
Signals == "signal" \in faults

Accepted == {"create", "setup", "route", "db", "networks", "ipc", "timers", "dispatcher"}
Starting == {"config", "parse"} \cup Accepted

(***************************************************************************)
(* The configuration.  An item that is no mapping is skipped, but counted  *)
(* in the length: the items after it move up, and blank ones are left at   *)
(* the end.                                                                *)
(***************************************************************************)
IsMapping(item) == item # NULL

parse_sequence_shortened(value) == SelectSeq(value, IsMapping)
parse_sequence_of_mappings(value) ==
    LET seq_idx(j) == Cardinality({k \in 1 .. j : IsMapping(value[k])})
        sources(i) == {j \in DOMAIN value : IsMapping(value[j]) /\ seq_idx(j) = i}
    IN  [i \in DOMAIN value |->
           IF sources(i) = {} THEN Blank ELSE value[CHOOSE j \in sources(i) : TRUE]]

str_to_int_fails(str) == str = "text"

\* A pair of an item whose value is no scalar is an error, whatever its key.
extract_str_fails(value) ==
    \E i \in DOMAIN value :
      IsMapping(value[i]) /\ "list" \in {value[i].dev, value[i].prefix, value[i].address}
extract_int_fails(value) ==
    \E i \in DOMAIN value : IsMapping(value[i]) /\ str_to_int_fails(value[i].prefix)

parse_rip_interfaces(value) ==
    IF value = NULL \/ (value # NULL /\ extract_str_fails(value)) THEN NULL
    ELSE LET items == parse_sequence_of_mappings(value)
         IN  [i \in DOMAIN items |-> [dev |-> items[i].dev]]

parse_rip_advertised_networks(value) ==
    IF value = NULL \/ (value # NULL /\ (extract_str_fails(value) \/ extract_int_fails(value)))
    THEN NULL
    ELSE parse_sequence_of_mappings(value)

\* The version is read as a scalar without a look at its type: bytes is what
\* the memory of another node reads as.
parse_rip_version(value, bytes) ==
    LET str == IF value = "list" THEN bytes ELSE value
    IN  IF str_to_int_fails(str) THEN NULL ELSE str

parse_value(pair, bytes) ==
    CASE pair.key = "version" -> parse_rip_version(pair.value, bytes)
      [] pair.key = "rip_interfaces" -> parse_rip_interfaces(pair.value)
      [] OTHER -> parse_rip_advertised_networks(pair.value)

rip_configuration_validate(cfg) ==
    /\ cfg.version # NULL
    /\ cfg.rip_interfaces # NULL
    /\ \A i \in DOMAIN cfg.rip_interfaces : cfg.rip_interfaces[i].dev # NULL
    /\ \A i \in DOMAIN cfg.advertised_networks :
         LET net == cfg.advertised_networks[i]
         IN  net.dev # NULL /\ net.prefix # NULL /\ net.address # NULL

----------------------------------------------------------------------------
Init ==
    /\ faults \in Faults
    /\ doc \in Docs
    /\ pc = "config"
    /\ it = 0
    /\ config = NULL
    /\ ifcs = <<>>
    /\ sockets = [fd \in {} |-> NULL]
    /\ ctx = [route |-> 0, ipc |-> 0, db |-> FALSE, timers |-> <<>>, armed |-> {}]
    /\ pollfds = <<>>
    /\ next_fd = 3

\* rip_begin returns 1 to main, and main returns.
Fail ==
    /\ pc' = "returned"
    /\ UNCHANGED <<faults, doc, it, config, ifcs, sockets, ctx, pollfds, next_fd>>

\* SIGSEGV, whose handler is sig_handler.
Segv ==
    /\ pc' = "segv"
    /\ UNCHANGED <<faults, doc, it, config, ifcs, sockets, ctx, pollfds, next_fd>>

\* A file that was not opened is closed, an empty document has no root, and
\* some allocations are used unchecked.
rip_configuration_read_and_parse ==
    /\ pc = "config"
    /\ \/ (CallFails \/ doc.file \in {"missing", "empty"}) /\ Segv
       \/ (CallFails \/ doc.file \in {"missing", "no_yaml", "other"}) /\ Fail
       \/ /\ doc.file = "rip"
          /\ config' = [version |-> NULL, rip_interfaces |-> NULL, advertised_networks |-> <<>>]
          /\ it' = 1
          /\ pc' = "parse"
          /\ UNCHANGED <<faults, doc, ifcs, sockets, ctx, pollfds, next_fd>>

\* One turn of the loop over the document.
parse_rip_configuration ==
    /\ pc = "parse"
    /\ it \in DOMAIN doc.pairs
    /\ \/ \E bytes \in {"2", "text"} :
            LET pair == doc.pairs[it]
                parsed == parse_value(pair, bytes)
            IN  IF pair.key # "unknown" /\ parsed = NULL THEN Fail
                ELSE /\ config' = IF pair.key = "unknown" THEN config
                                   ELSE [config EXCEPT ![pair.key] = parsed]
                     /\ it' = it + 1
                     /\ UNCHANGED <<faults, pc, doc, ifcs, sockets, ctx, pollfds, next_fd>>
       \/ CallFails /\ (Fail \/ Segv)

rip_read_config ==
    /\ pc = "parse"
    /\ it \notin DOMAIN doc.pairs
    /\ IF rip_configuration_validate(config)
       THEN /\ pc' = "create"
            /\ UNCHANGED <<faults, doc, it, config, ifcs, sockets, ctx, pollfds, next_fd>>
       ELSE Fail

\* Two sockets for each interface.
rip_create_socket_ifname(dev) == [dev |-> dev, options |-> <<>>]

rip_create_sockets ==
    /\ pc = "create"
    /\ LET devs == [i \in DOMAIN config.rip_interfaces |-> config.rip_interfaces[i].dev]
           new == next_fd .. next_fd + 2 * Len(devs) - 1
       IN  \/ /\ Range(devs) \subseteq Ifc
              /\ ifcs' = [i \in DOMAIN devs |-> [socket_rx |-> next_fd + 2 * i - 2,
                                                 socket_tx |-> next_fd + 2 * i - 1]]
              /\ sockets' = [fd \in new |->
                               rip_create_socket_ifname(devs[(fd - next_fd) \div 2 + 1])]
              /\ next_fd' = next_fd + 2 * Len(devs)
              /\ pc' = "setup"
              /\ UNCHANGED <<faults, doc, it, config, ctx, pollfds>>
           \/ (CallFails \/ ~(Range(devs) \subseteq Ifc)) /\ Fail

\* The calls made for a socket, in their order.  The receiving socket is
\* created anew; the first one stays open, unused.
tx_reuse_last == <<"to_device", "port", "reuse_port">>
rip_setup_tx_socket == <<"to_device", "reuse_port", "port">>
setup_socket_multicast_tx == rip_setup_tx_socket \o <<"no_loopback">>
setup_socket_multicast_rx == <<"nonblocking", "to_device", "reuse_port", "port", "multicast">>

\* bind refuses a port that an earlier socket of the device has, unless both
\* allow it by then.
Before(a, b, options) ==
    \E i, j \in DOMAIN options : i < j /\ options[i] = a /\ options[j] = b
socket_bind_port_fails(earlier, socket) ==
    /\ \/ earlier.dev = socket.dev
       \/ ~Before("to_device", "port", earlier.options)
       \/ ~Before("to_device", "port", socket.options)
    /\ \/ "reuse_port" \notin Range(earlier.options)
       \/ ~Before("reuse_port", "port", socket.options)

rip_setup_sockets ==
    /\ pc = "setup"
    /\ LET dev(i) == sockets[ifcs[i].socket_rx].dev
           rx == [i \in DOMAIN ifcs |-> [dev |-> dev(i), options |-> setup_socket_multicast_rx]]
           tx == [i \in DOMAIN ifcs |-> [dev |-> dev(i), options |-> setup_socket_multicast_tx]]
           fails == \E i \in DOMAIN ifcs :
                      \/ socket_bind_port_fails(rx[i], tx[i])
                      \/ \E k \in 1 .. i - 1 :
                           \E first \in {rx[k], tx[k]}, second \in {rx[i], tx[i]} :
                             socket_bind_port_fails(first, second)
           new_rx(i) == next_fd + i - 1
       IN  \/ /\ ~fails
              /\ sockets' = [fd \in DOMAIN sockets \cup {new_rx(i) : i \in DOMAIN ifcs} |->
                               IF fd \notin DOMAIN sockets THEN rx[fd - next_fd + 1]
                               ELSE IF \E i \in DOMAIN ifcs : ifcs[i].socket_tx = fd
                               THEN [sockets[fd] EXCEPT !.options = setup_socket_multicast_tx]
                               ELSE sockets[fd]]
              /\ ifcs' = [i \in DOMAIN ifcs |-> [ifcs[i] EXCEPT !.socket_rx = new_rx(i)]]
              /\ next_fd' = next_fd + Len(ifcs)
              /\ pc' = "route"
              /\ UNCHANGED <<faults, doc, it, config, ctx, pollfds>>
           \/ (CallFails \/ fails) /\ Fail

rip_route_init ==
    /\ pc = "route"
    /\ \/ /\ ctx' = [ctx EXCEPT !.route = next_fd]
          /\ next_fd' = next_fd + 1
          /\ pc' = "db"
          /\ UNCHANGED <<faults, doc, it, config, ifcs, sockets, pollfds>>
       \/ CallFails /\ Fail

rip_db_init_unchecked ==
    /\ pc = "db"
    /\ \E done \in {TRUE, ~CallFails} : ctx' = [ctx EXCEPT !.db = done]
    /\ pc' = "networks"
    /\ UNCHANGED <<faults, doc, it, config, ifcs, sockets, pollfds, next_fd>>
rip_db_init ==
    /\ pc = "db"
    /\ \/ /\ ctx' = [ctx EXCEPT !.db = TRUE]
          /\ pc' = "networks"
          /\ UNCHANGED <<faults, doc, it, config, ifcs, sockets, pollfds, next_fd>>
       \/ CallFails /\ Fail

\* The device exists, the address and the prefix are such, and no network is
\* there twice.
add_advertised_networks_to_db ==
    /\ pc = "networks"
    /\ LET nets == config.advertised_networks
           added == /\ \A i \in DOMAIN nets : /\ nets[i].dev \in Ifc
                                               /\ nets[i].address # "text"
                                               /\ nets[i].prefix # "too_long"
                    /\ IsInjective([i \in DOMAIN nets |-> <<nets[i].address, nets[i].prefix>>])
       IN  \/ /\ added
              /\ pc' = "ipc"
              /\ UNCHANGED <<faults, doc, it, config, ifcs, sockets, ctx, pollfds, next_fd>>
           \/ (CallFails \/ ~added) /\ Fail

rip_ipc_alloc_init ==
    /\ pc = "ipc"
    /\ \/ /\ ctx' = [ctx EXCEPT !.ipc = next_fd]
          /\ next_fd' = next_fd + 1
          /\ pc' = "timers"
          /\ UNCHANGED <<faults, doc, it, config, ifcs, sockets, pollfds>>
       \/ CallFails /\ Fail

\* It stops at a timer that cannot be created or started, and the result is
\* ignored: n timers are created, and all of them but perhaps the last one
\* are started, if they are to be started now.
StartedAtOnce == {"t_update", "t_request_warmup", "t_timeout"}
init_timers_go_on ==
    /\ pc = "timers"
    /\ \E missing \in SUBSET DOMAIN Timers :
         /\ missing # {} => TimerFails
         /\ ctx' = [ctx EXCEPT
                      !.timers = [i \in DOMAIN Timers |->
                                    IF i \in missing THEN 0 ELSE next_fd + i - 1],
                      !.armed = StartedAtOnce \ {Timers[i] : i \in missing}]
    /\ next_fd' = next_fd + Len(Timers)
    /\ pc' = "dispatcher"
    /\ UNCHANGED <<faults, doc, it, config, ifcs, sockets, pollfds>>
rip_init_timers ==
    /\ pc = "timers"
    /\ \E n \in 0 .. Len(Timers), started \in BOOLEAN :
         /\ n < Len(Timers) => TimerFails
         /\ ~started => n \in 1 .. Len(Timers) - 1 /\ Timers[n] \in StartedAtOnce
         /\ ctx' = [ctx EXCEPT
                      !.timers = [i \in DOMAIN Timers |->
                                    IF i <= n THEN next_fd + i - 1 ELSE 0],
                      !.armed = {Timers[i] : i \in 1 .. (IF started THEN n ELSE n - 1)}
                                  \cap StartedAtOnce]
         /\ next_fd' = next_fd + n
    /\ pc' = "dispatcher"
    /\ UNCHANGED <<faults, doc, it, config, ifcs, sockets, pollfds>>

timer_getfd(t) == ctx.timers[CHOOSE i \in DOMAIN Timers : Timers[i] = t]

\* The same descriptor cannot be registered twice.
event_dispatcher_register_many(fds) == IsInjective(fds)

init_event_dispatcher ==
    /\ pc = "dispatcher"
    /\ LET fds == [i \in DOMAIN ifcs |-> ifcs[i].socket_rx] \o <<ctx.ipc, ctx.route>>
                    \o [i \in DOMAIN TimerEvents |-> timer_getfd(TimerEvents[i])]
       IN  \/ /\ event_dispatcher_register_many(fds)
              /\ pollfds' = fds
              /\ pc' = "loop"
              /\ UNCHANGED <<faults, doc, it, config, ifcs, sockets, ctx, next_fd>>
           \/ (CallFails \/ ~event_dispatcher_register_many(fds)) /\ Fail

----------------------------------------------------------------------------
(***************************************************************************)
(* The end.  sig_handler calls exit while rip_begin is running; main       *)
(* returns after it, and the exit handler then uses a context that is no   *)
(* longer there.  Without a database the exit handler itself is stopped by *)
(* SIGSEGV, and sig_handler calls exit again.                              *)
(***************************************************************************)
sig_handler ==
    /\ \/ Signals /\ pc \in Starting \cup {"loop"}
       \/ pc = "segv"
    /\ pc' = "exit"
    /\ UNCHANGED <<faults, doc, it, config, ifcs, sockets, ctx, pollfds, next_fd>>

atexit_handler ==
    /\ pc \in {"returned", "exit"}
    /\ pc' \in IF pc = "returned" THEN {"ended", "fault"}
               ELSE IF ctx.db THEN {"ended"} ELSE {"fault"}
    /\ UNCHANGED <<faults, doc, it, config, ifcs, sockets, ctx, pollfds, next_fd>>

\* exit does not call a handler again that it has called already.
exit_calls_handler_again ==
    /\ pc = "fault"
    /\ pc' = "exit"
    /\ UNCHANGED <<faults, doc, it, config, ifcs, sockets, ctx, pollfds, next_fd>>
exit_again ==
    /\ pc = "fault"
    /\ pc' = "ended"
    /\ UNCHANGED <<faults, doc, it, config, ifcs, sockets, ctx, pollfds, next_fd>>

Begin ==
    \/ rip_configuration_read_and_parse
    \/ parse_rip_configuration
    \/ rip_read_config
    \/ rip_create_sockets
    \/ rip_setup_sockets
    \/ rip_route_init
    \/ rip_db_init
    \/ add_advertised_networks_to_db
    \/ rip_ipc_alloc_init
    \/ rip_init_timers
    \/ init_event_dispatcher

Exiting == atexit_handler \/ exit_again \/ (pc = "segv" /\ sig_handler)

\* The loop and the end are the states in which nothing more happens here.
Stop == pc \in {"loop", "ended"} /\ UNCHANGED vars

Next == Begin \/ sig_handler \/ atexit_handler \/ exit_again \/ Stop

Spec == Init /\ [][Next]_vars
FairSpec == Spec /\ WF_vars(Begin) /\ WF_vars(Exiting)

----------------------------------------------------------------------------
(***************************************************************************)
(* Types; and the steps of rip_begin leave what the next ones use.         *)
(***************************************************************************)
TypeOK ==
    /\ pc \in Starting \cup {"loop", "returned", "segv", "exit", "fault", "ended"}
    /\ pc \in Accepted \cup {"loop"} => rip_configuration_validate(config)
    /\ DOMAIN sockets \subseteq 3 .. next_fd - 1
    /\ pc \in {"networks", "ipc", "timers", "dispatcher", "loop"} => ctx.db
    /\ pc \in {"dispatcher", "loop"} => ctx.ipc # 0 /\ Len(ctx.timers) = Len(Timers)

(***************************************************************************)
(* A configuration that is accepted is the one that is written: the        *)
(* interfaces and networks are those of the last list of the document,     *)
(* item by item, and no item was skipped, although the parser skips items  *)
(* and the validation looks at single fields only.                         *)
(***************************************************************************)
Written(key) ==
    LET lines == {i \in DOMAIN doc.pairs : doc.pairs[i].key = key}
    IN  IF lines = {} THEN NULL ELSE doc.pairs[Max(lines)].value
AsWritten ==
    /\ Written("version") \in {config.version, "list"}
    /\ Written("rip_interfaces") # NULL
    /\ LET value == Written("rip_interfaces")
       IN  /\ \A i \in DOMAIN value : value[i] # NULL
           /\ config.rip_interfaces = [i \in DOMAIN value |-> [dev |-> value[i].dev]]
    /\ config.advertised_networks =
         IF Written("advertised_networks") = NULL THEN <<>> ELSE Written("advertised_networks")
ReadsWhatIsWritten == pc \in Accepted \cup {"loop"} => AsWritten

(***************************************************************************)
(* In the event loop every interface of the configuration is waited for at *)
(* a socket that is bound, each descriptor has one handler, and although   *)
(* rip_begin ignores what rip_init_timers returns, updates and the first   *)
(* request are on their way, and routes are timed out or the timer that    *)
(* is missing is t_gc: two missing timers have the same descriptor, which  *)
(* the dispatcher refuses.                                                 *)
(***************************************************************************)
LoopIsWired ==
    pc = "loop" =>
      /\ Len(ifcs) = Len(config.rip_interfaces)
      /\ \A i \in DOMAIN ifcs :
           LET rx == sockets[ifcs[i].socket_rx]
           IN  /\ ifcs[i].socket_rx \in Range(pollfds)
               /\ rx.dev = config.rip_interfaces[i].dev
               /\ {"nonblocking", "port", "multicast"} \subseteq Range(rx.options)
               /\ "no_loopback" \in Range(sockets[ifcs[i].socket_tx].options)
      /\ IsInjective(pollfds)
      /\ \A i \in DOMAIN Timers : ctx.timers[i] = 0 => Timers[i] = "t_gc"
      /\ {"t_update", "t_request_warmup"} \subseteq ctx.armed
      /\ "t_timeout" \in ctx.armed \/ timer_getfd("t_gc") = 0

(***************************************************************************)
(* Every start ends in the event loop or with the end of the process,      *)
(* whatever fails, even if the exit handler has no database to clean.      *)
(***************************************************************************)
StartEnds == <>(pc \in {"loop", "ended"})

(***************************************************************************)
(* If nothing fails and no signal comes, a file that is written as it      *)
(* should be leads to the event loop: also when an interface is listed     *)
(* twice, or a key is written twice, so that four sockets share a port.    *)
(***************************************************************************)
WrittenWell ==
    /\ doc.file = "rip"
    /\ \A i \in DOMAIN doc.pairs :
         LET value == doc.pairs[i].value
         IN  CASE doc.pairs[i].key = "version" -> value = "2"
               [] doc.pairs[i].key = "unknown" -> TRUE
               [] OTHER -> value # NULL /\ NULL \notin Range(value)
    /\ Written("version") # NULL /\ Written("rip_interfaces") # NULL
    /\ \A item \in Range(Written("rip_interfaces")) : item.dev \in Ifc
    /\ LET nets == IF Written("advertised_networks") = NULL THEN <<>>
                   ELSE Written("advertised_networks")
       IN  /\ IsInjective(nets)
           /\ \A net \in Range(nets) : /\ net.dev \in Ifc
                                       /\ net.prefix \notin {NULL, "text", "too_long", "list"}
                                       /\ net.address \notin {NULL, "text", "list"}
GoodStartSucceeds == faults = {} /\ WrittenWell => <>[](pc = "loop")
=============================================================================
