------------------------------- MODULE RipIpc -------------------------------
(***************************************************************************)
(* rip-cli (rip_cli.c) and the daemon (librip/rip_ipc.c) talk over two     *)
(* POSIX message queues.  The daemon reads requests from "/rip_queue",     *)
(* which outlives it.  Every CLI reads its answers from "/rip_cli_queue":  *)
(* all CLIs share the name, a CLI that ends well unlinks it, and a queue   *)
(* that is unlinked lives on for those who have it open.  Neither a        *)
(* request nor an answer says who asked.                                   *)
(***************************************************************************)
EXTENDS CNull, Naturals, Sequences, FiniteSets

CONSTANTS
    Cli,          \* terminals: each runs rip-cli any number of times
    Queue,        \* the queue objects "/rip_cli_queue" can stand for
    Argv,         \* the command lines: sequences of commands, empty for -h
    MaxMsg,       \* mq_maxmsg of both queues
    MaxReq,       \* bound: the requests of all CLIs ever started; -h counts as one
    OutOfMemory,  \* calloc may fail in the daemon
    Kills,        \* SIGINT may end a CLI
    Crashes       \* the daemon may end and be started again

Cmd == {"dump_libnl_route_table", "dump_rip_routes"}

ASSUME IpcAssumption ==
    /\ Argv \subseteq Seq(Cmd)
    /\ MaxMsg \in Nat \ {0}
    /\ MaxReq \in Nat
    /\ {OutOfMemory, Kills, Crashes} \subseteq BOOLEAN

(***************************************************************************)
(* What travels is the command, and back its output.  The terminal and the *)
(* serial number tell the requests apart in the properties only.  An       *)
(* answer is written as the request it answers.                            *)
(***************************************************************************)
Request == [cli : Cli, cmd : Cmd, n : Nat]

ASSUME NullAssumption == NULL \notin Queue \cup Seq(Request)

VARIABLES
    rip_queue,      \* "/rip_queue": NULL until a daemon first made it
    rip_cli_queue,  \* the queue that has the name "/rip_cli_queue"
    answers,        \* the contents of the CLI queues
    cli,            \* the CLI of each terminal
    ripd,           \* the daemon: down, polling, or where in its handler
    n_req,          \* history: the requests of the CLIs started so far
    abandoned,      \* history: the requests whose CLI did not wait
    quiet           \* history: one CLI at a time, and none abandoned its request

vars == <<rip_queue, rip_cli_queue, answers, cli, ripd, n_req, abandoned, quiet>>

Idle == [pc |-> "idle", fd |-> NULL, argv |-> <<>>, n |-> 0, req |-> NULL, out |-> NULL]

(***************************************************************************)
(* Types; and a process that uses a queue has a descriptor of it, whatever *)
(* was unlinked in the meantime.                                           *)
(***************************************************************************)
TypeOK ==
    /\ rip_queue \in Seq(Request) \cup {NULL}
    /\ rip_cli_queue \in Queue \cup {NULL}
    /\ answers \in [Queue -> Seq(Request)]
    /\ cli \in [Cli -> [pc : {"idle", "getopt", "wait"}, fd : Queue \cup {NULL},
                        argv : Seq(Cmd), n : Nat, req : Request \cup {NULL},
                        out : Request \cup {NULL}]]
    /\ ripd \in [pc : {"down", "poll", "open", "send"}, req : Request \cup {NULL},
                 fd : Queue \cup {NULL}]
    /\ n_req \in Nat
    /\ abandoned \in Nat
    /\ quiet \in BOOLEAN
    /\ \A c \in Cli : cli[c].pc # "idle" => cli[c].fd \in Queue
    /\ ripd.pc \in {"open", "send"} => ripd.req \in Request
    /\ ripd.pc = "send" => ripd.fd \in Queue
    /\ ripd.pc # "down" => rip_queue \in Seq(Request)

Polling == [pc |-> "poll", req |-> NULL, fd |-> NULL]

Init ==
    /\ rip_queue = NULL
    /\ rip_cli_queue = NULL
    /\ answers = [q \in Queue |-> <<>>]
    /\ cli = [c \in Cli |-> Idle]
    /\ ripd = [pc |-> "down", req |-> NULL, fd |-> NULL]
    /\ n_req = 0
    /\ abandoned = 0
    /\ quiet = TRUE

Running == {c \in Cli : cli[c].pc # "idle"}
Waiting == {c \in Cli : cli[c].pc = "wait"}

\* The system frees a queue that has no name and that nobody has open.
Open(name, holders, daemon) ==
    {name, daemon.fd} \cup {holders[c].fd : c \in Cli}
Freed(contents, name, holders, daemon) ==
    [q \in Queue |-> IF q \in Open(name, holders, daemon) THEN contents[q] ELSE <<>>]

----------------------------------------------------------------------------
(***************************************************************************)
(* The CLI.  cli_rip_ipc_alloc_init opens the queue that has the name, or  *)
(* makes a new one; it does not look at what is in it.                     *)
(***************************************************************************)
cli_rip_ipc_alloc_init(c) ==
    /\ cli[c].pc = "idle"
    /\ \E q \in Queue, argv \in Argv :
         /\ IF rip_cli_queue # NULL THEN q = rip_cli_queue
                                    ELSE q \notin Open(NULL, cli, ripd)
         /\ rip_cli_queue' = q
         /\ cli' = [cli EXCEPT ![c] =
                      [pc |-> "getopt", fd |-> q, argv |-> argv, n |-> n_req + 1,
                       req |-> NULL, out |-> NULL]]
         /\ n_req' = n_req + (IF argv = <<>> THEN 1 ELSE Len(argv))
         /\ n_req' <= MaxReq
    /\ quiet' = (quiet /\ Running = {})
    /\ UNCHANGED <<rip_queue, answers, ripd, abandoned>>

\* The CLI's process ends: its descriptors are closed, the name stays.
Exit(c) ==
    /\ cli' = [cli EXCEPT ![c] = Idle]
    /\ answers' = Freed(answers, rip_cli_queue, cli', ripd)
    /\ UNCHANGED <<rip_queue, rip_cli_queue, ripd, n_req>>

Abandon(c) ==
    /\ abandoned' = abandoned + (IF c \in Waiting THEN 1 ELSE 0)
    /\ quiet' = (quiet /\ c \notin Waiting)

\* The daemon's queue does not exist: "RIP deamon not up".
send_msg_not_up(c) ==
    /\ cli[c].pc = "getopt" /\ cli[c].argv # <<>>
    /\ rip_queue = NULL
    /\ Exit(c)
    /\ UNCHANGED <<abandoned, quiet>>

\* mq_send waits while the daemon's queue is full.
send_msg(c) ==
    /\ cli[c].pc = "getopt" /\ cli[c].argv # <<>>
    /\ rip_queue # NULL /\ Len(rip_queue) < MaxMsg
    /\ LET req == [cli |-> c, cmd |-> Head(cli[c].argv), n |-> cli[c].n]
       IN  /\ rip_queue' = Append(rip_queue, req)
           /\ cli' = [cli EXCEPT ![c] =
                        [pc |-> "wait", fd |-> @.fd, argv |-> Tail(@.argv), n |-> @.n + 1,
                         req |-> req, out |-> NULL]]
    /\ UNCHANGED <<rip_cli_queue, answers, ripd, n_req, abandoned, quiet>>

\* mq_timedreceive takes the oldest message, and send_cmd prints it.
send_msg_answer(c) ==
    /\ cli[c].pc = "wait"
    /\ answers[cli[c].fd] # <<>>
    /\ cli' = [cli EXCEPT ![c].pc = "getopt", ![c].out = Head(answers[cli[c].fd])]
    /\ answers' = [answers EXCEPT ![cli[c].fd] = Tail(@)]
    /\ UNCHANGED <<rip_queue, rip_cli_queue, ripd, n_req, abandoned, quiet>>

\* Three seconds without an answer: exit(1), and the queue keeps its name.
send_msg_timeout_silent(c) ==
    /\ cli[c].pc = "wait"
    /\ answers[cli[c].fd] = <<>>
    /\ cli' = [cli EXCEPT ![c].pc = "getopt"]
    /\ UNCHANGED <<rip_queue, rip_cli_queue, answers, ripd, n_req, abandoned, quiet>>
send_msg_timeout(c) ==
    /\ cli[c].pc = "wait"
    /\ answers[cli[c].fd] = <<>>
    /\ Exit(c)
    /\ Abandon(c)

\* No option is left: rip_ipc_free closes the queue and unlinks the name.
getopt_no_break(c) ==
    /\ cli[c].pc = "getopt" /\ cli[c].argv = <<>>
    /\ cli' = [cli EXCEPT ![c].argv = <<>>]
    /\ UNCHANGED <<rip_queue, rip_cli_queue, answers, ripd, n_req, abandoned, quiet>>
rip_ipc_free(c) ==
    /\ cli[c].pc = "getopt" /\ cli[c].argv = <<>>
    /\ cli' = [cli EXCEPT ![c] = Idle]
    /\ rip_cli_queue' = NULL
    /\ answers' = Freed(answers, NULL, cli', ripd)
    /\ UNCHANGED <<rip_queue, ripd, n_req, abandoned, quiet>>

sig_handler(c) ==
    /\ Kills
    /\ c \in Running
    /\ Exit(c)
    /\ Abandon(c)

----------------------------------------------------------------------------
(***************************************************************************)
(* The daemon.  A queue left by an earlier daemon is opened as it is.      *)
(***************************************************************************)
rip_ipc_alloc_init ==
    /\ ripd.pc = "down"
    /\ ripd' = Polling
    /\ rip_queue' = IF rip_queue = NULL THEN <<>> ELSE rip_queue
    /\ UNCHANGED <<rip_cli_queue, answers, cli, n_req, abandoned, quiet>>

\* rip_ipc_handle_event, in the steps its system calls cut it into.
handle_event_peek ==
    /\ ripd.pc = "poll"
    /\ rip_queue # <<>>
    /\ ripd' = [ripd EXCEPT !.pc = "open", !.req = Head(rip_queue)]
    /\ UNCHANGED <<rip_queue, rip_cli_queue, answers, cli, n_req, abandoned, quiet>>
handle_event_receive ==
    /\ ripd.pc = "poll"
    /\ rip_queue # <<>>
    /\ ripd' = [ripd EXCEPT !.pc = "open", !.req = Head(rip_queue)]
    /\ rip_queue' = Tail(rip_queue)
    /\ UNCHANGED <<rip_cli_queue, answers, cli, n_req, abandoned, quiet>>

\* No CLI queue has the name, or calloc fails: there is no answer.
handle_event_open_unchecked ==
    /\ ripd.pc = "open"
    /\ ripd' = [ripd EXCEPT !.pc = "send", !.fd = rip_cli_queue]
    /\ UNCHANGED <<rip_queue, rip_cli_queue, answers, cli, n_req, abandoned, quiet>>
handle_event_open_retry ==
    /\ ripd.pc = "open"
    /\ rip_cli_queue # NULL
    /\ ripd' = [ripd EXCEPT !.pc = "send", !.fd = rip_cli_queue]
    /\ UNCHANGED <<rip_queue, rip_cli_queue, answers, cli, n_req, abandoned, quiet>>
handle_event_open ==
    /\ ripd.pc = "open"
    /\ \/ /\ rip_cli_queue # NULL
          /\ ripd' = [ripd EXCEPT !.pc = "send", !.fd = rip_cli_queue]
       \/ /\ rip_cli_queue = NULL \/ OutOfMemory
          /\ ripd' = Polling
    /\ UNCHANGED <<rip_queue, rip_cli_queue, answers, cli, n_req, abandoned, quiet>>

\* mq_send waits while the CLI queue is full, and with it the whole daemon.
handle_event_send ==
    /\ ripd.pc = "send"
    /\ Len(answers[ripd.fd]) < MaxMsg
    /\ ripd' = Polling
    /\ answers' = Freed([answers EXCEPT ![ripd.fd] = Append(@, ripd.req)],
                        rip_cli_queue, cli, ripd')
    /\ UNCHANGED <<rip_queue, rip_cli_queue, cli, n_req, abandoned, quiet>>

\* The daemon ends.  It never unlinks its queue.
ripd_ends ==
    /\ Crashes
    /\ ripd.pc # "down"
    /\ ripd' = [pc |-> "down", req |-> NULL, fd |-> NULL]
    /\ answers' = Freed(answers, rip_cli_queue, cli, ripd')
    /\ UNCHANGED <<rip_queue, rip_cli_queue, cli, n_req, abandoned, quiet>>

----------------------------------------------------------------------------
CliStep(c) ==
    \/ send_msg_not_up(c)
    \/ send_msg(c)
    \/ send_msg_answer(c)
    \/ send_msg_timeout(c)
    \/ rip_ipc_free(c)

HandleEvent ==
    \/ handle_event_receive
    \/ handle_event_open
    \/ handle_event_send

Next ==
    \/ \E c \in Cli : cli_rip_ipc_alloc_init(c) \/ CliStep(c) \/ sig_handler(c)
    \/ rip_ipc_alloc_init
    \/ HandleEvent
    \/ ripd_ends

Spec == Init /\ [][Next]_vars
FairSpec == Spec /\ WF_vars(HandleEvent) /\ \A c \in Cli : WF_vars(CliStep(c))

----------------------------------------------------------------------------
(***************************************************************************)
(* While CLIs run one at a time and each waits for its answer, what        *)
(* send_cmd prints is the answer to the request it has just sent, although *)
(* no message says so, whatever the daemon does in the meantime.           *)
(***************************************************************************)
OwnAnswer ==
    quiet => \A c \in Cli : cli[c].out # NULL => cli[c].out = cli[c].req

(***************************************************************************)
(* Why OwnAnswer holds: as long as it is quiet, at most one CLI runs, and  *)
(* the only message in any queue or in the daemon's hands is the request   *)
(* that CLI waits for, or its answer, in one place.                        *)
(***************************************************************************)
InHand == ripd.pc \in {"open", "send"}
Empty == \A q \in Queue : answers[q] = <<>>
OneInFlight ==
    quiet =>
      /\ \A c, d \in Running : c = d
      /\ Waiting = {} => rip_queue \in {NULL, <<>>} /\ ~InHand /\ Empty
      /\ \A c \in Waiting :
           /\ rip_queue \in {<<>>, <<cli[c].req>>}
           /\ rip_queue # <<>> => ~InHand /\ Empty
           /\ InHand => ripd.req = cli[c].req /\ Empty
           /\ \A q \in Queue : answers[q] \in {<<>>, <<cli[c].req>>}
           /\ \A p, q \in Queue : answers[p] # <<>> /\ answers[q] # <<>> => p = q

(***************************************************************************)
(* Messages are made by send_msg only, and a CLI waits for each it makes:  *)
(* all those that are in a queue, or in the daemon's hands, are waited for *)
(* or were abandoned.  No queue is ever longer than mq_maxmsg.             *)
(***************************************************************************)
Slots == {s \in Queue \X (1..MaxMsg) : s[2] <= Len(answers[s[1]])}
Requests == IF rip_queue = NULL THEN 0 ELSE Len(rip_queue)
InFlight == Cardinality(Slots) + Requests + (IF InHand THEN 1 ELSE 0)
EveryMessageAccounted ==
    /\ InFlight <= abandoned + Cardinality(Waiting)
    /\ \A q \in Queue : Len(answers[q]) <= MaxMsg

(***************************************************************************)
(* The daemon's only thread is blocked in mq_send (rip_ipc.c:138) only     *)
(* when more requests than a queue holds were abandoned or are waited for. *)
(***************************************************************************)
Blocked == ripd.pc = "send" /\ Len(answers[ripd.fd]) = MaxMsg
BlockedOnlyByBacklog == Blocked => abandoned + Cardinality(Waiting) > MaxMsg

(***************************************************************************)
(* A CLI that runs ends, with an answer or by its timeout, unless so many  *)
(* requests were abandoned that the queues may be full.                    *)
(***************************************************************************)
CliEnds ==
    \A c \in Cli : c \in Running ~> (c \notin Running \/ abandoned >= MaxMsg)

(***************************************************************************)
(* A request the daemon has read never holds it for good while it runs,    *)
(* unless so many were abandoned that a CLI queue may be full.             *)
(***************************************************************************)
DaemonServes == InHand ~> (~InHand \/ abandoned >= MaxMsg)
=============================================================================
