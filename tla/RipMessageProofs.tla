-------------------------- MODULE RipMessageProofs --------------------------
(***************************************************************************)
(* Proofs about messages that are late, lost or meant for somebody else.   *)
(*                                                                         *)
(* RipIpc, for any number of terminals and any queue length: as long as    *)
(* CLIs run one at a time and wait for their answers, every CLI prints the *)
(* answer to its own request; and only a backlog of requests nobody waited *)
(* for can block the daemon.                                               *)
(*                                                                         *)
(* RipNetwork, for any topology: no router takes the owner for nearer than *)
(* it is (NotTooNear).  The invariant speaks of the datagrams on their way *)
(* as well: what a router says of itself is never too near either, and     *)
(* stays true however late it arrives.  The last part proves that the      *)
(* routers' tables stay consistent (NetTypeOK).                            *)
(***************************************************************************)
EXTENDS RipIpc, RipNetwork, FiniteSetTheorems, TLAPS

\* Most leaves need no arithmetic; those that do cite SMT.
USE Zenon

\* Freeing queues leaves sequences of requests, and fills no queue.
LEMMA FreedType ==
    ASSUME NEW contents \in [Queue -> Seq(Request)], NEW name, NEW holders, NEW daemon
    PROVE  /\ Freed(contents, name, holders, daemon) \in [Queue -> Seq(Request)]
           /\ \A q \in Queue : Freed(contents, name, holders, daemon)[q]
                                 \in {<<>>, contents[q]}
BY SMT DEF Freed

\* A CLI that is started, or that ends, is of the type of a CLI.
CliType ==
    [pc : {"idle", "getopt", "wait"}, fd : Queue \cup {NULL}, argv : Seq(Cmd), n : Nat,
     req : Request \cup {NULL}, out : Request \cup {NULL}]

LEMMA IdleType == Idle \in CliType /\ Idle.pc = "idle"
BY SMT DEF Idle, CliType

LEMMA InitType == Init => TypeOK
BY IdleType, SMT DEF Init, TypeOK, CliType, Idle

\* Starting a CLI.
LEMMA AllocType ==
    ASSUME TypeOK, NEW c \in Cli, cli_rip_ipc_alloc_init(c)
    PROVE  TypeOK'
<1>1. PICK q \in Queue, argv \in Argv :
         /\ rip_cli_queue' = q
         /\ cli' = [cli EXCEPT ![c] =
                      [pc |-> "getopt", fd |-> q, argv |-> argv, n |-> n_req + 1,
                       req |-> NULL, out |-> NULL]]
         /\ n_req' = n_req + (IF argv = <<>> THEN 1 ELSE Len(argv))
  BY ZenonT(30) DEF cli_rip_ipc_alloc_init
<1>2. argv \in Seq(Cmd) /\ Len(argv) \in Nat
  BY IpcAssumption, SMT
<1> DEFINE new == [pc |-> "getopt", fd |-> q, argv |-> argv, n |-> n_req + 1,
                   req |-> NULL, out |-> NULL]
<1>3. new \in CliType /\ new.fd \in Queue
  BY <1>2, SMT DEF CliType, TypeOK
<1> HIDE DEF new
<1>4. cli' = [cli EXCEPT ![c] = new]
  BY <1>1 DEF new
<1>5. cli' \in [Cli -> CliType]
  BY <1>3, <1>4 DEF TypeOK, CliType
<1>6. \A d \in Cli : cli'[d].pc # "idle" => cli'[d].fd \in Queue
  BY <1>3, <1>4 DEF TypeOK
<1>7. n_req' \in Nat
  BY <1>1, <1>2, SMT DEF TypeOK
<1>8. quiet' \in BOOLEAN
  BY DEF cli_rip_ipc_alloc_init
<1>9. UNCHANGED <<rip_queue, answers, ripd, abandoned>>
  BY DEF cli_rip_ipc_alloc_init
<1> QED
  BY <1>1, <1>5, <1>6, <1>7, <1>8, <1>9, SMTT(30) DEF TypeOK, CliType

\* Ending one, in whichever way.
LEMMA EndType ==
    ASSUME TypeOK, NEW c \in Cli, cli' = [cli EXCEPT ![c] = Idle]
    PROVE  /\ cli' \in [Cli -> CliType]
           /\ \A d \in Cli : cli'[d].pc # "idle" => cli'[d].fd \in Queue
BY IdleType DEF TypeOK, CliType

LEMMA ExitType ==
    ASSUME TypeOK, NEW c \in Cli, Exit(c), abandoned' \in Nat, quiet' \in BOOLEAN
    PROVE  TypeOK'
<1>1. answers' \in [Queue -> Seq(Request)]
  BY FreedType, ZenonT(30) DEF Exit, TypeOK
<1>2. UNCHANGED <<rip_queue, rip_cli_queue, ripd, n_req>>
  BY DEF Exit
<1> QED
  BY <1>1, <1>2, EndType, ZenonT(30) DEF Exit, TypeOK, CliType

LEMMA AbandonType ==
    ASSUME TypeOK, NEW c \in Cli, Abandon(c)
    PROVE  abandoned' \in Nat /\ quiet' \in BOOLEAN
BY SMT DEF Abandon, TypeOK

LEMMA SendType ==
    ASSUME TypeOK, NEW c \in Cli, send_msg(c)
    PROVE  TypeOK'
<1> DEFINE req == [cli |-> c, cmd |-> Head(cli[c].argv), n |-> cli[c].n]
<1> DEFINE new == [pc |-> "wait", fd |-> cli[c].fd, argv |-> Tail(cli[c].argv),
                   n |-> cli[c].n + 1, req |-> req, out |-> NULL]
<1>1. cli[c] \in CliType /\ cli[c].argv # <<>> /\ cli[c].fd \in Queue
  BY DEF send_msg, TypeOK, CliType
<1>2. cli[c].argv \in Seq(Cmd) /\ cli[c].n \in Nat
  BY <1>1 DEF CliType
<1>3. Head(cli[c].argv) \in Cmd /\ Tail(cli[c].argv) \in Seq(Cmd)
  BY <1>1, <1>2, SMT
<1>4. req \in Request
  BY <1>2, <1>3 DEF Request
<1>5. rip_queue' = Append(rip_queue, req) /\ rip_queue \in Seq(Request)
  BY DEF send_msg, TypeOK
<1>6. cli' = [cli EXCEPT ![c] = new]
  BY <1>1 DEF send_msg, TypeOK, CliType
<1> HIDE DEF req
<1>7. new \in CliType /\ new.fd \in Queue
  BY <1>1, <1>2, <1>3, <1>4, SMT DEF CliType
<1> HIDE DEF new
<1>8. /\ cli' \in [Cli -> CliType]
      /\ \A d \in Cli : cli'[d].pc # "idle" => cli'[d].fd \in Queue
  BY <1>6, <1>7 DEF TypeOK, CliType
<1>9. rip_queue' \in Seq(Request)
  BY <1>4, <1>5, SMT
<1>10. UNCHANGED <<rip_cli_queue, answers, ripd, n_req, abandoned, quiet>>
  BY DEF send_msg
<1>11. ripd.pc # "down" => rip_queue' \in Seq(Request)
  BY <1>9
<1> QED
  BY <1>8, <1>9, <1>10, <1>11 DEF TypeOK, CliType

LEMMA AnswerType ==
    ASSUME TypeOK, NEW c \in Cli, send_msg_answer(c)
    PROVE  TypeOK'
<1> DEFINE ans == answers[cli[c].fd]
<1>1. cli[c].fd \in Queue /\ ans \in Seq(Request) /\ ans # <<>>
  BY DEF send_msg_answer, TypeOK
<1>2. Head(ans) \in Request /\ Tail(ans) \in Seq(Request)
  BY <1>1, SMT
<1>3. answers' = [answers EXCEPT ![cli[c].fd] = Tail(ans)]
  BY DEF send_msg_answer
<1>4. cli' = [cli EXCEPT ![c].pc = "getopt", ![c].out = Head(ans)]
  BY DEF send_msg_answer
<1>5. cli \in [Cli -> CliType]
  BY DEF TypeOK, CliType
<1> HIDE DEF ans
<1> DEFINE new == [cli[c] EXCEPT !.pc = "getopt", !.out = Head(ans)]
<1>a. cli[c] \in CliType
  BY <1>5
<1>b. new \in CliType /\ new.fd = cli[c].fd
  BY <1>2, <1>a, ZenonT(30) DEF CliType
<1>c. cli' = [cli EXCEPT ![c] = new]
  BY <1>4, ZenonT(30)
<1> HIDE DEF new
<1>6. cli' \in [Cli -> CliType]
  BY <1>5, <1>b, <1>c
<1>7. \A d \in Cli : cli'[d].pc # "idle" => cli'[d].fd \in Queue
  BY <1>1, <1>5, <1>b, <1>c DEF TypeOK
<1>8. answers' \in [Queue -> Seq(Request)]
  BY <1>1, <1>2, <1>3 DEF TypeOK
<1>9. UNCHANGED <<rip_queue, rip_cli_queue, ripd, n_req, abandoned, quiet>>
  BY DEF send_msg_answer
<1> QED
  BY <1>6, <1>7, <1>8, <1>9, SMTT(30) DEF TypeOK, CliType

LEMMA FreeType ==
    ASSUME TypeOK, NEW c \in Cli, rip_ipc_free(c)
    PROVE  TypeOK'
<1>1. answers' \in [Queue -> Seq(Request)]
  BY FreedType, ZenonT(30) DEF rip_ipc_free, TypeOK
<1>2. UNCHANGED <<rip_queue, ripd, n_req, abandoned, quiet>> /\ rip_cli_queue' = NULL
  BY DEF rip_ipc_free
<1> QED
  BY <1>1, <1>2, EndType, ZenonT(30) DEF rip_ipc_free, TypeOK, CliType

\* The daemon's steps.
LEMMA DaemonType ==
    ASSUME TypeOK, rip_ipc_alloc_init \/ HandleEvent \/ ripd_ends
    PROVE  TypeOK'
<1>1. CASE rip_ipc_alloc_init
  BY <1>1, SMT DEF rip_ipc_alloc_init, Polling, TypeOK
<1>2. CASE handle_event_receive
  <2>1. rip_queue \in Seq(Request) /\ rip_queue # <<>>
    BY <1>2 DEF handle_event_receive, TypeOK
  <2>2. Head(rip_queue) \in Request /\ rip_queue' \in Seq(Request)
    BY <1>2, <2>1, SMT DEF handle_event_receive
  <2> QED
    BY <1>2, <2>2, ZenonT(30) DEF handle_event_receive, TypeOK
<1>3. CASE handle_event_open
  <2>1. CASE ripd' = Polling
    BY <1>3, <2>1 DEF handle_event_open, Polling, TypeOK
  <2>2. CASE rip_cli_queue # NULL /\ ripd' = [ripd EXCEPT !.pc = "send", !.fd = rip_cli_queue]
    <3>1. rip_cli_queue \in Queue /\ ripd.pc = "open" /\ ripd.req \in Request
      BY <1>3, <2>2 DEF handle_event_open, TypeOK
    <3>2. ripd'.pc = "send" /\ ripd'.fd \in Queue /\ ripd'.req \in Request
      BY <2>2, <3>1 DEF TypeOK
    <3> QED
      BY <1>3, <2>2, <3>1, <3>2, ZenonT(30) DEF handle_event_open, TypeOK
  <2> QED
    BY <1>3, <2>1, <2>2 DEF handle_event_open
<1>4. CASE handle_event_send
  <2> DEFINE more == [answers EXCEPT ![ripd.fd] = Append(@, ripd.req)]
  <2>0. ripd.fd \in Queue /\ ripd.req \in Request
    BY <1>4 DEF handle_event_send, TypeOK
  <2>1. more \in [Queue -> Seq(Request)]
    BY <2>0, SMT DEF TypeOK
  <2>2. answers' = Freed(more, rip_cli_queue, cli, ripd')
    BY <1>4 DEF handle_event_send
  <2> HIDE DEF more
  <2>3. answers' \in [Queue -> Seq(Request)]
    BY <2>1, <2>2, FreedType
  <2> QED
    BY <1>4, <2>3, ZenonT(30) DEF handle_event_send, Polling, TypeOK
<1>5. CASE ripd_ends
  <2>1. answers' \in [Queue -> Seq(Request)]
    BY <1>5, FreedType, SMTT(30) DEF ripd_ends, TypeOK
  <2> QED
    BY <1>5, <2>1 DEF ripd_ends, TypeOK
<1> QED
  BY <1>1, <1>2, <1>3, <1>4, <1>5 DEF HandleEvent

----------------------------------------------------------------------------
(***************************************************************************)
(* OneInFlight and OwnAnswer, step by step.  A step that leaves it quiet   *)
(* found it quiet.                                                         *)
(***************************************************************************)
IpcInv == TypeOK /\ OneInFlight /\ OwnAnswer

\* Nothing is in flight while nobody waits.
Nothing == rip_queue \in {NULL, <<>>} /\ ~InHand /\ Empty

\* Sequences of one message.
LEMMA One ==
    ASSUME NEW x
    PROVE  Head(<<x>>) = x /\ Tail(<<x>>) = <<>> /\ Append(<<>>, x) = <<x>>
BY SMT

LEMMA AllocStep ==
    ASSUME IpcInv, NEW c \in Cli, cli_rip_ipc_alloc_init(c), quiet'
    PROVE  OneInFlight' /\ OwnAnswer'
<1>1. quiet /\ Running = {}
  BY ZenonT(30) DEF cli_rip_ipc_alloc_init
<1>2. \A d \in Cli : cli[d].pc = "idle"
  BY <1>1 DEF Running
<1>3. Waiting = {}
  BY <1>2 DEF Waiting
<1>4. Nothing
  BY <1>1, <1>3 DEF IpcInv, OneInFlight, Nothing
<1>5. PICK q \in Queue, argv \in Argv :
         cli' = [cli EXCEPT ![c] =
                   [pc |-> "getopt", fd |-> q, argv |-> argv, n |-> n_req + 1,
                    req |-> NULL, out |-> NULL]]
  BY ZenonT(30) DEF cli_rip_ipc_alloc_init
<1>6. /\ cli'[c].pc = "getopt" /\ cli'[c].out = NULL
      /\ \A d \in Cli \ {c} : cli'[d] = cli[d]
  BY <1>5 DEF IpcInv, TypeOK
<1>7. Waiting' = {} /\ Running' = {c}
  BY <1>2, <1>6 DEF Waiting, Running
<1>8. Nothing'
  BY <1>4 DEF cli_rip_ipc_alloc_init, Nothing, InHand, Empty
<1>9. OneInFlight'
  BY <1>7, <1>8 DEF OneInFlight, Nothing
<1>10. OwnAnswer'
  BY <1>1, <1>6 DEF OwnAnswer, IpcInv
<1> QED
  BY <1>9, <1>10

\* A CLI that waits for nothing ends: the queues are empty and stay so.
LEMMA EndStep ==
    ASSUME IpcInv, NEW c \in Cli, c \in Running, c \notin Waiting, quiet,
           cli' = [cli EXCEPT ![c] = Idle],
           NEW name, answers' = Freed(answers, name, cli', ripd),
           UNCHANGED <<rip_queue, ripd>>
    PROVE  OneInFlight' /\ OwnAnswer'
<1>1. \A d \in Running : d = c
  BY DEF IpcInv, OneInFlight
<1>2. Waiting = {}
  BY <1>1 DEF Waiting, Running
<1>3. Nothing
  BY <1>2 DEF IpcInv, OneInFlight, Nothing
<1>4. \A q \in Queue : answers'[q] = <<>>
  BY <1>3 DEF Nothing, Empty, Freed
<1>5. /\ cli'[c].pc = "idle" /\ cli'[c].out = NULL
      /\ \A d \in Cli \ {c} : cli'[d] = cli[d]
  BY DEF IpcInv, TypeOK, Idle
<1>6. Running' = {} /\ Waiting' = {}
  BY <1>1, <1>5 DEF Running, Waiting
<1>7. Nothing'
  BY <1>3, <1>4, ZenonT(30) DEF Nothing, InHand, Empty
<1>8. OneInFlight'
  BY <1>6, <1>7 DEF OneInFlight, Nothing
<1>9. OwnAnswer'
  BY <1>5 DEF OwnAnswer, IpcInv
<1> QED
  BY <1>8, <1>9

LEMMA SendStep ==
    ASSUME IpcInv, NEW c \in Cli, send_msg(c), quiet'
    PROVE  OneInFlight' /\ OwnAnswer'
<1> DEFINE req == [cli |-> c, cmd |-> Head(cli[c].argv), n |-> cli[c].n]
<1>1. quiet /\ c \in Running /\ c \notin Waiting
  BY DEF send_msg, Running, Waiting
<1>2. \A d \in Running : d = c
  BY <1>1 DEF IpcInv, OneInFlight
<1>3. Waiting = {}
  BY <1>1, <1>2 DEF Waiting, Running
<1>4. Nothing /\ rip_queue = <<>>
  BY <1>1, <1>3 DEF IpcInv, OneInFlight, Nothing, send_msg
<1>5. rip_queue' = Append(rip_queue, req)
  BY DEF send_msg
<1>6. cli' = [cli EXCEPT ![c] = [pc |-> "wait", fd |-> cli[c].fd,
                argv |-> Tail(cli[c].argv), n |-> cli[c].n + 1, req |-> req, out |-> NULL]]
  BY DEF send_msg
<1> HIDE DEF req
<1>7. /\ cli'[c].pc = "wait" /\ cli'[c].req = req /\ cli'[c].out = NULL
      /\ \A d \in Cli \ {c} : cli'[d] = cli[d]
  BY <1>6 DEF IpcInv, TypeOK
<1>8. Waiting' = {c} /\ Running' = {c}
  BY <1>2, <1>3, <1>7 DEF Waiting, Running
<1>9. rip_queue' = <<cli'[c].req>>
  BY <1>4, <1>5, <1>7, SMT
<1>10. ~InHand' /\ Empty'
  BY <1>4 DEF Nothing, InHand, Empty, send_msg
<1>11. OneInFlight'
  BY <1>8, <1>9, <1>10 DEF OneInFlight, Empty
<1>12. OwnAnswer'
  BY <1>1, <1>7 DEF OwnAnswer, IpcInv
<1> QED
  BY <1>11, <1>12, SMTT(30)

LEMMA AnswerStep ==
    ASSUME IpcInv, NEW c \in Cli, send_msg_answer(c), quiet'
    PROVE  OneInFlight' /\ OwnAnswer'
<1> DEFINE fd == cli[c].fd
<1>1. quiet /\ c \in Waiting /\ c \in Running /\ fd \in Queue
  BY DEF send_msg_answer, Waiting, Running, IpcInv, TypeOK
<1>2. \A d \in Running : d = c
  BY <1>1 DEF IpcInv, OneInFlight
<1>3. answers[fd] # <<>>
  BY DEF send_msg_answer
<1>4. answers[fd] = <<cli[c].req>>
  BY <1>1, <1>3 DEF IpcInv, OneInFlight
<1>5. \A q \in Queue \ {fd} : answers[q] = <<>>
  BY <1>1, <1>3 DEF IpcInv, OneInFlight
<1>6. rip_queue = <<>> /\ ~InHand
  BY <1>1, <1>3 DEF IpcInv, OneInFlight, Empty
<1>7. answers' = [answers EXCEPT ![fd] = Tail(answers[fd])]
  BY DEF send_msg_answer
<1>8. cli' = [cli EXCEPT ![c].pc = "getopt", ![c].out = Head(answers[fd])]
  BY DEF send_msg_answer
<1> HIDE DEF fd
<1>9. Head(answers[fd]) = cli[c].req /\ Tail(answers[fd]) = <<>>
  BY <1>4, SMT
<1>10. \A q \in Queue : answers'[q] = <<>>
  BY <1>1, <1>5, <1>7, <1>9 DEF IpcInv, TypeOK
<1>11. /\ cli'[c].pc = "getopt" /\ cli'[c].out = cli[c].req /\ cli'[c].req = cli[c].req
       /\ \A d \in Cli \ {c} : cli'[d] = cli[d]
  BY <1>8, <1>9 DEF IpcInv, TypeOK
<1>12. Waiting' = {} /\ Running' = {c}
  BY <1>2, <1>11 DEF Waiting, Running
<1>13. Nothing'
  BY <1>6, <1>10 DEF Nothing, InHand, Empty, send_msg_answer
<1>14. OneInFlight'
  BY <1>12, <1>13 DEF OneInFlight, Nothing
<1>15. OwnAnswer'
  BY <1>1, <1>11 DEF OwnAnswer, IpcInv
<1> QED
  BY <1>14, <1>15

\* The daemon's steps leave the CLIs alone.
LEMMA DaemonStep ==
    ASSUME IpcInv, rip_ipc_alloc_init \/ HandleEvent \/ ripd_ends, quiet'
    PROVE  OneInFlight' /\ OwnAnswer'
<1>1. quiet /\ cli' = cli
  BY ZenonT(30) DEF rip_ipc_alloc_init, HandleEvent, handle_event_receive, handle_event_open,
         handle_event_send, ripd_ends
<1>2. Running' = Running /\ Waiting' = Waiting /\ OwnAnswer'
  BY <1>1 DEF Running, Waiting, OwnAnswer, IpcInv
<1>3. CASE rip_ipc_alloc_init
  <2>1. ~InHand' /\ answers' = answers /\ rip_queue' \in {rip_queue, <<>>}
    BY <1>3 DEF rip_ipc_alloc_init, Polling, InHand
  <2> QED
    BY <1>1, <1>2, <2>1 DEF OneInFlight, IpcInv, Empty
<1>4. CASE handle_event_receive
  <2>1. rip_queue \in Seq(Request) /\ rip_queue # <<>> /\ rip_queue # NULL
    BY <1>4, NullAssumption DEF handle_event_receive, IpcInv, TypeOK
  <2>2. Waiting # {}
    BY <1>1, <2>1 DEF IpcInv, OneInFlight
  <2>3. \A c \in Waiting : rip_queue = <<cli[c].req>> /\ Empty
    BY <1>1, <2>1 DEF IpcInv, OneInFlight
  <2>4. \A c \in Waiting : Head(rip_queue) = cli[c].req /\ Tail(rip_queue) = <<>>
    BY <2>3, One
  <2>5. ripd'.req = Head(rip_queue) /\ rip_queue' = Tail(rip_queue) /\ answers' = answers
    BY <1>4 DEF handle_event_receive, IpcInv, TypeOK
  <2>6. \A c, d \in Running' : c = d
    BY <1>1, <1>2 DEF IpcInv, OneInFlight
  <2> QED
    BY <1>1, <1>2, <2>2, <2>3, <2>4, <2>5, <2>6 DEF OneInFlight, Empty
<1>5. CASE handle_event_open
  <2>1. InHand /\ UNCHANGED <<answers, rip_queue>>
    BY <1>5 DEF handle_event_open, InHand
  <2>2. InHand' => ripd'.req = ripd.req
    <3>1. CASE ripd' = Polling
      BY <3>1 DEF InHand, Polling
    <3>2. CASE ripd' = [ripd EXCEPT !.pc = "send", !.fd = rip_cli_queue]
      BY <3>2 DEF IpcInv, TypeOK
    <3> QED
      BY <1>5, <3>1, <3>2 DEF handle_event_open
  <2> QED
    BY <1>1, <1>2, <2>1, <2>2 DEF OneInFlight, IpcInv, Empty
<1>6. CASE handle_event_send
  <2>1. InHand /\ rip_queue' = rip_queue /\ ripd.fd \in Queue
    BY <1>6 DEF handle_event_send, InHand, IpcInv, TypeOK
  <2>2. PICK c \in Waiting : TRUE
    BY <1>1, <2>1 DEF IpcInv, OneInFlight
  <2>3. \A d \in Waiting : d = c
    BY <1>1, <2>2 DEF IpcInv, OneInFlight, Waiting, Running
  <2>4. rip_queue = <<>> /\ ripd.req = cli[c].req /\ Empty
    BY <1>1, <2>1, <2>2 DEF IpcInv, OneInFlight
  <2> DEFINE more == [answers EXCEPT ![ripd.fd] = Append(@, ripd.req)]
  <2>5. /\ more[ripd.fd] = Append(answers[ripd.fd], ripd.req)
        /\ \A q \in Queue \ {ripd.fd} : more[q] = answers[q]
    BY <2>1 DEF IpcInv, TypeOK
  <2>51. /\ more[ripd.fd] = <<cli[c].req>>
         /\ \A q \in Queue \ {ripd.fd} : more[q] = <<>>
    BY <2>1, <2>4, <2>5, One DEF Empty
  <2>6. more \in [Queue -> Seq(Request)]
    BY <1>6, <2>1, SMT DEF IpcInv, TypeOK, handle_event_send
  <2>7. answers' = Freed(more, rip_cli_queue, cli, ripd')
    BY <1>6 DEF handle_event_send
  <2> HIDE DEF more
  <2>8. \A q \in Queue : answers'[q] \in {<<>>, more[q]}
    BY <2>6, <2>7, FreedType
  <2>9. ~InHand'
    BY <1>6 DEF handle_event_send, Polling, InHand
  <2>10. \A x, y \in Running' : x = y
    BY <1>1, <1>2 DEF IpcInv, OneInFlight
  <2>11. /\ \A q \in Queue : answers'[q] \in {<<>>, <<cli[c].req>>}
         /\ \A p, q \in Queue : answers'[p] # <<>> /\ answers'[q] # <<>> => p = q
    BY <2>51, <2>8, ZenonT(30)
  <2>12. rip_queue' = <<>>
    BY <2>1, <2>4
  <2> QED
    BY <1>1, <1>2, <2>2, <2>3, <2>9, <2>10, <2>11, <2>12, SMTT(30) DEF OneInFlight
<1>7. CASE ripd_ends
  <2>1. ~InHand' /\ rip_queue' = rip_queue
    BY <1>7 DEF ripd_ends, InHand
  <2>2. \A q \in Queue : answers'[q] \in {<<>>, answers[q]}
    BY <1>7, FreedType, SMTT(30) DEF ripd_ends, IpcInv, TypeOK
  <2> QED
    BY <1>1, <1>2, <2>1, <2>2 DEF OneInFlight, IpcInv, Empty
<1> QED
  BY <1>2, <1>3, <1>4, <1>5, <1>6, <1>7 DEF HandleEvent

LEMMA StutterStep ==
    ASSUME IpcInv, UNCHANGED vars
    PROVE  IpcInv'
<1> QED
  BY DEF IpcInv, vars, TypeOK, OneInFlight, OwnAnswer, Running, Waiting, InHand, Empty

(***************************************************************************)
(* The inductive invariant of the messages of a quiet system, for any      *)
(* number of terminals, commands and queue slots, and whether or not the   *)
(* daemon crashes and is started again.                                    *)
(***************************************************************************)
THEOREM IpcCorrect == Spec => []IpcInv
<1>1. Init => IpcInv
  <2> SUFFICES ASSUME Init PROVE IpcInv
    OBVIOUS
  <2>1. TypeOK
    BY InitType
  <2>2. \A c \in Cli : cli[c].pc = "idle" /\ cli[c].out = NULL
    BY DEF Init, Idle
  <2>3. Running = {} /\ Waiting = {}
    BY <2>2 DEF Running, Waiting
  <2>4. Nothing
    BY DEF Init, Nothing, InHand, Empty
  <2> QED
    BY <2>1, <2>2, <2>3, <2>4 DEF IpcInv, OneInFlight, OwnAnswer, Nothing
<1>2. IpcInv /\ [Next]_vars => IpcInv'
  <2> SUFFICES ASSUME IpcInv, [Next]_vars PROVE IpcInv'
    BY SMTT(30)
  <2>0. TypeOK /\ (~quiet' => OneInFlight' /\ OwnAnswer')
    BY DEF IpcInv, OneInFlight, OwnAnswer
  <2>1. ASSUME NEW c \in Cli, cli_rip_ipc_alloc_init(c) PROVE IpcInv'
    BY <2>0, <2>1, AllocType, AllocStep DEF IpcInv
  <2>2. ASSUME NEW c \in Cli, Exit(c), c \in Running, abandoned' \in Nat,
               quiet' \in BOOLEAN, quiet' => quiet /\ c \notin Waiting
        PROVE  IpcInv'
    <3>1. TypeOK'
      BY <2>0, <2>2, ExitType
    <3>2. ASSUME quiet' PROVE OneInFlight' /\ OwnAnswer'
      BY <2>2, <3>2, EndStep, ZenonT(30) DEF Exit
    <3> QED
      BY <2>0, <3>1, <3>2 DEF IpcInv
  <2>3. ASSUME NEW c \in Cli, send_msg_not_up(c) PROVE IpcInv'
    <3>1. Exit(c) /\ c \in Running /\ c \notin Waiting /\ UNCHANGED <<abandoned, quiet>>
      BY <2>3 DEF send_msg_not_up, Running, Waiting
    <3> QED
      BY <2>0, <2>2, <3>1 DEF TypeOK
  <2>4. ASSUME NEW c \in Cli, Exit(c), Abandon(c), c \in Running PROVE IpcInv'
    <3>1. quiet' => quiet /\ c \notin Waiting
      BY <2>4, ZenonT(30) DEF Abandon
    <3> QED
      BY <2>0, <2>2, <2>4, <3>1, AbandonType
  <2>5. ASSUME NEW c \in Cli, send_msg_timeout(c) PROVE IpcInv'
    BY <2>4, <2>5 DEF send_msg_timeout, Running
  <2>6. ASSUME NEW c \in Cli, sig_handler(c) PROVE IpcInv'
    BY <2>4, <2>6 DEF sig_handler
  <2>7. ASSUME NEW c \in Cli, send_msg(c) PROVE IpcInv'
    BY <2>0, <2>7, SendType, SendStep DEF IpcInv
  <2>8. ASSUME NEW c \in Cli, send_msg_answer(c) PROVE IpcInv'
    BY <2>0, <2>8, AnswerType, AnswerStep DEF IpcInv
  <2>9. ASSUME NEW c \in Cli, rip_ipc_free(c) PROVE IpcInv'
    <3>1. TypeOK'
      BY <2>0, <2>9, FreeType
    <3>2. ASSUME quiet' PROVE OneInFlight' /\ OwnAnswer'
      <4>1. c \in Running /\ c \notin Waiting /\ quiet
        BY <2>9, <3>2 DEF rip_ipc_free, Running, Waiting
      <4> QED
        BY <2>9, <4>1, EndStep, ZenonT(30) DEF rip_ipc_free
    <3> QED
      BY <2>0, <3>1, <3>2 DEF IpcInv
  <2>10. ASSUME rip_ipc_alloc_init \/ HandleEvent \/ ripd_ends PROVE IpcInv'
    BY <2>0, <2>10, DaemonType, DaemonStep DEF IpcInv
  <2>11. ASSUME UNCHANGED vars PROVE IpcInv'
    BY <2>11, StutterStep
  <2> QED
    BY <2>1, <2>3, <2>5, <2>6, <2>7, <2>8, <2>9, <2>10, <2>11 DEF Next, CliStep
<1> QED
  BY <1>1, <1>2, PTL DEF Spec

(***************************************************************************)
(* A CLI or a daemon that uses a queue holds a descriptor of one, whatever *)
(* rip_ipc_free unlinked in the meantime.                                  *)
(***************************************************************************)
THEOREM IpcTypeCorrect == Spec => []TypeOK
<1>1. IpcInv => TypeOK
  BY DEF IpcInv
<1> QED
  BY <1>1, IpcCorrect, PTL

(***************************************************************************)
(* As long as CLIs run one at a time and none abandons its request, the    *)
(* one message in flight is the one that is waited for.                    *)
(***************************************************************************)
THEOREM OneMessageInFlight == Spec => []OneInFlight
<1>1. IpcInv => OneInFlight
  BY DEF IpcInv
<1> QED
  BY <1>1, IpcCorrect, PTL

(***************************************************************************)
(* And what send_cmd prints then is the answer to its own request.         *)
(***************************************************************************)
THEOREM QuietAnswers == Spec => []OwnAnswer
<1>1. IpcInv => OwnAnswer
  BY DEF IpcInv
<1> QED
  BY <1>1, IpcCorrect, PTL

----------------------------------------------------------------------------
(***************************************************************************)
(* EveryMessageAccounted.  A queue taken for itself is not accounted for:  *)
(* a CLI may read, and stop waiting for, what answers another's request.   *)
(* The sum over all queues is inductive, once the sets that are counted    *)
(* are known to be finite, however many terminals and queues there are.    *)
(***************************************************************************)
AccountInv ==
    /\ TypeOK
    /\ EveryMessageAccounted
    /\ IsFiniteSet(Slots) /\ IsFiniteSet(Waiting)

Hand == IF InHand THEN 1 ELSE 0

\* What is counted are natural numbers.
LEMMA Counts ==
    ASSUME TypeOK, IsFiniteSet(Slots), IsFiniteSet(Waiting)
    PROVE  /\ Cardinality(Slots) \in Nat /\ Cardinality(Waiting) \in Nat
           /\ Requests \in Nat /\ Hand \in Nat /\ abandoned \in Nat
           /\ InFlight = Cardinality(Slots) + Requests + Hand
<1>1. Cardinality(Slots) \in Nat /\ Cardinality(Waiting) \in Nat
  BY FS_CardinalityType
<1>2. Requests \in Nat
  BY SMT DEF Requests, TypeOK
<1> QED
  BY <1>1, <1>2 DEF Hand, InFlight, TypeOK

\* Queues that get no longer.
LEMMA SlotsShrink ==
    ASSUME TypeOK, TypeOK', IsFiniteSet(Slots),
           \A q \in Queue : Len(answers'[q]) <= Len(answers[q])
    PROVE  IsFiniteSet(Slots') /\ Cardinality(Slots') <= Cardinality(Slots)
<1>1. \A q \in Queue : Len(answers'[q]) \in Nat /\ Len(answers[q]) \in Nat
  BY SMT DEF TypeOK
<1>2. Slots' \subseteq Slots
  BY <1>1, IpcAssumption, SMT DEF Slots
<1> QED
  BY <1>2, FS_Subset

LEMMA FreedLen ==
    ASSUME NEW contents \in [Queue -> Seq(Request)], NEW name, NEW holders, NEW daemon
    PROVE  \A q \in Queue : Len(Freed(contents, name, holders, daemon)[q]) <= Len(contents[q])
BY SMT DEF Freed

\* A CLI that stops waiting, one that starts to, and one that never did.
LEMMA WaitingGoes ==
    ASSUME TypeOK, NEW c \in Cli, cli'[c].pc # "wait",
           \A d \in Cli \ {c} : cli'[d] = cli[d], IsFiniteSet(Waiting)
    PROVE  /\ IsFiniteSet(Waiting')
           /\ Cardinality(Waiting') = Cardinality(Waiting) - (IF c \in Waiting THEN 1 ELSE 0)
<1>1. Waiting' = Waiting \ {c}
  BY DEF Waiting
<1>2. Cardinality(Waiting) \in Nat
  BY FS_CardinalityType
<1>3. /\ IsFiniteSet(Waiting \ {c})
      /\ Cardinality(Waiting \ {c})
           = IF c \in Waiting THEN Cardinality(Waiting) - 1 ELSE Cardinality(Waiting)
  BY FS_RemoveElement
<1> QED
  BY <1>1, <1>2, <1>3, SMT

LEMMA WaitingComes ==
    ASSUME TypeOK, NEW c \in Cli, cli[c].pc # "wait", cli'[c].pc = "wait",
           \A d \in Cli \ {c} : cli'[d] = cli[d], IsFiniteSet(Waiting)
    PROVE  IsFiniteSet(Waiting') /\ Cardinality(Waiting') = Cardinality(Waiting) + 1
<1>1. Waiting' = Waiting \cup {c} /\ c \notin Waiting
  BY SMT DEF Waiting
<1> QED
  BY <1>1, FS_AddElement

\* The steps after which the account still balances.
LEMMA Balance ==
    ASSUME AccountInv, TypeOK', IsFiniteSet(Slots'), IsFiniteSet(Waiting'),
           Cardinality(Slots') + Requests' + Hand' + abandoned + Cardinality(Waiting)
             <= Cardinality(Slots) + Requests + Hand + abandoned' + Cardinality(Waiting')
    PROVE  InFlight' <= abandoned' + Cardinality(Waiting')
<1>1. /\ Cardinality(Slots) \in Nat /\ Cardinality(Waiting) \in Nat
      /\ Requests \in Nat /\ Hand \in Nat /\ abandoned \in Nat
      /\ InFlight = Cardinality(Slots) + Requests + Hand
  BY Counts DEF AccountInv
<1>2. /\ Cardinality(Slots') \in Nat /\ Cardinality(Waiting') \in Nat
      /\ Requests' \in Nat /\ Hand' \in Nat /\ abandoned' \in Nat
  <2>1. Cardinality(Slots') \in Nat /\ Cardinality(Waiting') \in Nat
    BY FS_CardinalityType
  <2> QED
    BY <2>1, SMT DEF Requests, Hand, TypeOK
<1>3. InFlight' = Cardinality(Slots') + Requests' + Hand'
  BY DEF InFlight, Hand
<1>4. InFlight <= abandoned + Cardinality(Waiting)
  BY DEF AccountInv, EveryMessageAccounted
<1> QED
  BY <1>1, <1>2, <1>3, <1>4, SMT

LEMMA BalanceShrink ==
    ASSUME AccountInv, TypeOK', IsFiniteSet(Slots'), IsFiniteSet(Waiting'),
           Cardinality(Slots') <= Cardinality(Slots),
           Requests' + Hand' + abandoned + Cardinality(Waiting)
             <= Requests + Hand + abandoned' + Cardinality(Waiting')
    PROVE  InFlight' <= abandoned' + Cardinality(Waiting')
<1>1. /\ Cardinality(Slots') \in Nat /\ Cardinality(Slots) \in Nat
      /\ Cardinality(Waiting') \in Nat /\ Cardinality(Waiting) \in Nat
  BY FS_CardinalityType DEF AccountInv
<1>2. /\ Requests \in Nat /\ Requests' \in Nat /\ Hand \in Nat /\ Hand' \in Nat
      /\ abandoned \in Nat /\ abandoned' \in Nat
  BY SMT DEF AccountInv, Requests, Hand, TypeOK
<1>3. Cardinality(Slots') + Requests' + Hand' + abandoned + Cardinality(Waiting)
        <= Cardinality(Slots) + Requests + Hand + abandoned' + Cardinality(Waiting')
  BY <1>1, <1>2, SMT
<1> QED
  BY <1>3, Balance

\* Steps that make no queue of answers longer.
LEMMA AccountShrink ==
    ASSUME AccountInv, TypeOK', IsFiniteSet(Waiting'),
           \A q \in Queue : Len(answers'[q]) <= Len(answers[q]),
           Requests' + Hand' + abandoned + Cardinality(Waiting)
             <= Requests + Hand + abandoned' + Cardinality(Waiting')
    PROVE  AccountInv'
<1>1. IsFiniteSet(Slots') /\ Cardinality(Slots') <= Cardinality(Slots)
  BY SlotsShrink DEF AccountInv
<1>2. \A q \in Queue : Len(answers'[q]) <= MaxMsg
  <2>1. \A q \in Queue : Len(answers'[q]) \in Nat /\ Len(answers[q]) \in Nat /\ MaxMsg \in Nat
    BY IpcAssumption, SMT DEF AccountInv, TypeOK
  <2> QED
    BY <2>1, SMT DEF AccountInv, EveryMessageAccounted
<1>3. InFlight' <= abandoned' + Cardinality(Waiting')
  BY <1>1, BalanceShrink DEF AccountInv
<1> QED
  BY <1>1, <1>2, <1>3 DEF AccountInv, EveryMessageAccounted

\* A CLI starts.
LEMMA AccountAlloc ==
    ASSUME AccountInv, NEW c \in Cli, cli_rip_ipc_alloc_init(c)
    PROVE  AccountInv'
<1>1. TypeOK' /\ TypeOK
  BY AllocType DEF AccountInv
<1>2. PICK q \in Queue, argv \in Argv :
         cli' = [cli EXCEPT ![c] =
                   [pc |-> "getopt", fd |-> q, argv |-> argv, n |-> n_req + 1,
                    req |-> NULL, out |-> NULL]]
  BY ZenonT(30) DEF cli_rip_ipc_alloc_init
<1>3. cli'[c].pc = "getopt" /\ \A d \in Cli \ {c} : cli'[d] = cli[d]
  BY <1>1, <1>2 DEF TypeOK
<1>4. UNCHANGED <<rip_queue, answers, ripd, abandoned>> /\ c \notin Waiting
  BY DEF cli_rip_ipc_alloc_init, Waiting
<1>5. IsFiniteSet(Waiting') /\ Waiting' = Waiting
  <2>1. Waiting' = Waiting
    BY <1>3, <1>4 DEF Waiting
  <2> QED
    BY <2>1 DEF AccountInv
<1>6. Requests' = Requests /\ Hand' = Hand /\ abandoned' = abandoned
  BY <1>4 DEF Requests, Hand, InHand
<1> QED
  <2>1. \A q1 \in Queue : Len(answers'[q1]) <= Len(answers[q1])
    BY <1>1, <1>4, SMT DEF TypeOK
  <2>2. /\ Requests \in Nat /\ Hand \in Nat /\ abandoned \in Nat /\ Cardinality(Waiting) \in Nat
    BY Counts DEF AccountInv
  <2>3. Requests' + Hand' + abandoned + Cardinality(Waiting)
          <= Requests + Hand + abandoned' + Cardinality(Waiting')
    BY <1>5, <1>6, <2>2, SMT
  <2> QED
    BY <1>1, <1>5, <2>1, <2>3, AccountShrink

\* A CLI ends: it counts as abandoned if it waited.
LEMMA AccountEnd ==
    ASSUME AccountInv, TypeOK', NEW c \in Cli, cli' = [cli EXCEPT ![c] = Idle],
           abandoned' = abandoned + (IF c \in Waiting THEN 1 ELSE 0),
           NEW name, answers' = Freed(answers, name, cli', ripd),
           UNCHANGED <<rip_queue, ripd>>
    PROVE  AccountInv'
<1>1. TypeOK /\ IsFiniteSet(Waiting)
  BY DEF AccountInv
<1>2. cli'[c].pc = "idle" /\ \A d \in Cli \ {c} : cli'[d] = cli[d]
  BY <1>1 DEF TypeOK, Idle
<1>3. /\ IsFiniteSet(Waiting')
      /\ Cardinality(Waiting') = Cardinality(Waiting) - (IF c \in Waiting THEN 1 ELSE 0)
  BY <1>1, <1>2, WaitingGoes
<1>4. \A q \in Queue : Len(answers'[q]) <= Len(answers[q])
  BY <1>1, FreedLen DEF TypeOK
<1>5. Requests' = Requests /\ Hand' = Hand
  BY DEF Requests, Hand, InHand
<1>6. Requests \in Nat /\ Hand \in Nat /\ abandoned \in Nat /\ Cardinality(Waiting) \in Nat
  BY Counts DEF AccountInv
<1>7. Requests' + Hand' + abandoned + Cardinality(Waiting)
        <= Requests + Hand + abandoned' + Cardinality(Waiting')
  BY <1>3, <1>5, <1>6, SMT
<1> QED
  BY <1>3, <1>4, <1>7, AccountShrink

\* send_msg puts one request into the queue, and its CLI waits.
LEMMA AccountSend ==
    ASSUME AccountInv, NEW c \in Cli, send_msg(c)
    PROVE  AccountInv'
<1>1. TypeOK /\ TypeOK' /\ IsFiniteSet(Waiting)
  BY SendType DEF AccountInv
<1> DEFINE req == [cli |-> c, cmd |-> Head(cli[c].argv), n |-> cli[c].n]
<1>2. cli' = [cli EXCEPT ![c] = [pc |-> "wait", fd |-> cli[c].fd,
                argv |-> Tail(cli[c].argv), n |-> cli[c].n + 1, req |-> req, out |-> NULL]]
  BY DEF send_msg
<1>3. /\ rip_queue' = Append(rip_queue, req) /\ rip_queue # NULL /\ cli[c].pc = "getopt"
      /\ UNCHANGED <<answers, ripd, abandoned>>
  BY DEF send_msg
<1>r. req \in Request
  <2>1. cli[c].argv \in Seq(Cmd) /\ cli[c].argv # <<>> /\ cli[c].n \in Nat
    BY <1>1 DEF send_msg, TypeOK
  <2>2. Head(cli[c].argv) \in Cmd
    BY <2>1, SMT
  <2> QED
    BY <2>1, <2>2 DEF Request
<1> HIDE DEF req
<1>4. cli'[c].pc = "wait" /\ \A d \in Cli \ {c} : cli'[d] = cli[d]
  BY <1>1, <1>2 DEF TypeOK
<1>5. IsFiniteSet(Waiting') /\ Cardinality(Waiting') = Cardinality(Waiting) + 1
  BY <1>1, <1>3, <1>4, WaitingComes
<1>6. Requests' = Requests + 1
  <2>0. rip_queue \in Seq(Request)
    BY <1>1, <1>3 DEF TypeOK
  <2>1. rip_queue \in Seq(Request) /\ rip_queue' # NULL
    BY <1>3, <1>r, <2>0, NullAssumption, SMT
  <2>2. Len(rip_queue') = Len(rip_queue) + 1
    BY <1>3, <2>1, SMT
  <2> QED
    BY <1>3, <2>1, <2>2 DEF Requests
<1>7. Hand' = Hand /\ \A q \in Queue : Len(answers'[q]) <= Len(answers[q])
  BY <1>1, <1>3, SMT DEF Hand, InHand, TypeOK
<1>8. Requests \in Nat /\ Hand \in Nat /\ abandoned \in Nat /\ Cardinality(Waiting) \in Nat
  BY Counts DEF AccountInv
<1>9. Requests' + Hand' + abandoned + Cardinality(Waiting)
        <= Requests + Hand + abandoned' + Cardinality(Waiting')
  <2>1. Hand' = Hand /\ abandoned' = abandoned
    BY <1>3, <1>7
  <2> QED
    BY <1>5, <1>6, <1>8, <2>1, SMT
<1> QED
  BY <1>1, <1>5, <1>7, <1>9, AccountShrink

\* An answer is taken, and its reader no longer waits.
LEMMA AccountAnswer ==
    ASSUME AccountInv, NEW c \in Cli, send_msg_answer(c)
    PROVE  AccountInv'
<1>1. TypeOK /\ TypeOK' /\ IsFiniteSet(Waiting) /\ IsFiniteSet(Slots)
  BY AnswerType DEF AccountInv
<1> DEFINE fd == cli[c].fd
           last == <<fd, Len(answers[fd])>>
<1>2. /\ c \in Waiting /\ fd \in Queue /\ answers[fd] # <<>>
      /\ answers[fd] \in Seq(Request) /\ Len(answers[fd]) <= MaxMsg
  BY <1>1 DEF send_msg_answer, TypeOK, Waiting, AccountInv, EveryMessageAccounted
<1>3. /\ answers' = [answers EXCEPT ![fd] = Tail(answers[fd])]
      /\ UNCHANGED <<rip_queue, ripd, abandoned>>
  BY DEF send_msg_answer
<1>4. cli'[c].pc = "getopt" /\ \A d \in Cli \ {c} : cli'[d] = cli[d]
  BY <1>1 DEF send_msg_answer, TypeOK
<1> HIDE DEF fd
<1>5. Len(answers[fd]) \in 1..MaxMsg /\ Len(Tail(answers[fd])) = Len(answers[fd]) - 1
  BY <1>2, IpcAssumption, SMT
<1>6. /\ Len(answers'[fd]) = Len(answers[fd]) - 1
      /\ \A q \in Queue \ {fd} : answers'[q] = answers[q]
  BY <1>1, <1>2, <1>3, <1>5 DEF TypeOK
<1>7. last \in Slots /\ Slots' = Slots \ {last}
  <2>1. last \in Slots
    BY <1>2, <1>5, SMT DEF Slots
  <2>2. \A q \in Queue, i \in 1..MaxMsg :
           i <= Len(answers'[q]) <=> i <= Len(answers[q]) /\ <<q, i>> # last
    BY <1>2, <1>5, <1>6, SMT
  <2>3. ASSUME NEW s PROVE s \in Slots' <=> s \in Slots /\ s # last
    <3>1. CASE s \in Queue \X (1..MaxMsg)
      <4>1. PICK q \in Queue, i \in 1..MaxMsg : s = <<q, i>>
        BY <3>1, SMT
      <4> QED
        BY <2>2, <3>1, <4>1 DEF Slots
    <3>2. CASE s \notin Queue \X (1..MaxMsg)
      BY <3>2 DEF Slots
    <3> QED
      BY <3>1, <3>2
  <2> QED
    BY <2>1, <2>3
<1>8. IsFiniteSet(Slots') /\ Cardinality(Slots') = Cardinality(Slots) - 1
  <2> HIDE DEF last
  <2>1. /\ IsFiniteSet(Slots \ {last})
        /\ Cardinality(Slots \ {last})
             = IF last \in Slots THEN Cardinality(Slots) - 1 ELSE Cardinality(Slots)
    BY <1>1, FS_RemoveElement
  <2> QED
    BY <1>7, <2>1
<1>9. /\ IsFiniteSet(Waiting')
      /\ Cardinality(Waiting') = Cardinality(Waiting) - (IF c \in Waiting THEN 1 ELSE 0)
  BY <1>1, <1>4, WaitingGoes
<1>10. Cardinality(Waiting') = Cardinality(Waiting) - 1
  BY <1>2, <1>9
<1>11. Requests' = Requests /\ Hand' = Hand /\ abandoned' = abandoned
  BY <1>3 DEF Requests, Hand, InHand
<1>12. /\ Requests \in Nat /\ Hand \in Nat /\ abandoned \in Nat
       /\ Cardinality(Waiting) \in Nat /\ Cardinality(Slots) \in Nat
  BY Counts DEF AccountInv
<1>13. Cardinality(Slots') + Requests' + Hand' + abandoned + Cardinality(Waiting)
         <= Cardinality(Slots) + Requests + Hand + abandoned' + Cardinality(Waiting')
  BY <1>8, <1>10, <1>11, <1>12, SMT
<1>14. InFlight' <= abandoned' + Cardinality(Waiting')
  BY <1>1, <1>8, <1>9, <1>13, Balance
<1>15. \A q \in Queue : Len(answers'[q]) <= MaxMsg
  <2>1. Len(answers'[fd]) <= MaxMsg
    BY <1>5, <1>6, IpcAssumption, SMT
  <2>2. \A q \in Queue \ {fd} : Len(answers'[q]) <= MaxMsg
    BY <1>6 DEF AccountInv, EveryMessageAccounted
  <2> QED
    BY <2>1, <2>2
<1> QED
  BY <1>1, <1>8, <1>9, <1>14, <1>15 DEF AccountInv, EveryMessageAccounted

\* The daemon moves messages from its queue to its hands, and drops them there.
LEMMA AccountDaemon ==
    ASSUME AccountInv, \/ rip_ipc_alloc_init \/ handle_event_receive
                       \/ handle_event_open \/ ripd_ends
    PROVE  AccountInv'
<1>1. TypeOK /\ TypeOK' /\ IsFiniteSet(Waiting)
  BY DaemonType DEF AccountInv, HandleEvent
<1>2. cli' = cli /\ abandoned' = abandoned
  BY ZenonT(30) DEF rip_ipc_alloc_init, handle_event_receive, handle_event_open, ripd_ends
<1>3. Waiting' = Waiting
  BY <1>2 DEF Waiting
<1>4. \A q \in Queue : Len(answers'[q]) <= Len(answers[q])
  <2>1. CASE answers' = answers
    BY <1>1, <2>1, SMT DEF TypeOK
  <2>2. CASE answers' = Freed(answers, rip_cli_queue, cli, ripd')
    BY <1>1, <2>2, FreedLen DEF TypeOK
  <2> QED
    BY <2>1, <2>2 DEF rip_ipc_alloc_init, handle_event_receive, handle_event_open, ripd_ends
<1>5. Requests \in Nat /\ Hand \in Nat /\ Requests' \in Nat /\ Hand' \in Nat
  BY <1>1, SMT DEF Requests, Hand, TypeOK
<1>6. Requests' + Hand' <= Requests + Hand
  <2>1. CASE rip_ipc_alloc_init
    <3>1. Requests' = Requests
      BY <2>1, NullAssumption DEF rip_ipc_alloc_init, Requests
    <3>2. Hand' = 0
      BY <2>1 DEF rip_ipc_alloc_init, Polling, Hand, InHand
    <3> QED
      BY <1>5, <3>1, <3>2, SMT
  <2>2. CASE handle_event_receive
    <3>1. rip_queue \in Seq(Request) /\ rip_queue # <<>> /\ rip_queue' = Tail(rip_queue)
      BY <1>1, <2>2 DEF handle_event_receive, TypeOK
    <3>2. rip_queue' \in Seq(Request) /\ Len(rip_queue') = Len(rip_queue) - 1
      BY <3>1, SMT
    <3>3. Requests' = Requests - 1
      BY <3>1, <3>2, NullAssumption DEF Requests
    <3>4. Hand = 0 /\ Hand' = 1
      BY <1>1, <2>2 DEF handle_event_receive, Hand, InHand, TypeOK
    <3> QED
      BY <1>5, <3>3, <3>4, SMT
  <2>3. CASE handle_event_open
    <3>1. Requests' = Requests /\ Hand = 1
      BY <2>3 DEF handle_event_open, Requests, Hand, InHand
    <3>2. Hand' = 0 \/ Hand' = 1
      BY DEF Hand
    <3>3. CASE Hand' = 0
      BY <1>5, <3>1, <3>3, SMT
    <3>4. CASE Hand' = 1
      BY <1>5, <3>1, <3>4, SMT
    <3> QED
      BY <3>2, <3>3, <3>4
  <2>4. CASE ripd_ends
    <3>1. Requests' = Requests /\ Hand' = 0
      BY <2>4 DEF ripd_ends, Requests, Hand, InHand
    <3> QED
      BY <1>5, <3>1, SMT
  <2> QED
    BY <2>1, <2>2, <2>3, <2>4
<1>7. Requests' + Hand' + abandoned + Cardinality(Waiting)
        <= Requests + Hand + abandoned' + Cardinality(Waiting')
  <2>1. Cardinality(Waiting) \in Nat /\ abandoned \in Nat
    BY <1>1, FS_CardinalityType DEF TypeOK
  <2>2. \A r, h, r1, h1, a, w \in Nat : r1 + h1 <= r + h => r1 + h1 + a + w <= r + h + a + w
    BY SMT
  <2>3. Requests' + Hand' + abandoned + Cardinality(Waiting)
          <= Requests + Hand + abandoned + Cardinality(Waiting)
    BY <1>5, <1>6, <2>1, <2>2
  <2> QED
    BY <1>2, <1>3, <2>3
<1> QED
  BY <1>1, <1>3, <1>4, <1>7, AccountShrink

\* The answer goes from the daemon's hands into one more slot.
LEMMA AccountReply ==
    ASSUME AccountInv, handle_event_send
    PROVE  AccountInv'
<1>1. TypeOK /\ TypeOK' /\ IsFiniteSet(Waiting) /\ IsFiniteSet(Slots)
  BY DaemonType DEF AccountInv, HandleEvent
<1> DEFINE fd == ripd.fd
           more == [answers EXCEPT ![fd] = Append(@, ripd.req)]
           next == <<fd, Len(answers[fd]) + 1>>
<1>2. /\ fd \in Queue /\ ripd.req \in Request /\ answers[fd] \in Seq(Request)
      /\ Len(answers[fd]) < MaxMsg /\ Len(answers[fd]) \in Nat
  <2>1. fd \in Queue /\ ripd.req \in Request /\ Len(answers[fd]) < MaxMsg
    BY <1>1 DEF handle_event_send, TypeOK
  <2>2. answers[fd] \in Seq(Request)
    BY <1>1, <2>1 DEF TypeOK
  <2> QED
    BY <2>1, <2>2, SMT
<1>3. /\ answers' = Freed(more, rip_cli_queue, cli, ripd')
      /\ UNCHANGED <<rip_queue, cli, abandoned>>
  BY DEF handle_event_send
<1>4. /\ more \in [Queue -> Seq(Request)]
      /\ Len(more[fd]) = Len(answers[fd]) + 1
      /\ \A q \in Queue \ {fd} : more[q] = answers[q]
  BY <1>1, <1>2, SMT DEF TypeOK
<1> HIDE DEF more, fd
<1>5. \A q \in Queue : Len(answers'[q]) <= Len(more[q])
  BY <1>3, <1>4, FreedLen
<1>6. /\ \A q \in Queue : Len(answers'[q]) \in Nat /\ Len(answers[q]) \in Nat
      /\ MaxMsg \in Nat
  BY <1>1, IpcAssumption, SMT DEF TypeOK
<1>7. Slots' \subseteq Slots \cup {next}
  <2>1. \A q \in Queue, i \in 1..MaxMsg :
           i <= Len(answers'[q]) => i <= Len(answers[q]) \/ <<q, i>> = next
    BY <1>2, <1>4, <1>5, <1>6, SMT
  <2>2. ASSUME NEW s \in Slots' PROVE s \in Slots \cup {next}
    <3>1. PICK q \in Queue, i \in 1..MaxMsg : s = <<q, i>> /\ i <= Len(answers'[q])
      BY SMT DEF Slots
    <3> QED
      BY <2>1, <3>1 DEF Slots
  <2> QED
    BY <2>2
<1>8. \A q \in Queue : Len(answers'[q]) <= MaxMsg
  <2>1. Len(answers'[fd]) <= MaxMsg
    BY <1>2, <1>4, <1>5, <1>6, SMT
  <2>2. \A q \in Queue \ {fd} : Len(answers'[q]) <= Len(answers[q])
    BY <1>4, <1>5
  <2>3. \A q \in Queue : Len(answers[q]) <= MaxMsg
    BY DEF AccountInv, EveryMessageAccounted
  <2> QED
    BY <1>6, <2>1, <2>2, <2>3, SMT
<1>9. InFlight' <= abandoned' + Cardinality(Waiting')
  <2> HIDE DEF next
  <2>1. /\ IsFiniteSet(Slots \cup {next})
        /\ Cardinality(Slots \cup {next})
             = IF next \in Slots THEN Cardinality(Slots) ELSE Cardinality(Slots) + 1
    BY <1>1, FS_AddElement
  <2>2. IsFiniteSet(Slots') /\ Cardinality(Slots') <= Cardinality(Slots \cup {next})
    BY <1>7, <2>1, FS_Subset
  <2>3. Waiting' = Waiting /\ Requests' = Requests /\ Hand = 1 /\ Hand' = 0
    BY <1>3 DEF Waiting, Requests, Hand, InHand, handle_event_send, Polling
  <2>4. /\ Cardinality(Slots) \in Nat /\ Cardinality(Slots') \in Nat
        /\ Cardinality(Slots \cup {next}) \in Nat
        /\ Cardinality(Waiting) \in Nat /\ Requests \in Nat /\ abandoned \in Nat
    BY <1>1, <2>1, <2>2, FS_CardinalityType, SMT DEF Requests, TypeOK
  <2>5. Cardinality(Slots') <= Cardinality(Slots) + 1
    BY <2>1, <2>2, <2>4, SMT
  <2>6. Cardinality(Waiting') = Cardinality(Waiting) /\ IsFiniteSet(Waiting')
    BY <1>1, <2>3
  <2>7. Cardinality(Slots') + Requests' + Hand' + abandoned + Cardinality(Waiting)
          <= Cardinality(Slots) + Requests + Hand + abandoned' + Cardinality(Waiting')
    BY <1>3, <2>3, <2>4, <2>5, <2>6, SMT
  <2> QED
    BY <1>1, <2>2, <2>6, <2>7, Balance
<1>10. IsFiniteSet(Slots') /\ IsFiniteSet(Waiting')
  <2>1. IsFiniteSet(Slots \cup {next})
    BY <1>1, FS_AddElement
  <2>2. Waiting' = Waiting
    BY <1>3 DEF Waiting
  <2> QED
    BY <1>1, <1>7, <2>1, <2>2, FS_Subset
<1> QED
  BY <1>1, <1>8, <1>9, <1>10 DEF AccountInv, EveryMessageAccounted

LEMMA AccountInit == Init => AccountInv
<1> SUFFICES ASSUME Init PROVE AccountInv
  OBVIOUS
<1>1. TypeOK
  BY InitType
<1>2. Slots = {}
  <2>1. \A q \in Queue, i \in 1..MaxMsg : ~(i <= Len(answers[q]))
    BY IpcAssumption, SMT DEF Init
  <2> QED
    BY <2>1 DEF Slots
<1>3. Waiting = {}
  BY DEF Waiting, Init, Idle
<1>4. IsFiniteSet({}) /\ Cardinality({}) = 0
  BY FS_EmptySet
<1>5. InFlight = 0
  <2>1. Cardinality(Slots) = 0 /\ Requests = 0 /\ ~InHand
    BY <1>2, <1>4 DEF Requests, InHand, Init
  <2> QED
    BY <2>1, SMT DEF InFlight
<1>6. abandoned + Cardinality(Waiting) = 0
  BY <1>3, <1>4, SMT DEF Init
<1>7. \A q \in Queue : Len(answers[q]) <= MaxMsg
  BY IpcAssumption, SMT DEF Init
<1> QED
  BY <1>1, <1>2, <1>3, <1>4, <1>5, <1>6, <1>7, SMT DEF AccountInv, EveryMessageAccounted

\* The account balances in every reachable state.
LEMMA AccountCorrect == Spec => []AccountInv
<1>1. Init => AccountInv
  BY AccountInit
<1>2. AccountInv /\ [Next]_vars => AccountInv'
  <2> SUFFICES ASSUME AccountInv, [Next]_vars PROVE AccountInv'
    BY SMTT(30)
  <2>0. TypeOK
    BY DEF AccountInv
  <2>1. ASSUME NEW c \in Cli, cli_rip_ipc_alloc_init(c) PROVE AccountInv'
    BY <2>1, AccountAlloc
  <2>2. ASSUME NEW c \in Cli, Exit(c), abandoned' \in Nat, quiet' \in BOOLEAN,
               abandoned' = abandoned + (IF c \in Waiting THEN 1 ELSE 0)
        PROVE  AccountInv'
    <3>1. TypeOK'
      BY <2>0, <2>2, ExitType
    <3> QED
      BY <2>2, <3>1, AccountEnd, ZenonT(30) DEF Exit
  <2>3. ASSUME NEW c \in Cli, send_msg_not_up(c) PROVE AccountInv'
    <3>1. Exit(c) /\ c \notin Waiting /\ UNCHANGED <<abandoned, quiet>>
      BY <2>3 DEF send_msg_not_up, Waiting
    <3>2. abandoned' = abandoned + 0
      BY <2>0, <3>1, SMT DEF TypeOK
    <3> QED
      BY <2>0, <2>2, <3>1, <3>2 DEF TypeOK
  <2>4. ASSUME NEW c \in Cli, Exit(c), Abandon(c) PROVE AccountInv'
    <3>1. abandoned' = abandoned + (IF c \in Waiting THEN 1 ELSE 0)
      BY <2>4 DEF Abandon
    <3> QED
      BY <2>0, <2>2, <2>4, <3>1, AbandonType
  <2>5. ASSUME NEW c \in Cli, send_msg_timeout(c) PROVE AccountInv'
    BY <2>4, <2>5 DEF send_msg_timeout
  <2>6. ASSUME NEW c \in Cli, sig_handler(c) PROVE AccountInv'
    BY <2>4, <2>6 DEF sig_handler
  <2>7. ASSUME NEW c \in Cli, send_msg(c) PROVE AccountInv'
    BY <2>7, AccountSend
  <2>8. ASSUME NEW c \in Cli, send_msg_answer(c) PROVE AccountInv'
    BY <2>8, AccountAnswer
  <2>9. ASSUME NEW c \in Cli, rip_ipc_free(c) PROVE AccountInv'
    <3>1. TypeOK' /\ c \notin Waiting /\ abandoned' = abandoned
      BY <2>0, <2>9, FreeType DEF rip_ipc_free, Waiting
    <3>2. abandoned' = abandoned + 0
      BY <2>0, <3>1, SMT DEF TypeOK
    <3>3. abandoned' = abandoned + (IF c \in Waiting THEN 1 ELSE 0)
      BY <3>1, <3>2
    <3> QED
      BY <2>9, <3>1, <3>3, AccountEnd, ZenonT(30) DEF rip_ipc_free
  <2>10. ASSUME \/ rip_ipc_alloc_init \/ handle_event_receive
                \/ handle_event_open \/ ripd_ends
         PROVE  AccountInv'
    BY <2>10, AccountDaemon
  <2>11. ASSUME handle_event_send PROVE AccountInv'
    BY <2>11, AccountReply
  <2>12. ASSUME UNCHANGED vars PROVE AccountInv'
    BY <2>12 DEF vars, AccountInv, TypeOK, EveryMessageAccounted, Slots, Requests, InFlight,
                       InHand, Waiting
  <2> QED
    BY <2>1, <2>3, <2>5, <2>6, <2>7, <2>8, <2>9, <2>10, <2>11, <2>12
    DEF Next, CliStep, HandleEvent
<1> QED
  BY <1>1, <1>2, PTL DEF Spec

(***************************************************************************)
(* The messages in all queues and in the daemon's hands are never more     *)
(* than the requests that are waited for or were abandoned, and no queue   *)
(* is overfull, for any number of terminals, queues and slots, whichever   *)
(* CLIs are killed and however often the daemon crashes.                   *)
(***************************************************************************)
THEOREM MessagesAccounted == Spec => []EveryMessageAccounted
<1>1. AccountInv => EveryMessageAccounted
  BY DEF AccountInv
<1> QED
  BY <1>1, AccountCorrect, PTL

\* A queue that is full holds MaxMsg of the messages.
LEMMA FullQueue ==
    ASSUME AccountInv, NEW q \in Queue, Len(answers[q]) = MaxMsg
    PROVE  MaxMsg <= Cardinality(Slots)
<1> DEFINE f == [i \in 1..MaxMsg |-> <<q, i>>]
<1>1. MaxMsg \in Nat \ {0}
  BY IpcAssumption
<1>2. \A i \in 1..MaxMsg : f[i] \in Slots
  BY <1>1, SMT DEF Slots
<1>3. f \in Injection(1..MaxMsg, Slots)
  BY <1>2 DEF Injection, IsInjective
<1>4. Cardinality(1..MaxMsg) = MaxMsg
  BY <1>1, FS_Interval, SMT
<1> HIDE DEF f
<1>5. Cardinality(1..MaxMsg) <= Cardinality(Slots)
  BY <1>3, FS_Injection DEF AccountInv
<1> QED
  BY <1>4, <1>5

(***************************************************************************)
(* The daemon's thread blocks in mq_send (rip_ipc.c:138) only when more    *)
(* requests than a queue holds were abandoned or are waited for: the queue *)
(* it waits for is full, and it has one more message in its hands.         *)
(***************************************************************************)
THEOREM BlockedByBacklog == Spec => []BlockedOnlyByBacklog
<1>1. ASSUME AccountInv, Blocked PROVE abandoned + Cardinality(Waiting) > MaxMsg
  <2>1. TypeOK /\ ripd.fd \in Queue /\ Len(answers[ripd.fd]) = MaxMsg /\ InHand
    BY <1>1 DEF AccountInv, TypeOK, Blocked, InHand
  <2>2. MaxMsg <= Cardinality(Slots)
    BY <1>1, <2>1, FullQueue
  <2>3. /\ Cardinality(Slots) \in Nat /\ Cardinality(Waiting) \in Nat /\ Requests \in Nat
        /\ abandoned \in Nat /\ MaxMsg \in Nat
    BY <1>1, Counts, IpcAssumption DEF AccountInv
  <2>4. InFlight = Cardinality(Slots) + Requests + 1
    BY <2>1 DEF InFlight
  <2>5. InFlight <= abandoned + Cardinality(Waiting)
    BY <1>1 DEF AccountInv, EveryMessageAccounted
  <2> QED
    BY <2>2, <2>3, <2>4, <2>5, SMT
<1>2. AccountInv => BlockedOnlyByBacklog
  BY <1>1 DEF BlockedOnlyByBacklog
<1> QED
  BY <1>2, AccountCorrect, PTL

----------------------------------------------------------------------------
Route == [link : Link, metric : Nat, age : Nat]

\* Metric m is not too small for a router at distance d.
FarEnough(m, d) == m \in Nat /\ (m < INFINITY_METRIC => m >= d + 1)

RouteFar(r) ==
    ok[r] # NULL => /\ ok[r].link \in Links(r)
                    /\ FarEnough(ok[r].metric, Distance[Peer(r, ok[r].link)] + 1)

DatagramFar(m) ==
    /\ m.to \in Router
    /\ m.link \in Links(m.to)
    /\ m.cmd = "response" => FarEnough(m.metric, Distance[Peer(m.to, m.link)])

NearInv ==
    /\ ok \in [Router -> Route \cup {NULL}]
    /\ \A r \in Router : RouteFar(r)
    /\ \A m \in net : DatagramFar(m)

(***************************************************************************)
(* The other end of a link is a router, at most one link farther away or   *)
(* nearer, and its other end is the first router again.                    *)
(***************************************************************************)
LEMMA PeerFacts ==
    ASSUME NEW r \in Router, NEW l \in Links(r)
    PROVE  /\ Peer(r, l) \in Router
           /\ l \in Links(Peer(r, l))
           /\ Peer(Peer(r, l), l) = r
           /\ Distance[r] \in Nat /\ Distance[Peer(r, l)] \in Nat
           /\ Distance[r] <= Distance[Peer(r, l)] + 1
<1>1. l \in Link /\ r \in Ends[l]
  BY DEF Links
<1>2. PICK a, b \in Router : a # b /\ Ends[l] = {a, b}
  BY <1>1, NetworkAssumption
<1>3. PICK s \in Router : s # r /\ Ends[l] = {r, s}
  BY <1>1, <1>2
<1>4. Peer(r, l) = s
  BY <1>3 DEF Peer
<1>5. Peer(s, l) = r
  BY <1>3 DEF Peer
<1>6. l \in Links(s)
  BY <1>1, <1>3 DEF Links
<1>7. Distance[r] \in Nat /\ Distance[s] \in Nat
  BY DistanceAssumption
<1>8. Distance[r] <= Distance[s] + 1
  BY <1>1, <1>3, DistanceAssumption
<1> QED
  BY <1>4, <1>5, <1>6, <1>7, <1>8

(***************************************************************************)
(* What a router says of itself (fill_buffer_with_entries): the owner says *)
(* 1, another router the metric of its route, or infinity.                 *)
(***************************************************************************)
LEMMA MetricFar ==
    ASSUME NearInv, NEW r \in Router, NEW l, NEW only_changed
    PROVE  FarEnough(Metric(r, fill_buffer_with_entries(r, l, only_changed)), Distance[r])
<1> DEFINE sources == fill_buffer_with_entries(r, l, only_changed)
<1>0. INFINITY_METRIC \in Nat /\ Distance[r] \in Nat
  BY NetworkAssumption, DistanceAssumption
<1>1. CASE NULL \in sources
  <2>1. NULL \in Local(r) \/ NULL \in Usable(r) \/ NULL \in Link
    BY <1>1 DEF fill_buffer_with_entries, Sources
  <2>2. NULL \notin Usable(r)
    BY NetworkAssumption DEF NearInv, RouteFar, Links, Usable
  <2>3. r = Owner
    BY <2>1, <2>2, NetworkAssumption DEF Local
  <2>4. Metric(r, sources) = 1
    BY <1>1 DEF Metric
  <2> QED
    BY <2>3, <2>4, DistanceAssumption, SMT DEF FarEnough
<1>2. CASE NULL \notin sources /\ sources \cap Usable(r) # {}
  <2>1. ok[r] # NULL
    BY <1>2 DEF Usable
  <2>2. /\ ok[r].link \in Links(r)
        /\ FarEnough(ok[r].metric, Distance[Peer(r, ok[r].link)] + 1)
    BY <2>1 DEF NearInv, RouteFar
  <2>3. /\ Distance[Peer(r, ok[r].link)] \in Nat
        /\ Distance[r] <= Distance[Peer(r, ok[r].link)] + 1
    BY <2>2, PeerFacts
  <2>4. Metric(r, sources) = ok[r].metric
    BY <1>2 DEF Metric
  <2> QED
    BY <1>0, <2>2, <2>3, <2>4, SMT DEF FarEnough
<1>3. CASE NULL \notin sources /\ sources \cap Usable(r) = {}
  <2>1. Metric(r, sources) = INFINITY_METRIC
    BY <1>3 DEF Metric
  <2> QED
    BY <1>0, <2>1, SMT DEF FarEnough
<1> QED
  BY <1>1, <1>2, <1>3

\* A response with a metric that is far enough for its sender.
LEMMA ResponseFar ==
    ASSUME NEW r \in Router, NEW l \in Links(r), NEW metric, FarEnough(metric, Distance[r])
    PROVE  DatagramFar(Response(r, l, metric))
<1>1. /\ Response(r, l, metric).to = Peer(r, l)
      /\ Response(r, l, metric).link = l
      /\ Response(r, l, metric).metric = metric
  BY DEF Response
<1> QED
  BY <1>1, PeerFacts DEF DatagramFar

\* What rip_send_response sends.
LEMMA SendFar ==
    ASSUME NearInv, NEW r \in Router, NEW ls, ls \subseteq Links(r), NEW only_changed,
           NEW m \in rip_send_response(r, ls, only_changed)
    PROVE  DatagramFar(m)
<1>1. PICK l \in ls :
        m = Response(r, l, Metric(r, fill_buffer_with_entries(r, l, only_changed)))
  BY DEF rip_send_response
<1>2. FarEnough(Metric(r, fill_buffer_with_entries(r, l, only_changed)), Distance[r])
  BY MetricFar
<1> QED
  BY <1>1, <1>2, ResponseFar

(***************************************************************************)
(* Steps that leave the routes alone, and send only what is far enough.    *)
(***************************************************************************)
LEMMA OnlySends ==
    ASSUME NearInv, ok' = ok, \A m \in net' \ net : DatagramFar(m)
    PROVE  NearInv'
<1>1. \A m \in net' : DatagramFar(m)
  BY DEF NearInv
<1>2. \A m : DatagramFar(m)' <=> DatagramFar(m)
  BY DEF DatagramFar, FarEnough, Links, Peer
<1>3. \A r \in Router : RouteFar(r)'
  BY ZenonT(30) DEF NearInv, RouteFar, FarEnough, Links, Peer
<1> QED
  BY <1>1, <1>2, <1>3 DEF NearInv

(***************************************************************************)
(* Steps that change the route of one router.                              *)
(***************************************************************************)
LEMMA OneRoute ==
    ASSUME NearInv, NEW r \in Router, NEW route \in Route \cup {NULL},
           ok' = [ok EXCEPT ![r] = route],
           route # NULL => /\ route.link \in Links(r)
                           /\ FarEnough(route.metric, Distance[Peer(r, route.link)] + 1),
           \A m \in net' \ net : DatagramFar(m)
    PROVE  NearInv'
<1>1. ok' \in [Router -> Route \cup {NULL}]
  BY DEF NearInv
<1>2. \A m \in net' : DatagramFar(m)
  BY DEF NearInv
<1>3. \A m : DatagramFar(m)' <=> DatagramFar(m)
  BY DEF DatagramFar, FarEnough, Links, Peer
<1>4. ASSUME NEW q \in Router PROVE RouteFar(q)'
  <2>1. CASE q = r
    <3>1. ok'[q] = route
      BY <2>1 DEF NearInv
    <3> QED
      BY <2>1, <3>1, ZenonT(30) DEF RouteFar, FarEnough, Links, Peer
  <2>2. CASE q # r
    <3>1. ok'[q] = ok[q]
      BY <2>2 DEF NearInv
    <3>2. RouteFar(q)
      BY DEF NearInv
    <3> QED
      BY <3>1, <3>2, ZenonT(30) DEF RouteFar, FarEnough, Links, Peer
  <2> QED
    BY <2>1, <2>2
<1> QED
  BY <1>1, <1>2, <1>3, <1>4 DEF NearInv

(***************************************************************************)
(* A response is processed: the metric grows by one, as does the distance. *)
(***************************************************************************)
LEMMA UpdateFar ==
    ASSUME NEW metric, NEW d \in Nat, FarEnough(metric, d)
    PROVE  FarEnough(update_metric(metric), d + 1)
BY NetworkAssumption, SMT DEF FarEnough, update_metric

LEMMA ResponseStep ==
    ASSUME NearInv, NEW m \in net, rip_handle_response(m)
    PROVE  NearInv'
<1> DEFINE r == m.to
           route == [link |-> m.link, metric |-> update_metric(m.metric), age |-> 0]
<1>1. /\ r \in Router
      /\ m.link \in Links(r)
      /\ FarEnough(m.metric, Distance[Peer(r, m.link)])
  BY DEF NearInv, DatagramFar, rip_handle_response
<1>2. Distance[Peer(r, m.link)] \in Nat
  BY <1>1, PeerFacts
<1>3. FarEnough(route.metric, Distance[Peer(r, m.link)] + 1)
  BY <1>1, <1>2, UpdateFar
<1>4. route \in Route
  BY <1>1, <1>3 DEF Route, FarEnough, Links
<1>5. net' \subseteq net
  BY DEF rip_handle_response, Receive
<1>6. ok' = ok \/ ok' = [ok EXCEPT ![r] = route]
  BY DEF rip_handle_response, handle_ripv2_entry
<1>7. CASE ok' = ok
  BY <1>5, <1>7, OnlySends
<1>8. CASE ok' = [ok EXCEPT ![r] = route]
  <2>1. route.link \in Links(r) /\ FarEnough(route.metric, Distance[Peer(r, route.link)] + 1)
    BY <1>1, <1>3
  <2> HIDE DEF route
  <2> QED
    BY <1>1, <1>4, <1>5, <1>8, <2>1, OneRoute, ZenonT(30)
<1> QED
  BY <1>6, <1>7, <1>8

\* A request is answered.
LEMMA RequestStep ==
    ASSUME NearInv, NEW m \in net, rip_send_advertisement_unicast(m)
    PROVE  NearInv'
<1>1. m.to \in Router /\ {m.link} \subseteq Links(m.to)
  BY DEF NearInv, DatagramFar
<1>2. ok' = ok /\ net' \ net \subseteq rip_send_response(m.to, {m.link}, FALSE)
  BY ZenonT(30) DEF rip_send_advertisement_unicast
<1>3. \A n \in rip_send_response(m.to, {m.link}, FALSE) : DatagramFar(n)
  BY <1>1, SendFar, ZenonT(30)
<1> QED
  BY <1>2, <1>3, OnlySends, ZenonT(30)

(***************************************************************************)
(* The steps of one router.                                                *)
(***************************************************************************)
LEMMA MulticastStep ==
    ASSUME NearInv, NEW r \in Router, NEW only_changed, ok' = ok,
           rip_send_advertisement_multicast(r, only_changed)
    PROVE  NearInv'
<1>1. net' \ net \subseteq rip_send_response(r, Links(r), only_changed)
  BY DEF rip_send_advertisement_multicast
<1>2. \A n \in rip_send_response(r, Links(r), only_changed) : DatagramFar(n)
  BY SendFar
<1> QED
  BY <1>1, <1>2, OnlySends

LEMMA WarmupStep ==
    ASSUME NearInv, NEW r \in Router, rip_t_request_warmup_expired(r)
    PROVE  NearInv'
<1>1. ok' = ok
  BY DEF rip_t_request_warmup_expired
<1>2. ASSUME NEW m \in net' \ net PROVE DatagramFar(m)
  <2>1. PICK l \in Links(r) : m = [cmd |-> "request", link |-> l, to |-> Peer(r, l),
                                   metric |-> INFINITY_METRIC]
    BY <1>2 DEF rip_t_request_warmup_expired
  <2>2. m.cmd = "request" /\ m.link = l /\ m.to = Peer(r, l)
    BY <2>1
  <2> QED
    BY <2>2, PeerFacts DEF DatagramFar
<1> QED
  BY <1>1, <1>2, OnlySends

LEMMA NetEndStep ==
    ASSUME NearInv, NEW r \in Router, Crash(r) \/ rip_send_advertisement_shutdown(r)
    PROVE  NearInv'
<1>1. ok' = [ok EXCEPT ![r] = NULL]
  BY ZenonT(30) DEF Crash, rip_send_advertisement_shutdown, Ended
<1>2. ASSUME NEW m \in net' \ net PROVE DatagramFar(m)
  <2>1. PICK l \in Links(r) : m = Response(r, l, INFINITY_METRIC)
    BY <1>2, ZenonT(30) DEF Crash, rip_send_advertisement_shutdown
  <2>2. FarEnough(INFINITY_METRIC, Distance[r])
    BY NetworkAssumption, SMT DEF FarEnough
  <2> QED
    BY <2>1, <2>2, ResponseFar
<1> QED
  BY <1>1, <1>2, OneRoute, ZenonT(30)

LEMMA TickStep ==
    ASSUME NearInv, Tick
    PROVE  NearInv'
<1>1. ok' = [r \in Router |-> IF ok[r] = NULL THEN NULL ELSE [ok[r] EXCEPT !.age = @ + 1]]
  BY DEF Tick
<1>2. ASSUME NEW r \in Router
      PROVE  /\ ok'[r] \in Route \cup {NULL}
             /\ RouteFar(r)'
  <2>1. CASE ok[r] = NULL
    <3>1. ok'[r] = NULL
      BY <1>1, <2>1
    <3> QED
      BY <3>1 DEF RouteFar
  <2>2. CASE ok[r] # NULL
    <3>1. ok[r] \in Route /\ RouteFar(r)
      BY <2>2 DEF NearInv
    <3>2. ok'[r] = [ok[r] EXCEPT !.age = @ + 1]
      BY <1>1, <2>2
    <3>3. /\ ok'[r] \in Route
          /\ ok'[r].link = ok[r].link
          /\ ok'[r].metric = ok[r].metric
      BY <3>1, <3>2, SMT DEF Route
    <3> QED
      BY <2>2, <3>1, <3>3 DEF RouteFar, FarEnough, Links, Peer
  <2> QED
    BY <2>1, <2>2
<1>3. ok' \in [Router -> Route \cup {NULL}]
  BY <1>1, <1>2, SMTT(30)
<1>4. \A m \in net' : DatagramFar(m)'
  BY DEF Tick, NearInv
<1> QED
  BY <1>2, <1>3, <1>4 DEF NearInv

----------------------------------------------------------------------------
LEMMA InitNear == NetInit => NearInv
BY DEF NetInit, NearInv, RouteFar

LEMMA NextNear == NearInv /\ [NetNext]_netVars => NearInv'
<1> SUFFICES ASSUME NearInv, [NetNext]_netVars PROVE NearInv'
  OBVIOUS
<1>1. CASE UNCHANGED netVars
  <2>1. ok' = ok /\ net' = net
    BY <1>1 DEF netVars
  <2> QED
    BY <2>1, OnlySends
<1>2. ASSUME NEW r \in Router, RouterStep(r) PROVE NearInv'
  <2>1. CASE rip_t_update_expired(r)
    BY <2>1, MulticastStep, ZenonT(30) DEF rip_t_update_expired
  <2>2. CASE check_route_changed(r)
    BY <2>2, MulticastStep, ZenonT(30) DEF check_route_changed
  <2>3. CASE rip_t_request_warmup_expired(r)
    BY <2>3, WarmupStep
  <2>4. CASE rip_route_timeout_expired(r)
    <3>1. ok' = [ok EXCEPT ![r] = NULL] /\ net' = net
      BY <2>4 DEF rip_route_timeout_expired
    <3> QED
      BY <3>1, OneRoute, ZenonT(30)
  <2>5. CASE rip_t_gc_expired(r)
    <3>1. ok' = ok /\ net' = net
      BY <2>5 DEF rip_t_gc_expired
    <3> QED
      BY <3>1, OnlySends
  <2> QED
    BY <1>2, <2>1, <2>2, <2>3, <2>4, <2>5 DEF RouterStep
<1>3. ASSUME NEW r \in Router, rip_begin(r) PROVE NearInv'
  <2>1. ok' = ok /\ net' = net
    BY <1>3 DEF rip_begin
  <2> QED
    BY <2>1, OnlySends
<1>4. ASSUME NEW m \in net, Lose(m) PROVE NearInv'
  <2>1. ok' = ok /\ net' \subseteq net
    BY <1>4 DEF Lose
  <2> QED
    BY <2>1, OnlySends
<1> QED
  BY <1>1, <1>2, <1>3, <1>4, NetEndStep, ResponseStep, RequestStep, TickStep DEF NetNext, Deliver

(***************************************************************************)
(* No router takes the network for nearer than it is, in a network of any  *)
(* shape and size, whatever is lost, doubled or late, and whoever crashes: *)
(* rip_recv.c adds one to every metric, and rip_update.c sends nothing but *)
(* the metrics that are stored, 1 for a local network, and infinity.       *)
(***************************************************************************)
THEOREM NeverTooNear == NetSpec => []NotTooNear
<1>1. NearInv => NotTooNear
  <2> SUFFICES ASSUME NearInv, NEW r \in Router, ok[r] # NULL,
                      ok[r].metric < INFINITY_METRIC
               PROVE  ok[r].metric >= Distance[Peer(r, ok[r].link)] + 2
    BY DEF NotTooNear
  <2>1. /\ ok[r].link \in Links(r)
        /\ FarEnough(ok[r].metric, Distance[Peer(r, ok[r].link)] + 1)
    BY DEF NearInv, RouteFar
  <2>2. Distance[Peer(r, ok[r].link)] \in Nat
    BY <2>1, PeerFacts
  <2> QED
    BY <2>1, <2>2, SMT DEF FarEnough
<1> QED
  BY InitNear, NextNear, <1>1, PTL DEF NetSpec

----------------------------------------------------------------------------
(***************************************************************************)
(* Types.  A router's route, garbage and marks o, g and c fit together.    *)
(***************************************************************************)
RouterOK(r, o, g, c) ==
    /\ o \in Route \cup {NULL}
    /\ g \in [Link -> Nat \cup {NULL}]
    /\ o # NULL => o.link \in Links(r) /\ o.metric \in 2..INFINITY_METRIC /\ g[o.link] = NULL
    /\ c \subseteq Local(r) \cup {l \in Link : g[l] # NULL \/ (o # NULL /\ l = o.link)}

TablesInv ==
    /\ ok = [r \in Router |-> ok[r]]
    /\ garbage = [r \in Router |-> garbage[r]]
    /\ changed = [r \in Router |-> changed[r]]
    /\ \A r \in Router : RouterOK(r, ok[r], garbage[r], changed[r])

TypeInv ==
    /\ TablesInv
    /\ updated \subseteq up /\ request \subseteq up
    /\ net \subseteq Datagram

\* A step of one router leaves the others alone.
LEMMA OneRouter ==
    ASSUME TablesInv, NEW r \in Router, NEW o, NEW g, NEW c, RouterOK(r, o, g, c),
           ok' = [ok EXCEPT ![r] = o], garbage' = [garbage EXCEPT ![r] = g],
           changed' = [changed EXCEPT ![r] = c]
    PROVE  TablesInv'
<1>1. ASSUME NEW f, f = [q \in Router |-> f[q]], NEW v
      PROVE  /\ [f EXCEPT ![r] = v] = [q \in Router |-> [f EXCEPT ![r] = v][q]]
             /\ \A q \in Router : [f EXCEPT ![r] = v][q] = IF q = r THEN v ELSE f[q]
  BY <1>1
<1>2. /\ ok' = [q \in Router |-> ok'[q]] /\ garbage' = [q \in Router |-> garbage'[q]]
      /\ changed' = [q \in Router |-> changed'[q]]
  BY <1>1 DEF TablesInv
<1>3. ASSUME NEW q \in Router PROVE RouterOK(q, ok'[q], garbage'[q], changed'[q])
  <2>1. CASE q = r
    BY <1>1, <2>1 DEF TablesInv
  <2>2. CASE q # r
    BY <1>1, <2>2 DEF TablesInv
  <2> QED
    BY <2>1, <2>2
<1> QED
  BY <1>2, <1>3 DEF TablesInv

\* The tables stay what they are.
LEMMA SameTables ==
    ASSUME TablesInv, UNCHANGED <<ok, garbage, changed>>
    PROVE  TablesInv'
BY ZenonT(30) DEF TablesInv

\* A message says 1, the metric of a route, or infinity.
LEMMA MetricType ==
    ASSUME TablesInv, NEW r \in Router, NEW sources
    PROVE  Metric(r, sources) \in 1..INFINITY_METRIC
<1>1. INFINITY_METRIC \in Nat /\ INFINITY_METRIC >= 2
  BY NetworkAssumption, SMT
<1>2. ok[r] # NULL => ok[r].metric \in 2..INFINITY_METRIC
  BY DEF TablesInv, RouterOK
<1>3. sources \cap Usable(r) # {} => ok[r] # NULL
  BY DEF Usable
<1> QED
  BY <1>1, <1>2, <1>3, SMT DEF Metric

\* Messages are sent to the routers at the other end.
LEMMA SentType ==
    ASSUME NEW r \in Router, NEW l \in Links(r), NEW cmd \in {"request", "response"},
           NEW metric \in 1..INFINITY_METRIC
    PROVE  [cmd |-> cmd, link |-> l, to |-> Peer(r, l), metric |-> metric] \in Datagram
<1>1. l \in Link /\ Peer(r, l) \in Router
  BY PeerFacts DEF Links
<1> QED
  BY <1>1 DEF Datagram

\* What rip_send_response sends.
LEMMA NetSendType ==
    ASSUME TablesInv, NEW r \in Router, NEW ls, ls \subseteq Links(r), NEW only_changed
    PROVE  rip_send_response(r, ls, only_changed) \subseteq Datagram
<1> SUFFICES ASSUME NEW m \in rip_send_response(r, ls, only_changed) PROVE m \in Datagram
  OBVIOUS
<1>1. PICK l \in ls :
        m = Response(r, l, Metric(r, fill_buffer_with_entries(r, l, only_changed)))
  BY DEF rip_send_response
<1>2. Metric(r, fill_buffer_with_entries(r, l, only_changed)) \in 1..INFINITY_METRIC
  BY MetricType
<1> QED
  BY <1>1, <1>2, SentType DEF Response

\* A router that sends marks its routes as advertised.
LEMMA MulticastType ==
    ASSUME TypeInv, NEW r \in Router, NEW only_changed, ok' = ok, garbage' = garbage,
           rip_send_advertisement_multicast(r, only_changed)
    PROVE  TablesInv' /\ net' \subseteq Datagram
<1>1. rip_send_response(r, Links(r), only_changed) \subseteq Datagram
  BY NetSendType DEF TypeInv
<1>2. net' \subseteq Datagram
  BY <1>1 DEF TypeInv, rip_send_advertisement_multicast
<1>3. RouterOK(r, ok[r], garbage[r], {})
  BY DEF TypeInv, TablesInv, RouterOK
<1>4. /\ ok' = [ok EXCEPT ![r] = ok[r]] /\ garbage' = [garbage EXCEPT ![r] = garbage[r]]
      /\ changed' = [changed EXCEPT ![r] = {}]
  BY DEF TypeInv, TablesInv, rip_send_advertisement_multicast
<1> QED
  BY <1>2, <1>3, <1>4, OneRouter DEF TypeInv

\* The route in use dies and becomes garbage.
LEMMA TimeoutType ==
    ASSUME TypeInv, NEW r \in Router, rip_route_timeout_expired(r)
    PROVE  TablesInv'
<1> DEFINE l == ok[r].link
           g == [garbage[r] EXCEPT ![l] = 0]
           c == changed[r] \cup {l}
<1>1. RouterOK(r, ok[r], garbage[r], changed[r]) /\ ok[r] # NULL
  BY DEF TypeInv, TablesInv, rip_route_timeout_expired, Expired
<1>2. l \in Link /\ g \in [Link -> Nat \cup {NULL}] /\ g[l] # NULL
  <2>1. l \in Link /\ garbage[r] \in [Link -> Nat \cup {NULL}]
    BY <1>1 DEF RouterOK, Links
  <2>2. 0 \in Nat /\ NULL \notin Nat
    BY NetworkAssumption
  <2> QED
    BY <2>1, <2>2
<1>3. c \subseteq Local(r) \cup {k \in Link : g[k] # NULL}
  BY <1>1, <1>2 DEF RouterOK
<1>4. RouterOK(r, NULL, g, c)
  BY <1>2, <1>3 DEF RouterOK
<1>5. /\ ok' = [ok EXCEPT ![r] = NULL] /\ garbage' = [garbage EXCEPT ![r] = g]
      /\ changed' = [changed EXCEPT ![r] = c]
  BY DEF rip_route_timeout_expired
<1> QED
  BY <1>4, <1>5, OneRouter DEF TypeInv

\* Garbage goes with its marks.
LEMMA GcType ==
    ASSUME TypeInv, NEW r \in Router, rip_t_gc_expired(r)
    PROVE  TablesInv'
<1> DEFINE old == {l \in Link : Collectable(r, l)}
           g == [l \in Link |-> IF l \in old THEN NULL ELSE garbage[r][l]]
           c == changed[r] \ old
<1>1. RouterOK(r, ok[r], garbage[r], changed[r])
  BY DEF TypeInv, TablesInv
<1>2. ok' = [ok EXCEPT ![r] = ok[r]]
  BY DEF rip_t_gc_expired, TypeInv, TablesInv
<1>3. garbage' = [garbage EXCEPT ![r] = g] /\ changed' = [changed EXCEPT ![r] = c]
  BY DEF rip_t_gc_expired
<1> HIDE DEF old
<1>4. RouterOK(r, ok[r], g, c)
  BY <1>1 DEF RouterOK, Links
<1> QED
  BY <1>2, <1>3, <1>4, OneRouter DEF TypeInv

\* A response is processed: a new route, a better one, or garbage removed.
LEMMA EntryTables ==
    ASSUME TypeInv, NEW r \in Router, NEW l \in Links(r), NEW metric \in 2..INFINITY_METRIC,
           handle_ripv2_entry(r, l, metric)
    PROVE  TablesInv'
<1> DEFINE new == [link |-> l, metric |-> metric, age |-> 0]
           same == ok[r] # NULL /\ ok[r].link = l
           taken == (ok[r] = NULL /\ r \notin orphan) \/ (same /\ ok[r].metric > metric)
           g == [garbage[r] EXCEPT ![l] = NULL]
<1>1. RouterOK(r, ok[r], garbage[r], changed[r]) /\ l \in Link
  BY DEF TypeInv, TablesInv, Links
<1>2. new \in Route /\ new # NULL /\ new.link = l /\ new.metric = metric
  <2>1. metric \in Nat
    BY NetworkAssumption, SMT
  <2> QED
    BY <1>1, <2>1, NetworkAssumption, SMT DEF Route
<1>3. /\ g \in [Link -> Nat \cup {NULL}]
      /\ \A k \in Link : g[k] = IF k = l THEN NULL ELSE garbage[r][k]
  BY <1>1 DEF RouterOK
<1>4. /\ ok = [ok EXCEPT ![r] = ok[r]] /\ garbage = [garbage EXCEPT ![r] = garbage[r]]
  BY DEF TypeInv, TablesInv
<1>5. CASE same /\ taken
  <2>1. /\ ok' = [ok EXCEPT ![r] = new] /\ garbage' = [garbage EXCEPT ![r] = garbage[r]]
        /\ changed' = [changed EXCEPT ![r] = changed[r] \cup {l}]
    BY <1>4, <1>5 DEF handle_ripv2_entry
  <2> HIDE DEF new
  <2>2. RouterOK(r, new, garbage[r], changed[r] \cup {l})
    BY <1>1, <1>2, <1>5 DEF RouterOK
  <2> QED
    BY <2>1, <2>2, OneRouter DEF TypeInv
<1>6. CASE same /\ ~taken
  <2>1. /\ ok' = [ok EXCEPT ![r] = ok[r]] /\ garbage' = [garbage EXCEPT ![r] = garbage[r]]
        /\ changed' = [changed EXCEPT ![r] = changed[r]]
    BY <1>4, <1>6 DEF handle_ripv2_entry
  <2> QED
    BY <1>1, <2>1, OneRouter DEF TypeInv
<1>7. CASE ~same /\ taken
  <2>1. /\ ok' = [ok EXCEPT ![r] = new] /\ garbage' = [garbage EXCEPT ![r] = g]
        /\ changed' = [changed EXCEPT ![r] = changed[r] \cup {l}]
    BY <1>4, <1>7 DEF handle_ripv2_entry
  <2> HIDE DEF new, g
  <2>2. RouterOK(r, new, g, changed[r] \cup {l})
    BY <1>1, <1>2, <1>3, <1>7 DEF RouterOK
  <2> QED
    BY <2>1, <2>2, OneRouter DEF TypeInv
<1>8. CASE ~same /\ ~taken
  <2>1. /\ ok' = [ok EXCEPT ![r] = ok[r]] /\ garbage' = [garbage EXCEPT ![r] = g]
        /\ changed' = [changed EXCEPT ![r] = changed[r] \ {l}]
    BY <1>4, <1>8 DEF handle_ripv2_entry
  <2> HIDE DEF g
  <2>2. RouterOK(r, ok[r], g, changed[r] \ {l})
    BY <1>1, <1>3, <1>8 DEF RouterOK, Links
  <2> QED
    BY <2>1, <2>2, OneRouter DEF TypeInv
<1> QED
  BY <1>5, <1>6, <1>7, <1>8

\* A datagram arrives.
LEMMA DeliverType ==
    ASSUME TypeInv, NearInv, NEW m \in net, Deliver(m)
    PROVE  TypeInv'
<1>1. m \in Datagram /\ m.to \in Router /\ m.link \in Links(m.to)
  BY DEF TypeInv, NearInv, DatagramFar
<1>2. CASE rip_handle_response(m)
  <2>1. m.metric \in 1..INFINITY_METRIC
    BY <1>1 DEF Datagram
  <2>2. update_metric(m.metric) \in 2..INFINITY_METRIC
    BY <2>1, NetworkAssumption, SMT DEF update_metric
  <2>3. TablesInv'
    BY <1>1, <1>2, <2>2, EntryTables DEF rip_handle_response
  <2>4. net' \subseteq net /\ updated' = updated /\ request' = request /\ up' = up
    BY <1>2 DEF rip_handle_response, Receive
  <2> QED
    BY <2>3, <2>4 DEF TypeInv
<1>3. CASE rip_send_advertisement_unicast(m)
  <2>1. rip_send_response(m.to, {m.link}, FALSE) \subseteq Datagram
    BY <1>1, NetSendType DEF TypeInv
  <2>2. net' \subseteq net \cup rip_send_response(m.to, {m.link}, FALSE)
    BY <1>3, ZenonT(30) DEF rip_send_advertisement_unicast
  <2>3. TablesInv' /\ updated' = updated /\ request' = request /\ up' = up
    BY <1>3, SameTables DEF rip_send_advertisement_unicast, TypeInv
  <2> QED
    BY <2>1, <2>2, <2>3 DEF TypeInv
<1> QED
  BY <1>2, <1>3 DEF Deliver

\* A daemon ends, and another starts.
LEMMA LifeType ==
    ASSUME TypeInv, NEW r \in Router,
           Crash(r) \/ rip_send_advertisement_shutdown(r) \/ rip_begin(r)
    PROVE  TypeInv'
<1>1. CASE Crash(r) \/ rip_send_advertisement_shutdown(r)
  <2>1. Ended(r)
    BY <1>1 DEF Crash, rip_send_advertisement_shutdown
  <2>2. RouterOK(r, NULL, NoGarbage, {})
    BY DEF RouterOK, NoGarbage
  <2>3. TablesInv'
    BY <2>1, <2>2, OneRouter DEF Ended, TypeInv
  <2>4. updated' \subseteq up' /\ request' \subseteq up'
    BY <2>1 DEF Ended, TypeInv
  <2>5. ASSUME NEW m \in net' PROVE m \in Datagram
    <3>1. m \in net \/ \E l \in Links(r) : m = Response(r, l, INFINITY_METRIC)
      BY <1>1, <2>5 DEF Crash, rip_send_advertisement_shutdown
    <3>2. INFINITY_METRIC \in 1..INFINITY_METRIC
      BY NetworkAssumption, SMT
    <3> QED
      BY <3>1, <3>2, SentType DEF Response, TypeInv
  <2> QED
    BY <2>3, <2>4, <2>5 DEF TypeInv
<1>2. CASE rip_begin(r)
  <2>1. RouterOK(r, ok[r], garbage[r], Local(r))
    BY DEF TypeInv, TablesInv, RouterOK
  <2>2. /\ ok' = [ok EXCEPT ![r] = ok[r]] /\ garbage' = [garbage EXCEPT ![r] = garbage[r]]
        /\ changed' = [changed EXCEPT ![r] = Local(r)]
    BY <1>2 DEF rip_begin, TypeInv, TablesInv
  <2>3. TablesInv'
    BY <2>1, <2>2, OneRouter DEF TypeInv
  <2> QED
    BY <1>2, <2>3 DEF rip_begin, TypeInv
<1> QED
  BY <1>1, <1>2

\* A period ends: routes and garbage get older.
LEMMA TickType ==
    ASSUME TypeInv, Tick
    PROVE  TypeInv'
<1>1. ASSUME NEW r \in Router PROVE RouterOK(r, ok'[r], garbage'[r], changed'[r])
  <2>1. RouterOK(r, ok[r], garbage[r], changed[r])
    BY DEF TypeInv, TablesInv
  <2>2. /\ garbage'[r] \in [Link -> Nat \cup {NULL}]
        /\ \A l \in Link : garbage'[r][l] = NULL <=> garbage[r][l] = NULL
    <3>1. garbage'[r] = [l \in Link |-> IF garbage[r][l] = NULL THEN NULL ELSE garbage[r][l] + 1]
      BY DEF Tick
    <3> QED
      BY <2>1, <3>1, NetworkAssumption, SMT DEF RouterOK
  <2>3. /\ ok'[r] \in Route \cup {NULL} /\ (ok'[r] = NULL <=> ok[r] = NULL)
        /\ ok[r] # NULL => ok'[r].link = ok[r].link /\ ok'[r].metric = ok[r].metric
    <3>1. CASE ok[r] = NULL
      BY <3>1 DEF Tick
    <3>2. CASE ok[r] # NULL
      <4>1. ok[r] \in Route
        BY <2>1, <3>2 DEF RouterOK
      <4>2. ok'[r] = [ok[r] EXCEPT !.age = @ + 1]
        BY <3>2 DEF Tick
      <4>3. ok'[r] \in Route /\ ok'[r].link = ok[r].link /\ ok'[r].metric = ok[r].metric
        BY <4>1, <4>2, SMT DEF Route
      <4> QED
        BY <3>2, <4>3, NetworkAssumption DEF Route
    <3> QED
      BY <3>1, <3>2
  <2>4. changed'[r] = changed[r]
    BY DEF Tick
  <2> QED
    BY <2>1, <2>2, <2>3, <2>4 DEF RouterOK, Links
<1>2. /\ ok' = [r \in Router |-> ok'[r]] /\ garbage' = [r \in Router |-> garbage'[r]]
      /\ changed' = [r \in Router |-> changed'[r]]
  BY DEF Tick, TypeInv, TablesInv
<1>3. TablesInv'
  BY <1>1, <1>2 DEF TablesInv
<1> QED
  BY <1>3 DEF Tick, TypeInv

LEMMA InitTypes == NetInit => TypeInv
<1> SUFFICES ASSUME NetInit PROVE TypeInv
  OBVIOUS
<1>1. \A r \in Router : RouterOK(r, NULL, NoGarbage, Local(r))
  BY DEF RouterOK, NoGarbage
<1>2. TablesInv
  BY <1>1 DEF NetInit, TablesInv
<1> QED
  BY <1>2, NetworkAssumption DEF NetInit, TypeInv

LEMMA NextTypes == TypeInv /\ NearInv /\ [NetNext]_netVars => TypeInv'
<1> SUFFICES ASSUME TypeInv, NearInv, [NetNext]_netVars PROVE TypeInv'
  OBVIOUS
<1>1. CASE UNCHANGED netVars
  BY <1>1, SameTables DEF netVars, TypeInv
<1>2. ASSUME NEW r \in Router, RouterStep(r) PROVE TypeInv'
  <2>1. CASE rip_t_update_expired(r)
    <3>1. TablesInv' /\ net' \subseteq Datagram
      BY <2>1, MulticastType DEF rip_t_update_expired
    <3> QED
      BY <2>1, <3>1 DEF rip_t_update_expired, TypeInv
  <2>2. CASE check_route_changed(r)
    <3>1. TablesInv' /\ net' \subseteq Datagram
      BY <2>2, MulticastType DEF check_route_changed
    <3> QED
      BY <2>2, <3>1 DEF check_route_changed, TypeInv
  <2>3. CASE rip_t_request_warmup_expired(r)
    <3>1. TablesInv'
      BY <2>3, SameTables DEF rip_t_request_warmup_expired, TypeInv
    <3>2. INFINITY_METRIC \in 1..INFINITY_METRIC
      BY NetworkAssumption, SMT
    <3>3. ASSUME NEW m \in net' PROVE m \in Datagram
      BY <2>3, <3>2, <3>3, SentType DEF rip_t_request_warmup_expired, TypeInv
    <3> QED
      BY <2>3, <3>1, <3>3 DEF rip_t_request_warmup_expired, TypeInv
  <2>4. CASE rip_route_timeout_expired(r)
    BY <2>4, TimeoutType DEF rip_route_timeout_expired, TypeInv
  <2>5. CASE rip_t_gc_expired(r)
    BY <2>5, GcType DEF rip_t_gc_expired, TypeInv
  <2> QED
    BY <1>2, <2>1, <2>2, <2>3, <2>4, <2>5 DEF RouterStep
<1>3. ASSUME NEW m \in net, Lose(m) PROVE TypeInv'
  BY <1>3, SameTables DEF Lose, TypeInv
<1> QED
  BY <1>1, <1>2, <1>3, LifeType, DeliverType, TickType DEF NetNext

(***************************************************************************)
(* A router's marks, garbage and route fit together at every time: what    *)
(* check_route_changed will advertise is there, and the route in use is    *)
(* never garbage at the same time.  Everything on its way was sent on a    *)
(* link, with a metric that rip_recv.c accepts.                            *)
(***************************************************************************)
THEOREM NetworkTypes == NetSpec => []NetTypeOK
<1>1. TypeInv => NetTypeOK
  <2> SUFFICES ASSUME TypeInv, NEW r \in Router
               PROVE  /\ ok[r] # NULL => /\ ok[r].link \in Links(r)
                                         /\ ok[r].metric \in 2..INFINITY_METRIC
                                         /\ garbage[r][ok[r].link] = NULL
                      /\ changed[r] \subseteq Sources(r)
    BY DEF NetTypeOK, TypeInv
  <2>1. RouterOK(r, ok[r], garbage[r], changed[r])
    BY DEF TypeInv, TablesInv
  <2>2. changed[r] \subseteq Sources(r)
    BY <2>1 DEF RouterOK, Sources, Usable
  <2> QED
    BY <2>1, <2>2 DEF RouterOK
<1> QED
  BY InitTypes, NextTypes, InitNear, NextNear, <1>1, PTL DEF NetSpec
=============================================================================
