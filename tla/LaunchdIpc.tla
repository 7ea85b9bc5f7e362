------------------------------ MODULE LaunchdIpc ------------------------------
(***************************************************************************)
(* The command transport: launchctl (src/support/launchctl.c) at one end   *)
(* of a stream socket, the accept loop and handle_connection() of          *)
(* src/src/ipc.c at the other, and between them the framing of             *)
(* src/src/ipc_proto.c.                                                    *)
(*                                                                         *)
(* A message is a header of HdrLen units and a payload of some more.  Both *)
(* ends see a stream that delivers any part of it, so every read() and     *)
(* write() is a step.  What the handlers do to the jobs is in Launchd;     *)
(* here a handler only succeeds or fails, or does a part of its command.   *)
(***************************************************************************)
EXTENDS Naturals, Sequences

CONSTANTS
  Client,     \* the processes that connect, once each
  Steady,     \* those that keep reading and writing until they are done
  Request,    \* the messages they may send
  HdrLen,     \* units of a header
  ShortLen,   \* units of the payload of an ordinary reply
  ListLen,    \* units the payload of a list reply may have
  MaxPayload, \* the longest payload that is sent: 16 MB in the code
  Cap,        \* units a socket buffers in each direction
  Backlog,    \* the limit of listen(): 16 in the code
  Nonblock,   \* accept() hands the O_NONBLOCK of listen_fd down: FreeBSD does
  Faults,     \* the calls that may fail: a subset of {"malloc", "accept"}
  NULL

VARIABLES
  cl,        \* cl[c]: client c
  conn,      \* conn[c]: the server's end of the connection of c
  up, down,  \* units on the way to the server, and to the client
  backlog,   \* connections that wait for accept()
  srv,       \* where launchd is in accept_one()
  reply,     \* reply[c]: the reply launchd is sending, or sent, to c
  effect     \* effect[c]: what the handler of the command of c did

vars == <<cl, conn, up, down, backlog, srv, reply, effect>>

Cmd == {"load", "unload", "list", "start", "stop", "shutdown", "unknown"}

\* hdr: well formed, or the first thing that is wrong with it.
Message == [hdr : {"ok", "magic", "version", "size"}, cmd : Cmd, len : Nat]

ASSUME IpcAssumption ==
  /\ Steady \subseteq Client
  /\ Request \subseteq Message
  /\ {HdrLen, ShortLen, MaxPayload, Cap, Backlog} \cup ListLen \subseteq Nat \ {0}
  /\ Nonblock \in BOOLEAN
  /\ Faults \subseteq {"malloc", "accept"}
  /\ NULL \notin Client \cup Message \cup [err : BOOLEAN, len : Nat]

Init ==
  /\ cl = [c \in Client |->
             [at |-> "new", req |-> NULL, n |-> 0, status |-> "running"]]
  /\ conn = [c \in Client |-> "none"]
  /\ up = [c \in Client |-> 0] /\ down = [c \in Client |-> 0]
  /\ backlog = <<>>
  /\ srv = [at |-> "idle", fd |-> NULL, n |-> 0]
  /\ reply = [c \in Client |-> NULL]
  /\ effect = [c \in Client |-> "none"]

-----------------------------------------------------------------------------
(* Framing *)

Least(a, b) == IF a < b THEN a ELSE b

\* ipc_send() and ipc_recv() move the header and then the payload: where the
\* current one of the two ends, n units into a message with len of payload.
PartEnd(n, len) == IF n < HdrLen THEN HdrLen ELSE HdrLen + len

\* Mutant: write_all() takes a short write() for a whole one.
Written_Whole(n, len, queued) == PartEnd(n, len) - n

\* What one write() moves of it, and one read().
Written(n, len, queued) == Least(Cap - queued, PartEnd(n, len) - n)
Read(n, len, queued) == Least(queued, PartEnd(n, len) - n)

-----------------------------------------------------------------------------
(* launchctl *)

Exit(c, s) == cl' = [cl EXCEPT ![c].at = "exit", ![c].status = s]

\* connect() succeeds once the connection is queued, before any accept().
client_connect(c, r) ==
  /\ cl[c].at = "new"
  /\ \/ /\ srv.at # "exited" /\ Len(backlog) < Backlog
        /\ cl' = [cl EXCEPT ![c].at = "send", ![c].req = r]
        /\ conn' = [conn EXCEPT ![c] = "queued"]
        /\ backlog' = Append(backlog, c)
     \/ /\ srv.at = "exited" \/ Len(backlog) >= Backlog
        /\ Exit(c, "unsent")
        /\ UNCHANGED <<conn, backlog>>
  /\ UNCHANGED <<up, down, srv, reply, effect>>

\* One write() of ipc_send().  EPIPE, or the SIGPIPE that comes with it, ends
\* launchctl.  Its payload is an argument of the command line, which the
\* kernel keeps far below MaxPayload.
client_send(c) ==
  /\ cl[c].at = "send"
  /\ LET len == cl[c].req.len
         k   == Written(cl[c].n, len, up[c])
         all == cl[c].n + k = HdrLen + len
     IN  \/ /\ conn[c] # "closed" /\ k > 0
            /\ up' = [up EXCEPT ![c] = @ + k]
            /\ cl' = [cl EXCEPT ![c].n = IF all THEN 0 ELSE @ + k,
                                ![c].at = IF all THEN "recv" ELSE "send"]
         \/ /\ conn[c] = "closed"
            /\ Exit(c, "unsent")
            /\ UNCHANGED up
  /\ UNCHANGED <<conn, down, backlog, srv, reply, effect>>

\* One read() of ipc_recv().  After the whole reply, do_cmd() exits with 0 if
\* the number it begins with is 0.
client_recv(c) ==
  /\ cl[c].at = "recv"
  /\ \/ /\ down[c] > 0
        /\ LET len == reply[c].len
               k   == Read(cl[c].n, len, down[c])
           IN  /\ down' = [down EXCEPT ![c] = @ - k]
               /\ IF cl[c].n + k = HdrLen + len
                  THEN Exit(c, IF reply[c].err THEN "refused" ELSE "ok")
                  ELSE cl' = [cl EXCEPT ![c].n = @ + k]
     \/ /\ down[c] = 0 /\ conn[c] = "closed"
        /\ Exit(c, "unknown")
        /\ UNCHANGED down
  /\ UNCHANGED <<conn, up, backlog, srv, reply, effect>>

\* The user interrupts it, or it is not launchctl at all.
client_dies(c) ==
  /\ c \notin Steady
  /\ cl[c].at \in {"send", "recv"}
  /\ Exit(c, "unknown")
  /\ UNCHANGED <<conn, up, down, backlog, srv, reply, effect>>

Hung(c) == cl[c].at = "exit"

-----------------------------------------------------------------------------
(* launchd *)

To(at) == srv' = [srv EXCEPT !.at = at, !.n = 0]

\* The read source of listen_fd fires.
listen_ready ==
  /\ srv.at = "idle" /\ backlog # <<>>
  /\ To("accept")
  /\ UNCHANGED <<cl, conn, up, down, backlog, reply, effect>>

accept ==
  /\ srv.at = "accept" /\ backlog # <<>>
  /\ srv' = [at |-> "header", fd |-> Head(backlog), n |-> 0]
  /\ conn' = [conn EXCEPT ![Head(backlog)] = "accepted"]
  /\ backlog' = Tail(backlog)
  /\ UNCHANGED <<cl, up, down, reply, effect>>

\* EAGAIN, or another error, after which the source fires again.
accept_return ==
  /\ srv.at = "accept"
  /\ backlog = <<>> \/ "accept" \in Faults
  /\ To("idle")
  /\ UNCHANGED <<cl, conn, up, down, backlog, reply, effect>>

\* What read_all() is after: the header, or the payload that follows it.
Wanted == IF srv.at = "header" THEN HdrLen ELSE cl[srv.fd].req.len

\* One read() of read_all() that returns data.
read_all ==
  /\ srv.at \in {"header", "payload"}
  /\ srv.n < Wanted /\ up[srv.fd] > 0
  /\ LET k == Least(up[srv.fd], Wanted - srv.n)
     IN  /\ srv' = [srv EXCEPT !.n = @ + k]
         /\ up' = [up EXCEPT ![srv.fd] = @ - k]
  /\ UNCHANGED <<cl, conn, down, backlog, reply, effect>>

SendReply(err, len) ==
  /\ reply' = [reply EXCEPT ![srv.fd] = [err |-> err, len |-> len]]
  /\ To("reply")

\* Mutant: read_all() waits for the rest.
read_fails_Waits ==
  /\ srv.at \in {"header", "payload"}
  /\ srv.n < Wanted /\ up[srv.fd] = 0
  /\ Hung(srv.fd)
  /\ SendReply(TRUE, ShortLen)
  /\ UNCHANGED <<cl, conn, up, down, backlog, effect>>

\* Mutant: what was read of the payload is dispatched.
read_fails_Dispatched ==
  /\ srv.at \in {"header", "payload"}
  /\ srv.n < Wanted /\ up[srv.fd] = 0
  /\ IF srv.at = "payload"
     THEN To("dispatch") /\ UNCHANGED reply
     ELSE SendReply(TRUE, ShortLen)
  /\ UNCHANGED <<cl, conn, up, down, backlog, effect>>

\* read() finds nothing: end of file, or EAGAIN.  A connection closed before
\* the first byte gets no reply, any other failure "protocol error".
read_fails ==
  /\ srv.at \in {"header", "payload"}
  /\ srv.n < Wanted /\ up[srv.fd] = 0
  /\ Hung(srv.fd) \/ Nonblock
  /\ IF Hung(srv.fd) /\ srv.at = "header" /\ srv.n = 0
     THEN To("close") /\ UNCHANGED reply
     ELSE SendReply(TRUE, ShortLen)
  /\ UNCHANGED <<cl, conn, up, down, backlog, effect>>

\* The rest of ipc_recv(), once read_all() has all it wants.
ipc_recv ==
  /\ srv.at \in {"header", "payload"} /\ srv.n = Wanted
  /\ LET m == cl[srv.fd].req
     IN  \/ /\ srv.at = "header" /\ m.hdr # "ok"
            /\ SendReply(TRUE, ShortLen)
         \/ /\ srv.at = "header" /\ m.hdr = "ok" /\ m.len > 0
            /\ To("payload")
            /\ UNCHANGED reply
         \/ /\ srv.at = "header" /\ m.hdr = "ok" /\ m.len > 0
            /\ "malloc" \in Faults
            /\ SendReply(TRUE, ShortLen)
         \/ /\ srv.at = "payload" \/ (m.hdr = "ok" /\ m.len = 0)
            /\ To("dispatch")
            /\ UNCHANGED reply
  /\ UNCHANGED <<cl, conn, up, down, backlog, effect>>

\* A list has a row per job; any other reply is a line.
ReplyLen(m, err) == IF m.cmd = "list" /\ ~err THEN ListLen ELSE {ShortLen}

\* The handler runs and its reply is ready.  An unknown command, and one
\* that lacks its payload, is refused; list and shutdown need none.
\* handle_load() answers EIO and leaves the job loaded if only its spawn
\* fails; every other error leaves the jobs as they were.
dispatch_msg ==
  /\ srv.at = "dispatch"
  /\ LET m == cl[srv.fd].req
     IN  \E err \in BOOLEAN, e \in {"done", "partly", "failed"} :
           /\ m.cmd = "unknown" => err
           /\ m.cmd \notin {"list", "shutdown"} /\ m.len = 0 => err
           /\ m.cmd = "shutdown" \/ (m.cmd = "list" /\ "malloc" \notin Faults)
                => ~err
           /\ e = "done" <=> ~err
           /\ e = "partly" => m.cmd = "load" /\ m.len > 0
           /\ effect' = [effect EXCEPT ![srv.fd] = e]
           /\ \E len \in ReplyLen(m, err) : SendReply(err, len)
  /\ UNCHANGED <<cl, conn, up, down, backlog>>

\* One write() of the reply, or the end of it: the reply is out, it is too
\* long and nothing of it is sent, the client is gone (SIGPIPE is ignored), or
\* there is no room and EAGAIN.
ipc_send ==
  /\ srv.at = "reply"
  /\ LET c    == srv.fd
         len  == reply[c].len
         k    == Written(srv.n, len, down[c])
     IN  \/ /\ k > 0 /\ ~Hung(c) /\ len <= MaxPayload
            /\ down' = [down EXCEPT ![c] = @ + k]
            /\ srv' = [srv EXCEPT !.n = @ + k]
         \/ /\ \/ srv.n = HdrLen + len \/ len > MaxPayload
               \/ Hung(c) \/ (Nonblock /\ k = 0)
            /\ To("close")
            /\ UNCHANGED down
  /\ UNCHANGED <<cl, conn, up, backlog, reply, effect>>

\* exit() closes every socket.
exit ==
  /\ srv' = [at |-> "exited", fd |-> NULL, n |-> 0]
  /\ conn' = [c \in Client |-> IF conn[c] = "none" THEN "none" ELSE "closed"]
  /\ backlog' = <<>>

\* Mutant: the early return of an empty connection leaves it open.
close_Leaks ==
  /\ srv.at = "close"
  /\ srv' = [at |-> "accept", fd |-> NULL, n |-> 0]
  /\ conn' = [conn EXCEPT ![srv.fd] = IF reply[srv.fd] = NULL THEN @ ELSE "closed"]
  /\ UNCHANGED <<cl, up, down, backlog, reply, effect>>

\* close(), and the next round of the accept loop.  handle_shutdown() does
\* not return from launchd_shutdown().
close ==
  /\ srv.at = "close"
  /\ IF effect[srv.fd] = "done" /\ cl[srv.fd].req.cmd = "shutdown"
     THEN exit
     ELSE /\ srv' = [at |-> "accept", fd |-> NULL, n |-> 0]
          /\ conn' = [conn EXCEPT ![srv.fd] = "closed"]
          /\ UNCHANGED backlog
  /\ UNCHANGED <<cl, up, down, reply, effect>>

\* SIGTERM, SIGINT and SIGHUP wait for the main queue too.
signal_shutdown ==
  /\ srv.at = "idle"
  /\ exit
  /\ UNCHANGED <<cl, up, down, reply, effect>>

-----------------------------------------------------------------------------

Serve ==
  \/ listen_ready \/ read_all \/ read_fails \/ ipc_recv \/ dispatch_msg
  \/ ipc_send \/ close \/ accept_return

Next ==
  \/ \E c \in Client, r \in Request : client_connect(c, r)
  \/ \E c \in Client : client_send(c) \/ client_recv(c) \/ client_dies(c)
  \/ Serve \/ accept \/ signal_shutdown

Spec == Init /\ [][Next]_vars

\* launchd runs, and so do the steady clients; the others may fall silent.
Fairness ==
  /\ WF_vars(Serve) /\ SF_vars(accept)
  /\ \A c \in Steady : WF_vars(client_send(c)) /\ WF_vars(client_recv(c))

FairSpec == Spec /\ Fairness

-----------------------------------------------------------------------------

TypeOK ==
  /\ cl \in [Client ->
       [ at : {"new", "send", "recv", "exit"}, req : Request \cup {NULL},
         n : Nat, status : {"running", "ok", "refused", "unsent", "unknown"} ]]
  /\ conn \in [Client -> {"none", "queued", "accepted", "closed"}]
  /\ up \in [Client -> 0..Cap] /\ down \in [Client -> 0..Cap]
  /\ backlog \in Seq(Client)
  /\ srv \in [ at : {"idle", "accept", "header", "payload", "dispatch",
                     "reply", "close", "exited"},
               fd : Client \cup {NULL}, n : Nat ]
  /\ reply \in [Client -> [err : BOOLEAN, len : Nat] \cup {NULL}]
  /\ effect \in [Client -> {"none", "done", "partly", "failed"}]

\* Every connection launchd accepted is closed again: the only one open is
\* the one being served.
ConnectionsClosed ==
  \A c \in Client : conn[c] = "accepted" => srv.fd = c

Service == INSTANCE CommandService WITH
             status <- [c \in Client |-> cl[c].status]

\* Over any interleaving of partial reads and writes, lost clients and exits,
\* the transport keeps the promise of CommandService: at most once, and what
\* launchctl reports is true.
ServiceKept == Service!ServiceSpec

\* launchctl always ends, whatever other clients do or fail to do: one that
\* connects and stays silent does not hold up launchd.
Answered ==
  \A c \in Steady : cl[c].at = "send" ~> cl[c].at = "exit"

\* "Per-connection: read one message, dispatch, close": a well-formed message
\* whose sender keeps sending is dispatched.
MessageDispatched ==
  \A c \in Steady :
    (cl[c].at = "send" /\ cl[c].req.hdr = "ok")
      ~> effect[c] # "none" \/ srv.at = "exited"

=============================================================================
