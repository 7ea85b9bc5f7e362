--------------------------- MODULE LaunchdIpcProofs ---------------------------
(***************************************************************************)
(* Proofs about LaunchdIpc, for any number of clients, any requests, any   *)
(* lengths of messages and buffers, and either kind of accepted socket:    *)
(* every accepted connection is closed again, and the transport implements *)
(* CommandService.                                                         *)
(*                                                                         *)
(* The inductive invariant speaks of one client at a time: ClientOK(c)     *)
(* relates what c and launchd have done of the connection of c.  A step    *)
(* concerns one client, or none; for the others ClientOK is kept by lemma  *)
(* Frame.                                                                  *)
(***************************************************************************)
EXTENDS LaunchdIpc, TLAPS

Rec == [ at : {"new", "send", "recv", "exit"}, req : Request \cup {NULL},
         n : Nat, status : {"running", "ok", "refused", "unsent", "unknown"} ]

Conn == {"none", "queued", "accepted", "closed"}

Srv == [ at : {"idle", "accept", "header", "payload", "dispatch",
               "reply", "close", "exited"},
         fd : Client \cup {NULL}, n : Nat ]

Reply == [err : BOOLEAN, len : Nat]

Serving == {"header", "payload", "dispatch", "reply", "close"}

\* launchd has a connection exactly while it serves one.
ServesOne == srv.at \in Serving <=> srv.fd # NULL

\* Those that wait for accept() wait once.
Queue ==
  /\ \A i \in 1 .. Len(backlog) : conn[backlog[i]] = "queued"
  /\ \A i, j \in 1 .. Len(backlog) : backlog[i] = backlog[j] => i = j

\* The connection that is open is the one being served; how far it is.
Served(c) ==
  /\ conn[c] = "accepted" <=> srv.fd = c
  /\ srv.fd = c =>
       /\ srv.at = "header" => srv.n <= HdrLen
       /\ srv.at = "payload" => srv.n <= cl[c].req.len
       /\ srv.at = "reply" => reply[c] # NULL /\ srv.n <= HdrLen + reply[c].len
       /\ srv.at \in {"header", "payload", "dispatch"} => reply[c] = NULL

\* A client connects at most once.
Connects(c) ==
  /\ cl[c].at = "new" => conn[c] = "none" /\ cl[c].n = 0 /\ up[c] = 0
  /\ cl[c].at \in {"send", "recv"} => conn[c] # "none"
  /\ conn[c] # "none" => cl[c].req \in Request
  /\ cl[c].status = "running" <=> cl[c].at # "exit"

\* What a client that is still sending has sent is what launchd has read and
\* what is on the way, so its request has not been dispatched.
Sends(c) ==
  cl[c].at = "send" =>
    /\ cl[c].n < HdrLen + cl[c].req.len
    /\ conn[c] = "queued" => cl[c].n = up[c]
    /\ srv.fd = c /\ srv.at = "header" => cl[c].n = up[c] + srv.n
    /\ srv.fd = c /\ srv.at = "payload" => cl[c].n = up[c] + HdrLen + srv.n
    /\ ~(srv.fd = c /\ srv.at = "dispatch")
    /\ effect[c] = "none"

\* How far a client is in the reply.
Receives(c) ==
  cl[c].at = "recv" =>
    /\ reply[c] = NULL => cl[c].n = 0
    /\ reply[c] # NULL => cl[c].n < HdrLen + reply[c].len

\* There is a reply once the request was refused or dispatched, and it says
\* what the handler did.
Truthful(c) ==
  /\ conn[c] \in {"none", "queued"} => reply[c] = NULL
  /\ reply[c] = NULL => effect[c] = "none" /\ down[c] = 0
  /\ reply[c] # NULL => (reply[c].err <=> effect[c] # "done")

\* A client that reports a refusal was not served and will not be.
Refused(c) ==
  cl[c].status \in {"refused", "unsent"} =>
    /\ effect[c] # "done"
    /\ conn[c] \in {"none", "closed"} \/ reply[c] # NULL

ClientOK(c) ==
  Served(c) /\ Connects(c) /\ Sends(c) /\ Receives(c) /\ Truthful(c) /\ Refused(c)

IInv == TypeOK /\ ServesOne /\ Queue /\ \A c \in Client : ClientOK(c)

-----------------------------------------------------------------------------
\* The constants, one by one.
LEMMA Constants ==
  /\ HdrLen \in Nat /\ HdrLen > 0 /\ ShortLen \in Nat /\ ListLen \subseteq Nat
  /\ Cap \in Nat /\ Backlog \in Nat
  /\ NULL \notin Client /\ NULL \notin Request /\ NULL \notin Reply
  /\ \A r \in Request : r.len \in Nat
BY IpcAssumption DEF Message, Reply

LEMMA Types ==
  TypeOK <=> /\ cl \in [Client -> Rec]
             /\ conn \in [Client -> Conn]
             /\ up \in [Client -> 0..Cap] /\ down \in [Client -> 0..Cap]
             /\ backlog \in Seq(Client)
             /\ srv \in Srv
             /\ reply \in [Client -> Reply \cup {NULL}]
             /\ effect \in [Client -> {"none", "done", "partly", "failed"}]
BY DEF TypeOK, Rec, Conn, Srv, Reply

LEMMA InitIInv == Init => IInv
<1> SUFFICES ASSUME Init PROVE IInv
  OBVIOUS
<1> USE Constants DEF Init
<1>1. TypeOK
  BY DEF TypeOK
<1>2. ServesOne /\ Queue
  BY DEF ServesOne, Queue, Serving
<1>3. ASSUME NEW c \in Client PROVE ClientOK(c)
  BY DEF ClientOK, Served, Connects, Sends, Receives, Truthful, Refused
<1> QED
  BY <1>1, <1>2, <1>3 DEF IInv

\* What a step leaves of a client it does not concern.
Same(c) ==
  /\ cl'[c] = cl[c] /\ conn'[c] = conn[c] /\ up'[c] = up[c]
  /\ down'[c] = down[c] /\ reply'[c] = reply[c] /\ effect'[c] = effect[c]

LEMMA Frame ==
  ASSUME NEW c, ClientOK(c), Same(c), srv' = srv \/ (srv.fd # c /\ srv'.fd # c)
  PROVE  ClientOK(c)'
BY DEF Same, ClientOK, Served, Connects, Sends, Receives, Truthful, Refused

\* A step of client c, which launchd takes no part in.
LEMMA ClientStep ==
  ASSUME IInv, TypeOK', NEW c \in Client, UNCHANGED srv, Queue', ClientOK(c)',
         \A d \in Client \ {c} : Same(d)
  PROVE  IInv'
<1>1. \A d \in Client \ {c} : ClientOK(d)'
  BY Frame DEF IInv
<1>2. ServesOne'
  BY DEF IInv, ServesOne
<1> QED
  BY <1>1, <1>2 DEF IInv

\* launchctl ends with status s, and nothing else changes but what it read.
LEMMA ExitStep ==
  ASSUME IInv, NEW c \in Client, NEW s \in {"ok", "refused", "unsent", "unknown"}, Exit(c, s),
         UNCHANGED <<conn, up, backlog, srv, reply, effect>>,
         down' \in [Client -> 0..Cap], down'[c] \in {0, down[c]} \/ reply[c] # NULL,
         \A d \in Client \ {c} : down'[d] = down[d],
         s \in {"refused", "unsent"} =>
           /\ effect[c] # "done"
           /\ conn[c] \in {"none", "closed"} \/ reply[c] # NULL
  PROVE  IInv'
<1>0. TypeOK /\ Queue /\ ClientOK(c) /\ cl \in [Client -> Rec]
  BY Types DEF IInv
<1>1. /\ cl'[c].at = "exit" /\ cl'[c].req = cl[c].req /\ cl'[c].status = s
      /\ cl' \in [Client -> Rec]
      /\ \A d \in Client \ {c} : cl'[d] = cl[d]
  BY <1>0, ZenonT(60) DEF Exit, Rec
<1>2. TypeOK'
  BY <1>0, <1>1, Types DEF TypeOK, Rec
<1>3. Queue' /\ \A d \in Client \ {c} : Same(d)
  BY <1>0, <1>1 DEF Queue, Same
<1>4. Connects(c)' /\ Sends(c)' /\ Receives(c)' /\ Refused(c)'
  BY <1>0, <1>1 DEF ClientOK, Connects, Sends, Receives, Refused
<1>5. Served(c)' /\ Truthful(c)'
  BY <1>0, <1>1 DEF ClientOK, Served, Truthful
<1> QED
  BY <1>2, <1>3, <1>4, <1>5, ClientStep DEF ClientOK

\* connect()
LEMMA ConnectInv ==
  ASSUME IInv, NEW c \in Client, NEW r \in Request, client_connect(c, r)
  PROVE  IInv'
<1>0. /\ TypeOK /\ Queue /\ ClientOK(c) /\ cl \in [Client -> Rec] /\ conn \in [Client -> Conn]
      /\ backlog \in Seq(Client) /\ down \in [Client -> 0..Cap]
  BY Types DEF IInv
<1>1. CASE srv.at # "exited" /\ Len(backlog) < Backlog
  <2>0. ~(srv.at = "exited" \/ Len(backlog) >= Backlog)
    BY <1>0, <1>1, Constants
  <2>1. /\ cl' = [cl EXCEPT ![c].at = "send", ![c].req = r]
        /\ conn' = [conn EXCEPT ![c] = "queued"]
        /\ backlog' = Append(backlog, c)
        /\ UNCHANGED <<up, down, srv, reply, effect>>
        /\ cl[c].at = "new" /\ conn[c] = "none" /\ cl[c].n = 0 /\ up[c] = 0
        /\ cl[c].status = "running" /\ reply[c] = NULL /\ effect[c] = "none" /\ down[c] = 0
        /\ srv.fd # c
    <3>1. /\ cl' = [cl EXCEPT ![c].at = "send", ![c].req = r]
          /\ conn' = [conn EXCEPT ![c] = "queued"]
          /\ backlog' = Append(backlog, c)
          /\ UNCHANGED <<up, down, srv, reply, effect>>
          /\ cl[c].at = "new"
      BY <2>0 DEF client_connect
    <3> QED
      BY <1>0, <3>1 DEF ClientOK, Connects, Truthful, Served
  <2>2. /\ cl'[c].at = "send" /\ cl'[c].req = r /\ cl'[c].n = 0 /\ cl'[c].status = "running"
        /\ cl' \in [Client -> Rec] /\ conn' \in [Client -> Conn] /\ conn'[c] = "queued"
        /\ \A d \in Client \ {c} : cl'[d] = cl[d] /\ conn'[d] = conn[d]
    BY <1>0, <2>1, ZenonT(60) DEF Rec, Conn
  <2>3. TypeOK'
    BY <1>0, <2>1, <2>2, Types, SMTT(30) DEF TypeOK, Rec, Conn
  <2>4. Queue'
    <3>1. /\ Len(backlog') = Len(backlog) + 1 /\ backlog'[Len(backlog) + 1] = c
          /\ Len(backlog) \in Nat
          /\ \A i \in 1 .. Len(backlog) : backlog'[i] = backlog[i] /\ backlog[i] \in Client
      BY <1>0, <2>1
    <3>2. \A i \in 1 .. Len(backlog) : backlog[i] # c
      BY <1>0, <2>1 DEF Queue
    <3>3. \A i \in 1 .. Len(backlog') : i \in 1 .. Len(backlog) \/ i = Len(backlog) + 1
      BY <3>1
    <3>4. ASSUME NEW i \in 1 .. Len(backlog') PROVE conn'[backlog'[i]] = "queued"
      <4>1. CASE i \in 1 .. Len(backlog)
        <5>1. backlog'[i] = backlog[i] /\ backlog[i] \in Client \ {c}
          BY <3>1, <3>2, <4>1
        <5>2. conn'[backlog[i]] = conn[backlog[i]] /\ conn[backlog[i]] = "queued"
          BY <1>0, <2>2, <4>1, <5>1 DEF Queue
        <5> QED
          BY <5>1, <5>2
      <4>2. CASE i = Len(backlog) + 1
        BY <2>2, <3>1, <4>2
      <4> QED
        BY <3>3, <4>1, <4>2
    <3>5. ASSUME NEW i \in 1 .. Len(backlog'), NEW j \in 1 .. Len(backlog'),
                 backlog'[i] = backlog'[j]
          PROVE  i = j
      BY <1>0, <3>1, <3>2, <3>3, <3>5, ZenonT(60) DEF Queue
    <3>6. (\A i \in 1 .. Len(backlog) : conn[backlog[i]] = "queued")'
      BY <3>4
    <3>7. (\A i, j \in 1 .. Len(backlog) : backlog[i] = backlog[j] => i = j)'
      BY <3>5
    <3> QED
      BY <3>6, <3>7 DEF Queue
  <2>5. ClientOK(c)'
    BY <2>1, <2>2, Constants DEF ClientOK, Served, Connects, Sends, Receives, Truthful, Refused
  <2>6. \A d \in Client \ {c} : Same(d)
    BY <2>1, <2>2 DEF Same
  <2> QED
    BY <2>1, <2>3, <2>4, <2>5, <2>6, ClientStep
<1>2. CASE srv.at = "exited" \/ Len(backlog) >= Backlog
  <2>1. /\ Exit(c, "unsent") /\ UNCHANGED <<conn, up, down, backlog, srv, reply, effect>>
        /\ effect[c] # "done" /\ conn[c] = "none"
    BY <1>0, <1>2, Constants, Types DEF client_connect, ClientOK, Connects, Truthful
  <2> QED
    BY <1>0, <2>1, ExitStep
<1> QED
  BY <1>1, <1>2 DEF client_connect

\* What one write() or read() moves is within the message and the buffer.
LEMMA Moved ==
  ASSUME NEW n \in Nat, NEW len \in Nat, NEW q \in 0 .. Cap
  PROVE  /\ Written(n, len, q) > 0 =>
              /\ Written(n, len, q) \in Nat /\ q + Written(n, len, q) \in 0 .. Cap
              /\ n + Written(n, len, q) <= HdrLen + len
         /\ q > 0 /\ n < HdrLen + len =>
              /\ Read(n, len, q) \in Nat /\ q - Read(n, len, q) \in 0 .. Cap
              /\ n + Read(n, len, q) <= HdrLen + len
BY Constants DEF Written, Read, Least, PartEnd

\* write() of launchctl
LEMMA SendInv ==
  ASSUME IInv, NEW c \in Client, client_send(c)
  PROVE  IInv'
<1>0. /\ TypeOK /\ Queue /\ ClientOK(c) /\ cl \in [Client -> Rec] /\ up \in [Client -> 0..Cap]
      /\ down \in [Client -> 0..Cap] /\ reply \in [Client -> Reply \cup {NULL}]
  BY Types DEF IInv
<1> DEFINE len == cl[c].req.len
           k == Written(cl[c].n, len, up[c])
<1>1. /\ cl[c].at = "send" /\ cl[c].n \in Nat /\ len \in Nat /\ up[c] \in 0 .. Cap
      /\ conn[c] # "none" /\ cl[c].status = "running"
      /\ reply[c] # NULL => reply[c].len \in Nat
      /\ UNCHANGED <<conn, down, backlog, srv, reply, effect>>
  BY <1>0, Constants DEF client_send, ClientOK, Connects, Rec, Reply
<1>2. CASE conn[c] # "closed" /\ k > 0
  <2> DEFINE all == cl[c].n + k = HdrLen + len
             n2 == IF all THEN 0 ELSE cl[c].n + k
             at2 == IF all THEN "recv" ELSE "send"
  <2>1. /\ up' = [up EXCEPT ![c] = up[c] + k]
        /\ cl' = [cl EXCEPT ![c].n = n2, ![c].at = at2]
    BY <1>2 DEF client_send
  <2>2. k \in Nat /\ up[c] + k \in 0 .. Cap /\ cl[c].n + k <= HdrLen + len
    BY <1>1, <1>2, Moved
  <2>3. n2 \in Nat /\ at2 \in {"send", "recv"}
    BY <1>1, <2>2
  <2> HIDE DEF k, n2, at2
  <2>4. /\ cl' \in [Client -> Rec] /\ cl'[c].req = cl[c].req /\ cl'[c].status = "running"
        /\ cl'[c].n = n2 /\ cl'[c].at = at2
        /\ \A d \in Client \ {c} : cl'[d] = cl[d]
    BY <1>0, <1>1, <2>1, <2>3 DEF Rec
  <2>5. /\ up' \in [Client -> 0 .. Cap] /\ up'[c] = up[c] + k
        /\ \A d \in Client \ {c} : up'[d] = up[d]
    BY <1>0, <1>1, <2>1, <2>2
  <2>6. TypeOK'
    BY <1>0, <1>1, <2>4, <2>5, Types DEF TypeOK, Rec
  <2>7. Queue' /\ \A d \in Client \ {c} : Same(d)
    BY <1>0, <1>1, <2>4, <2>5 DEF Queue, Same
  <2>8. Served(c)' /\ Truthful(c)' /\ Refused(c)'
    BY <1>0, <1>1, <2>4, <2>5 DEF ClientOK, Served, Truthful, Refused
  <2>9. Connects(c)'
    BY <1>0, <1>1, <2>3, <2>4, <2>5 DEF ClientOK, Connects
  <2>10. Sends(c)'
    <3>1. at2 = "send" => n2 = cl[c].n + k /\ n2 < HdrLen + len
      BY <1>1, <2>2, Constants DEF at2, n2
    <3>2. srv.n \in Nat /\ HdrLen \in Nat
      BY <1>0, Types, Constants DEF Srv
    <3> QED
      BY <1>0, <1>1, <2>2, <2>4, <2>5, <3>1, <3>2 DEF ClientOK, Sends
  <2>11. Receives(c)'
    <3>1. at2 = "recv" => n2 = 0
      BY DEF at2, n2
    <3> QED
      BY <1>1, <2>4, <3>1, Constants DEF Receives
  <2> QED
    BY <1>1, <2>6, <2>7, <2>8, <2>9, <2>10, <2>11, ClientStep DEF ClientOK
<1>3. CASE conn[c] = "closed"
  <2>1. Exit(c, "unsent") /\ UNCHANGED <<conn, up, down, backlog, srv, reply, effect>>
    BY <1>3 DEF client_send
  <2>2. effect[c] = "none"
    BY <1>0, <1>1 DEF ClientOK, Sends
  <2> QED
    BY <1>0, <1>3, <2>1, <2>2, ExitStep
<1> QED
  BY <1>2, <1>3 DEF client_send

\* read() of launchctl
LEMMA RecvInv ==
  ASSUME IInv, NEW c \in Client, client_recv(c)
  PROVE  IInv'
<1>0. /\ TypeOK /\ Queue /\ ClientOK(c) /\ cl \in [Client -> Rec]
      /\ down \in [Client -> 0..Cap] /\ reply \in [Client -> Reply \cup {NULL}]
  BY Types DEF IInv
<1>1. /\ cl[c].at = "recv" /\ cl[c].n \in Nat /\ down[c] \in 0 .. Cap
      /\ reply[c] # NULL => reply[c].len \in Nat /\ reply[c].err \in BOOLEAN
      /\ UNCHANGED <<conn, up, backlog, srv, reply, effect>>
  BY <1>0, Constants DEF client_recv, Rec, Reply
<1> DEFINE len == reply[c].len
           k == Read(cl[c].n, len, down[c])
<1>2. CASE down[c] > 0
  <2>1. reply[c] # NULL /\ len \in Nat /\ cl[c].n < HdrLen + len
    BY <1>0, <1>1, <1>2 DEF ClientOK, Truthful, Receives
  <2>2. k \in Nat /\ down[c] - k \in 0 .. Cap /\ cl[c].n + k <= HdrLen + len
    BY <1>1, <1>2, <2>1, Moved
  <2>3. /\ down' = [down EXCEPT ![c] = @ - k]
        /\ IF cl[c].n + k = HdrLen + len
           THEN Exit(c, IF reply[c].err THEN "refused" ELSE "ok")
           ELSE cl' = [cl EXCEPT ![c].n = @ + k]
    BY <1>2 DEF client_recv
  <2> HIDE DEF k
  <2>4. /\ down' \in [Client -> 0 .. Cap] /\ \A d \in Client \ {c} : down'[d] = down[d]
    BY <1>0, <2>2, <2>3
  <2>5. CASE cl[c].n + k = HdrLen + len
    <3>1. CASE reply[c].err
      BY <1>0, <1>1, <2>1, <2>3, <2>4, <2>5, <3>1, ExitStep DEF ClientOK, Truthful
    <3>2. CASE ~reply[c].err
      BY <1>0, <1>1, <2>1, <2>3, <2>4, <2>5, <3>2, ExitStep
    <3> QED
      BY <3>1, <3>2
  <2>6. CASE cl[c].n + k # HdrLen + len
    <3>1. /\ cl' \in [Client -> Rec] /\ cl'[c].req = cl[c].req /\ cl'[c].at = "recv"
          /\ cl'[c].status = cl[c].status /\ cl'[c].n = cl[c].n + k
          /\ \A d \in Client \ {c} : cl'[d] = cl[d]
      BY <1>0, <1>1, <2>2, <2>3, <2>6 DEF Rec
    <3>2. TypeOK'
      BY <1>0, <1>1, <2>4, <3>1, Types DEF TypeOK, Rec
    <3>3. Queue' /\ \A d \in Client \ {c} : Same(d)
      BY <1>0, <1>1, <2>4, <3>1 DEF Queue, Same
    <3>4. Served(c)' /\ Truthful(c)' /\ Refused(c)'
      BY <1>0, <1>1, <2>1, <3>1 DEF ClientOK, Served, Truthful, Refused
    <3>5. Connects(c)' /\ Sends(c)'
      BY <1>0, <1>1, <3>1 DEF ClientOK, Connects, Sends
    <3>6. Receives(c)'
      BY <1>0, <1>1, <2>1, <2>2, <2>6, <3>1, Constants DEF Receives
    <3> QED
      BY <1>1, <3>2, <3>3, <3>4, <3>5, <3>6, ClientStep DEF ClientOK
  <2> QED
    BY <2>5, <2>6
<1>3. CASE down[c] = 0 /\ conn[c] = "closed"
  <2>1. Exit(c, "unknown") /\ UNCHANGED <<conn, up, down, backlog, srv, reply, effect>>
    BY <1>1, <1>3 DEF client_recv
  <2> QED
    BY <1>0, <2>1, ExitStep
<1> QED
  BY <1>2, <1>3 DEF client_recv

LEMMA DiesInv ==
  ASSUME IInv, NEW c \in Client, client_dies(c)
  PROVE  IInv'
<1>1. Exit(c, "unknown") /\ UNCHANGED <<conn, up, down, backlog, srv, reply, effect>>
  BY DEF client_dies
<1>2. down \in [Client -> 0 .. Cap]
  BY Types DEF IInv
<1> QED
  BY <1>1, <1>2, ExitStep

-----------------------------------------------------------------------------
\* A step of launchd that concerns the connection of c only.
LEMMA ServerStep ==
  ASSUME IInv, TypeOK', ServesOne', Queue', NEW c \in Client,
         srv.fd \in {c, NULL}, srv'.fd \in {c, NULL}, ClientOK(c)',
         \A d \in Client \ {c} : Same(d)
  PROVE  IInv'
<1>1. ASSUME NEW d \in Client \ {c} PROVE ClientOK(d)'
  <2>1. ClientOK(d) /\ Same(d) /\ srv.fd # d /\ srv'.fd # d
    BY Constants DEF IInv
  <2> QED
    BY <2>1, Frame
<1> QED
  BY <1>1 DEF IInv

\* While launchd serves a connection, what is known of its client.
LEMMA Current ==
  ASSUME IInv, srv.at \in Serving
  PROVE  /\ srv.fd \in Client /\ ClientOK(srv.fd) /\ conn[srv.fd] = "accepted"
         /\ cl[srv.fd].req \in Request /\ cl[srv.fd].req.len \in Nat
         /\ cl[srv.fd] \in Rec /\ up[srv.fd] \in 0 .. Cap /\ down[srv.fd] \in 0 .. Cap
         /\ srv.n \in Nat /\ srv \in Srv
         /\ reply[srv.fd] \in Reply \cup {NULL}
<1>1. srv \in Srv /\ srv.fd \in Client
  BY Types DEF IInv, ServesOne, Srv
<1>2. /\ cl[srv.fd] \in Rec /\ up[srv.fd] \in 0 .. Cap /\ down[srv.fd] \in 0 .. Cap
      /\ reply[srv.fd] \in Reply \cup {NULL}
  BY <1>1, Types DEF IInv
<1>3. ClientOK(srv.fd) /\ conn[srv.fd] = "accepted" /\ cl[srv.fd].req \in Request
  BY <1>1 DEF IInv, ClientOK, Served, Connects
<1> QED
  BY <1>1, <1>2, <1>3, Constants DEF Srv

\* A step at the end of which launchd is ready to send a reply to c.
LEMMA ReplyStep ==
  ASSUME IInv, srv.at \in {"header", "payload", "dispatch"}, NEW c \in Client, srv.fd = c,
         NEW err \in BOOLEAN, NEW len \in Nat, SendReply(err, len),
         UNCHANGED <<cl, conn, up, down, backlog>>,
         effect' \in [Client -> {"none", "done", "partly", "failed"}],
         \A d \in Client \ {c} : effect'[d] = effect[d],
         effect'[c] = "done" <=> ~err,
         srv.at # "dispatch" => effect' = effect
  PROVE  IInv'
<1> DEFINE r == [err |-> err, len |-> len]
<1>1. /\ ClientOK(c) /\ conn[c] = "accepted" /\ cl[c].req \in Request
      /\ reply[c] = NULL /\ srv \in Srv /\ reply \in [Client -> Reply \cup {NULL}]
      /\ TypeOK /\ Queue
  BY Current, Types DEF Serving, ClientOK, Served, IInv
<1>2. /\ reply' = [reply EXCEPT ![c] = r] /\ srv' = [srv EXCEPT !.at = "reply", !.n = 0]
  BY DEF SendReply, To
<1>3. r \in Reply /\ r # NULL /\ r.len = len /\ r.err = err
  BY Constants DEF Reply
<1> HIDE DEF r
<1>4. /\ srv'.at = "reply" /\ srv'.n = 0 /\ srv'.fd = c /\ srv' \in Srv
      /\ reply'[c] = r /\ reply' \in [Client -> Reply \cup {NULL}]
      /\ \A d \in Client \ {c} : reply'[d] = reply[d]
  BY <1>1, <1>2, <1>3 DEF Srv
<1>5. TypeOK'
  BY <1>1, <1>4 DEF TypeOK, Srv, Reply
<1>6. ServesOne' /\ Queue'
  BY <1>1, <1>4, Constants DEF ServesOne, Serving, Queue
<1>7. \A d \in Client \ {c} : Same(d)
  BY <1>4 DEF Same
<1>8. Served(c)' /\ Connects(c)'
  BY <1>1, <1>3, <1>4, Constants DEF ClientOK, Served, Connects
<1>9. Sends(c)'
  BY <1>1, <1>4 DEF ClientOK, Sends
<1>10. Receives(c)' /\ Truthful(c)'
  BY <1>1, <1>3, <1>4, Constants DEF ClientOK, Receives, Truthful
<1>11. Refused(c)'
  BY <1>1, <1>3, <1>4, Constants DEF ClientOK, Refused
<1> QED
  BY <1>1, <1>4, <1>5, <1>6, <1>7, <1>8, <1>9, <1>10, <1>11, ServerStep DEF ClientOK

\* A step that only moves launchd on, and reads what is on the way to it.
LEMMA ReadStep ==
  ASSUME IInv, srv.at \in Serving, NEW c \in Client, srv.fd = c,
         srv' \in Srv, srv'.at \in Serving, srv'.fd = c,
         UNCHANGED <<cl, conn, down, backlog, reply, effect>>,
         up' \in [Client -> 0 .. Cap],
         \A d \in Client \ {c} : up'[d] = up[d],
         Served(c)', Sends(c)'
  PROVE  IInv'
<1>1. ClientOK(c) /\ conn[c] = "accepted" /\ TypeOK /\ Queue
  BY Current DEF IInv
<1>2. TypeOK'
  BY <1>1 DEF TypeOK, Srv
<1>3. ServesOne' /\ Queue' /\ \A d \in Client \ {c} : Same(d)
  BY <1>1, Constants DEF ServesOne, Queue, Same
<1>4. Connects(c)' /\ Receives(c)' /\ Truthful(c)' /\ Refused(c)'
  BY <1>1, Constants DEF ClientOK, Connects, Receives, Truthful, Refused, Served
<1> QED
  BY <1>1, <1>2, <1>3, <1>4, ServerStep DEF ClientOK

\* read() of launchd
LEMMA ReadAllInv == IInv /\ read_all => IInv'
<1> SUFFICES ASSUME IInv, read_all PROVE IInv'
  OBVIOUS
<1>1. srv.at \in {"header", "payload"} /\ srv.at \in Serving
  BY DEF read_all, Serving
<1>2. PICK c \in Client : srv.fd = c
  BY <1>1, Current
<1>3. /\ ClientOK(c) /\ conn[c] = "accepted" /\ cl[c].req.len \in Nat /\ cl[c] \in Rec
      /\ up[c] \in 0 .. Cap /\ srv.n \in Nat /\ srv \in Srv
      /\ up \in [Client -> 0 .. Cap]
  BY <1>1, <1>2, Current, Types DEF IInv
<1> DEFINE w == IF srv.at = "header" THEN HdrLen ELSE cl[c].req.len
           k == Least(up[c], w - srv.n)
<1>4. /\ srv.n < w /\ up[c] > 0
      /\ srv' = [srv EXCEPT !.n = srv.n + k] /\ up' = [up EXCEPT ![c] = up[c] - k]
      /\ UNCHANGED <<cl, conn, down, backlog, reply, effect>>
  BY <1>2 DEF read_all, Wanted
<1>5. w \in Nat /\ k \in Nat /\ srv.n + k <= w /\ up[c] - k \in 0 .. Cap
  BY <1>3, <1>4, Constants DEF Least
<1> HIDE DEF k
<1>6. /\ srv' \in Srv /\ srv'.at = srv.at /\ srv'.fd = c /\ srv'.n = srv.n + k
      /\ up' \in [Client -> 0 .. Cap] /\ up'[c] = up[c] - k
      /\ \A d \in Client \ {c} : up'[d] = up[d]
  BY <1>2, <1>3, <1>4, <1>5 DEF Srv
<1>7. Served(c)'
  BY <1>1, <1>2, <1>3, <1>4, <1>5, <1>6 DEF ClientOK, Served
<1>8. Sends(c)'
  BY <1>1, <1>2, <1>3, <1>4, <1>5, <1>6, Constants DEF ClientOK, Sends, Rec
<1> QED
  BY <1>1, <1>2, <1>4, <1>6, <1>7, <1>8, ReadStep

LEMMA ReadFailsInv == IInv /\ read_fails => IInv'
<1> SUFFICES ASSUME IInv, read_fails PROVE IInv'
  OBVIOUS
<1>1. /\ srv.at \in {"header", "payload"} /\ srv.at \in Serving
      /\ UNCHANGED <<cl, conn, up, down, backlog, effect>>
  BY DEF read_fails, Serving
<1>2. PICK c \in Client : srv.fd = c
  BY <1>1, Current
<1>3. /\ ClientOK(c) /\ srv \in Srv /\ up \in [Client -> 0 .. Cap] /\ reply[c] = NULL
      /\ effect[c] = "none" /\ effect \in [Client -> {"none", "done", "partly", "failed"}]
  BY <1>1, <1>2, Current, Types DEF IInv, ClientOK, Served, Truthful
<1>4. CASE Hung(c) /\ srv.at = "header" /\ srv.n = 0
  <2>1. srv' = [srv EXCEPT !.at = "close", !.n = 0] /\ UNCHANGED reply
    BY <1>2, <1>4 DEF read_fails, To
  <2>2. srv' \in Srv /\ srv'.at = "close" /\ srv'.fd = c /\ srv'.at \in Serving
    BY <1>2, <1>3, <2>1 DEF Srv, Serving
  <2>3. Served(c)' /\ Sends(c)'
    BY <1>1, <1>2, <1>3, <2>1, <2>2 DEF ClientOK, Served, Sends
  <2> QED
    BY <1>1, <1>2, <1>3, <2>1, <2>2, <2>3, ReadStep
<1>5. CASE ~(Hung(c) /\ srv.at = "header" /\ srv.n = 0)
  <2>1. SendReply(TRUE, ShortLen)
    BY <1>2, <1>5 DEF read_fails
  <2> QED
    BY <1>1, <1>2, <1>3, <2>1, ReplyStep, Constants
<1> QED
  BY <1>4, <1>5

LEMMA IpcRecvInv == IInv /\ ipc_recv => IInv'
<1> SUFFICES ASSUME IInv, ipc_recv PROVE IInv'
  OBVIOUS
<1>1. /\ srv.at \in {"header", "payload"} /\ srv.at \in Serving
      /\ UNCHANGED <<cl, conn, up, down, backlog, effect>>
  BY DEF ipc_recv, Serving
<1>2. PICK c \in Client : srv.fd = c
  BY <1>1, Current
<1>3. /\ ClientOK(c) /\ conn[c] = "accepted" /\ srv \in Srv /\ up \in [Client -> 0 .. Cap]
      /\ reply[c] = NULL /\ effect[c] = "none"
      /\ effect \in [Client -> {"none", "done", "partly", "failed"}]
      /\ cl[c].req.len \in Nat /\ cl[c] \in Rec /\ up[c] \in 0 .. Cap
  BY <1>1, <1>2, Current, Types DEF IInv, ClientOK, Served, Truthful
<1>4. CASE SendReply(TRUE, ShortLen)
  BY <1>1, <1>2, <1>3, <1>4, ReplyStep, Constants
<1>5. CASE srv.at = "header" /\ To("payload") /\ UNCHANGED reply
  <2>1. /\ srv' \in Srv /\ srv'.at = "payload" /\ srv'.fd = c /\ srv'.at \in Serving
        /\ srv'.n = 0
    BY <1>2, <1>3, <1>5 DEF Srv, Serving, To
  <2>2. srv.n = HdrLen
    BY <1>5 DEF ipc_recv, Wanted
  <2>3. Served(c)' /\ Sends(c)'
    BY <1>1, <1>2, <1>3, <1>5, <2>1, <2>2, Constants DEF ClientOK, Served, Sends, Rec
  <2> QED
    BY <1>1, <1>2, <1>3, <1>5, <2>1, <2>3, ReadStep
<1>6. CASE /\ srv.at = "payload" \/ (cl[c].req.hdr = "ok" /\ cl[c].req.len = 0)
           /\ To("dispatch") /\ UNCHANGED reply
  <2>1. /\ srv' \in Srv /\ srv'.at = "dispatch" /\ srv'.fd = c /\ srv'.at \in Serving
    BY <1>2, <1>3, <1>6 DEF Srv, Serving, To
  <2>2. srv.n = IF srv.at = "header" THEN HdrLen ELSE cl[c].req.len
    BY <1>2 DEF ipc_recv, Wanted
  <2>3. cl[c].at # "send"
    BY <1>1, <1>2, <1>3, <1>6, <2>2, Constants DEF ClientOK, Sends, Rec
  <2>4. Served(c)' /\ Sends(c)'
    BY <1>1, <1>2, <1>3, <1>6, <2>1, <2>3 DEF ClientOK, Served, Sends
  <2> QED
    BY <1>1, <1>2, <1>3, <1>6, <2>1, <2>4, ReadStep
<1> QED
  BY <1>2, <1>4, <1>5, <1>6 DEF ipc_recv

LEMMA DispatchInv == IInv /\ dispatch_msg => IInv'
<1> SUFFICES ASSUME IInv, dispatch_msg PROVE IInv'
  OBVIOUS
<1>1. srv.at = "dispatch" /\ srv.at \in Serving /\ UNCHANGED <<cl, conn, up, down, backlog>>
  BY DEF dispatch_msg, Serving
<1>2. PICK c \in Client : srv.fd = c
  BY <1>1, Current
<1>3. PICK err \in BOOLEAN, e \in {"done", "partly", "failed"} :
        /\ e = "done" <=> ~err
        /\ effect' = [effect EXCEPT ![c] = e]
        /\ \E len \in ReplyLen(cl[c].req, err) : SendReply(err, len)
  BY <1>2 DEF dispatch_msg
<1>4. /\ effect' \in [Client -> {"none", "done", "partly", "failed"}]
      /\ \A d \in Client \ {c} : effect'[d] = effect[d]
      /\ effect'[c] = "done" <=> ~err
  BY <1>3, Types DEF IInv
<1>5. PICK len \in Nat : SendReply(err, len)
  BY <1>3, Constants DEF ReplyLen
<1> QED
  BY <1>1, <1>2, <1>3, <1>4, <1>5, ReplyStep

\* write() of launchd, and what ends the reply
LEMMA IpcSendInv == IInv /\ ipc_send => IInv'
<1> SUFFICES ASSUME IInv, ipc_send PROVE IInv'
  OBVIOUS
<1>1. /\ srv.at = "reply" /\ srv.at \in Serving
      /\ UNCHANGED <<cl, conn, up, backlog, reply, effect>>
  BY DEF ipc_send, Serving
<1>2. PICK c \in Client : srv.fd = c
  BY <1>1, Current
<1>3. /\ ClientOK(c) /\ conn[c] = "accepted" /\ srv \in Srv /\ srv.n \in Nat
      /\ reply[c] # NULL /\ reply[c].len \in Nat /\ down[c] \in 0 .. Cap
      /\ up \in [Client -> 0 .. Cap] /\ down \in [Client -> 0 .. Cap]
      /\ TypeOK /\ Queue
  BY <1>1, <1>2, Current, Types DEF IInv, ClientOK, Served, Reply
<1> DEFINE k == Written(srv.n, reply[c].len, down[c])
<1>4. CASE /\ k > 0 /\ ~Hung(c) /\ down' = [down EXCEPT ![c] = down[c] + k]
           /\ srv' = [srv EXCEPT !.n = srv.n + k]
  <2>1. k \in Nat /\ down[c] + k \in 0 .. Cap /\ srv.n + k <= HdrLen + reply[c].len
    BY <1>3, <1>4, Moved
  <2> HIDE DEF k
  <2>2. /\ srv' \in Srv /\ srv'.at = "reply" /\ srv'.fd = c /\ srv'.n = srv.n + k
        /\ down' \in [Client -> 0 .. Cap] /\ \A d \in Client \ {c} : down'[d] = down[d]
    BY <1>1, <1>2, <1>3, <1>4, <2>1 DEF Srv
  <2>3. TypeOK'
    BY <1>1, <1>3, <2>2 DEF TypeOK, Srv
  <2>4. ServesOne' /\ Queue' /\ \A d \in Client \ {c} : Same(d)
    BY <1>1, <1>3, <2>2, Constants DEF ServesOne, Serving, Queue, Same
  <2>5. Served(c)' /\ Sends(c)'
    BY <1>1, <1>2, <1>3, <2>1, <2>2 DEF ClientOK, Served, Sends
  <2>6. Connects(c)' /\ Receives(c)' /\ Truthful(c)' /\ Refused(c)'
    BY <1>1, <1>3 DEF ClientOK, Connects, Receives, Truthful, Refused
  <2> QED
    BY <1>2, <2>2, <2>3, <2>4, <2>5, <2>6, ServerStep DEF ClientOK
<1>5. CASE To("close") /\ UNCHANGED down
  <2>1. srv' \in Srv /\ srv'.at = "close" /\ srv'.fd = c /\ srv'.at \in Serving
    BY <1>2, <1>3, <1>5 DEF Srv, Serving, To
  <2>2. Served(c)' /\ Sends(c)'
    BY <1>1, <1>2, <1>3, <2>1 DEF ClientOK, Served, Sends
  <2> QED
    BY <1>1, <1>2, <1>3, <1>5, <2>1, <2>2, ReadStep
<1> QED
  BY <1>2, <1>4, <1>5 DEF ipc_send

\* The read source fires, or the accept loop ends.
LEMMA LoopInv == IInv /\ (listen_ready \/ accept_return) => IInv'
<1> SUFFICES ASSUME IInv, listen_ready \/ accept_return PROVE IInv'
  OBVIOUS
<1>1. PICK at \in {"idle", "accept"} :
        /\ srv' = [srv EXCEPT !.at = at, !.n = 0]
        /\ UNCHANGED <<cl, conn, up, down, backlog, reply, effect>>
        /\ srv.at \notin Serving
  BY DEF listen_ready, accept_return, To, Serving
<1>2. TypeOK /\ Queue /\ srv \in Srv /\ srv.fd = NULL
  BY <1>1, Types DEF IInv, ServesOne, Srv
<1>3. srv' \in Srv /\ srv'.fd = NULL /\ srv'.at = at
  BY <1>1, <1>2 DEF Srv
<1>4. TypeOK' /\ ServesOne' /\ Queue'
  BY <1>1, <1>2, <1>3 DEF TypeOK, Srv, ServesOne, Serving, Queue
<1>5. ASSUME NEW d \in Client PROVE ClientOK(d)'
  <2>1. ClientOK(d) /\ Same(d) /\ srv.fd # d /\ srv'.fd # d
    BY <1>1, <1>2, <1>3, Constants DEF IInv, Same
  <2> QED
    BY <2>1, Frame
<1> QED
  BY <1>4, <1>5 DEF IInv

LEMMA AcceptInv == IInv /\ accept => IInv'
<1> SUFFICES ASSUME IInv, accept PROVE IInv'
  OBVIOUS
<1>1. /\ srv.at = "accept" /\ backlog # <<>> /\ backlog \in Seq(Client) /\ TypeOK /\ Queue
      /\ srv.fd = NULL /\ conn \in [Client -> Conn]
      /\ UNCHANGED <<cl, up, down, reply, effect>>
  BY Types DEF accept, IInv, ServesOne, Serving
<1>2. /\ Len(backlog) \in Nat /\ Len(backlog) > 0 /\ Head(backlog) = backlog[1]
      /\ Tail(backlog) \in Seq(Client) /\ Len(Tail(backlog)) = Len(backlog) - 1
      /\ \A i \in 1 .. Len(backlog) : backlog[i] \in Client
      /\ \A i \in 1 .. Len(Tail(backlog)) : Tail(backlog)[i] = backlog[i + 1]
  BY <1>1
<1>3. PICK c \in Client : c = Head(backlog)
  BY <1>2
<1>4. conn[c] = "queued" /\ ClientOK(c)
  BY <1>1, <1>2, <1>3 DEF Queue, IInv
<1>5. /\ srv' = [at |-> "header", fd |-> c, n |-> 0]
      /\ conn' = [conn EXCEPT ![c] = "accepted"] /\ backlog' = Tail(backlog)
  BY <1>3 DEF accept
<1>6. /\ srv' \in Srv /\ srv'.at = "header" /\ srv'.fd = c /\ srv'.n = 0
      /\ conn' \in [Client -> Conn] /\ conn'[c] = "accepted"
      /\ \A d \in Client \ {c} : conn'[d] = conn[d]
  BY <1>1, <1>5 DEF Srv, Conn
<1>7. TypeOK' /\ ServesOne'
  BY <1>1, <1>2, <1>5, <1>6, Constants, SMTT(30) DEF TypeOK, Srv, Conn, ServesOne, Serving
<1>8. Queue'
  <2>1. ASSUME NEW i \in 1 .. Len(backlog')
        PROVE  /\ i + 1 \in 1 .. Len(backlog) /\ backlog'[i] = backlog[i + 1]
               /\ backlog[i + 1] \in Client \ {c}
    <3>1. i + 1 \in 1 .. Len(backlog) /\ 1 \in 1 .. Len(backlog) /\ i + 1 # 1
      BY <1>2, <1>5
    <3>2. backlog[i + 1] # backlog[1]
      BY <1>1, <3>1 DEF Queue
    <3> QED
      BY <1>2, <1>3, <1>5, <3>1, <3>2
  <2>2. ASSUME NEW i \in 1 .. Len(backlog') PROVE conn'[backlog'[i]] = "queued"
    <3>1. conn[backlog[i + 1]] = "queued"
      BY <1>1, <2>1 DEF Queue
    <3> QED
      BY <1>6, <2>1, <3>1
  <2>3. ASSUME NEW i \in 1 .. Len(backlog'), NEW j \in 1 .. Len(backlog'),
               backlog'[i] = backlog'[j]
        PROVE  i = j
    <3>1. i + 1 = j + 1
      BY <1>1, <2>1, <2>3 DEF Queue
    <3> QED
      BY <3>1
  <2>4. (\A i \in 1 .. Len(backlog) : conn[backlog[i]] = "queued")'
    BY <2>2
  <2>5. (\A i, j \in 1 .. Len(backlog) : backlog[i] = backlog[j] => i = j)'
    BY <2>3
  <2> QED
    BY <2>4, <2>5 DEF Queue
<1>9. Served(c)' /\ Connects(c)'
  BY <1>1, <1>4, <1>6, Constants DEF ClientOK, Served, Connects, Truthful
<1>10. Sends(c)'
  <2>1. cl[c].at = "send" => cl[c].n = up[c] /\ cl[c].n \in Nat
    BY <1>1, <1>4, Types DEF ClientOK, Sends, Rec
  <2> QED
    BY <1>1, <1>4, <1>6, <2>1 DEF ClientOK, Sends
<1>11. Receives(c)' /\ Truthful(c)' /\ Refused(c)'
  BY <1>1, <1>4, <1>6 DEF ClientOK, Receives, Truthful, Refused
<1>12. \A d \in Client \ {c} : Same(d)
  BY <1>1, <1>6 DEF Same
<1> QED
  BY <1>1, <1>6, <1>7, <1>8, <1>9, <1>10, <1>11, <1>12, ServerStep DEF ClientOK

\* exit() of launchd
LEMMA ExitInv ==
  ASSUME IInv, exit, UNCHANGED <<cl, up, down, reply, effect>>
  PROVE  IInv'
<1>1. TypeOK /\ conn \in [Client -> Conn]
  BY Types DEF IInv
<1>2. /\ srv'.at = "exited" /\ srv'.fd = NULL /\ srv' \in Srv /\ backlog' = <<>>
      /\ conn' \in [Client -> Conn]
  BY <1>1 DEF exit, Srv, Conn
<1>3. TypeOK' /\ ServesOne' /\ Queue'
  BY <1>1, <1>2 DEF TypeOK, Srv, Conn, ServesOne, Serving, Queue
<1>4. ASSUME NEW d \in Client PROVE ClientOK(d)'
  <2>1. /\ conn[d] = "none" => conn'[d] = "none"
        /\ conn[d] # "none" => conn'[d] = "closed"
        /\ ClientOK(d) /\ srv'.fd # d
    BY <1>2, Constants DEF exit, IInv
  <2> QED
    BY <2>1 DEF ClientOK, Served, Connects, Sends, Receives, Truthful, Refused
<1> QED
  BY <1>3, <1>4 DEF IInv

LEMMA CloseInv == IInv /\ close => IInv'
<1> SUFFICES ASSUME IInv, close PROVE IInv'
  OBVIOUS
<1>1. srv.at = "close" /\ srv.at \in Serving /\ UNCHANGED <<cl, up, down, reply, effect>>
  BY DEF close, Serving
<1>2. PICK c \in Client : srv.fd = c
  BY <1>1, Current
<1>3. CASE exit
  BY <1>1, <1>3, ExitInv
<1>4. CASE /\ srv' = [at |-> "accept", fd |-> NULL, n |-> 0]
           /\ conn' = [conn EXCEPT ![c] = "closed"] /\ UNCHANGED backlog
  <2>1. /\ ClientOK(c) /\ conn[c] = "accepted" /\ TypeOK /\ Queue
        /\ conn \in [Client -> Conn] /\ backlog \in Seq(Client)
    BY <1>1, <1>2, Current, Types DEF IInv
  <2>2. /\ srv' \in Srv /\ srv'.at = "accept" /\ srv'.fd = NULL
        /\ conn' \in [Client -> Conn] /\ conn'[c] = "closed"
        /\ \A d \in Client \ {c} : conn'[d] = conn[d]
    BY <1>4, <2>1 DEF Srv, Conn
  <2>3. TypeOK' /\ ServesOne' /\ \A d \in Client \ {c} : Same(d)
    BY <1>1, <1>4, <2>1, <2>2 DEF TypeOK, Srv, Conn, ServesOne, Serving, Same
  <2>4. Queue'
    <3>1. ASSUME NEW i \in 1 .. Len(backlog) PROVE conn'[backlog[i]] = "queued"
      <4>1. conn[backlog[i]] = "queued" /\ backlog[i] \in Client
        BY <2>1 DEF Queue
      <4> QED
        BY <2>1, <2>2, <4>1
    <3> QED
      BY <1>4, <2>1, <3>1 DEF Queue
  <2>5. ClientOK(c)'
    BY <1>1, <1>2, <2>1, <2>2, Constants
    DEF ClientOK, Served, Connects, Sends, Receives, Truthful, Refused
  <2> QED
    BY <1>2, <2>2, <2>3, <2>4, <2>5, ServerStep
<1> QED
  BY <1>2, <1>3, <1>4 DEF close

LEMMA NextIInv == IInv /\ [Next]_vars => IInv'
<1> SUFFICES ASSUME IInv, [Next]_vars PROVE IInv'
  OBVIOUS
<1>1. CASE UNCHANGED vars
  <2>1. TypeOK' /\ ServesOne' /\ Queue'
    BY <1>1 DEF vars, IInv, TypeOK, ServesOne, Queue
  <2>2. ASSUME NEW d \in Client PROVE ClientOK(d)'
    <3>1. ClientOK(d) /\ Same(d) /\ srv' = srv
      BY <1>1 DEF vars, IInv, Same
    <3> QED
      BY <3>1, Frame
  <2> QED
    BY <2>1, <2>2 DEF IInv
<1>2. CASE \E c \in Client, r \in Request : client_connect(c, r)
  BY <1>2, ConnectInv
<1>3. CASE \E c \in Client : client_send(c) \/ client_recv(c) \/ client_dies(c)
  BY <1>3, SendInv, RecvInv, DiesInv
<1>4. CASE Serve
  BY <1>4, LoopInv, ReadAllInv, ReadFailsInv, IpcRecvInv, DispatchInv, IpcSendInv, CloseInv
  DEF Serve
<1>5. CASE accept
  BY <1>5, AcceptInv
<1>6. CASE signal_shutdown
  BY <1>6, ExitInv DEF signal_shutdown
<1> QED
  BY <1>1, <1>2, <1>3, <1>4, <1>5, <1>6 DEF Next

-----------------------------------------------------------------------------
\* IInv is an invariant of launchctl and ipc.c together.
THEOREM Invariance == Spec => []IInv
BY InitIInv, NextIInv, PTL DEF Spec

\* Every variable keeps its type; what is on the way never exceeds the buffer
\* of the socket.
THEOREM TypeCorrect == Spec => []TypeOK
<1>1. IInv => TypeOK
  BY DEF IInv
<1> QED
  BY <1>1, Invariance, PTL

\* handle_connection() closes what accept_one() accepted, on every path: no
\* connection is open but the one being served.
THEOREM ConnectionSafety == Spec => []ConnectionsClosed
<1>1. IInv => ConnectionsClosed
  BY DEF IInv, ClientOK, Served, ConnectionsClosed
<1> QED
  BY <1>1, Invariance, PTL

-----------------------------------------------------------------------------
\* The exit of launchctl is a report, if it is a true one.
LEMMA Reports ==
  ASSUME IInv, NEW c \in Client,
         NEW s \in {"ok", "refused", "unsent", "unknown"}, Exit(c, s),
         cl[c].at # "exit", UNCHANGED effect,
         s = "ok" => effect[c] = "done", s = "refused" => effect[c] # "done",
         s = "unsent" => effect[c] = "none"
  PROVE  Service!ServiceNext
<1>1. cl \in [Client -> Rec] /\ cl[c].status = "running"
  BY Types DEF IInv, ClientOK, Connects
<1>2. cl'[c].status = s /\ \A d \in Client \ {c} : cl'[d] = cl[d]
  BY <1>1 DEF Exit, Rec
<1>3. [d \in Client |-> cl'[d].status] = [[d \in Client |-> cl[d].status] EXCEPT ![c] = s]
  BY <1>2
<1>4. Service!Report(c)
  BY <1>1, <1>3 DEF Service!Report
<1> QED
  BY <1>4 DEF Service!ServiceNext

\* A step in which no handler runs and no launchctl exits is not seen.
LEMMA Silent ==
  ASSUME UNCHANGED effect, \A d \in Client : cl'[d].status = cl[d].status
  PROVE  UNCHANGED Service!serviceVars
BY DEF Service!serviceVars

LEMMA ClientRefines ==
  ASSUME IInv, NEW c \in Client,
         (\E r \in Request : client_connect(c, r)) \/ client_send(c) \/ client_recv(c)
           \/ client_dies(c)
  PROVE  [Service!ServiceNext]_Service!serviceVars
<1>0. /\ UNCHANGED effect /\ ClientOK(c) /\ cl \in [Client -> Rec]
      /\ reply \in [Client -> Reply \cup {NULL}]
  BY Types DEF client_connect, client_send, client_recv, client_dies, IInv
<1>1. CASE \E r \in Request : client_connect(c, r)
  <2>1. PICK r \in Request : client_connect(c, r)
    BY <1>1
  <2>2. CASE Exit(c, "unsent")
    BY <1>0, <2>1, <2>2, Reports DEF client_connect, ClientOK, Connects, Truthful
  <2>3. CASE cl' = [cl EXCEPT ![c].at = "send", ![c].req = r]
    BY <1>0, <2>3, Silent DEF Rec
  <2> QED
    BY <2>1, <2>2, <2>3 DEF client_connect
<1>2. CASE client_send(c)
  <2>1. CASE Exit(c, "unsent")
    BY <1>0, <1>2, <2>1, Reports DEF client_send, ClientOK, Sends
  <2>2. CASE ~Exit(c, "unsent")
    <3>1. PICK n, at : cl' = [cl EXCEPT ![c].n = n, ![c].at = at]
      BY <1>2, <2>2 DEF client_send
    <3> QED
      BY <1>0, <3>1, Silent DEF Rec
  <2> QED
    BY <2>1, <2>2
<1>3. CASE client_recv(c)
  <2>1. cl[c].at = "recv"
    BY <1>3 DEF client_recv
  <2>2. CASE Exit(c, "unknown")
    BY <1>0, <2>1, <2>2, Reports
  <2>3. CASE down[c] > 0 /\ Exit(c, IF reply[c].err THEN "refused" ELSE "ok")
    <3>1. reply[c] # NULL /\ down[c] \in Nat /\ (reply[c].err <=> effect[c] # "done")
      BY <1>0, <2>3, Types DEF IInv, ClientOK, Truthful
    <3>2. CASE reply[c].err
      BY <1>0, <2>1, <2>3, <3>1, <3>2, Reports
    <3>3. CASE ~reply[c].err
      BY <1>0, <2>1, <2>3, <3>1, <3>3, Reports
    <3> QED
      BY <3>2, <3>3
  <2>4. CASE \E n : cl' = [cl EXCEPT ![c].n = n]
    BY <1>0, <2>4, Silent DEF Rec
  <2> QED
    BY <1>3, <2>2, <2>3, <2>4 DEF client_recv
<1>4. CASE client_dies(c)
  BY <1>0, <1>4, Reports DEF client_dies
<1> QED
  BY <1>1, <1>2, <1>3, <1>4

\* The handler runs for a client that was not told of a refusal.
LEMMA DispatchRefines == IInv /\ dispatch_msg => Service!ServiceNext
<1> SUFFICES ASSUME IInv, dispatch_msg PROVE Service!ServiceNext
  OBVIOUS
<1>1. srv.at = "dispatch" /\ srv.at \in Serving /\ UNCHANGED cl
  BY DEF dispatch_msg, Serving
<1>2. PICK c \in Client : srv.fd = c
  BY <1>1, Current
<1>3. PICK e \in {"done", "partly", "failed"} : effect' = [effect EXCEPT ![c] = e]
  BY <1>2 DEF dispatch_msg
<1>4. /\ ClientOK(c) /\ conn[c] = "accepted" /\ reply[c] = NULL
      /\ effect[c] = "none" /\ cl[c].status \notin {"refused", "unsent"}
  BY <1>1, <1>2, Current DEF ClientOK, Served, Truthful, Refused
<1>5. Service!Execute(c)
  BY <1>1, <1>3, <1>4 DEF Service!Execute
<1> QED
  BY <1>5 DEF Service!ServiceNext

LEMMA StepRefines == IInv /\ [Next]_vars => [Service!ServiceNext]_Service!serviceVars
<1> SUFFICES ASSUME IInv, [Next]_vars PROVE [Service!ServiceNext]_Service!serviceVars
  OBVIOUS
<1>1. CASE UNCHANGED vars
  BY <1>1, Silent DEF vars
<1>2. CASE \E c \in Client, r \in Request : client_connect(c, r)
  BY <1>2, ClientRefines
<1>3. CASE \E c \in Client : client_send(c) \/ client_recv(c) \/ client_dies(c)
  BY <1>3, ClientRefines
<1>4. CASE dispatch_msg
  BY <1>4, DispatchRefines
<1>5. CASE (Serve /\ ~dispatch_msg) \/ accept \/ signal_shutdown
  <2>1. UNCHANGED <<cl, effect>>
    BY <1>5 DEF Serve, listen_ready, read_all, read_fails, ipc_recv, ipc_send, close,
         accept_return, accept, signal_shutdown
  <2> QED
    BY <2>1, Silent
<1> QED
  BY <1>1, <1>2, <1>3, <1>4, <1>5 DEF Next, Serve

\* The transport implements CommandService, whatever is lost, cut short or
\* refused on the way: a command is carried out at most once, and what
\* launchctl reports of it is true and stays true.
THEOREM Refinement == Spec => ServiceKept
<1>1. Init => Service!ServiceInit
  BY DEF Init, Service!ServiceInit
<1>2. IInv /\ [Next]_vars => [Service!ServiceNext]_Service!serviceVars
  BY StepRefines
<1> QED
  BY <1>1, <1>2, Invariance, PTL DEF Spec, ServiceKept, Service!ServiceSpec
=============================================================================
