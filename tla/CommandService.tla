---------------------------- MODULE CommandService ----------------------------
(***************************************************************************)
(* What a user of launchctl may rely on, whatever happens to the           *)
(* connection: a command is carried out at most once; a launchctl that     *)
(* exits with 0 had its command carried out; one that was told of an       *)
(* error had not, or not in full, and never will; one that could not       *)
(* connect or send had no effect, and never will.                          *)
(***************************************************************************)

CONSTANT Client   \* the launchctl processes, one command each

VARIABLES
  effect,   \* effect[c]: what launchd made of the command of c
  status    \* status[c]: what c reported

serviceVars == <<effect, status>>

ServiceInit ==
  /\ effect = [c \in Client |-> "none"]
  /\ status = [c \in Client |-> "running"]

\* The handler of the command runs, and succeeds or answers with an errno.
\* "partly": the errno comes after a part of the command was carried out (a
\* load that leaves a job it could not start).
Execute(c) ==
  /\ effect[c] = "none"
  /\ status[c] \notin {"refused", "unsent"}
  /\ \E e \in {"done", "partly", "failed"} : effect' = [effect EXCEPT ![c] = e]
  /\ UNCHANGED status

\* "refused": an error reply; "unsent": no connection, or not all of the
\* command was sent; "unknown": launchctl died, or lost the connection after
\* it sent the command.
Report(c) ==
  /\ status[c] = "running"
  /\ \E s \in {"ok", "refused", "unsent", "unknown"} :
       /\ s = "ok" => effect[c] = "done"
       /\ s = "refused" => effect[c] # "done"
       /\ s = "unsent" => effect[c] = "none"
       /\ status' = [status EXCEPT ![c] = s]
  /\ UNCHANGED effect

ServiceNext == \E c \in Client : Execute(c) \/ Report(c)

ServiceSpec == ServiceInit /\ [][ServiceNext]_serviceVars
=============================================================================
