-------------------------------- MODULE MCBoot --------------------------------
(***************************************************************************)
(* The boot of launchd -f -p for TLC: a -p plist that runs once, and two   *)
(* directories that hold, besides good plists, plists that                 *)
(* jobmgr_load_plist_file() refuses at each of its stages (reading, label, *)
(* program) and plists whose labels collide within and between them.       *)
(***************************************************************************)
EXTENDS Launchd, TLC

CONSTANTS A, B, C, o1, o2, o3, q1, q2, t1

Daemon(l) ==
  [ readable |-> TRUE, parses |-> TRUE, dictionary |-> TRUE,
    Label |-> l, Program |-> "string", ProgramArguments |-> Absent,
    Disabled |-> Absent, RunAtLoad |-> Absent, KeepAlive |-> TRUE ]

MCPlist ==
  [ daemon   |-> Daemon(A),
    twin     |-> [Daemon(A) EXCEPT !.KeepAlive = Bad],
    override |-> [Daemon(A) EXCEPT !.RunAtLoad = FALSE],
    once     |-> [Daemon(B) EXCEPT !.KeepAlive = FALSE, !.RunAtLoad = TRUE],
    args     |-> [Daemon(C) EXCEPT !.Program = Bad,
                                   !.ProgramArguments = "strings",
                                   !.RunAtLoad = FALSE],
    off      |-> [Daemon(C) EXCEPT !.Disabled = TRUE],
    secret   |-> [Daemon(C) EXCEPT !.readable = FALSE],
    nameless |-> [Daemon(C) EXCEPT !.Label = Bad],
    mixed    |-> [Daemon(B) EXCEPT !.Program = Bad,
                                   !.ProgramArguments = "mixed"] ]

MCFile == DOMAIN MCPlist

SystemDir == {"daemon", "twin", "args", "secret"}
LocalDir == {"override", "off", "nameless", "mixed"}
MCScanDirs == <<SystemDir, LocalDir>>

=============================================================================
