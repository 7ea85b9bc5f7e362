------------------------------ MODULE MCLaunchd ------------------------------
(***************************************************************************)
(* Small instances of Launchd for TLC: two labels, a KeepAlive daemon A    *)
(* and a job B, and the plists the clients may load for them.              *)
(***************************************************************************)
EXTENDS Launchd, TLC

CONSTANTS A, B,                             \* labels
          o1, o2, q1, q2, q3, t1, t2        \* addresses, pids, timers

Entry(l, run, keep, off) ==
  [ readable |-> TRUE, parses |-> TRUE, dictionary |-> TRUE,
    Label |-> l, Program |-> Absent, ProgramArguments |-> "strings",
    Disabled |-> off, RunAtLoad |-> run, KeepAlive |-> keep ]

\* keep: a KeepAlive daemon; once: a job that runs once; held: a KeepAlive
\* job that waits for a start; off: a disabled one; both: B as a daemon.
AllPlists ==
  [ keep |-> Entry(A, Absent, TRUE, Absent),
    once |-> Entry(B, TRUE, Absent, FALSE),
    held |-> Entry(B, FALSE, TRUE, FALSE),
    off  |-> Entry(B, TRUE, TRUE, TRUE),
    both |-> Entry(B, TRUE, TRUE, FALSE) ]

MCPlist == [f \in File |-> AllPlists[f]]

\* Addresses, pids and timers are interchangeable.
Sym ==
  Permutations({o1, o2}) \cup Permutations({q1, q2, q3})
    \cup Permutations({t1, t2})

NoScan == <<>>
BothDir == <<{"keep", "both"}>>
=============================================================================
