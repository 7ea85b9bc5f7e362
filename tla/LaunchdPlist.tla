---------------------------- MODULE LaunchdPlist ----------------------------
(***************************************************************************)
(* What jobmgr_load_plist_file() (src/src/core.m) makes of a property list *)
(* on disk.  A file is what the parser sees of it: whether it can be read, *)
(* whether it parses, whether its root is a dictionary, and for every key  *)
(* launchd looks at either Absent, Bad (a value of the wrong class) or a   *)
(* value of the right class.                                               *)
(***************************************************************************)

CONSTANTS
  Label,    \* the labels a plist may carry
  File,     \* the plist files the daemon may be asked to load
  Plist,    \* Plist[f] is the content of file f, a RawPlist
  Absent,   \* a key that is not in the dictionary
  Bad,      \* a key whose value has the wrong class
  NULL      \* the C null pointer, and pid 0

\* A ProgramArguments array: no element, only strings, or one that is not.
RawArray == {"empty", "strings", "mixed"}

RawPlist ==
  [ readable : BOOLEAN, parses : BOOLEAN, dictionary : BOOLEAN,
    Label : Label \cup {Absent, Bad},
    Program : {"string", Absent, Bad},
    ProgramArguments : RawArray \cup {Absent, Bad},
    Disabled : BOOLEAN \cup {Absent, Bad},
    RunAtLoad : BOOLEAN \cup {Absent, Bad},
    KeepAlive : BOOLEAN \cup {Absent, Bad} ]

\* The part of struct Job that a plist decides and nothing changes later.
JobConf ==
  [ label : Label, program : BOOLEAN, argv : {"null", "empty", "strings"},
    disabled : BOOLEAN, run_at_load : BOOLEAN, keep_alive : BOOLEAN ]

ASSUME PlistAssumption ==
  /\ Plist \in [File -> RawPlist]
  /\ {Absent, Bad, NULL} \cap (Label \cup BOOLEAN) = {}
  /\ {Absent, Bad, NULL} \cap (RawArray \cup {"string"}) = {}
  /\ Absent # NULL /\ Bad # NULL

-----------------------------------------------------------------------------

nsdict_get_string(d, key) ==
  IF d[key] \in {Absent, Bad} THEN NULL ELSE d[key]

nsdict_get_bool(d, key, dflt) ==
  IF d[key] \in BOOLEAN THEN d[key] ELSE dflt

\* An element that is not a string drops the whole array.
nsdict_get_argv(d) ==
  IF d.ProgramArguments \in {Absent, Bad, "mixed"}
  THEN "null" ELSE d.ProgramArguments

\* The Job a file yields, or NULL: unreadable, unparsable, not a dictionary,
\* without a Label, or without anything to execute.
jobmgr_load_plist_file(f) ==
  LET d == Plist[f]
      j == [ label       |-> nsdict_get_string(d, "Label"),
             program     |-> nsdict_get_string(d, "Program") # NULL,
             argv        |-> nsdict_get_argv(d),
             disabled    |-> nsdict_get_bool(d, "Disabled", FALSE),
             run_at_load |-> nsdict_get_bool(d, "RunAtLoad", TRUE),
             keep_alive  |-> nsdict_get_bool(d, "KeepAlive", FALSE) ]
  IN  IF \/ ~(d.readable /\ d.parses /\ d.dictionary)
         \/ j.label = NULL
         \/ ~j.program /\ j.argv # "strings"
      THEN NULL ELSE j

=============================================================================
