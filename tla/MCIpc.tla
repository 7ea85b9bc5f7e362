-------------------------------- MODULE MCIpc --------------------------------
(***************************************************************************)
(* LaunchdIpc for TLC: launchctl processes and one peer that may fall      *)
(* silent, die or send something else.                                     *)
(***************************************************************************)
EXTENDS LaunchdIpc

CONSTANTS c1, c2   \* clients

Msg(h, c, n) == [hdr |-> h, cmd |-> c, len |-> n]

\* A command with a label, one without, a list whose reply does not fit the
\* socket's buffer, a shutdown, a command of a later version and a bad header.
Mixed ==
  { Msg("ok", "load", 2), Msg("ok", "start", 0), Msg("ok", "list", 0),
    Msg("ok", "shutdown", 0), Msg("ok", "unknown", 1), Msg("version", "load", 2) }

OneLoad == { Msg("ok", "load", 1) }
=============================================================================
