--------------------------- MODULE MCPreferences ---------------------------
(* Instances of the preferences: two processes, of which one removes an    *)
(* empty file, and the inodes that two open lock files and a path need.    *)
EXTENDS Preferences

CONSTANTS a, b, k
=============================================================================
