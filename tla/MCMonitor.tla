----------------------------- MODULE MCMonitor -----------------------------
(* The plugin and one process that stores and applies preferences.         *)
EXTENDS PreferencesMonitor

CONSTANTS a, k
=============================================================================
