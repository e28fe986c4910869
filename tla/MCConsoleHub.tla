---------------------------- MODULE MCConsoleHub ----------------------------
(* Two sessions, a two-byte scrollback and a two-byte socket buffer: enough for
   a takeover, a replay that fills the buffer, a client that is dropped for not
   reading, and a stop between any two steps of an attach. *)
EXTENDS ConsoleHub, TLC

Symmetry == Permutations(Session)
=============================================================================
