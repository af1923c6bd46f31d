-------------------------- MODULE MCShellSessions --------------------------
(* The instances of ShellSessions that TLC checks: sessions, and the requests
   of one kind, are interchangeable. *)
EXTENDS ShellSessions, TLC

Symmetry == Permutations(Sessions) \union Permutations(Disconnects)
=============================================================================
