---------------------------- MODULE MCShellExec ----------------------------
(* The instances of ShellExec that TLC checks.  No symmetry: the constants
   Endless and Stubborn tell the commands apart. *)
EXTENDS ShellExec
=============================================================================
