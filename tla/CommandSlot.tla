---------------------------- MODULE CommandSlot ----------------------------
(***************************************************************************)
(* What a shell session promises the UI about shell/exec, with nothing of   *)
(* how it is done: one slot for commands.  A request takes the free slot,   *)
(* may give it back because the command could not be started, or runs and   *)
(* gives it back when it has ended, and every command that ran is reported  *)
(* with shell/exit exactly once, after it gave the slot back.               *)
(***************************************************************************)

EXTENDS Sequences

CONSTANTS Commands,   \* the shell/exec requests
          NoCommand

VARIABLES slot,       \* the command that holds the session, or NoCommand
          fresh,      \* commands that have not held the slot yet
          unreported, \* commands that ran and whose shell/exit is still due
          reported    \* the commands reported with shell/exit, in order

slotVars == <<slot, fresh, unreported, reported>>

SlotInit ==
    /\ slot = NoCommand
    /\ fresh = Commands
    /\ unreported = {}
    /\ reported = <<>>

Acquire(c) ==
    /\ slot = NoCommand
    /\ c \in fresh
    /\ slot' = c
    /\ fresh' = fresh \ {c}
    /\ UNCHANGED <<unreported, reported>>

\* The command could not be started: nothing will be reported for it.
GiveUp(c) ==
    /\ slot = c
    /\ slot' = NoCommand
    /\ UNCHANGED <<fresh, unreported, reported>>

Finish(c) ==
    /\ slot = c
    /\ slot' = NoCommand
    /\ unreported' = unreported \union {c}
    /\ UNCHANGED <<fresh, reported>>

Report(c) ==
    /\ c \in unreported
    /\ unreported' = unreported \ {c}
    /\ reported' = Append(reported, c)
    /\ UNCHANGED <<slot, fresh>>

SlotNext ==
    \E c \in Commands : Acquire(c) \/ GiveUp(c) \/ Finish(c) \/ Report(c)

SlotSpec == SlotInit /\ [][SlotNext]_slotVars
=============================================================================
