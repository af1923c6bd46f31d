-------------------------- MODULE ShellExec_proofs --------------------------
(***************************************************************************)
(* Proofs about ShellExec, for any number of requests and directories.      *)
(***************************************************************************)
EXTENDS ShellExec, TLAPS

\* The session's state stays well typed through every handler.
THEOREM TypeCorrect == Spec => []TypeOK
<1> USE DEF TypeOK, ExecStages, CancelStages, CloseStages, Exit
<1>1. Init => TypeOK
  <2> SUFFICES ASSUME Init PROVE TypeOK
    OBVIOUS
  <2>1. result \in [Commands -> Exit]
    BY DirsAssumption DEF Init
  <2>2. exits \in Seq(Exit)
    BY DEF Init
  <2>3. QED
    BY <2>1, <2>2, DirsAssumption DEF Init
<1>2. TypeOK /\ [Next]_vars => TypeOK'
  <2> SUFFICES ASSUME TypeOK, [Next]_vars PROVE TypeOK'
    OBVIOUS
  <2> USE DEF sessionVars, processVars, cancelVars, closeVars, Move, CancelMove,
              CloseMove
  <2>1. ASSUME NEW c \in Commands, LookupExec(c) PROVE TypeOK'
    BY <2>1 DEF LookupExec
  <2>2. ASSUME NEW c \in Commands, ClaimSlot(c) PROVE TypeOK'
    BY <2>2 DEF ClaimSlot
  <2>3. ASSUME NEW c \in Commands, StartCommand(c) PROVE TypeOK'
    BY <2>3, DirsAssumption DEF StartCommand
  <2>4. ASSUME NEW c \in Commands, StartFails(c) PROVE TypeOK'
    BY <2>4 DEF StartFails
  <2>5. ASSUME NEW c \in Commands, GiveUpSlot(c) PROVE TypeOK'
    BY <2>5, ZenonT(40) DEF GiveUpSlot
  <2>6. ASSUME NEW c \in Commands, PublishHandle(c) PROVE TypeOK'
    BY <2>6 DEF PublishHandle
  <2>7. ASSUME NEW c \in Commands, CommandEnds(c) PROVE TypeOK'
    BY <2>7 DEF CommandEnds
  <2>8. ASSUME NEW c \in Commands, Reap(c) PROVE TypeOK'
    BY <2>8 DEF Reap
  <2>9. ASSUME NEW c \in Commands, ReleaseSlot(c) PROVE TypeOK'
    <3>1. CwdAfter(c) \in Dirs
      BY DEF CwdAfter
    <3>2. PICK err \in BOOLEAN :
            result' = [result EXCEPT ![c] = [cmd |-> c, cwd |-> CwdAfter(c),
                                             cancelled |-> cancelled /\ err]]
      BY <2>9 DEF ReleaseSlot
    <3>3. (cancelled /\ err) \in BOOLEAN
      OBVIOUS
    <3>4. [cmd |-> c, cwd |-> CwdAfter(c), cancelled |-> cancelled /\ err] \in Exit
      BY <3>1, <3>3 DEF Exit
    <3>5. result' \in [Commands -> Exit]
      BY <3>2, <3>4
    <3>6. QED
      BY <2>9, <3>1, <3>5 DEF ReleaseSlot
  <2>10. ASSUME NEW c \in Commands, EmitExit(c) PROVE TypeOK'
    BY <2>10 DEF EmitExit
  <2>11. ASSUME NEW c \in Commands, CloseDone(c) PROVE TypeOK'
    BY <2>11 DEF CloseDone
  <2>12. ASSUME NEW r \in Cancels, LookupCancel(r) PROVE TypeOK'
    BY <2>12 DEF LookupCancel
  <2>13. ASSUME NEW r \in Cancels, TakeHook(r) PROVE TypeOK'
    BY <2>13, ZenonT(40) DEF TakeHook
  <2>14. ASSUME NEW r \in Cancels, CallHook(r) PROVE TypeOK'
    BY <2>14 DEF CallHook, Interrupt
  <2>15. ASSUME NEW r \in Cancels, GraceEnds(r) PROVE TypeOK'
    BY <2>15 DEF GraceEnds
  <2>16. ASSUME NEW r \in Cancels, GraceFires(r) PROVE TypeOK'
    BY <2>16 DEF GraceFires
  <2>17. ASSUME NEW r \in Cancels, CallHookAgain(r) PROVE TypeOK'
    BY <2>17 DEF CallHookAgain, Interrupt
  <2>18. CASE RemoveSession
    BY <2>18 DEF RemoveSession
  <2>19. CASE ShutdownTakesHook
    BY <2>19 DEF ShutdownTakesHook
  <2>20. CASE ShutdownCancels
    BY <2>20 DEF ShutdownCancels, Interrupt
  <2>21. CASE ShutdownCloses
    BY <2>21 DEF ShutdownCloses
  <2>22. CASE ConnectionLost
    BY <2>22 DEF ConnectionLost
  <2>23. CASE UNCHANGED vars
    BY <2>23 DEF vars
  <2>24. QED
    BY <2>1, <2>2, <2>3, <2>4, <2>5, <2>6, <2>7, <2>8, <2>9, <2>10, <2>11, <2>12, <2>13,
       <2>14, <2>15, <2>16, <2>17, <2>18, <2>19, <2>20, <2>21, <2>22, <2>23
       DEF Next, ExecStep, WaitStep, CancelStep, ShutdownStep
<1>3. QED
  BY <1>1, <1>2, PTL DEF Spec

-----------------------------------------------------------------------------
(***************************************************************************)
(* The slot.  OneCommand and HookOfHolder are inductive together once it is *)
(* added that shutdown() has taken nothing before it ran.                   *)
(***************************************************************************)
TakenByShutdown == sstage \in {"open", "removed"} => taken = NoCommand

SlotInv == OneCommand /\ HookOfHolder /\ TakenByShutdown /\ NoUnreportedProcess

\* The four parts of SlotInv hold through every handler, timer and shutdown().
LEMMA SlotInvHolds == Spec => []SlotInv
<1> USE DEF SlotInv, OneCommand, HookOfHolder, TakenByShutdown, NoUnreportedProcess,
            Holding
<1>1. Init => SlotInv
  BY CommandsAssumption DEF Init
<1>2. TypeOK /\ SlotInv /\ [Next]_vars => SlotInv'
  <2> SUFFICES ASSUME TypeOK, SlotInv, [Next]_vars PROVE SlotInv'
    OBVIOUS
  <2> USE DEF sessionVars, processVars, cancelVars, closeVars, Move, CancelMove,
              CloseMove, TypeOK, ExecStages
  <2>1. ASSUME NEW c \in Commands, LookupExec(c) PROVE SlotInv'
    BY <2>1, CommandsAssumption DEF LookupExec
  <2>2. ASSUME NEW c \in Commands, ClaimSlot(c) PROVE SlotInv'
    BY <2>2, CommandsAssumption DEF ClaimSlot
  <2>3. ASSUME NEW c \in Commands, StartCommand(c) PROVE SlotInv'
    BY <2>3, CommandsAssumption DEF StartCommand
  <2>4. ASSUME NEW c \in Commands, StartFails(c) PROVE SlotInv'
    BY <2>4, CommandsAssumption DEF StartFails
  <2>5. ASSUME NEW c \in Commands, GiveUpSlot(c) PROVE SlotInv'
    <3>1. stage' = [stage EXCEPT ![c] = stage'[c]] /\ Holding(c) /\ ~Holding(c)'
      BY <2>5 DEF GiveUpSlot
    <3>2. \A d \in Commands : d # c => ~Holding(d) /\ ~Holding(d)'
      BY <3>1
    <3>3. OneCommand'
      BY <2>5, <3>1, <3>2 DEF GiveUpSlot
    <3>4. HookOfHolder'
      BY <2>5, <3>1, <3>2, CommandsAssumption DEF GiveUpSlot
    <3>5. QED
      BY <2>5, <3>3, <3>4 DEF GiveUpSlot
  <2>6. ASSUME NEW c \in Commands, PublishHandle(c) PROVE SlotInv'
    BY <2>6, CommandsAssumption DEF PublishHandle
  <2>7. ASSUME NEW c \in Commands, CommandEnds(c) PROVE SlotInv'
    BY <2>7, CommandsAssumption DEF CommandEnds
  <2>8. ASSUME NEW c \in Commands, Reap(c) PROVE SlotInv'
    BY <2>8, CommandsAssumption DEF Reap
  <2>9. ASSUME NEW c \in Commands, ReleaseSlot(c) PROVE SlotInv'
    <3>1. stage' = [stage EXCEPT ![c] = stage'[c]] /\ Holding(c) /\ ~Holding(c)'
      BY <2>9 DEF ReleaseSlot
    <3>2. \A d \in Commands : d # c => ~Holding(d) /\ ~Holding(d)'
      BY <3>1
    <3>3. OneCommand'
      BY <2>9, <3>1, <3>2 DEF ReleaseSlot
    <3>4. HookOfHolder'
      BY <2>9, <3>1, <3>2, CommandsAssumption DEF ReleaseSlot
    <3>5. QED
      BY <2>9, <3>3, <3>4 DEF ReleaseSlot
  <2>10. ASSUME NEW c \in Commands, EmitExit(c) PROVE SlotInv'
    BY <2>10, CommandsAssumption DEF EmitExit
  <2>11. ASSUME NEW c \in Commands, CloseDone(c) PROVE SlotInv'
    BY <2>11, CommandsAssumption DEF CloseDone
  <2>12. ASSUME NEW r \in Cancels, LookupCancel(r) PROVE SlotInv'
    BY <2>12, CommandsAssumption DEF LookupCancel
  <2>13. ASSUME NEW r \in Cancels, TakeHook(r) PROVE SlotInv'
    BY <2>13, CommandsAssumption DEF TakeHook
  <2>14. ASSUME NEW r \in Cancels, CallHook(r) PROVE SlotInv'
    BY <2>14, CommandsAssumption DEF CallHook
  <2>15. ASSUME NEW r \in Cancels, GraceEnds(r) PROVE SlotInv'
    BY <2>15, CommandsAssumption DEF GraceEnds
  <2>16. ASSUME NEW r \in Cancels, GraceFires(r) PROVE SlotInv'
    BY <2>16, CommandsAssumption DEF GraceFires
  <2>17. ASSUME NEW r \in Cancels, CallHookAgain(r) PROVE SlotInv'
    BY <2>17, CommandsAssumption DEF CallHookAgain
  <2>18. CASE RemoveSession
    BY <2>18, CommandsAssumption DEF RemoveSession
  <2>19. CASE ShutdownTakesHook
    BY <2>19, CommandsAssumption DEF ShutdownTakesHook
  <2>20. CASE ShutdownCancels
    BY <2>20, CommandsAssumption DEF ShutdownCancels
  <2>21. CASE ShutdownCloses
    BY <2>21, CommandsAssumption DEF ShutdownCloses
  <2>22. CASE ConnectionLost
    BY <2>22, CommandsAssumption DEF ConnectionLost
  <2>23. CASE UNCHANGED vars
    BY <2>23, CommandsAssumption DEF vars
  <2>24. QED
    BY <2>1, <2>2, <2>3, <2>4, <2>5, <2>6, <2>7, <2>8, <2>9, <2>10, <2>11,
       <2>12, <2>13, <2>14, <2>15, <2>16, <2>17, <2>18, <2>19, <2>20, <2>21,
       <2>22, <2>23
       DEF Next, ExecStep, WaitStep, CancelStep, ShutdownStep
<1>3. QED
  BY <1>1, <1>2, TypeCorrect, PTL DEF Spec

\* At most one request or command holds the session, and busy says so.
THEOREM OneCommandHolds == Spec => []OneCommand
BY SlotInvHolds, PTL DEF SlotInv

\* The cancel hook is the holder's, and a published command's hook is not lost.
THEOREM HookOfHolderHolds == Spec => []HookOfHolder
BY SlotInvHolds, PTL DEF SlotInv

\* Every running process has a request that will report it.
THEOREM NoUnreportedProcessHolds == Spec => []NoUnreportedProcess
BY SlotInvHolds, PTL DEF SlotInv

-----------------------------------------------------------------------------
(***************************************************************************)
(* What shell/exit says.  The flag and the directory are right when wait()  *)
(* computes them; the invariant follows them from the session's fields to   *)
(* the computed result and to the event.                                    *)
(***************************************************************************)
Cancelled(c) == \E r \in Cancels : armedFor[r] = c

ReportInv ==
    /\ \A r \in Cancels : cstage[r] \in {"new", "found"} => armedFor[r] = NoCommand
    /\ \A c \in Commands : Holding(c) /\ cancelled => Cancelled(c)
    /\ \A c \in Commands : stage[c] = "released" =>
         /\ result[c].cmd = c
         /\ result[c].cancelled => Cancelled(c)
         /\ meta[c] # NoDir => result[c].cwd = meta[c]
    /\ \A i \in DOMAIN exits :
         /\ stage[exits[i].cmd] \in {"emitted", "closed"}
         /\ exits[i].cancelled => Cancelled(exits[i].cmd)
         /\ meta[exits[i].cmd] # NoDir => exits[i].cwd = meta[exits[i].cmd]

\* What wait() computes for shell/exit, and what was sent, is right at every step.
LEMMA ReportInvHolds == Spec => []ReportInv
<1> USE DEF ReportInv, Holding, Cancelled
<1>1. Init => ReportInv
  BY CommandsAssumption DEF Init
<1>2. TypeOK /\ SlotInv /\ ReportInv /\ [Next]_vars => ReportInv'
  <2> SUFFICES ASSUME TypeOK, SlotInv, ReportInv, [Next]_vars PROVE ReportInv'
    OBVIOUS
  <2> USE DEF sessionVars, processVars, cancelVars, closeVars, Move, CancelMove,
              CloseMove, TypeOK, ExecStages, CancelStages, Exit
  <2>1. ASSUME NEW c \in Commands, LookupExec(c) PROVE ReportInv'
    BY <2>1, CommandsAssumption DEF LookupExec
  <2>2. ASSUME NEW c \in Commands, ClaimSlot(c) PROVE ReportInv'
    BY <2>2, CommandsAssumption DEF ClaimSlot
  <2>3. ASSUME NEW c \in Commands, StartCommand(c) PROVE ReportInv'
    BY <2>3, CommandsAssumption DEF StartCommand
  <2>4. ASSUME NEW c \in Commands, StartFails(c) PROVE ReportInv'
    BY <2>4, CommandsAssumption DEF StartFails
  <2>5. ASSUME NEW c \in Commands, GiveUpSlot(c) PROVE ReportInv'
    BY <2>5, CommandsAssumption DEF GiveUpSlot
  <2>6. ASSUME NEW c \in Commands, PublishHandle(c) PROVE ReportInv'
    BY <2>6, CommandsAssumption DEF PublishHandle
  <2>7. ASSUME NEW c \in Commands, CommandEnds(c) PROVE ReportInv'
    BY <2>7, CommandsAssumption DEF CommandEnds, SlotInv, NoUnreportedProcess
  <2>8. ASSUME NEW c \in Commands, Reap(c) PROVE ReportInv'
    BY <2>8, CommandsAssumption DEF Reap
  <2>9. ASSUME NEW c \in Commands, ReleaseSlot(c) PROVE ReportInv'
    BY <2>9, CommandsAssumption DEF ReleaseSlot, CwdAfter
  <2>10. ASSUME NEW c \in Commands, EmitExit(c) PROVE ReportInv'
    <3>1. stage[c] = "released" /\ stage' = [stage EXCEPT ![c] = "emitted"]
          /\ exits' = Append(exits, result[c])
          /\ UNCHANGED <<cancelled, meta, result, armedFor, cstage>>
      BY <2>10 DEF EmitExit
    <3>2. result[c] \in Exit /\ exits \in Seq(Exit)
      OBVIOUS
    <3>3. /\ DOMAIN exits' = DOMAIN exits \union {Len(exits) + 1}
          /\ exits'[Len(exits) + 1] = result[c]
          /\ \A i \in DOMAIN exits : exits'[i] = exits[i] /\ exits[i] \in Exit
      <4> HIDE DEF Exit, ReportInv
      <4>1. exits' = Append(exits, result[c])
        BY <3>1
      <4>2. QED
        BY <3>2, <4>1
    <3>4. ASSUME NEW i \in DOMAIN exits'
          PROVE  /\ stage'[exits'[i].cmd] \in {"emitted", "closed"}
                 /\ exits'[i].cancelled => Cancelled(exits'[i].cmd)
                 /\ meta[exits'[i].cmd] # NoDir => exits'[i].cwd = meta[exits'[i].cmd]
      <4>1. CASE i \in DOMAIN exits
        BY <3>1, <3>3, <4>1
      <4>2. CASE i = Len(exits) + 1
        BY <3>1, <3>3, <4>2
      <4>3. QED
        BY <3>3, <4>1, <4>2
    <3>5. QED
      BY <3>1, <3>4
  <2>11. ASSUME NEW c \in Commands, CloseDone(c) PROVE ReportInv'
    BY <2>11, CommandsAssumption DEF CloseDone
  <2>12. ASSUME NEW r \in Cancels, LookupCancel(r) PROVE ReportInv'
    BY <2>12, CommandsAssumption DEF LookupCancel
  <2>13. ASSUME NEW r \in Cancels, TakeHook(r) PROVE ReportInv'
    <3>1. UNCHANGED <<stage, exits, result, meta>>
      BY <2>13 DEF TakeHook
    <3>2. cstage[r] = "found" /\ armedFor[r] = NoCommand
      BY <2>13 DEF TakeHook
    <3>3. CASE busy /\ cancelFn # NoCommand
      <4>1. /\ armedFor' = [armedFor EXCEPT ![r] = cancelFn]
            /\ cstage' = [cstage EXCEPT ![r] = "holding"]
        BY <2>13, <3>3 DEF TakeHook
      <4>2. \A c \in Commands : Holding(c) => c = cancelFn
        BY <3>3 DEF SlotInv, HookOfHolder, OneCommand
      <4>3. \A c \in Commands : Cancelled(c) => Cancelled(c)'
        BY <3>2, <4>1, CommandsAssumption
      <4>4. \A c \in Commands : c = cancelFn => Cancelled(c)'
        BY <4>1
      <4>5. \A i \in DOMAIN exits : exits[i].cmd \in Commands
        <5>1. exits \in Seq(Exit)
          OBVIOUS
        <5>2. \A i \in DOMAIN exits : exits[i] \in Exit
          <6> HIDE DEF Exit, ReportInv, TypeOK
          <6>1. QED
            BY <5>1
        <5>3. QED
          BY <5>2
      <4>6. QED
        <5> HIDE DEF Cancelled
        <5>1. \A q \in Cancels :
                cstage'[q] \in {"new", "found"} => armedFor'[q] = NoCommand
          BY <4>1
        <5>2. \A c \in Commands : Holding(c)' /\ cancelled' => Cancelled(c)'
          BY <3>1, <4>2, <4>4
        <5>3. QED
          BY <3>1, <4>3, <4>5, <5>1, <5>2
    <3>4. CASE ~(busy /\ cancelFn # NoCommand)
      BY <2>13, <3>4 DEF TakeHook
    <3>5. QED
      BY <3>3, <3>4
  <2>14. ASSUME NEW r \in Cancels, CallHook(r) PROVE ReportInv'
    BY <2>14, CommandsAssumption DEF CallHook
  <2>15. ASSUME NEW r \in Cancels, GraceEnds(r) PROVE ReportInv'
    BY <2>15, CommandsAssumption DEF GraceEnds
  <2>16. ASSUME NEW r \in Cancels, GraceFires(r) PROVE ReportInv'
    BY <2>16, CommandsAssumption DEF GraceFires
  <2>17. ASSUME NEW r \in Cancels, CallHookAgain(r) PROVE ReportInv'
    BY <2>17, CommandsAssumption DEF CallHookAgain
  <2>18. CASE RemoveSession
    BY <2>18, CommandsAssumption DEF RemoveSession
  <2>19. CASE ShutdownTakesHook
    BY <2>19, CommandsAssumption DEF ShutdownTakesHook
  <2>20. CASE ShutdownCancels
    BY <2>20, CommandsAssumption DEF ShutdownCancels
  <2>21. CASE ShutdownCloses
    BY <2>21, CommandsAssumption DEF ShutdownCloses
  <2>22. CASE ConnectionLost
    BY <2>22, CommandsAssumption DEF ConnectionLost
  <2>23. CASE UNCHANGED vars
    BY <2>23, CommandsAssumption DEF vars
  <2>24. QED
    BY <2>1, <2>2, <2>3, <2>4, <2>5, <2>6, <2>7, <2>8, <2>9, <2>10, <2>11,
       <2>12, <2>13, <2>14, <2>15, <2>16, <2>17, <2>18, <2>19, <2>20, <2>21,
       <2>22, <2>23
       DEF Next, ExecStep, WaitStep, CancelStep, ShutdownStep
<1>3. QED
  BY <1>1, <1>2, TypeCorrect, SlotInvHolds, PTL DEF Spec

\* A command is reported as cancelled only when a cancel took its own hook.
THEOREM CancelledByRequestHolds == Spec => []CancelledByRequest
<1>1. ReportInv => CancelledByRequest
  BY DEF ReportInv, CancelledByRequest, Cancelled
<1>2. QED
  BY <1>1, ReportInvHolds, PTL

\* shell/exit carries the directory the command itself ended in.
THEOREM ExitOwnDirectoryHolds == Spec => []ExitOwnDirectory
<1>1. ReportInv => ExitOwnDirectory
  BY DEF ReportInv, ExitOwnDirectory
<1>2. QED
  BY <1>1, ReportInvHolds, PTL

-----------------------------------------------------------------------------
(***************************************************************************)
(* The session implements CommandSlot: four steps are steps of the slot, in *)
(* every other one the slot stands still.                                   *)
(***************************************************************************)
\* One command at a time: the CHOOSE of Holder can only mean the one that holds.
LEMMA HolderIsUnique ==
    ASSUME OneCommand
    PROVE  /\ \A c \in Commands : Holding(c) => Holder = c
           /\ (\A c \in Commands : ~Holding(c)) => Holder = NoCommand
<1> DEFINE H(c) == Holding(c)
<1>1. \A c, d \in Commands : H(c) /\ H(d) => c = d
  BY DEF OneCommand
<1>2. Holder = IF \E c \in Commands : H(c)
               THEN CHOOSE c \in Commands : H(c) ELSE NoCommand
  BY DEF Holder
<1> HIDE DEF H
<1>3. /\ \A c \in Commands : H(c) => Holder = c
      /\ (\A c \in Commands : ~H(c)) => Holder = NoCommand
  BY <1>1, <1>2
<1>4. QED
  BY <1>3 DEF H

\* The same of the next state.
LEMMA HolderIsUniquePrime ==
    ASSUME OneCommand'
    PROVE  /\ \A c \in Commands : Holding(c)' => Holder' = c
           /\ (\A c \in Commands : ~Holding(c)') => Holder' = NoCommand
<1> DEFINE H(c) == Holding(c)'
<1>1. \A c, d \in Commands : H(c) /\ H(d) => c = d
  BY DEF OneCommand
<1>2. Holder' = IF \E c \in Commands : H(c)
                THEN CHOOSE c \in Commands : H(c) ELSE NoCommand
  BY DEF Holder
<1> HIDE DEF H
<1>3. /\ \A c \in Commands : H(c) => Holder' = c
      /\ (\A c \in Commands : ~H(c)) => Holder' = NoCommand
  BY <1>1, <1>2
<1>4. QED
  BY <1>3 DEF H

\* A step in which no command takes or gives back the session leaves the slot alone.
LEMMA SameHolder ==
    ASSUME OneCommand, OneCommand', \A c \in Commands : Holding(c)' <=> Holding(c)
    PROVE  Holder' = Holder
<1>1. CASE \E c \in Commands : Holding(c)
  BY <1>1, HolderIsUnique, HolderIsUniquePrime
<1>2. CASE \A c \in Commands : ~Holding(c)
  BY <1>2, HolderIsUnique, HolderIsUniquePrime
<1>3. QED
  BY <1>1, <1>2

\* Reporting one more exit appends its command to the reported ones.
LEMMA ExitsAppended ==
    ASSUME NEW s \in Seq(Exit), NEW e \in Exit
    PROVE  LET t == Append(s, e) IN
           [i \in DOMAIN t |-> t[i].cmd] = Append([i \in DOMAIN s |-> s[i].cmd], e.cmd)
<1> DEFINE t == Append(s, e)
           cmds == [i \in DOMAIN s |-> s[i].cmd]
           left == [i \in DOMAIN t |-> t[i].cmd]
<1>1. /\ Len(s) \in Nat /\ DOMAIN s = 1..Len(s) /\ DOMAIN t = 1..(Len(s) + 1)
      /\ t[Len(s) + 1] = e
      /\ \A i \in 1..Len(s) : t[i] = s[i] /\ s[i] \in Exit
  OBVIOUS
<1>2. cmds \in Seq(Commands) /\ Len(cmds) = Len(s)
  BY <1>1 DEF Exit
<1>3. e.cmd \in Commands
  BY DEF Exit
<1>4. /\ DOMAIN Append(cmds, e.cmd) = 1..(Len(s) + 1)
      /\ Append(cmds, e.cmd)[Len(s) + 1] = e.cmd
      /\ \A i \in 1..Len(s) : Append(cmds, e.cmd)[i] = cmds[i]
      /\ Append(cmds, e.cmd) = [i \in 1..(Len(s) + 1) |-> Append(cmds, e.cmd)[i]]
  <2> HIDE DEF cmds
  <2>1. QED
    BY <1>1, <1>2, <1>3
<1>5. \A i \in 1..(Len(s) + 1) : left[i] = Append(cmds, e.cmd)[i]
  BY <1>1, <1>4
<1>6. QED
  BY <1>1, <1>4, <1>5

\* The session is a slot for commands that reports each of them exactly once.
THEOREM SessionIsCommandSlot == Spec => SlotRefinement
<1>1. Init => Slot!SlotInit
  <2> SUFFICES ASSUME Init PROVE Slot!SlotInit
    OBVIOUS
  <2>1. OneCommand /\ \A c \in Commands : ~Holding(c)
    BY DEF Init, OneCommand, Holding
  <2>2. Holder = NoCommand
    BY <2>1, HolderIsUnique
  <2>3. QED
    BY <2>2 DEF Init, Slot!SlotInit
<1>2. TypeOK /\ OneCommand /\ OneCommand' /\ ReportInv /\ [Next]_vars
        => [Slot!SlotNext]_Slot!slotVars
  <2> DEFINE Step == [Slot!SlotNext]_Slot!slotVars
             Same == /\ exits' = exits
                     /\ \A d \in Commands :
                          /\ Holding(d)' <=> Holding(d)
                          /\ stage'[d] \in {"new", "found", "refused"}
                               <=> stage[d] \in {"new", "found", "refused"}
                          /\ stage'[d] = "released" <=> stage[d] = "released"
  <2> SUFFICES ASSUME TypeOK, OneCommand, OneCommand', ReportInv, [Next]_vars PROVE Step
    OBVIOUS
  <2>Q. Same => Step
    <3> SUFFICES ASSUME Same PROVE Slot!slotVars' = Slot!slotVars
      OBVIOUS
    <3>1. Holder' = Holder
      BY SameHolder
    <3>2. QED
      BY <3>1 DEF Slot!slotVars
  <2> USE DEF sessionVars, processVars, cancelVars, closeVars, Move, CancelMove,
              CloseMove, TypeOK, ExecStages, Holding
  <2>1. ASSUME NEW c \in Commands, LookupExec(c)
        PROVE Step
    <3>1. Same
      BY <2>1 DEF LookupExec
    <3>2. QED
      BY <3>1, <2>Q
  <2>2. ASSUME NEW c \in Commands, ClaimSlot(c)
        PROVE Step
    <3>1. CASE busy
      <4>1. Same
        BY <2>2, <3>1 DEF ClaimSlot
      <4>2. QED
        BY <4>1, <2>Q
    <3>2. CASE ~busy
      <4>1. /\ stage[c] = "found" /\ stage' = [stage EXCEPT ![c] = "claimed"]
            /\ exits' = exits
        BY <2>2, <3>2 DEF ClaimSlot
      <4>2. Holder = NoCommand
        BY <3>2, HolderIsUnique DEF OneCommand
      <4>3. Holder' = c
        BY <4>1, HolderIsUniquePrime DEF Holding
      <4>4. Slot!Acquire(c)
        BY <4>1, <4>2, <4>3 DEF Slot!Acquire
      <4>5. QED
        BY <4>4 DEF Slot!SlotNext
    <3>3. QED
      BY <3>1, <3>2
  <2>3. ASSUME NEW c \in Commands, StartCommand(c)
        PROVE Step
    <3>1. Same
      BY <2>3 DEF StartCommand
    <3>2. QED
      BY <3>1, <2>Q
  <2>4. ASSUME NEW c \in Commands, StartFails(c)
        PROVE Step
    <3>1. Same
      BY <2>4 DEF StartFails
    <3>2. QED
      BY <3>1, <2>Q
  <2>5. ASSUME NEW c \in Commands, GiveUpSlot(c)
        PROVE Step
    <3>1. /\ stage[c] = "unstarted" /\ stage' = [stage EXCEPT ![c] = "gaveUp"]
          /\ exits' = exits /\ busy' = FALSE
      BY <2>5 DEF GiveUpSlot
    <3>2. Holder = c /\ Holder' = NoCommand
      BY <3>1, HolderIsUnique, HolderIsUniquePrime DEF Holding, OneCommand
    <3>3. Slot!GiveUp(c)
      BY <3>1, <3>2 DEF Slot!GiveUp
    <3>4. QED
      BY <3>3 DEF Slot!SlotNext
  <2>6. ASSUME NEW c \in Commands, PublishHandle(c)
        PROVE Step
    <3>1. Same
      BY <2>6 DEF PublishHandle
    <3>2. QED
      BY <3>1, <2>Q
  <2>7. ASSUME NEW c \in Commands, CommandEnds(c)
        PROVE Step
    <3>1. Same
      BY <2>7 DEF CommandEnds
    <3>2. QED
      BY <3>1, <2>Q
  <2>8. ASSUME NEW c \in Commands, Reap(c)
        PROVE Step
    <3>1. Same
      BY <2>8 DEF Reap
    <3>2. QED
      BY <3>1, <2>Q
  <2>9. ASSUME NEW c \in Commands, ReleaseSlot(c)
        PROVE Step
    <3>1. /\ stage[c] = "reaped" /\ stage' = [stage EXCEPT ![c] = "released"]
          /\ exits' = exits /\ busy' = FALSE
      BY <2>9 DEF ReleaseSlot
    <3>2. Holder = c /\ Holder' = NoCommand
      BY <3>1, HolderIsUnique, HolderIsUniquePrime DEF Holding, OneCommand
    <3>3. Slot!Finish(c)
      BY <3>1, <3>2 DEF Slot!Finish
    <3>4. QED
      BY <3>3 DEF Slot!SlotNext
  <2>10. ASSUME NEW c \in Commands, EmitExit(c)
        PROVE Step
    <3>1. /\ stage[c] = "released" /\ stage' = [stage EXCEPT ![c] = "emitted"]
          /\ exits' = Append(exits, result[c]) /\ result[c] \in Exit /\ result[c].cmd = c
      BY <2>10 DEF EmitExit, ReportInv
    <3>2. \A d \in Commands : Holding(d)' <=> Holding(d)
      BY <3>1 DEF Holding
    <3>3. Holder' = Holder
      BY <3>2, SameHolder
    <3>4. [i \in DOMAIN exits' |-> exits'[i].cmd]
            = Append([i \in DOMAIN exits |-> exits[i].cmd], c)
      BY <3>1, ExitsAppended
    <3>5. Slot!Report(c)
      BY <3>1, <3>3, <3>4 DEF Slot!Report
    <3>6. QED
      BY <3>5 DEF Slot!SlotNext
  <2>11. ASSUME NEW c \in Commands, CloseDone(c)
        PROVE Step
    <3>1. Same
      BY <2>11 DEF CloseDone
    <3>2. QED
      BY <3>1, <2>Q
  <2>12. ASSUME NEW r \in Cancels, LookupCancel(r)
        PROVE Step
    <3>1. Same
      BY <2>12 DEF LookupCancel
    <3>2. QED
      BY <3>1, <2>Q
  <2>13. ASSUME NEW r \in Cancels, TakeHook(r)
        PROVE Step
    <3>1. Same
      BY <2>13 DEF TakeHook
    <3>2. QED
      BY <3>1, <2>Q
  <2>14. ASSUME NEW r \in Cancels, CallHook(r)
        PROVE Step
    <3>1. Same
      BY <2>14 DEF CallHook
    <3>2. QED
      BY <3>1, <2>Q
  <2>15. ASSUME NEW r \in Cancels, GraceEnds(r)
        PROVE Step
    <3>1. Same
      BY <2>15 DEF GraceEnds
    <3>2. QED
      BY <3>1, <2>Q
  <2>16. ASSUME NEW r \in Cancels, GraceFires(r)
        PROVE Step
    <3>1. Same
      BY <2>16 DEF GraceFires
    <3>2. QED
      BY <3>1, <2>Q
  <2>17. ASSUME NEW r \in Cancels, CallHookAgain(r)
        PROVE Step
    <3>1. Same
      BY <2>17 DEF CallHookAgain
    <3>2. QED
      BY <3>1, <2>Q
  <2>18. CASE RemoveSession
    <3>1. Same
      BY <2>18 DEF RemoveSession
    <3>2. QED
      BY <3>1, <2>Q
  <2>19. CASE ShutdownTakesHook
    <3>1. Same
      BY <2>19 DEF ShutdownTakesHook
    <3>2. QED
      BY <3>1, <2>Q
  <2>20. CASE ShutdownCancels
    <3>1. Same
      BY <2>20 DEF ShutdownCancels
    <3>2. QED
      BY <3>1, <2>Q
  <2>21. CASE ShutdownCloses
    <3>1. Same
      BY <2>21 DEF ShutdownCloses
    <3>2. QED
      BY <3>1, <2>Q
  <2>22. CASE ConnectionLost
    <3>1. Same
      BY <2>22 DEF ConnectionLost
    <3>2. QED
      BY <3>1, <2>Q
  <2>23. CASE UNCHANGED vars
    <3>1. Same
      BY <2>23 DEF vars
    <3>2. QED
      BY <3>1, <2>Q
  <2>24. QED
    BY <2>1, <2>2, <2>3, <2>4, <2>5, <2>6, <2>7, <2>8, <2>9, <2>10, <2>11,
       <2>12, <2>13, <2>14, <2>15, <2>16, <2>17, <2>18, <2>19, <2>20, <2>21,
       <2>22, <2>23
       DEF Next, ExecStep, WaitStep, CancelStep, ShutdownStep
<1>3. QED
  BY <1>1, <1>2, TypeCorrect, OneCommandHolds, ReportInvHolds, PTL
     DEF Spec, SlotRefinement, Slot!SlotSpec
=============================================================================
