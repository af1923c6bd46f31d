----------------------------- MODULE ShellExec -----------------------------
(***************************************************************************)
(* Per-command execution on one shellSession: shell/exec, shell/cancel, the *)
(* goroutine that waits for the command, the grace timer a cancel leaves    *)
(* behind, and the shutdown() of the session by connection/disconnect or by *)
(* a connect that replaces it (backend/main.go, ssh.go).                    *)
(*                                                                         *)
(* Every request of the host runs in a goroutine of its own (sdk.go, Serve) *)
(* so the handlers below interleave at every lock boundary: a handler is a  *)
(* stage per request and one action per critical section or call.  Exec     *)
(* requests are named after the command they carry: "Commands".             *)
(*                                                                         *)
(* A definition marked (variant) is a mistake somebody could make in the    *)
(* definition it precedes; no other definition uses it.  The variants say   *)
(* which mistake each property would notice (see README.md).                *)
(***************************************************************************)
EXTENDS Naturals, Sequences, FiniteSets

CONSTANTS
    Commands,   \* shell/exec requests, each with the command it carries
    Cancels,    \* shell/cancel requests
    Dirs,       \* working directories
    Home,       \* the directory the session starts in; os.UserHomeDir too
    Endless,    \* commands that never end unless they are interrupted
    Stubborn,   \* commands that ignore SIGINT, or whose background child keeps
                \* the output pipe open, so that cmd.Wait does not return
    NoCommand,
    NoDir

ASSUME DirsAssumption == Home \in Dirs /\ NoDir \notin Dirs
ASSUME CommandsAssumption ==
    /\ NoCommand \notin Commands
    /\ Endless \subseteq Commands
    /\ Stubborn \subseteq Commands

VARIABLES
    kind,       \* shellSession.kind: "local" or "ssh", never changed
    registered, \* plugin.sessions[id] is this session
    busy, cancelled, cancelFn, cwd, stopping, dead, \* fields of shellSession
    stage,      \* per exec request: how far execCommand and then wait() got
    alive,      \* commands whose process (remote channel) is still running
    interrupted,\* commands whose process got SIGINT, or whose channel was closed
    meta,       \* the directory wait() read in the command's metadata, or NoDir
    result,     \* what wait() computed for shell/exit when it freed the session
    exits,      \* shell/exit events written to the host, in order
    cstage,     \* per cancel request: how far cancelCommand and its timer got
    target,     \* the command whose cancel hook the request holds
    armedFor,   \* the command whose done channel the request's timer watches
    sstage,     \* how far the removal and shutdown() of the session got
    taken       \* the command whose cancel hook shutdown() took

sessionVars == <<busy, cancelled, cancelFn, cwd, stopping, dead>>
processVars == <<alive, interrupted, meta>>
cancelVars  == <<cstage, target, armedFor>>
closeVars   == <<registered, sstage, taken>>
vars == <<kind, sessionVars, stage, processVars, result, exits, cancelVars, closeVars>>

-----------------------------------------------------------------------------
Exit == [cmd : Commands, cwd : Dirs, cancelled : BOOLEAN]

ExecStages == {"new", "found", "refused", "claimed", "unstarted", "gaveUp", "started",
               "published", "reaped", "released", "emitted", "closed"}
CancelStages == {"new", "found", "holding", "armed", "refire", "over"}
CloseStages == {"open", "removed", "hooked", "cancelled", "closed"}

\* The stages between taking the busy flag and giving it back.
Holding(c) == stage[c] \in {"claimed", "started", "published", "reaped", "unstarted"}

\* close(done): the last thing wait() does.
DoneClosed(c) == stage[c] = "closed"

TypeOK ==
    /\ kind \in {"local", "ssh"}
    /\ registered \in BOOLEAN
    /\ busy \in BOOLEAN /\ cancelled \in BOOLEAN
    /\ stopping \in BOOLEAN /\ dead \in BOOLEAN
    /\ cancelFn \in Commands \union {NoCommand}
    /\ cwd \in Dirs
    /\ stage \in [Commands -> ExecStages]
    /\ alive \subseteq Commands /\ interrupted \subseteq Commands
    /\ meta \in [Commands -> Dirs \union {NoDir}]
    /\ result \in [Commands -> Exit]
    /\ exits \in Seq(Exit)
    /\ cstage \in [Cancels -> CancelStages]
    /\ target \in [Cancels -> Commands \union {NoCommand}]
    /\ armedFor \in [Cancels -> Commands \union {NoCommand}]
    /\ sstage \in CloseStages
    /\ taken \in Commands \union {NoCommand}

\* A session that connect has just put into plugin.sessions.
Init ==
    /\ kind \in {"local", "ssh"}
    /\ registered = TRUE
    /\ busy = FALSE /\ cancelled = FALSE /\ cancelFn = NoCommand
    /\ cwd = Home /\ stopping = FALSE /\ dead = FALSE
    /\ stage = [c \in Commands |-> "new"]
    /\ alive = {} /\ interrupted = {}
    /\ meta = [c \in Commands |-> NoDir]
    /\ result = [c \in Commands |-> [cmd |-> c, cwd |-> Home, cancelled |-> FALSE]]
    /\ exits = <<>>
    /\ cstage = [r \in Cancels |-> "new"]
    /\ target = [r \in Cancels |-> NoCommand]
    /\ armedFor = [r \in Cancels |-> NoCommand]
    /\ sstage = "open" /\ taken = NoCommand

-----------------------------------------------------------------------------
(* shell/exec                                                              *)

Move(c, from, to) == stage[c] = from /\ stage' = [stage EXCEPT ![c] = to]

\* The session is looked up under plugin.mutex and, over SSH, refused when dead.
LookupExec(c) ==
    /\ Move(c, "new", IF registered /\ ~dead THEN "found" ELSE "refused")
    /\ UNCHANGED <<kind, sessionVars, processVars, result, exits, cancelVars,
                   closeVars>>

\* (variant) the busy flag is set without looking at it
ClaimSlotUnchecked(c) ==
    /\ Move(c, "found", "claimed")
    /\ busy' = TRUE /\ cancelled' = FALSE
    /\ UNCHANGED <<kind, cancelFn, cwd, stopping, dead, processVars, result,
                   exits, cancelVars, closeVars>>

\* (variant) the cancelled flag of the previous command is kept
ClaimSlotNoReset(c) ==
    /\ Move(c, "found", IF busy THEN "refused" ELSE "claimed")
    /\ busy' = TRUE
    /\ UNCHANGED <<kind, cancelled, cancelFn, cwd, stopping, dead, processVars,
                   result, exits, cancelVars, closeVars>>

\* "Another command is still running", or the busy slot is claimed.
ClaimSlot(c) ==
    /\ Move(c, "found", IF busy THEN "refused" ELSE "claimed")
    /\ busy' = TRUE
    /\ cancelled' = (busy /\ cancelled)
    /\ UNCHANGED <<kind, cancelFn, cwd, stopping, dead, processVars, result,
                   exits, cancelVars, closeVars>>

\* startLocalExec / startSSHExec succeed.  A local command whose directory is
\* gone is started in the home directory, which becomes the session's.
StartCommand(c) ==
    /\ Move(c, "claimed", "started")
    /\ ~dead
    /\ alive' = alive \union {c}
    /\ \/ UNCHANGED cwd
       \/ kind = "local" /\ cwd' = Home
    /\ UNCHANGED <<kind, busy, cancelled, cancelFn, stopping, dead,
                   interrupted, meta, result, exits, cancelVars,
                   closeVars>>

\* (variant) the channel is not closed when its start is given up
StartFailsOpen(c) ==
    /\ Move(c, "claimed", "unstarted")
    /\ dead' = (kind = "ssh")
    /\ alive' = alive \union {c}
    /\ UNCHANGED <<kind, busy, cancelled, cancelFn, cwd, stopping, interrupted,
                   meta, result, exits, cancelVars, closeVars>>

\* The process cannot be started; over SSH the session is already dead, or the
\* channel cannot be opened or started in time and the session is marked dead.
StartFails(c) ==
    /\ Move(c, "claimed", "unstarted")
    /\ dead' = (kind = "ssh")
    /\ UNCHANGED <<kind, busy, cancelled, cancelFn, cwd, stopping, processVars,
                   result, exits, cancelVars, closeVars>>

\* (variant) the error path leaves the session busy
GiveUpSlotBusy(c) ==
    /\ Move(c, "unstarted", "gaveUp")
    /\ UNCHANGED <<kind, sessionVars, processVars, result, exits, cancelVars,
                   closeVars>>

GiveUpSlot(c) ==
    /\ Move(c, "unstarted", "gaveUp")
    /\ busy' = FALSE
    /\ UNCHANGED <<kind, cancelled, cancelFn, cwd, stopping, dead, processVars,
                   result, exits, cancelVars, closeVars>>

\* cancelFn and done are stored, wait() is spawned and the request answered.
PublishHandle(c) ==
    /\ Move(c, "started", "published")
    /\ cancelFn' = c
    /\ UNCHANGED <<kind, busy, cancelled, cwd, stopping, dead, processVars,
                   result, exits, cancelVars, closeVars>>

-----------------------------------------------------------------------------
(* The running command and wait()                                          *)

\* A process ends on its own, because of SIGINT, or - over SSH - because its
\* channel or the whole client was closed.
MayEnd(c) ==
    \/ c \notin Endless
    \/ kind = "local" /\ c \in interrupted \ Stubborn
    \/ kind = "ssh" /\ (c \in interrupted \/ dead)

CommandEnds(c) ==
    /\ c \in alive
    /\ MayEnd(c)
    /\ alive' = alive \ {c}
    /\ UNCHANGED <<kind, sessionVars, stage, interrupted, meta, result, exits,
                   cancelVars, closeVars>>

\* Wait returns and the metadata is read: it names a directory, or none (there is
\* none, it cannot be parsed, or its grace period passes).
Reap(c) ==
    /\ c \notin alive
    /\ Move(c, "published", "reaped")
    /\ \E dir \in Dirs \union {NoDir} : meta' = [meta EXCEPT ![c] = dir]
    /\ UNCHANGED <<kind, sessionVars, alive, interrupted, result, exits,
                   cancelVars, closeVars>>

\* (variant) an absent directory is stored like any other
CwdAfterUnchecked(c) == meta[c]

CwdAfter(c) == IF meta[c] # NoDir THEN meta[c] ELSE cwd

\* (variant) the cancel hook stays behind
ReleaseSlotKeepHook(c) ==
    /\ Move(c, "reaped", "released")
    /\ busy' = FALSE
    /\ cwd' = CwdAfter(c)
    /\ \E err \in BOOLEAN : \* whether Wait returned an error
         result' = [result EXCEPT ![c] = [cmd |-> c, cwd |-> CwdAfter(c),
                                          cancelled |-> cancelled /\ err]]
    /\ UNCHANGED <<kind, cancelFn, cancelled, stopping, dead, processVars,
                   exits, cancelVars, closeVars>>

\* The critical section of wait(): the session is free again.
ReleaseSlot(c) ==
    /\ Move(c, "reaped", "released")
    /\ busy' = FALSE
    /\ cancelFn' = NoCommand
    /\ cwd' = CwdAfter(c)
    /\ \E err \in BOOLEAN : \* whether Wait returned an error
         result' = [result EXCEPT ![c] = [cmd |-> c, cwd |-> CwdAfter(c),
                                          cancelled |-> cancelled /\ err]]
    /\ UNCHANGED <<kind, cancelled, stopping, dead, processVars, exits,
                   cancelVars, closeVars>>

\* (variant) the directory is read when the event is sent
EmitExitLateCwd(c) ==
    /\ Move(c, "released", "emitted")
    /\ exits' = Append(exits, [result[c] EXCEPT !.cwd = cwd])
    /\ UNCHANGED <<kind, sessionVars, processVars, result, cancelVars,
                   closeVars>>

\* (variant) the event is sent again and again
EmitExitAgain(c) ==
    /\ stage[c] = "released"
    /\ exits' = Append(exits, result[c])
    /\ UNCHANGED <<kind, sessionVars, stage, processVars, result, cancelVars,
                   closeVars>>

\* emitExit, after the lock was given up.
EmitExit(c) ==
    /\ Move(c, "released", "emitted")
    /\ exits' = Append(exits, result[c])
    /\ UNCHANGED <<kind, sessionVars, processVars, result, cancelVars,
                   closeVars>>

CloseDone(c) ==
    /\ Move(c, "emitted", "closed")
    /\ UNCHANGED <<kind, sessionVars, processVars, result, exits, cancelVars,
                   closeVars>>

-----------------------------------------------------------------------------
(* shell/cancel                                                            *)

CancelMove(r, from, to) == cstage[r] = from /\ cstage' = [cstage EXCEPT ![r] = to]

\* (variant) the signal reaches the shell but not the command it runs
InterruptNothing(c) == UNCHANGED interrupted

\* A cancel hook called on a process that is gone does nothing: SIGINT to its
\* group (local), Close of its channel (SSH).
Interrupt(c) == interrupted' = interrupted \union ({c} \intersect alive)

LookupCancel(r) ==
    /\ CancelMove(r, "new", IF registered THEN "found" ELSE "over")
    /\ UNCHANGED <<kind, sessionVars, stage, processVars, result, exits,
                   target, armedFor, closeVars>>

\* "No command is running", or the request takes the hook and the done channel.
TakeHook(r) ==
    /\ IF busy /\ cancelFn # NoCommand
       THEN /\ CancelMove(r, "found", "holding")
            /\ target' = [target EXCEPT ![r] = cancelFn]
            /\ armedFor' = [armedFor EXCEPT ![r] = cancelFn]
            /\ cancelled' = TRUE
       ELSE CancelMove(r, "found", "over") /\ UNCHANGED <<target, armedFor, cancelled>>
    /\ UNCHANGED <<kind, busy, cancelFn, cwd, stopping, dead, stage,
                   processVars, result, exits, closeVars>>

\* cancel() is called and the grace goroutine started.
CallHook(r) ==
    /\ CancelMove(r, "holding", "armed")
    /\ Interrupt(target[r])
    /\ UNCHANGED <<kind, sessionVars, stage, alive, meta, result,
                   exits, target, armedFor, closeVars>>

\* The select of the grace goroutine: done was closed ...
GraceEnds(r) ==
    /\ CancelMove(r, "armed", "over")
    /\ DoneClosed(armedFor[r])
    /\ UNCHANGED <<kind, sessionVars, stage, processVars, result, exits,
                   target, armedFor, closeVars>>

\* ... or the timer fired (select takes either when both are ready): the hook
\* the session holds now is read under the lock,
GraceFires(r) ==
    /\ CancelMove(r, "armed", IF cancelFn = NoCommand THEN "over" ELSE "refire")
    /\ target' = [target EXCEPT ![r] = cancelFn]
    /\ UNCHANGED <<kind, sessionVars, stage, processVars, result, exits,
                   armedFor, closeVars>>

\* and called without it.
CallHookAgain(r) ==
    /\ CancelMove(r, "refire", "over")
    /\ Interrupt(target[r])
    /\ UNCHANGED <<kind, sessionVars, stage, alive, meta, result,
                   exits, target, armedFor, closeVars>>

-----------------------------------------------------------------------------
(* connection/disconnect, or the replacing connect, and shutdown()         *)

CloseMove(from, to) == sstage = from /\ sstage' = to

RemoveSession ==
    /\ CloseMove("open", "removed")
    /\ registered' = FALSE
    /\ UNCHANGED <<kind, sessionVars, stage, processVars, result, exits,
                   cancelVars, taken>>

\* (variant) the hook is cleared before it is read
ShutdownTakesNothing ==
    /\ CloseMove("removed", "hooked")
    /\ taken' = NoCommand
    /\ cancelFn' = NoCommand
    /\ stopping' = TRUE
    /\ UNCHANGED <<kind, busy, cancelled, cwd, dead, stage, processVars,
                   result, exits, cancelVars, registered>>

ShutdownTakesHook ==
    /\ CloseMove("removed", "hooked")
    /\ taken' = cancelFn
    /\ cancelFn' = NoCommand
    /\ stopping' = TRUE
    /\ UNCHANGED <<kind, busy, cancelled, cwd, dead, stage, processVars,
                   result, exits, cancelVars, registered>>

ShutdownCancels ==
    /\ CloseMove("hooked", "cancelled")
    /\ Interrupt(taken)
    /\ UNCHANGED <<kind, sessionVars, stage, alive, meta, result,
                   exits, cancelVars, registered, taken>>

\* (variant) the client is left open
ShutdownLeavesClient ==
    /\ CloseMove("cancelled", "closed")
    /\ UNCHANGED <<kind, sessionVars, stage, processVars, result, exits,
                   cancelVars, registered, taken>>

\* markDead closes the SSH client; a local session has nothing more to close.
ShutdownCloses ==
    /\ CloseMove("cancelled", "closed")
    /\ dead' = (dead \/ kind = "ssh")
    /\ UNCHANGED <<kind, busy, cancelled, cancelFn, cwd, stopping, stage,
                   processVars, result, exits, cancelVars, registered, taken>>

\* A keepalive or another channel finds the SSH connection broken (markDead).
ConnectionLost ==
    /\ kind = "ssh" /\ ~dead
    /\ dead' = TRUE
    /\ UNCHANGED <<kind, busy, cancelled, cancelFn, cwd, stopping, stage,
                   processVars, result, exits, cancelVars, closeVars>>

-----------------------------------------------------------------------------
ExecStep(c) ==
    \/ ClaimSlot(c) \/ StartCommand(c) \/ StartFails(c) \/ GiveUpSlot(c)
    \/ PublishHandle(c)

WaitStep(c) == Reap(c) \/ ReleaseSlot(c) \/ EmitExit(c) \/ CloseDone(c)

CancelStep(r) ==
    TakeHook(r) \/ CallHook(r) \/ GraceEnds(r) \/ GraceFires(r) \/ CallHookAgain(r)

ShutdownStep == ShutdownTakesHook \/ ShutdownCancels \/ ShutdownCloses

Next ==
    \/ \E c \in Commands : LookupExec(c) \/ ExecStep(c) \/ CommandEnds(c) \/ WaitStep(c)
    \/ \E r \in Cancels : LookupCancel(r) \/ CancelStep(r)
    \/ RemoveSession \/ ShutdownStep \/ ConnectionLost

Spec == Init /\ [][Next]_vars

\* Goroutines that were started are scheduled, the bounded waits of a start and
\* of the metadata end, and a process that may end does.  Requests, disconnects
\* and a loss of the connection may never come.
Fairness ==
    /\ \A c \in Commands :
         WF_vars(ExecStep(c)) /\ WF_vars(CommandEnds(c)) /\ WF_vars(WaitStep(c))
    /\ \A r \in Cancels : WF_vars(CancelStep(r))
    /\ WF_vars(ShutdownStep)

FairSpec == Spec /\ Fairness

-----------------------------------------------------------------------------
(* Properties                                                              *)

\* The busy flag is the lock it is meant to be: it is set exactly while one
\* exec request or its command holds the session, through the unlocked start
\* and until the critical section of wait() (execCommand, wait).
OneCommand ==
    /\ \A c, d \in Commands : Holding(c) /\ Holding(d) => c = d
    /\ busy = (\E c \in Commands : Holding(c))

\* The cancel hook on the session is the hook of the command that holds it, and
\* a running command's hook is never lost: it is on the session, where a cancel
\* finds it, until shutdown() takes it.
HookOfHolder ==
    /\ \A c \in Commands : cancelFn = c => stage[c] \in {"published", "reaped"}
    /\ \A c \in Commands :
         stage[c] \in {"published", "reaped"} => cancelFn = c \/ taken = c

\* A command is reported as cancelled only when a cancel request took that
\* command's own hook: the cancelled flag, one per session, never carries over
\* from an earlier command (execCommand's reset, cancelCommand, wait).
CancelledByRequest ==
    \A i \in DOMAIN exits :
      exits[i].cancelled => \E r \in Cancels : armedFor[r] = exits[i].cmd

\* shell/exit carries the directory the command itself ended in, although the
\* event is sent after the lock was given up and another command may be running.
ExitOwnDirectory ==
    \A i \in DOMAIN exits :
      LET c == exits[i].cmd IN meta[c] # NoDir => exits[i].cwd = meta[c]

\* A process that runs has an exec request to report it: nothing is started, and
\* then forgotten, by a handler that answered with an error.
NoUnreportedProcess ==
    \A c \in alive : stage[c] \in {"started", "published"}

\* The session is a command slot: see CommandSlot.
Holder == IF \E c \in Commands : Holding(c)
          THEN CHOOSE c \in Commands : Holding(c) ELSE NoCommand

Slot == INSTANCE CommandSlot WITH
    slot <- Holder,
    fresh <- {c \in Commands : stage[c] \in {"new", "found", "refused"}},
    unreported <- {c \in Commands : stage[c] = "released"},
    reported <- [i \in DOMAIN exits |-> exits[i].cmd]

SlotRefinement == Slot!SlotSpec

\* Whatever happens to the start or to the command, the session becomes free
\* again once a command that does end has taken it.
SlotFreed ==
    \A c \in Commands \ Endless : Holding(c) ~> ~busy

\* A cancel that took a command's hook ends the command when it honours
\* SIGINT, and so does closing the session that had published it.  Over SSH the
\* shutdown reaches every command, the ones caught between the busy claim and the
\* published hook too: their channel goes with the client.
InterruptedEnds ==
    /\ \A c \in Commands \ Stubborn :
         ( \/ \E r \in Cancels : cstage[r] = "holding" /\ target[r] = c
           \/ sstage = "removed" /\ stage[c] = "published" ) ~> stage[c] = "closed"
    /\ (kind = "ssh" /\ sstage = "removed") ~> [](alive = {})

-----------------------------------------------------------------------------
(* Statements of the repository that the code does not keep                *)

\* README.md, "fall-back mode sends SIGINT to the process group (SIGKILL after
\* 3 seconds)": a cancelled command ends, whether it honours SIGINT or not.
CancelEscalates ==
    \A r \in Cancels, c \in Commands :
      (kind = "local" /\ cstage[r] = "holding" /\ target[r] = c) ~> c \notin alive
=============================================================================
