--------------------------- MODULE RemoteSession ---------------------------
(***************************************************************************)
(* What the requests of one SSH session share: the connection with its dead *)
(* flag and keepalive, the SFTP client that is set up on first use, the     *)
(* names for completion that are loaded once, the writing end of the        *)
(* terminal, to which the user's input and the reporter of the directory    *)
(* go, and the shutdown() that takes all of it away (backend/ssh.go,        *)
(* main.go, dockerapi.go, sftpapi.go).                                      *)
(*                                                                         *)
(* A request runs in a goroutine of its own.  An SFTP client is named after *)
(* the request that set it up.  The network is the environment: it carries  *)
(* data, is silent for a while, or is broken.  A bounded wait (withTimeout) *)
(* ends when the network is silent; an unbounded one goes on.               *)
(*                                                                         *)
(* A definition marked (variant) is a mistake somebody could make in the    *)
(* definition it precedes; no other definition uses it.                     *)
(***************************************************************************)
EXTENDS Naturals, FiniteSets

CONSTANTS
    Requests,  \* requests of the host that need the remote side
    MaxHangs,  \* bound: how often the network becomes silent
    Nobody

ASSUME NobodyAssumption == Nobody \notin Requests
ASSUME MaxHangsAssumption == MaxHangs \in Nat

VARIABLES
    op,         \* what a request asks for, see Ops; never changed
    stage,      \* how far its handler got
    answer,     \* what it answered the host
    client,     \* the SFTP client it uses
    holdsStdin, \* a shell/input request: was ptyStdin set when it was read?
    seen,       \* a completion request: the names it completed from
    registered, \* plugin.sessions[id] is this session
    dead,       \* shellSession.dead: sshClient was closed
    stdin,      \* shellSession.ptyStdin is set: the terminal is open
    sftpConn,   \* the cached SFTP client
    sftpLock, remoteLock, writeLock, \* holders of sftpMutex, remoteMutex, ptyWriteMu
    loaded,     \* shellSession.remoteLoaded
    names,      \* remoteEnvNames and remoteCommands: "none", "env" or "all"
    opened,     \* SFTP clients that were set up and not closed
    abandoned,  \* requests whose timed out setup still runs in its goroutine
    timedOut,   \* requests whose setup timed out, ever
    keepalive,  \* keepaliveLoop
    closing,    \* how far the removal and shutdown() of the session got
    injected,   \* shellSession.osc7Injected
    reports,    \* how often the reporter was typed into the terminal
    crashed,    \* a goroutine panicked and nothing recovered it: the process ends
    net,        \* the network: "up", "silent" or "broken"
    hangs,      \* how often it became silent
    trouble     \* the network failed, a channel was refused or ended unasked

requestVars == <<stage, answer, client, holdsStdin, seen>>
lockVars    == <<sftpLock, remoteLock, writeLock>>
clientVars  == <<sftpConn, opened, abandoned, timedOut>>
namesVars   == <<loaded, names>>
configVars  == <<injected, reports, crashed>>
hostVars    == <<op, registered, stdin, closing, configVars>>
netVars     == <<net, hangs>>
vars == <<requestVars, lockVars, clientVars, namesVars, hostVars, netVars, dead,
          keepalive, trouble>>

-----------------------------------------------------------------------------
\* sftp/list and the other file requests and path completion; completion of
\* command and variable names; docker/...; shell/input; shell/config that asks for
\* the reporter.
Ops == {"sftp", "names", "docker", "input", "config"}
Stages == {"new", "found", "wantSftp", "setup", "using", "wantRemote", "opening",
           "running", "reading", "wantWrite", "writing", "typing", "done"}
RequestOrNobody == Requests \union {Nobody}

TypeOK ==
    /\ op \in [Requests -> Ops]
    /\ stage \in [Requests -> Stages]
    /\ answer \in [Requests -> {"none", "ok", "failed"}]
    /\ client \in [Requests -> RequestOrNobody]
    /\ holdsStdin \in [Requests -> BOOLEAN]
    /\ seen \in [Requests -> {"unread", "none", "env", "all"}]
    /\ registered \in BOOLEAN /\ dead \in BOOLEAN /\ stdin \in BOOLEAN
    /\ loaded \in BOOLEAN /\ injected \in BOOLEAN
    /\ crashed \in BOOLEAN /\ trouble \in BOOLEAN
    /\ sftpConn \in RequestOrNobody /\ sftpLock \in RequestOrNobody
    /\ remoteLock \in RequestOrNobody /\ writeLock \in RequestOrNobody
    /\ names \in {"none", "env", "all"} /\ reports \in Nat
    /\ opened \subseteq Requests /\ abandoned \subseteq timedOut
    /\ timedOut \subseteq Requests
    /\ keepalive \in {"waiting", "sent", "over"}
    /\ closing \in {"open", "removed", "ptyClosed", "sftpClosed", "closed"}
    /\ net \in {"up", "silent", "broken"} /\ hangs \in 0..MaxHangs

\* A session that connectSSH has just returned and connect registered.
Init ==
    /\ op \in [Requests -> Ops]
    /\ stage = [r \in Requests |-> "new"]
    /\ answer = [r \in Requests |-> "none"]
    /\ client = [r \in Requests |-> Nobody]
    /\ holdsStdin = [r \in Requests |-> FALSE]
    /\ seen = [r \in Requests |-> "unread"]
    /\ registered = TRUE /\ dead = FALSE /\ stdin = TRUE
    /\ sftpConn = Nobody /\ opened = {} /\ abandoned = {} /\ timedOut = {}
    /\ sftpLock = Nobody /\ remoteLock = Nobody /\ writeLock = Nobody
    /\ loaded = FALSE /\ names = "none"
    /\ injected = FALSE /\ reports = 0 /\ crashed = FALSE
    /\ keepalive = "waiting" /\ closing = "open"
    /\ net = "up" /\ hangs = 0 /\ trouble = FALSE

Move(r, from, to) == stage[r] = from /\ stage' = [stage EXCEPT ![r] = to]

Finish(r, from, result) ==
    /\ Move(r, from, "done")
    /\ answer' = [answer EXCEPT ![r] = result]

\* Calls on the connection answer, or fail at once.
Works == net = "up" /\ ~dead
Fails == net = "broken" \/ dead

Free(lock, r) == IF lock = r THEN Nobody ELSE lock

-----------------------------------------------------------------------------
(* Looking the session up                                                  *)

\* sessionFor, under plugin.mutex.
Lookup(r) ==
    /\ IF registered THEN Move(r, "new", "found") /\ UNCHANGED answer
                     ELSE Finish(r, "new", "failed")
    /\ UNCHANGED <<client, holdsStdin, seen, lockVars, clientVars, namesVars,
                   hostVars, netVars, dead, keepalive, trouble>>

\* runSSHCommandWithTimeout and ptyInput look at the dead flag first.
Begin(r) ==
    /\ op[r] # "config"
    /\ IF op[r] \in {"docker", "input"} /\ dead
       THEN Finish(r, "found", "failed")
       ELSE /\ Move(r, "found", CASE op[r] = "sftp" -> "wantSftp"
                                  [] op[r] = "names" -> "wantRemote"
                                  [] op[r] = "docker" -> "opening"
                                  [] op[r] = "input" -> "wantWrite")
            /\ UNCHANGED answer
    /\ holdsStdin' = [holdsStdin EXCEPT ![r] = stdin /\ op[r] = "input"]
    /\ UNCHANGED <<client, seen, lockVars, clientVars, namesVars, hostVars,
                   netVars, dead, keepalive, trouble>>

-----------------------------------------------------------------------------
(* sftpClient and the use of the client                                    *)

\* No client: the request fails, a completion goes on with the names it has.
WithoutClient(r, from) ==
    IF op[r] = "names"
    THEN Move(r, from, "reading") /\ remoteLock' = Nobody /\ UNCHANGED answer
    ELSE Finish(r, from, "failed") /\ UNCHANGED remoteLock

\* (variant) the mutex is given up while the client is set up
EnterSftpUnlocked(r) ==
    /\ sftpLock = Nobody
    /\ \/ /\ sftpConn # Nobody
          /\ Move(r, "wantSftp", "using")
          /\ client' = [client EXCEPT ![r] = sftpConn]
          /\ UNCHANGED <<answer, lockVars>>
       \/ /\ sftpConn = Nobody /\ ~dead
          /\ Move(r, "wantSftp", "setup")
          /\ UNCHANGED <<answer, client, lockVars>>
       \/ /\ sftpConn = Nobody /\ dead
          /\ WithoutClient(r, "wantSftp")
          /\ UNCHANGED <<client, sftpLock, writeLock>>
    /\ UNCHANGED <<holdsStdin, seen, clientVars, namesVars, hostVars, netVars,
                   dead, keepalive, trouble>>

\* Under sftpMutex: the cached client, whether it still works or not; none on a
\* dead session; or a client is set up with the mutex held.
EnterSftp(r) ==
    /\ sftpLock = Nobody
    /\ \/ /\ sftpConn # Nobody
          /\ Move(r, "wantSftp", "using")
          /\ client' = [client EXCEPT ![r] = sftpConn]
          /\ UNCHANGED <<answer, lockVars>>
       \/ /\ sftpConn = Nobody /\ ~dead
          /\ Move(r, "wantSftp", "setup")
          /\ sftpLock' = r
          /\ UNCHANGED <<answer, client, remoteLock, writeLock>>
       \/ /\ sftpConn = Nobody /\ dead
          /\ WithoutClient(r, "wantSftp")
          /\ UNCHANGED <<client, sftpLock, writeLock>>
    /\ UNCHANGED <<holdsStdin, seen, clientVars, namesVars, hostVars, netVars,
                   dead, keepalive, trouble>>

SetupDone(r) ==
    /\ Works
    /\ Move(r, "setup", "using")
    /\ opened' = opened \union {r}
    /\ sftpConn' = r
    /\ client' = [client EXCEPT ![r] = r]
    /\ sftpLock' = Free(sftpLock, r)
    /\ UNCHANGED <<answer, holdsStdin, seen, remoteLock, writeLock, abandoned,
                   timedOut, namesVars, hostVars, netVars, dead, keepalive,
                   trouble>>

\* (variant) the error path forgets the mutex
SetupFailsLocked(r) ==
    /\ WithoutClient(r, "setup")
    /\ UNCHANGED <<client, holdsStdin, seen, sftpLock, writeLock, clientVars,
                   namesVars, hostVars, netVars, dead, keepalive, trouble>>

\* The server refuses the subsystem or the connection is gone: an error, and the
\* session stays as it is.
SetupFails(r) ==
    /\ WithoutClient(r, "setup")
    /\ sftpLock' = Free(sftpLock, r)
    /\ UNCHANGED <<client, holdsStdin, seen, writeLock, clientVars, namesVars,
                   hostVars, netVars, dead, keepalive, trouble>>

\* withTimeout gives up and leaves the setup to its goroutine.  Its error is not
\* errTimeout, so the branch that would mark the session dead is never taken.
SetupTimesOut(r) ==
    /\ net = "silent"
    /\ WithoutClient(r, "setup")
    /\ sftpLock' = Free(sftpLock, r)
    /\ abandoned' = abandoned \union {r}
    /\ timedOut' = timedOut \union {r}
    /\ UNCHANGED <<client, holdsStdin, seen, writeLock, sftpConn, opened,
                   namesVars, hostVars, netVars, dead, keepalive, trouble>>

\* The abandoned setup ends; a client it still gets belongs to nobody.
LateSetup(r) ==
    /\ r \in abandoned
    /\ Works \/ Fails
    /\ abandoned' = abandoned \ {r}
    /\ opened' = IF Works THEN opened \union {r} ELSE opened
    /\ UNCHANGED <<requestVars, lockVars, sftpConn, timedOut, namesVars,
                   hostVars, netVars, dead, keepalive, trouble>>

\* ReadDir, Stat, Write, ... without a time limit.  An error of the server is an
\* answer too.  A completion has read the directories of PATH, or skipped them.
UseClient(r) ==
    /\ Works \/ Fails \/ client[r] \notin opened
    /\ LET works == Works /\ client[r] \in opened
       IN IF op[r] = "names"
          THEN /\ Move(r, "using", "reading")
               /\ names' = IF works THEN "all" ELSE names
               /\ remoteLock' = Free(remoteLock, r)
               /\ UNCHANGED answer
          ELSE /\ \E result \in {"ok", "failed"} :
                    Finish(r, "using", result) /\ (result = "ok" => works)
               /\ UNCHANGED <<names, remoteLock>>
    /\ UNCHANGED <<client, holdsStdin, seen, sftpLock, writeLock, clientVars,
                   loaded, hostVars, netVars, dead, keepalive, trouble>>

-----------------------------------------------------------------------------
(* ensureRemoteData and the completions that read the names                *)

\* (variant) remoteLoaded is set and the mutex given up before the loading
EnterRemoteUnlocked(r) ==
    /\ remoteLock = Nobody
    /\ Move(r, "wantRemote", IF loaded \/ dead THEN "reading" ELSE "opening")
    /\ loaded' = TRUE
    /\ UNCHANGED <<answer, client, holdsStdin, seen, lockVars, clientVars,
                   names, hostVars, netVars, dead, keepalive, trouble>>

\* Under remoteMutex.  remoteLoaded is set before anything was loaded.
EnterRemote(r) ==
    /\ remoteLock = Nobody
    /\ Move(r, "wantRemote", IF loaded \/ dead THEN "reading" ELSE "opening")
    /\ loaded' = TRUE
    /\ remoteLock' = IF loaded \/ dead THEN Nobody ELSE r
    /\ UNCHANGED <<answer, client, holdsStdin, seen, sftpLock, writeLock,
                   clientVars, names, hostVars, netVars, dead, keepalive,
                   trouble>>

\* The completion reads the lists without the mutex.
ReadNames(r) ==
    /\ Finish(r, "reading", "ok")
    /\ seen' = [seen EXCEPT ![r] = names]
    /\ UNCHANGED <<client, holdsStdin, lockVars, clientVars, namesVars,
                   hostVars, netVars, dead, keepalive, trouble>>

-----------------------------------------------------------------------------
(* Commands on a channel of their own: docker/... and ensureRemoteData     *)

OpenChannel(r) ==
    /\ Works
    /\ Move(r, "opening", "running")
    /\ UNCHANGED <<answer, client, holdsStdin, seen, lockVars, clientVars,
                   namesVars, hostVars, netVars, dead, keepalive, trouble>>

\* Refused by the server, not in time, or on a broken connection: the session is
\* marked dead and its client closed.
OpenChannelFails(r) ==
    /\ op[r] # "config"
    /\ WithoutClient(r, "opening")
    /\ dead' = TRUE
    /\ trouble' = TRUE
    /\ UNCHANGED <<client, holdsStdin, seen, sftpLock, writeLock, clientVars,
                   namesVars, hostVars, netVars, keepalive>>

\* PATH and the variable names are there; the commands come over SFTP.
ListedEnv(r) ==
    /\ Works /\ op[r] = "names"
    /\ Move(r, "running", "wantSftp")
    /\ names' = "env"
    /\ UNCHANGED <<answer, client, holdsStdin, seen, lockVars, clientVars,
                   loaded, hostVars, netVars, dead, keepalive, trouble>>

DockerDone(r) ==
    /\ Works /\ op[r] = "docker"
    /\ Finish(r, "running", "ok")
    /\ UNCHANGED <<client, holdsStdin, seen, lockVars, clientVars, namesVars,
                   hostVars, netVars, dead, keepalive, trouble>>

\* (variant) a command that takes too long counts as a lost connection
CommandTimesOutDead(r) ==
    /\ op[r] # "config"
    /\ WithoutClient(r, "running")
    /\ dead' = TRUE
    /\ UNCHANGED <<client, holdsStdin, seen, sftpLock, writeLock, clientVars,
                   namesVars, hostVars, netVars, keepalive, trouble>>

\* The command takes too long: only its channel is closed.  (The test for
\* errTimeout in ensureRemoteData never holds, see SetupTimesOut.)
CommandTimesOut(r) ==
    /\ op[r] # "config"
    /\ WithoutClient(r, "running")
    /\ UNCHANGED <<client, holdsStdin, seen, sftpLock, writeLock, clientVars,
                   namesVars, hostVars, netVars, dead, keepalive, trouble>>

\* A docker command ends without an exit status: with the connection, or because
\* the server closed its channel.  The session is marked dead either way.
DockerBreaks(r) ==
    /\ op[r] = "docker"
    /\ Finish(r, "running", "failed")
    /\ dead' = TRUE
    /\ trouble' = TRUE
    /\ UNCHANGED <<client, holdsStdin, seen, lockVars, clientVars, namesVars,
                   hostVars, netVars, keepalive>>

-----------------------------------------------------------------------------
(* shell/input                                                             *)

LockWrite(r) ==
    /\ writeLock = Nobody
    /\ Move(r, "wantWrite", "writing")
    /\ writeLock' = r
    /\ UNCHANGED <<answer, client, holdsStdin, seen, sftpLock, remoteLock,
                   clientVars, namesVars, hostVars, netVars, dead, keepalive,
                   trouble>>

\* Write on a nil ptyStdin panics.  Handle recovers and answers with an empty
\* success; ptyWriteMu stays locked.
WritePanics(r) ==
    /\ op[r] = "input" /\ ~holdsStdin[r]
    /\ Finish(r, "writing", "ok")
    /\ UNCHANGED <<client, holdsStdin, seen, lockVars, clientVars, namesVars,
                   hostVars, netVars, dead, keepalive, trouble>>

\* A full window and a silent network hold the write up.
WriteStdin(r) ==
    /\ holdsStdin[r]
    /\ Works \/ Fails \/ ~stdin
    /\ \E result \in {"ok", "failed"} :
         Finish(r, "writing", result) /\ (result = "ok" => Works)
    /\ writeLock' = Nobody
    /\ UNCHANGED <<client, holdsStdin, seen, sftpLock, remoteLock, clientVars,
                   namesVars, hostVars, netVars, dead, keepalive, trouble>>

-----------------------------------------------------------------------------
(* shell/config: it is answered at once; a goroutine types the reporter      *)

\* (variant) osc7Injected is set by the goroutine, when all is done
ConfigureLate(r) ==
    /\ op[r] = "config"
    /\ Move(r, "found", IF injected THEN "done" ELSE "opening")
    /\ answer' = [answer EXCEPT ![r] = "ok"]
    /\ UNCHANGED <<client, holdsStdin, seen, lockVars, clientVars, namesVars,
                   hostVars, netVars, dead, keepalive, trouble>>

\* osc7Injected is set before anything was sent, and stays set if that fails.
Configure(r) ==
    /\ op[r] = "config"
    /\ Move(r, "found", IF injected THEN "done" ELSE "opening")
    /\ answer' = [answer EXCEPT ![r] = "ok"]
    /\ injected' = TRUE
    /\ UNCHANGED <<client, holdsStdin, seen, lockVars, clientVars, namesVars, op,
                   registered, stdin, closing, reports, crashed, netVars, dead,
                   keepalive, trouble>>

\* The question for the user's shell is answered, or fails, or the shell is none
\* that can report.  No failure is told, and none marks the session dead.
AskShell(r) ==
    /\ op[r] = "config"
    /\ \/ Works /\ Move(r, "running", "wantWrite")
       \/ \E from \in {"opening", "running"} : Move(r, from, "done")
    /\ UNCHANGED <<answer, client, holdsStdin, seen, lockVars, clientVars,
                   namesVars, hostVars, netVars, dead, keepalive, trouble>>

\* ptyStdin is tested, under ptyWriteMu.
LookForTerminal(r) ==
    /\ op[r] = "config"
    /\ Move(r, "writing", IF stdin THEN "typing" ELSE "done")
    /\ writeLock' = IF stdin THEN writeLock ELSE Nobody
    /\ UNCHANGED <<answer, client, holdsStdin, seen, sftpLock, remoteLock,
                   clientVars, namesVars, hostVars, netVars, dead, keepalive,
                   trouble>>

\* ptyStdin is read again: shutdown() may have taken it away.
TypeReporter(r) ==
    /\ stdin /\ (Works \/ Fails)
    /\ Move(r, "typing", "done")
    /\ reports' = IF Works THEN reports + 1 ELSE reports
    /\ writeLock' = Nobody
    /\ UNCHANGED <<answer, client, holdsStdin, seen, sftpLock, remoteLock,
                   clientVars, namesVars, op, registered, stdin, closing, injected,
                   crashed, netVars, dead, keepalive, trouble>>

\* The goroutine has no guardPanic.
TypingPanics(r) ==
    /\ stage[r] = "typing" /\ ~stdin
    /\ crashed' = TRUE
    /\ UNCHANGED <<requestVars, lockVars, clientVars, namesVars, op, registered,
                   stdin, closing, injected, reports, netVars, dead, keepalive,
                   trouble>>

-----------------------------------------------------------------------------
(* keepaliveLoop                                                           *)

\* (variant) the test of the dead flag is inverted
KeepaliveTickInverted ==
    /\ keepalive = "waiting"
    /\ keepalive' = IF dead THEN "sent" ELSE "over"
    /\ UNCHANGED <<requestVars, lockVars, clientVars, namesVars, hostVars,
                   netVars, dead, trouble>>

KeepaliveTick ==
    /\ keepalive = "waiting"
    /\ keepalive' = IF dead THEN "over" ELSE "sent"
    /\ UNCHANGED <<requestVars, lockVars, clientVars, namesVars, hostVars,
                   netVars, dead, trouble>>

\* (variant) the answer ends the loop in a state it has no code for
KeepaliveAnsweredStuck ==
    /\ Works
    /\ keepalive = "sent" /\ keepalive' = "answered"
    /\ UNCHANGED <<requestVars, lockVars, clientVars, namesVars, hostVars,
                   netVars, dead, trouble>>

KeepaliveAnswered ==
    /\ Works
    /\ keepalive = "sent" /\ keepalive' = "waiting"
    /\ UNCHANGED <<requestVars, lockVars, clientVars, namesVars, hostVars,
                   netVars, dead, trouble>>

\* (variant) the loop ends without marking the session dead
KeepaliveFailsQuiet ==
    /\ Fails
    /\ keepalive = "sent" /\ keepalive' = "over"
    /\ UNCHANGED <<requestVars, lockVars, clientVars, namesVars, hostVars,
                   netVars, dead, trouble>>

\* SendRequest has no time limit: it fails when the connection does.
KeepaliveFails ==
    /\ Fails
    /\ keepalive = "sent" /\ keepalive' = "over"
    /\ dead' = TRUE
    /\ UNCHANGED <<requestVars, lockVars, clientVars, namesVars, hostVars,
                   netVars, trouble>>

-----------------------------------------------------------------------------
(* The network.  TCP reports a silent connection as broken only when data   *)
(* waits to be acknowledged: that is what the keepalive is for.             *)

FallSilent ==
    /\ net = "up" /\ hangs < MaxHangs
    /\ net' = "silent" /\ hangs' = hangs + 1 /\ trouble' = TRUE
    /\ UNCHANGED <<requestVars, lockVars, clientVars, namesVars, hostVars,
                   dead, keepalive>>

Recover ==
    /\ net = "silent" /\ net' = "up"
    /\ UNCHANGED <<requestVars, lockVars, clientVars, namesVars, hostVars,
                   hangs, dead, keepalive, trouble>>

Break ==
    /\ net # "broken" /\ net' = "broken" /\ trouble' = TRUE
    /\ UNCHANGED <<requestVars, lockVars, clientVars, namesVars, hostVars,
                   hangs, dead, keepalive>>

-----------------------------------------------------------------------------
(* Removal and shutdown()                                                  *)

CloseMove(from, to) == closing = from /\ closing' = to

\* disconnect or a replacing connect takes the session out of the registry.
RemoveSession ==
    /\ CloseMove("open", "removed")
    /\ registered' = FALSE
    /\ UNCHANGED <<requestVars, lockVars, clientVars, namesVars, op, configVars, stdin,
                   netVars, dead, keepalive, trouble>>

\* Under ptyMutex, and not under ptyWriteMu.
ClosePty ==
    /\ CloseMove("removed", "ptyClosed")
    /\ stdin' = FALSE
    /\ UNCHANGED <<requestVars, lockVars, clientVars, namesVars, op, configVars,
                   registered, netVars, dead, keepalive, trouble>>

\* Under sftpMutex: waits for a setup in progress.
CloseSftp ==
    /\ sftpLock = Nobody
    /\ CloseMove("ptyClosed", "sftpClosed")
    /\ opened' = opened \ {sftpConn}
    /\ sftpConn' = Nobody
    /\ UNCHANGED <<requestVars, lockVars, abandoned, timedOut, namesVars, op,
                   configVars, registered, stdin, netVars, dead, keepalive, trouble>>

MarkDead ==
    /\ CloseMove("sftpClosed", "closed")
    /\ dead' = TRUE
    /\ UNCHANGED <<requestVars, lockVars, clientVars, namesVars, op, configVars,
                   registered, stdin, netVars, keepalive, trouble>>

-----------------------------------------------------------------------------
SftpStep(r) ==
    \/ EnterSftp(r) \/ SetupDone(r) \/ SetupFails(r) \/ SetupTimesOut(r) \/ UseClient(r)

NamesStep(r) == EnterRemote(r) \/ ListedEnv(r) \/ ReadNames(r)

ChannelStep(r) ==
    \/ OpenChannel(r) \/ OpenChannelFails(r) \/ DockerDone(r)
    \/ CommandTimesOut(r) \/ DockerBreaks(r)

InputStep(r) == LockWrite(r) \/ WritePanics(r) \/ WriteStdin(r)

ConfigStep(r) ==
    \/ Configure(r) \/ AskShell(r) \/ LookForTerminal(r) \/ TypeReporter(r)
    \/ TypingPanics(r)

HandlerStep(r) ==
    ConfigStep(r) \/ Begin(r) \/ SftpStep(r) \/ NamesStep(r) \/ ChannelStep(r) \/ InputStep(r)

KeepaliveStep == KeepaliveTick \/ KeepaliveAnswered \/ KeepaliveFails

ShutdownStep == ClosePty \/ CloseSftp \/ MarkDead

Next ==
    /\ ~crashed
    /\ \/ \E r \in Requests : Lookup(r) \/ HandlerStep(r) \/ LateSetup(r)
       \/ KeepaliveStep \/ RemoveSession \/ ShutdownStep
       \/ FallSilent \/ Recover \/ Break

Spec == Init /\ [][Next]_vars

\* Started handlers, the keepalive and a shutdown go on when they can; bounded
\* waits end.  A network that is silent while a keepalive is out recovers or is
\* found broken.  Requests, a disconnect and trouble may never come.
Fairness ==
    /\ \A r \in Requests : WF_vars(~crashed /\ HandlerStep(r))
    /\ WF_vars(~crashed /\ KeepaliveStep) /\ WF_vars(~crashed /\ ShutdownStep)
    /\ WF_vars(~crashed /\ net = "silent" /\ keepalive = "sent" /\ (Recover \/ Break))

FairSpec == Spec /\ Fairness

-----------------------------------------------------------------------------
(* Properties                                                              *)

\* What is done once for a session is done once, however many requests want it.
\* One SFTP client is set up: every open client of a live connection is the cached
\* one, or one whose setup outlived its time limit (sftpClient holds sftpMutex
\* through the setup).  All completions are made from the same names, though they
\* read them without the mutex (ensureRemoteData).  The reporter is typed into the
\* terminal at most once (shellConfig).
DoneOnce ==
    /\ \A r \in opened : dead \/ r = sftpConn \/ r \in timedOut
    /\ \A r \in Requests : seen[r] # "unread" => seen[r] = names
    /\ reports <= 1

\* The session is given up only for a reason of the connection's own or when it
\* is shut down; a docker command that takes too long costs its channel only.
DeadHasCause == dead => trouble \/ closing = "closed"

\* Nothing hangs for good, whatever the network does: every request is answered;
\* so is a shutdown done, though it waits for the mutex of a setup in progress;
\* and the session of a broken connection is found dead without a request.
\* (shell/input may hang, see InputNeedsTerminal and WritePanics; and the process
\* may end, see PanicsAreRecovered.)
NothingHangs ==
    /\ \A r \in Requests :
         (stage[r] = "found" /\ op[r] # "input") ~> (answer[r] # "none" \/ crashed)
    /\ (closing = "removed") ~> (closing = "closed" \/ crashed)
    /\ (net = "broken") ~> (dead \/ crashed)

-----------------------------------------------------------------------------
(* Statements of the repository that the code does not keep                *)

\* main.go, withTimeout: "so a dead connection fails fast instead of hanging the
\* whole session": a setup that ran out of time marks the session dead.
TimeoutMarksDead == [][timedOut' # timedOut => dead']_vars

\* localpty_session_test.go: an input after the disconnect is answered with an
\* error.
InputNeedsTerminal ==
    \A r \in Requests : op[r] = "input" /\ answer[r] = "ok" => holdsStdin[r]

\* main.go, guardPanic: it "recovers panics in background goroutines".
PanicsAreRecovered == ~crashed
=============================================================================
