--------------------------- MODULE ShellSessions ---------------------------
(***************************************************************************)
(* The sessions of one connection and their interactive terminals: the      *)
(* registry plugin.sessions with connection/connect, connection/disconnect  *)
(* and shutdown(), the pseudo terminal's read loop, the watchdog that gives *)
(* a silent local terminal up (fallbackSession)                             *)
(* (backend/main.go, localpty.go, ssh.go).                                  *)
(*                                                                         *)
(* Connections do not share anything but locks, so one connectionId is      *)
(* modelled.  A connect request is named after the session it builds.       *)
(* Everything below runs in goroutines of its own and interleaves at every  *)
(* lock boundary.  A definition marked (variant) is a mistake somebody      *)
(* could make in the definition it precedes; no other definition uses it.   *)
(***************************************************************************)
EXTENDS Naturals, Sequences, FiniteSets

CONSTANTS
    Sessions,    \* the sessions that connect requests build
    Disconnects, \* connection/disconnect requests
    MaxChunks,   \* bound: chunks of output per terminal
    NoSession

ASSUME NoSessionAssumption == NoSession \notin Sessions
ASSUME MaxChunksAssumption == MaxChunks \in Nat
ASSUME RequestsAssumption == Sessions \intersect Disconnects = {}

VARIABLES
    kind,        \* "local" or "ssh": the provider of the connection, never changed
    current,     \* plugin.sessions[id]
    fallback,    \* plugin.fallbacks[id]
    connect,     \* per connect request: how far the handler got
    hasPty,      \* shellSession.localPty (local) or ptySession, ptyStdin (SSH) is set
    stopping,    \* shellSession.stopping
    ptyClosed,   \* shellSession.ptyClosed
    dead,        \* shellSession.dead: the SSH client was closed
    pty,         \* the terminal: "none", "open" or "closed" by Close
    shell,       \* the shell process in the terminal
    outputSeen,  \* the flag the read loop shares with the watchdog
    chunks,      \* chunks of output read so far
    reader,      \* how far the read loop of the session's terminal got
    watchdog,    \* how far the silent-terminal watchdog got
    closing,     \* per connect or disconnect request: the session it shuts down
    shut,        \* per connect or disconnect request: how far shutdown() got
    panicked,    \* requests that ran into a nil pointer (recovered by Handle)
    events       \* events about a terminal's end written to the host, in order

registryVars == <<current, fallback>>
fieldVars    == <<hasPty, stopping, ptyClosed, dead>>
terminalVars == <<pty, shell, outputSeen, chunks>>
closeVars    == <<closing, shut>>
vars == <<kind, registryVars, connect, fieldVars, terminalVars, reader, watchdog,
          closeVars, panicked, events>>

-----------------------------------------------------------------------------
Closers == Sessions \union Disconnects
SessionOrNone == Sessions \union {NoSession}
Event == [event : {"pty-closed", "legacy-fallback"}, session : Sessions]

TypeOK ==
    /\ kind \in {"local", "ssh"}
    /\ current \in SessionOrNone /\ fallback \in BOOLEAN
    /\ connect \in [Sessions -> {"new", "opening", "built", "registered", "failed"}]
    /\ hasPty \in [Sessions -> BOOLEAN] /\ stopping \in [Sessions -> BOOLEAN]
    /\ ptyClosed \in [Sessions -> BOOLEAN] /\ dead \in [Sessions -> BOOLEAN]
    /\ pty \in [Sessions -> {"none", "open", "closed"}]
    /\ shell \in [Sessions -> {"none", "running", "exited"}]
    /\ outputSeen \in [Sessions -> BOOLEAN]
    /\ chunks \in [Sessions -> 0..MaxChunks]
    /\ reader \in [Sessions -> {"none", "reading", "chunk", "ended", "closing", "done"}]
    /\ watchdog \in [Sessions -> {"none", "sleeping", "awake", "checked", "falling",
                                  "fell", "done"}]
    /\ closing \in [Closers -> SessionOrNone]
    /\ shut \in [Closers -> {"idle", "begun", "stopped", "closingPty", "ptyClosed",
                             "done"}]
    /\ panicked \subseteq Closers
    /\ events \in Seq(Event)

Init ==
    /\ kind \in {"local", "ssh"}
    /\ current = NoSession /\ fallback = FALSE
    /\ connect = [s \in Sessions |-> "new"]
    /\ hasPty = [s \in Sessions |-> FALSE] /\ stopping = [s \in Sessions |-> FALSE]
    /\ ptyClosed = [s \in Sessions |-> FALSE] /\ dead = [s \in Sessions |-> FALSE]
    /\ pty = [s \in Sessions |-> "none"] /\ shell = [s \in Sessions |-> "none"]
    /\ outputSeen = [s \in Sessions |-> FALSE] /\ chunks = [s \in Sessions |-> 0]
    /\ reader = [s \in Sessions |-> "none"] /\ watchdog = [s \in Sessions |-> "none"]
    /\ closing = [x \in Closers |-> NoSession] /\ shut = [x \in Closers |-> "idle"]
    /\ panicked = {} /\ events = <<>>

Move(f, x, from, to) == f[x] = from /\ f' = [f EXCEPT ![x] = to]
Set(f, x, value) == f' = [f EXCEPT ![x] = value]
Emit(event, s) == events' = Append(events, [event |-> event, session |-> s])

-----------------------------------------------------------------------------
(* connection/connect                                                      *)

\* A bad shell or directory, or a failed dial, ends the request.  A local
\* connection known to be silent is built without a terminal.
StartConnect(s) ==
    /\ \/ Move(connect, s, "new", "failed")
       \/ Move(connect, s, "new",
               IF kind = "local" /\ fallback THEN "built" ELSE "opening")
    /\ UNCHANGED <<kind, registryVars, fieldVars, terminalVars, reader,
                   watchdog, closeVars, panicked, events>>

\* openLocalPTY / openPTYShell: the terminal is open, its goroutines run.
OpenPty(s) ==
    /\ Move(connect, s, "opening", "built")
    /\ Set(hasPty, s, TRUE) /\ Set(pty, s, "open") /\ Set(shell, s, "running")
    /\ Set(reader, s, "reading")
    /\ Set(watchdog, s, IF kind = "local" THEN "sleeping" ELSE "none")
    /\ UNCHANGED <<kind, registryVars, stopping, ptyClosed, dead, outputSeen,
                   chunks, closeVars, panicked, events>>

\* No terminal: a local session goes on in per-command mode; over SSH the client
\* is closed and the request fails.
OpenPtyFails(s) ==
    /\ Move(connect, s, "opening", IF kind = "local" THEN "built" ELSE "failed")
    /\ Set(dead, s, kind = "ssh")
    /\ UNCHANGED <<kind, registryVars, hasPty, stopping, ptyClosed,
                   terminalVars, reader, watchdog, closeVars, panicked,
                   events>>

\* (variant) the previous session is looked up before the lock is taken: the
\* one the handler saw when it had built its session is shut down
RegisterSeen(s) ==
    /\ Move(connect, s, "built", "registered")
    /\ current' = s
    /\ \E seen \in {current, NoSession} :
         /\ Set(closing, s, seen)
         /\ Set(shut, s, IF seen = NoSession THEN "done" ELSE "begun")
    /\ UNCHANGED <<kind, fallback, fieldVars, terminalVars, reader, watchdog,
                   panicked, events>>

\* The swap under plugin.mutex; shutdown of the previous session follows.
Register(s) ==
    /\ Move(connect, s, "built", "registered")
    /\ current' = s
    /\ Set(closing, s, current)
    /\ Set(shut, s, IF current = NoSession THEN "done" ELSE "begun")
    /\ UNCHANGED <<kind, fallback, fieldVars, terminalVars, reader, watchdog,
                   panicked, events>>

\* (variant) disconnect shuts the session down but leaves it registered
RemoveKeeps(d) ==
    /\ Move(shut, d, "idle", IF current = NoSession THEN "done" ELSE "begun")
    /\ Set(closing, d, current)
    /\ UNCHANGED <<kind, registryVars, connect, fieldVars, terminalVars,
                   reader, watchdog, panicked, events>>

\* connection/disconnect: taken out of the registry, then shut down.
Remove(d) ==
    /\ Move(shut, d, "idle", IF current = NoSession THEN "done" ELSE "begun")
    /\ current' = NoSession
    /\ Set(closing, d, current)
    /\ UNCHANGED <<kind, fallback, connect, fieldVars, terminalVars, reader,
                   watchdog, panicked, events>>

-----------------------------------------------------------------------------
(* shutdown() of closing[x] by request x                                   *)

\* (variant) shutdown() leaves the stopping flag to the end
StopSessionLate(x) ==
    /\ Move(shut, x, "begun", "stopped")
    /\ UNCHANGED <<kind, registryVars, connect, fieldVars, terminalVars,
                   reader, watchdog, closing, panicked, events>>

StopSession(x) ==
    /\ Move(shut, x, "begun", "stopped")
    /\ Set(stopping, closing[x], TRUE)
    /\ UNCHANGED <<kind, registryVars, connect, hasPty, ptyClosed, dead,
                   terminalVars, reader, watchdog, closing, panicked, events>>

\* (variant) the nil test is inverted
LookAtPtyInverted(x) ==
    /\ kind = "local"
    /\ Move(shut, x, "stopped", IF hasPty[closing[x]] THEN "done" ELSE "closingPty")
    /\ UNCHANGED <<kind, registryVars, connect, fieldVars, terminalVars,
                   reader, watchdog, closing, panicked, events>>

\* The terminal is looked at without the lock: is localPty nil?
LookAtPty(x) ==
    /\ kind = "local"
    /\ Move(shut, x, "stopped", IF hasPty[closing[x]] THEN "closingPty" ELSE "done")
    /\ UNCHANGED <<kind, registryVars, connect, fieldVars, terminalVars,
                   reader, watchdog, closing, panicked, events>>

\* s.localPty is read a second time and closed; a nil pointer would panic.
ClosePty(x) ==
    /\ kind = "local"
    /\ Move(shut, x, "closingPty", "done")
    /\ IF hasPty[closing[x]]
       THEN Set(pty, closing[x], "closed") /\ UNCHANGED panicked
       ELSE panicked' = panicked \union {x} /\ UNCHANGED pty
    /\ UNCHANGED <<kind, registryVars, connect, fieldVars, shell, outputSeen,
                   chunks, reader, watchdog, closing, events>>

\* Over SSH ptySession is closed and forgotten under ptyMutex ...
ClosePtySession(x) ==
    /\ kind = "ssh"
    /\ Move(shut, x, "stopped", "ptyClosed")
    /\ Set(pty, closing[x], "closed")
    /\ Set(hasPty, closing[x], FALSE)
    /\ UNCHANGED <<kind, registryVars, connect, stopping, ptyClosed, dead,
                   shell, outputSeen, chunks, reader, watchdog, closing,
                   panicked, events>>

\* (variant) the SSH client is left open
MarkDeadSkipped(x) ==
    /\ kind = "ssh"
    /\ Move(shut, x, "ptyClosed", "done")
    /\ UNCHANGED <<kind, registryVars, connect, fieldVars, terminalVars,
                   reader, watchdog, closing, panicked, events>>

\* ... and, after the SFTP clients, the SSH client is closed (markDead).
MarkDead(x) ==
    /\ kind = "ssh"
    /\ Move(shut, x, "ptyClosed", "done")
    /\ Set(dead, closing[x], TRUE)
    /\ UNCHANGED <<kind, registryVars, connect, hasPty, stopping, ptyClosed,
                   terminalVars, reader, watchdog, closing, panicked, events>>

-----------------------------------------------------------------------------
(* The read loop of the terminal of session s                              *)

ReadChunk(s) ==
    /\ pty[s] = "open" /\ ~dead[s]
    /\ chunks[s] < MaxChunks
    /\ Move(reader, s, "reading", "chunk")
    /\ Set(outputSeen, s, TRUE)
    /\ Set(chunks, s, chunks[s] + 1)
    /\ UNCHANGED <<kind, registryVars, connect, fieldVars, pty, shell,
                   watchdog, closeVars, panicked, events>>

\* shell/output, which no property is about, is not recorded.
EmitOutput(s) ==
    /\ Move(reader, s, "chunk", "reading")
    /\ UNCHANGED <<kind, registryVars, connect, fieldVars, terminalVars,
                   watchdog, closeVars, panicked, events>>

\* The user types exit, or the shell crashes.
ShellExits(s) ==
    /\ Move(shell, s, "running", "exited")
    /\ UNCHANGED <<kind, registryVars, connect, fieldVars, pty, outputSeen,
                   chunks, reader, watchdog, closeVars, panicked, events>>

\* (variant) the loop returns at once
ReadFailsQuiet(s) ==
    /\ shell[s] = "exited" \/ pty[s] = "closed" \/ dead[s]
    /\ Move(reader, s, "reading", "done")
    /\ UNCHANGED <<kind, registryVars, connect, fieldVars, terminalVars,
                   watchdog, closeVars, panicked, events>>

\* Read fails: the shell is gone (on Windows watchExit closes the console), or
\* the terminal or the SSH client was closed.
ReadFails(s) ==
    /\ shell[s] = "exited" \/ pty[s] = "closed" \/ dead[s]
    /\ Move(reader, s, "reading", "ended")
    /\ UNCHANGED <<kind, registryVars, connect, fieldVars, terminalVars,
                   watchdog, closeVars, panicked, events>>

\* Under the lock: was it shutdown()?  If not, the shell is closed.
SampleStopping(s) ==
    /\ Move(reader, s, "ended", IF stopping[s] THEN "done" ELSE "closing")
    /\ Set(ptyClosed, s, kind = "local" /\ ~stopping[s])
    /\ UNCHANGED <<kind, registryVars, connect, hasPty, stopping, dead,
                   terminalVars, watchdog, closeVars, panicked, events>>

\* (variant) the event of the per-command mode is sent
EmitClosedAsExit(s) ==
    /\ Move(reader, s, "closing", "done")
    /\ Emit("exit", s)
    /\ UNCHANGED <<kind, registryVars, connect, fieldVars, terminalVars,
                   watchdog, closeVars, panicked>>

EmitClosed(s) ==
    /\ Move(reader, s, "closing", "done")
    /\ Emit("pty-closed", s)
    /\ UNCHANGED <<kind, registryVars, connect, fieldVars, terminalVars,
                   watchdog, closeVars, panicked>>

-----------------------------------------------------------------------------
(* The watchdog of a local terminal and fallbackSession                    *)

\* (variant) the test of outputSeen is inverted
WakeInverted(s) ==
    /\ Move(watchdog, s, "sleeping", IF outputSeen[s] THEN "awake" ELSE "done")
    /\ UNCHANGED <<kind, registryVars, connect, fieldVars, terminalVars,
                   reader, closeVars, panicked, events>>

\* Four seconds after the terminal was opened.
Wake(s) ==
    /\ Move(watchdog, s, "sleeping", IF outputSeen[s] THEN "done" ELSE "awake")
    /\ UNCHANGED <<kind, registryVars, connect, fieldVars, terminalVars,
                   reader, closeVars, panicked, events>>

WatchStopping(s) ==
    /\ Move(watchdog, s, "awake", IF stopping[s] THEN "done" ELSE "checked")
    /\ UNCHANGED <<kind, registryVars, connect, fieldVars, terminalVars,
                   reader, closeVars, panicked, events>>

\* (variant) the guard is dropped: the caller has looked at stopping
FallbackUnguarded(s) ==
    /\ Move(watchdog, s, "checked", "falling")
    /\ Set(hasPty, s, FALSE) /\ Set(stopping, s, TRUE) /\ fallback' = TRUE
    /\ UNCHANGED <<kind, current, connect, ptyClosed, dead, terminalVars,
                   reader, closeVars, panicked, events>>

\* The critical section of fallbackSession.
Fallback(s) ==
    /\ IF stopping[s] \/ ~hasPty[s]
       THEN /\ Move(watchdog, s, "checked", "done")
            /\ UNCHANGED <<hasPty, stopping, fallback>>
       ELSE /\ Move(watchdog, s, "checked", "falling")
            /\ Set(hasPty, s, FALSE) /\ Set(stopping, s, TRUE) /\ fallback' = TRUE
    /\ UNCHANGED <<kind, current, connect, ptyClosed, dead, terminalVars,
                   reader, closeVars, panicked, events>>

\* (variant) the terminal is only forgotten
FallbackForgetsPty(s) ==
    /\ Move(watchdog, s, "falling", "fell")
    /\ UNCHANGED <<kind, registryVars, connect, fieldVars, terminalVars,
                   reader, closeVars, panicked, events>>

FallbackClosesPty(s) ==
    /\ Move(watchdog, s, "falling", "fell")
    /\ Set(pty, s, "closed")
    /\ UNCHANGED <<kind, registryVars, connect, fieldVars, shell, outputSeen,
                   chunks, reader, closeVars, panicked, events>>

EmitFallback(s) ==
    /\ Move(watchdog, s, "fell", "done")
    /\ Emit("legacy-fallback", s)
    /\ UNCHANGED <<kind, registryVars, connect, fieldVars, terminalVars,
                   reader, closeVars, panicked>>

\* The keepalive or another channel finds the SSH connection broken.
ConnectionLost(s) ==
    /\ kind = "ssh" /\ pty[s] # "none" /\ ~dead[s]
    /\ Set(dead, s, TRUE)
    /\ UNCHANGED <<kind, registryVars, connect, hasPty, stopping, ptyClosed,
                   terminalVars, reader, watchdog, closeVars, panicked,
                   events>>

-----------------------------------------------------------------------------
ConnectStep(s) == OpenPty(s) \/ OpenPtyFails(s) \/ Register(s)

ShutdownStep(x) ==
    StopSession(x) \/ LookAtPty(x) \/ ClosePty(x) \/ ClosePtySession(x) \/ MarkDead(x)

ReaderStep(s) == EmitOutput(s) \/ ReadFails(s) \/ SampleStopping(s) \/ EmitClosed(s)

WatchdogStep(s) ==
    \/ Wake(s) \/ WatchStopping(s) \/ Fallback(s)
    \/ FallbackClosesPty(s) \/ EmitFallback(s)

Next ==
    \/ \E s \in Sessions : StartConnect(s) \/ ConnectStep(s)
    \/ \E d \in Disconnects : Remove(d)
    \/ \E x \in Closers : ShutdownStep(x)
    \/ \E s \in Sessions :
         \/ ReadChunk(s) \/ ReaderStep(s) \/ WatchdogStep(s)
         \/ ShellExits(s) \/ ConnectionLost(s)

Spec == Init /\ [][Next]_vars

\* Started goroutines are scheduled and bounded waits end.  Requests, output, the
\* exit of a shell and the loss of a connection may never come.
Fairness ==
    /\ \A s \in Sessions :
         WF_vars(ConnectStep(s)) /\ WF_vars(ReaderStep(s)) /\ WF_vars(WatchdogStep(s))
    /\ \A x \in Closers : WF_vars(ShutdownStep(x))

FairSpec == Spec /\ Fairness

-----------------------------------------------------------------------------
(* Properties                                                              *)

Announced(event, s) ==
    \E n \in DOMAIN events : events[n] = [event |-> event, session |-> s]
BeingShutDown(s) == \E x \in Closers : closing[x] = s

\* Each session leaves the registry through exactly one request, which shuts it
\* down, and no request shuts the registered session down (connect's swap and
\* disconnect's delete, both under plugin.mutex).  So an open terminal always has
\* somebody who will close it: it belongs to the registered session, to one still
\* being connected or shut down, or to the fallback that took it; a terminal with
\* a finished shell may wait there too.
OneCloser ==
    /\ \A x, y \in Closers : closing[x] # NoSession /\ closing[x] = closing[y] => x = y
    /\ current # NoSession => ~BeingShutDown(current)
    /\ \A s \in Sessions :
         pty[s] = "open" =>
           \/ s = current
           \/ connect[s] = "built"
           \/ \E x \in Closers : closing[x] = s /\ shut[x] # "done"
           \/ watchdog[s] = "falling"

\* shutdown() reads localPty twice without the lock; fallbackSession, which sets
\* it to nil, cannot come between, because stopping is set first.
NoPanicInShutdown == panicked = {}

\* shell/pty-closed reports a shell that exited or a connection that was lost,
\* never the plugin's own closing of the terminal (a disconnect, a reconnect and
\* the fallback to per-command mode must not look like an exit).
ClosedMeansExited ==
    \A s \in Sessions : Announced("pty-closed", s) => shell[s] = "exited" \/ dead[s]

\* The shell of the registered session exits: the user is told, unless the
\* session is being closed or given up anyway.
ExitAnnounced ==
    \A s \in Sessions :
      shell[s] = "exited" ~> (Announced("pty-closed", s) \/ stopping[s])

\* A session taken out of the registry loses its terminal, and its SSH client.
ClosedSessionsEnd ==
    \A s \in Sessions :
      BeingShutDown(s) ~> (pty[s] # "open" /\ (kind = "ssh" => dead[s]))

\* A local terminal that stays silent is given up and the UI is told, unless the
\* session is shut down first; the connection is remembered.
SilentFallsBack ==
    \A s \in Sessions :
      (kind = "local" /\ pty[s] = "open")
        ~> \/ outputSeen[s] \/ BeingShutDown(s)
           \/ Announced("legacy-fallback", s) /\ fallback

-----------------------------------------------------------------------------
(* Statements of the repository that the code does not keep                *)

\* ssh.go: "A replaced (shutdown) session must not announce its own closure over
\* the shared connectionId."
ReplacedStaysSilent ==
    [][\A s \in Sessions : ~Announced("pty-closed", s) /\ Announced("pty-closed", s)'
         => ~stopping[s]]_vars
=============================================================================
