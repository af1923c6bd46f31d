--------------------------- MODULE TerminalPanel ---------------------------
(***************************************************************************)
(* The per-command view of the workbench page (ui/index.html) on top of a   *)
(* session: the page submits commands, the plugin answers the requests and  *)
(* sends events.  The session is the abstract CommandSlot, which ShellExec  *)
(* implements.  The host between them is external: it hands the page the    *)
(* events in the order they were sent, and settles the promises of invoke() *)
(* in any order with respect to each other and to the events.               *)
(*                                                                         *)
(* An event carries a connectionId and nothing that names the command, and  *)
(* the page gets the events of all connections: "Foreign" are commands of   *)
(* other connections.                                                       *)
(*                                                                         *)
(* A definition marked (variant) is a mistake somebody could make in the    *)
(* definition it precedes; no other definition uses it.                     *)
(***************************************************************************)
EXTENDS CommandSlot, Naturals, FiniteSets

CONSTANTS
    Foreign,   \* commands of other connections: one event each
    MaxChunks, \* bound: chunks of output per command
    MaxOpens   \* bound: how often the page is opened again

ASSUME ForeignAssumption ==
    Foreign \intersect Commands = {} /\ NoCommand \notin Foreign \union Commands
ASSUME BoundsAssumption == MaxChunks \in Nat /\ MaxOpens \in Nat

VARIABLES
    request,    \* shell/exec of each command: how far its handler got
    produced,   \* chunks of output each command has written
    events,     \* events sent and not handled by the page yet, in order
    answers,    \* answers sent whose promise is not settled yet
    ready,      \* page: shell/cwd was answered, the input line can be used
    running,    \* page: running
    currentOut, \* page: the command whose block is currentOut
    awaited,    \* page: commands whose invoke() is pending
    retry,      \* page: a retry button is shown (bound: one)
    opens,      \* how often the page was opened again
    shown,      \* chunks shown in the block of each command, in order
    ended,      \* commands the page has taken for ended
    disturbed   \* the page lost track of its command, see Properties

handlerVars == <<request, produced>>
pageVars    == <<ready, running, currentOut, awaited, retry>>
shownVars   == <<shown, ended, disturbed>>
vars == <<slotVars, handlerVars, events, answers, pageVars, opens, shownVars>>

-----------------------------------------------------------------------------
AllCommands == Commands \union Foreign
Chunk == [cmd : AllCommands, n : 0..MaxChunks]
Event == [type : {"output", "exit"}, cmd : AllCommands, n : 0..MaxChunks]
Answer == [type : {"started", "busy", "failed", "gone"}, cmd : Commands]
            \union [type : {"loaded", "unloaded"}, cmd : {NoCommand}]

Send(type, c, n) == events' = Append(events, [type |-> type, cmd |-> c, n |-> n])
Reply(type, c) == answers' = answers \union {[type |-> type, cmd |-> c]}

TypeOK ==
    /\ slot \in Commands \union {NoCommand}
    /\ fresh \subseteq Commands /\ unreported \subseteq Commands
    /\ reported \in Seq(Commands)
    /\ request \in [Commands -> {"none", "sent", "claimed", "started", "answered"}]
    /\ produced \in [AllCommands -> 0..MaxChunks]
    /\ events \in Seq(Event) /\ answers \subseteq Answer
    /\ {ready, running, retry, disturbed} \subseteq BOOLEAN
    /\ currentOut \in Commands \union {NoCommand}
    /\ running => currentOut # NoCommand
    /\ awaited \subseteq Commands /\ ended \subseteq Commands
    /\ opens \in 0..MaxOpens
    /\ shown \in [Commands -> Seq(Chunk)]

\* The page has just been opened and has sent shell/cwd.
Init ==
    /\ SlotInit
    /\ request = [c \in Commands |-> "none"]
    /\ produced = [c \in AllCommands |-> 0]
    /\ events = <<>>
    /\ answers \in {{[type |-> t, cmd |-> NoCommand]} : t \in {"loaded", "unloaded"}}
    /\ ready = FALSE /\ running = FALSE /\ currentOut = NoCommand
    /\ awaited = {} /\ retry = FALSE
    /\ opens = 0
    /\ shown = [c \in Commands |-> <<>>] /\ ended = {} /\ disturbed = FALSE

Step(c, from, to) == request[c] = from /\ request' = [request EXCEPT ![c] = to]

\* Commands that were submitted and whose end the page does not know.
Pending == {c \in Commands : request[c] # "none" /\ c \notin ended}

-----------------------------------------------------------------------------
(* The page: what the user does                                            *)

\* submitCommand with a command that is not blank.
Submit(c) ==
    /\ ready /\ ~running
    /\ Step(c, "none", "sent")
    /\ running' = TRUE
    /\ currentOut' = c
    /\ awaited' = awaited \union {c}
    /\ UNCHANGED <<slotVars, produced, events, answers, ready, retry, opens, shownVars>>

\* The tab is closed and opened again, or reloaded: nothing of the page is left,
\* and it asks for the session.
Reopen ==
    /\ opens < MaxOpens
    /\ opens' = opens + 1
    /\ ready' = FALSE /\ running' = FALSE /\ currentOut' = NoCommand
    /\ awaited' = {} /\ retry' = FALSE
    /\ \E t \in {"loaded", "unloaded"} :
         answers' = {a \in answers : a.cmd # NoCommand}
                      \union {[type |-> t, cmd |-> NoCommand]}
    /\ disturbed' = (disturbed \/ Pending # {})
    /\ UNCHANGED <<slotVars, handlerVars, events, shown, ended>>

\* The retry button disappears and loadSession asks for the session again.
Retry ==
    /\ retry
    /\ retry' = FALSE
    /\ \E t \in {"loaded", "unloaded"} : Reply(t, NoCommand)
    /\ UNCHANGED <<slotVars, handlerVars, events, ready, running, currentOut, awaited,
                   opens, shownVars>>

-----------------------------------------------------------------------------
(* The plugin: execCommand, the command, wait()                            *)

\* "Another command is still running".
RefuseBusy(c) ==
    /\ slot # NoCommand
    /\ Step(c, "sent", "answered")
    /\ Reply("busy", c)
    /\ UNCHANGED <<slotVars, produced, events, pageVars, opens, shownVars>>

\* The connection was disconnected: "Session is not connected".
RefuseGone(c) ==
    /\ Step(c, "sent", "answered")
    /\ Reply("gone", c)
    /\ UNCHANGED <<slotVars, produced, events, pageVars, opens, shownVars>>

Claim(c) ==
    /\ Acquire(c)
    /\ Step(c, "sent", "claimed")
    /\ UNCHANGED <<produced, events, answers, pageVars, opens, shownVars>>

\* "Failed to start command", after the session was freed.
StartFails(c) ==
    /\ GiveUp(c)
    /\ Step(c, "claimed", "answered")
    /\ Reply("failed", c)
    /\ UNCHANGED <<produced, events, pageVars, opens, shownVars>>

\* The process runs; its output and its end may overtake the answer.
Start(c) ==
    /\ Step(c, "claimed", "started")
    /\ UNCHANGED <<slotVars, produced, events, answers, pageVars, opens, shownVars>>

AnswerStarted(c) ==
    /\ Step(c, "started", "answered")
    /\ Reply("started", c)
    /\ UNCHANGED <<slotVars, produced, events, pageVars, opens, shownVars>>

Runs(c) == slot = c /\ request[c] \in {"started", "answered"}

\* streamWriter.Write: a chunk goes out before the process is waited for.
WriteOutput(c) ==
    /\ Runs(c)
    /\ produced[c] < MaxChunks
    /\ produced' = [produced EXCEPT ![c] = @ + 1]
    /\ Send("output", c, produced[c] + 1)
    /\ UNCHANGED <<slotVars, request, answers, pageVars, opens, shownVars>>

\* wait() frees the session under its lock ...
CommandFinishes(c) ==
    /\ Runs(c)
    /\ Finish(c)
    /\ UNCHANGED <<handlerVars, events, answers, pageVars, opens, shownVars>>

\* ... and sends shell/exit after that.
SendExit(c) ==
    /\ Report(c)
    /\ Send("exit", c, 0)
    /\ UNCHANGED <<handlerVars, answers, pageVars, opens, shownVars>>

\* Another session of the plugin sends an event over the same pipe.
ForeignEvent(f) ==
    /\ produced[f] = 0
    /\ produced' = [produced EXCEPT ![f] = MaxChunks]
    /\ \E type \in {"output", "exit"} : Send(type, f, 0)
    /\ UNCHANGED <<slotVars, request, answers, pageVars, opens, shownVars>>

-----------------------------------------------------------------------------
(* The page: handleEvent                                                   *)

Takes(type) == events # <<>> /\ Head(events).type = type /\ events' = Tail(events)
From == Head(events).cmd

IgnoreForeign ==
    /\ Takes("output") \/ Takes("exit")
    /\ From \in Foreign
    /\ UNCHANGED <<slotVars, handlerVars, answers, pageVars, opens, shownVars>>

\* (variant) the connectionId of the event is not looked at
HandleOutputOfAll ==
    /\ Takes("output")
    /\ currentOut # NoCommand
    /\ shown' = [shown EXCEPT ![currentOut] =
                   Append(@, [cmd |-> From, n |-> Head(events).n])]
    /\ UNCHANGED <<slotVars, handlerVars, answers, pageVars, opens, ended, disturbed>>

\* Output goes to the current block, whichever command wrote it.
HandleOutput ==
    /\ Takes("output") /\ From \in Commands
    /\ currentOut # NoCommand
    /\ shown' = [shown EXCEPT ![currentOut] =
                   Append(@, [cmd |-> From, n |-> Head(events).n])]
    /\ UNCHANGED <<slotVars, handlerVars, answers, pageVars, opens, ended, disturbed>>

\* An exit ends the command the page is running, whichever it is of.
HandleExit ==
    /\ Takes("exit") /\ From \in Commands
    /\ running
    /\ running' = FALSE /\ currentOut' = NoCommand
    /\ ended' = ended \union {currentOut}
    /\ UNCHANGED <<slotVars, handlerVars, answers, ready, awaited, retry, opens, shown,
                   disturbed>>

\* Without a block there is nowhere to show output, and without a running
\* command an exit means nothing.
HandleNothing ==
    /\ \/ Takes("output") /\ currentOut = NoCommand
       \/ Takes("exit") /\ ~running
    /\ From \in Commands
    /\ UNCHANGED <<slotVars, handlerVars, answers, pageVars, opens, shownVars>>

-----------------------------------------------------------------------------
(* The page: a promise is settled                                          *)

Settles(types, a) == a \in answers /\ a.type \in types /\ answers' = answers \ {a}

\* (variant) the answer is taken for the end of the command
HandleStartedEnds ==
    /\ \E a \in answers : Settles({"started"}, a) /\ awaited' = awaited \ {a.cmd}
    /\ running' = FALSE
    /\ UNCHANGED <<slotVars, handlerVars, events, ready, currentOut, retry, opens,
                   shownVars>>

\* The answer brings nothing the per-command view of a local session uses.
HandleStarted ==
    /\ \E a \in answers : Settles({"started"}, a) /\ awaited' = awaited \ {a.cmd}
    /\ UNCHANGED <<slotVars, handlerVars, events, ready, running, currentOut, retry,
                   opens, shownVars>>

Refused == {"busy", "failed", "gone"}

\* (variant) the catch clause leaves the page running
HandleRefusedKeepsRunning ==
    /\ \E a \in answers : Settles(Refused, a) /\ awaited' = awaited \ {a.cmd}
    /\ UNCHANGED <<slotVars, handlerVars, events, ready, running, currentOut, retry,
                   opens, shownVars>>

\* (variant) the catch clause forgets the block and not the state
HandleRefusedHalf ==
    \E a \in answers :
      /\ Settles(Refused, a)
      /\ awaited' = awaited \ {a.cmd}
      /\ currentOut' = NoCommand
      /\ UNCHANGED <<slotVars, handlerVars, events, ready, running, retry, opens,
                     shownVars>>

\* invoke() rejects: the catch clause of submitCommand, unless the page that
\* called it is gone.
HandleRefused ==
    \E a \in answers :
      /\ Settles(Refused, a)
      /\ awaited' = awaited \ {a.cmd}
      /\ IF a.cmd \in awaited
         THEN /\ running' = FALSE /\ currentOut' = NoCommand
              /\ retry' = (retry \/ a.type = "gone")
              /\ ended' = ended \union {a.cmd}
         ELSE UNCHANGED <<running, currentOut, retry, ended>>
      /\ UNCHANGED <<slotVars, handlerVars, events, ready, opens, shown, disturbed>>

\* loadSession goes on after shell/cwd: setRunning(false), whatever runs.
HandleLoaded ==
    /\ \E a \in answers : Settles({"loaded"}, a)
    /\ ready' = TRUE
    /\ running' = FALSE
    /\ disturbed' = (disturbed \/ running)
    /\ UNCHANGED <<slotVars, handlerVars, events, currentOut, awaited, retry, opens,
                   shown, ended>>

\* shell/cwd was refused: a retry button.
HandleUnloaded ==
    /\ \E a \in answers : Settles({"unloaded"}, a)
    /\ retry' = TRUE
    /\ UNCHANGED <<slotVars, handlerVars, events, ready, running, currentOut, awaited,
                   opens, shownVars>>

-----------------------------------------------------------------------------
HandlerStep(c) ==
    \/ RefuseBusy(c) \/ RefuseGone(c) \/ Claim(c)
    \/ StartFails(c) \/ Start(c) \/ AnswerStarted(c)

HandleEvent == IgnoreForeign \/ HandleOutput \/ HandleExit \/ HandleNothing
HandleAnswer == HandleStarted \/ HandleRefused \/ HandleLoaded \/ HandleUnloaded

Next ==
    \/ \E c \in Commands :
         \/ Submit(c) \/ HandlerStep(c)
         \/ WriteOutput(c) \/ CommandFinishes(c) \/ SendExit(c)
    \/ \E f \in Foreign : ForeignEvent(f)
    \/ Reopen \/ Retry \/ HandleEvent \/ HandleAnswer

Spec == Init /\ [][Next]_vars

\* Handlers and wait() go on, every command ends, and the page handles its
\* events and settles its promises.
Fairness ==
    /\ \A c \in Commands :
         /\ WF_vars(HandlerStep(c))
         /\ WF_vars(CommandFinishes(c))
         /\ WF_vars(SendExit(c))
    /\ WF_vars(HandleEvent)
    /\ WF_vars(HandleStarted \/ HandleRefused)

FairSpec == Spec /\ Fairness

-----------------------------------------------------------------------------
(* Properties.  The page cannot tell whose events it gets.  It loses track  *)
(* ("disturbed") when it is opened again while a command is pending, and    *)
(* when the answer to a retry comes while it runs a command; OwnOutput and  *)
(* IdleMeansDone are about a page that has not.                             *)

\* Every chunk is shown in the block of the command that wrote it, once and in
\* order, and none is missing when the page takes the command for ended: nothing
\* of a command is still on its way when the next one gets the block
\* (streamWriter.Write, wait, handleEvent).
OwnOutput ==
    ~disturbed => \A c \in Commands :
      /\ \A i \in DOMAIN shown[c] : shown[c][i] = [cmd |-> c, n |-> i]
      /\ c \in ended => Len(shown[c]) = produced[c]

\* The input line comes back only when the plugin is through with everything
\* that was submitted, so the user of one page that keeps track never meets
\* "Another command is still running" (execCommand).
IdleMeansDone ==
    ~disturbed =>
      /\ ready /\ ~running => Pending = {} /\ slot = NoCommand /\ unreported = {}
      /\ \A a \in answers : a.type # "busy"
=============================================================================
