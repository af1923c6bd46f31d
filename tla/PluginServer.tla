---------------------------- MODULE PluginServer ----------------------------
(***************************************************************************)
(* The plugin as a process beside its host (the vendored sdk.go, Serve, and *)
(* backend/main.go, Handle and main): lines are read one after the other,   *)
(* every request gets a goroutine, and at the end of the input Serve waits  *)
(* for those that run.  Nothing but the process's end shuts the sessions.   *)
(*                                                                         *)
(* What a handler does is in the other modules; here it ends, with a result *)
(* or an error, by a panic, or with an answer that is too large.            *)
(*                                                                         *)
(* A definition marked (variant) is a mistake somebody could make in the    *)
(* definition it precedes; no other definition uses it.                     *)
(***************************************************************************)
EXTENDS Naturals, Sequences, FiniteSets

CONSTANTS
    Lines,   \* the lines the host sends
    Endless  \* those whose handler does not end: a call without a time limit

VARIABLES
    kind,     \* what a line is: "call", "note" (no id), "initialize" or "junk"
    progress,\* how far the handling of a line got
    outcome,  \* what its handler ended with
    answered,  \* lines answered, in the order of writing
    serving,  \* Serve: "reading", "draining"; "returned", "failed": the process ends
    input,    \* standard input: "open", "ended" or "broken" (a line is too long)
    host      \* the host takes what is written

vars == <<kind, progress, outcome, answered, serving, input, host>>

-----------------------------------------------------------------------------
TypeOK ==
    /\ kind \in [Lines -> {"call", "note", "initialize", "junk"}]
    /\ progress \in [Lines -> {"unread", "handling", "ended", "over"}]
    /\ outcome \in [Lines -> {"none", "result", "error", "panic", "too large"}]
    /\ answered \in Seq(Lines)
    /\ serving \in {"reading", "draining", "returned", "failed"}
    /\ input \in {"open", "ended", "broken"} /\ host \in BOOLEAN

Init ==
    /\ kind \in [Lines -> {"call", "note", "initialize", "junk"}]
    /\ progress = [l \in Lines |-> "unread"] /\ outcome = [l \in Lines |-> "none"]
    /\ answered = <<>>
    /\ serving = "reading" /\ input = "open" /\ host = TRUE

Move(l, from, to) == progress[l] = from /\ progress' = [progress EXCEPT ![l] = to]
Lives == serving \in {"reading", "draining"}
Workers == {l \in Lines : progress[l] \in {"handling", "ended"}}

\* Emitter.respond, under the writer's mutex: written whole, or not at all.  To
\* write to a host that is gone fails, or ends the process (SIGPIPE).
Answer(l) ==
    IF host
    THEN /\ answered' = IF outcome[l] = "too large" THEN answered ELSE Append(answered, l)
         /\ UNCHANGED serving
    ELSE serving' \in {serving, "failed"} /\ UNCHANGED answered

\* A request is handed to a goroutine, a line that is none is only logged.
ReadLine(l) ==
    /\ serving = "reading" /\ input = "open"
    /\ kind[l] # "initialize"
    /\ Move(l, "unread", IF kind[l] = "junk" THEN "over" ELSE "handling")
    /\ UNCHANGED <<kind, outcome, answered, serving, input, host>>

\* Answered before the next line is read.  If that fails, Serve returns its error
\* and waits for nobody.
ReadInitialize(l) ==
    /\ serving = "reading" /\ input = "open"
    /\ kind[l] = "initialize"
    /\ Move(l, "unread", "over")
    /\ IF host THEN Answer(l) ELSE serving' = "failed" /\ UNCHANGED answered
    /\ UNCHANGED <<kind, outcome, input, host>>

\* Handle: a panic is recovered and leaves an empty result.
HandlerEnds(l) ==
    /\ Lives /\ l \notin Endless
    /\ Move(l, "handling", "ended")
    /\ \E o \in {"result", "error", "panic", "too large"} :
         outcome' = [outcome EXCEPT ![l] = o]
    /\ UNCHANGED <<kind, answered, serving, input, host>>

\* What has no id gets no answer; what cannot be written is only logged.
Respond(l) ==
    /\ Lives
    /\ Move(l, "ended", "over")
    /\ IF kind[l] = "call" THEN Answer(l) ELSE UNCHANGED <<answered, serving>>
    /\ UNCHANGED <<kind, outcome, input, host>>

StopReading ==
    /\ serving = "reading" /\ input # "open"
    /\ serving' = "draining"
    /\ UNCHANGED <<kind, progress, outcome, answered, input, host>>

\* (variant) nobody waits for the requests in flight
ReturnAtOnce ==
    /\ serving = "draining"
    /\ serving' = IF input = "broken" THEN "failed" ELSE "returned"
    /\ UNCHANGED <<kind, progress, outcome, answered, input, host>>

\* main returns, or logs the error of the input: the process ends.
Return ==
    /\ serving = "draining" /\ Workers = {}
    /\ serving' = IF input = "broken" THEN "failed" ELSE "returned"
    /\ UNCHANGED <<kind, progress, outcome, answered, input, host>>

\* The host closes the pipes, or writes a line that is too long.
CloseInput ==
    /\ input = "open" /\ input' \in {"ended", "broken"}
    /\ UNCHANGED <<kind, progress, outcome, answered, serving, host>>

CloseOutput ==
    /\ host /\ host' = FALSE
    /\ UNCHANGED <<kind, progress, outcome, answered, serving, input>>

-----------------------------------------------------------------------------
WorkerStep(l) == HandlerEnds(l) \/ Respond(l)
ServeStep == StopReading \/ Return

Next ==
    \/ \E l \in Lines : ReadLine(l) \/ ReadInitialize(l) \/ WorkerStep(l)
    \/ ServeStep \/ CloseInput \/ CloseOutput

Spec == Init /\ [][Next]_vars

\* Workers and Serve go on.  Lines, and the end of the input, may never come.
Fairness ==
    /\ \A l \in Lines : WF_vars(WorkerStep(l))
    /\ WF_vars(ServeStep)

-----------------------------------------------------------------------------
(* Properties                                                              *)

Answered(l) == \E n \in DOMAIN answered : answered[n] = l

\* When Serve returns no handler is running any more, and every request that was
\* read is answered once, however its handler ended; nothing else is answered.  The
\* exceptions: an answer that is too large is not written, and a host that is gone
\* gets none and may end the process (Serve, Handle).
ServesAll ==
    /\ \A m, n \in DOMAIN answered : answered[m] = answered[n] => m = n
    /\ \A l \in Lines : Answered(l) => kind[l] \in {"call", "initialize"}
    /\ serving = "returned" \/ (~Lives /\ host) => Workers = {}
    /\ \A l \in Lines :
         kind[l] = "call" /\ progress[l] # "unread" =>
           \/ Answered(l) \/ (Lives /\ l \in Workers)
           \/ outcome[l] = "too large" \/ ~host

\* Nothing is in flight but handlers that never end; and without those Serve has
\* returned if its input ended.
Settled == ~Lives \/ (Workers \subseteq Endless /\ (input # "open" => Workers # {}))
=============================================================================
