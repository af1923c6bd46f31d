--------------------------- MODULE MCParts_proofs ---------------------------
(***************************************************************************)
(* Proofs about TerminalPanel, which MCParts extends, for any commands,     *)
(* chunks and reloads; about PluginServer, for any lines of the host; and   *)
(* about the five parts together, with what Streams_proofs and              *)
(* FileSystem_proofs prove of the other three.                              *)
(***************************************************************************)
EXTENDS MCParts, SequenceTheorems, FiniteSetTheorems, TLAPS

-----------------------------------------------------------------------------
(* How far the handler of a command got                                    *)

Refusals == {a \in answers : a.type \in Refused}

\* A command holds the session from its claim on, writes only then, and is due to
\* be reported only after that.
CommandOK(c) ==
    /\ slot = c => c \notin fresh /\ request[c] \in {"claimed", "started", "answered"}
    /\ c \in unreported => /\ slot # c /\ c \notin fresh
                           /\ request[c] \in {"started", "answered"}
    /\ c \in fresh => produced[c] = 0
    /\ request[c] \in {"none", "sent"} => c \in fresh
    /\ request[c] = "claimed" => slot = c /\ produced[c] = 0

\* A command is answered when its handler is through.
AnswersOK == \A a \in answers : a.cmd \in Commands => request[a.cmd] = "answered"

HandlerInv == (\A c \in Commands : CommandOK(c)) /\ AnswersOK

-----------------------------------------------------------------------------
(* What is on its way to the page                                          *)

Ours(i) == events[i].cmd \in Commands
Output(i) == Ours(i) /\ events[i].type = "output"
Exit(i) == Ours(i) /\ events[i].type = "exit"

ExitSent == \E i \in DOMAIN events : Exit(i)

\* Nothing of this connection.
NothingSent == \A i \in DOMAIN events : ~Ours(i)

\* Of one command alone: what it wrote and the page has not shown, in order and
\* without a gap, and after that at most its exit.
SentBy(c) ==
    /\ \A i \in DOMAIN events : Ours(i) => events[i].cmd = c
    /\ \A i \in DOMAIN events : Output(i) => events[i].n \in Len(shown[c]) + 1..produced[c]
    /\ \A i, j \in DOMAIN events : Output(i) /\ Output(j) /\ i < j => events[i].n < events[j].n
    /\ \A n \in Len(shown[c]) + 1..produced[c] :
         \E i \in DOMAIN events : Output(i) /\ events[i].n = n
    /\ \A i, j \in DOMAIN events : Exit(i) /\ i < j => ~Ours(j)

-----------------------------------------------------------------------------
(* A page that has not lost track                                          *)

\* The blocks hold what was written, and all of it when the command has ended.
BlockOK(c) ==
    /\ \A i \in DOMAIN shown[c] : shown[c][i] = [cmd |-> c, n |-> i]
    /\ Len(shown[c]) <= produced[c]
    /\ c \in ended => Len(shown[c]) = produced[c] /\ request[c] \in {"started", "answered"}

\* Everything submitted is over, for the page and for the session.
AllOver == Pending = {} /\ slot = NoCommand /\ unreported = {} /\ NothingSent /\ Refusals = {}

\* The page waits for c, and only c can have the session, send events or be refused.
Waiting(c) ==
    /\ c \in Commands /\ Pending = {c}
    /\ slot \in {c, NoCommand} /\ unreported \subseteq {c}
    /\ request[c] \in {"sent", "claimed", "started"} => c \in awaited
    /\ SentBy(c)
    /\ ExitSent => /\ slot = NoCommand /\ unreported = {}
                   /\ request[c] \in {"started", "answered"}
    /\ \A a \in Refusals :
         /\ a.cmd = c /\ a.type # "busy" /\ \A b \in answers : b.cmd = c => b = a
         /\ slot = NoCommand /\ unreported = {} /\ NothingSent
         /\ produced[c] = 0 /\ c \in awaited

PageInv ==
    /\ \A c \in Commands : BlockOK(c)
    /\ ~running => AllOver
    /\ running => Waiting(currentOut)

Inv == TypeOK /\ HandlerInv /\ (~disturbed => PageInv)

-----------------------------------------------------------------------------
(* Sending and handling one event                                          *)

LEMMA EventSent ==
    ASSUME NEW e \in Event, events \in Seq(Event), events' = Append(events, e)
    PROVE /\ events' \in Seq(Event)
          /\ DOMAIN events = 1..Len(events) /\ DOMAIN events' = 1..Len(events) + 1
          /\ Len(events) \in Nat
          /\ \A i \in 1..Len(events) : events'[i] = events[i]
          /\ events'[Len(events) + 1] = e
  BY AppendProperties, LenProperties

LEMMA EventTaken ==
    ASSUME events \in Seq(Event), events # <<>>, events' = Tail(events)
    PROVE /\ events' \in Seq(Event)
          /\ Head(events) = events[1] /\ Head(events) \in Event
          /\ DOMAIN events = 1..Len(events) /\ DOMAIN events' = 1..Len(events) - 1
          /\ Len(events) \in Nat \ {0}
          /\ \A i \in 1..Len(events) - 1 : events'[i] = events[i + 1]
<1>1. Head(events) = events[1]
  OBVIOUS
<1>2. events' \in Seq(Event) /\ Head(events) \in Event
  BY HeadTailProperties
<1>3. Len(events) \in Nat \ {0} /\ DOMAIN events = 1..Len(events)
  BY EmptySeq, LenProperties
<1>4. Len(events') = Len(events) - 1 /\ \A i \in 1..Len(events') : events'[i] = events[i + 1]
  BY HeadTailProperties
<1>5. DOMAIN events' = 1..Len(events')
  BY <1>2, LenProperties
<1>6. QED
  BY <1>1, <1>2, <1>3, <1>4, <1>5

-----------------------------------------------------------------------------
(* Every variable has its type                                             *)

LEMMA EventTypes ==
    ASSUME NEW c \in AllCommands, NEW n \in 0..MaxChunks
    PROVE  /\ [type |-> "output", cmd |-> c, n |-> n] \in Event
           /\ [type |-> "exit", cmd |-> c, n |-> n] \in Event
  BY DEF Event

\* The types hold at first and every step keeps them.
LEMMA TypeInit == Init => TypeOK
<1>1. ASSUME Init PROVE 0 \in 0..MaxChunks /\ 0 \in 0..MaxOpens
  BY BoundsAssumption
<1>2. ASSUME Init PROVE answers \subseteq Answer
  BY <1>2 DEF Init, Answer
<1>3. ASSUME Init PROVE /\ events \in Seq(Event) /\ reported \in Seq(Commands)
                        /\ shown \in [Commands -> Seq(Chunk)]
  BY <1>3, EmptySeq DEF Init, SlotInit
<1>4. QED
  BY <1>1, <1>2, <1>3 DEF Init, SlotInit, TypeOK

LEMMA TypeStep == TypeOK /\ [Next]_vars => TypeOK'
<1> SUFFICES ASSUME TypeOK, [Next]_vars PROVE TypeOK'
  OBVIOUS
<1> USE BoundsAssumption, ForeignAssumption DEF TypeOK
<1>1. ASSUME NEW c \in Commands, Submit(c) PROVE TypeOK'
  BY <1>1 DEF Submit, Step, slotVars, shownVars
<1>2. ASSUME NEW c \in Commands, HandlerStep(c) PROVE TypeOK'
  <2>1. CASE RefuseBusy(c)
    BY <2>1 DEF RefuseBusy, Step, Reply, Answer, slotVars, pageVars, shownVars
  <2>2. CASE RefuseGone(c)
    BY <2>2 DEF RefuseGone, Step, Reply, Answer, slotVars, pageVars, shownVars
  <2>3. CASE Claim(c)
    BY <2>3 DEF Claim, Acquire, Step, pageVars, shownVars
  <2>4. CASE StartFails(c)
    BY <2>4 DEF StartFails, GiveUp, Step, Reply, Answer, pageVars, shownVars
  <2>5. CASE Start(c)
    BY <2>5 DEF Start, Step, slotVars, pageVars, shownVars
  <2>6. CASE AnswerStarted(c)
    BY <2>6 DEF AnswerStarted, Step, Reply, Answer, slotVars, pageVars, shownVars
  <2>7. QED
    BY <1>2, <2>1, <2>2, <2>3, <2>4, <2>5, <2>6 DEF HandlerStep
<1>3. ASSUME NEW c \in Commands, WriteOutput(c) PROVE TypeOK'
  <2>1. produced[c] + 1 \in 0..MaxChunks /\ c \in AllCommands
    BY <1>3 DEF WriteOutput, AllCommands
  <2>2. events' \in Seq(Event)
    BY <1>3, <2>1, EventTypes, EventSent DEF WriteOutput, Send
  <2>3. QED
    BY <1>3, <2>1, <2>2 DEF WriteOutput, slotVars, pageVars, shownVars
<1>4. ASSUME NEW c \in Commands, CommandFinishes(c) PROVE TypeOK'
  BY <1>4 DEF CommandFinishes, Finish, handlerVars, pageVars, shownVars
<1>5. ASSUME NEW c \in Commands, SendExit(c) PROVE TypeOK'
  <2>1. 0 \in 0..MaxChunks /\ c \in AllCommands
    BY DEF AllCommands
  <2>2. events' \in Seq(Event)
    BY <1>5, <2>1, EventTypes, EventSent DEF SendExit, Send
  <2>3. reported' \in Seq(Commands)
    BY <1>5, AppendProperties DEF SendExit, Report
  <2>4. QED
    BY <1>5, <2>2, <2>3 DEF SendExit, Report, handlerVars, pageVars, shownVars
<1>6. ASSUME NEW f \in Foreign, ForeignEvent(f) PROVE TypeOK'
  <2>1. 0 \in 0..MaxChunks /\ MaxChunks \in 0..MaxChunks /\ f \in AllCommands
    BY DEF AllCommands
  <2>2. events' \in Seq(Event)
    BY <1>6, <2>1, EventTypes, EventSent DEF ForeignEvent, Send
  <2>3. QED
    BY <1>6, <2>1, <2>2 DEF ForeignEvent, slotVars, pageVars, shownVars
<1>7. CASE Reopen
  <2>1. opens' \in 0..MaxOpens
    BY <1>7 DEF Reopen
  <2>2. answers' \subseteq Answer
    BY <1>7 DEF Reopen, Answer
  <2>3. disturbed' \in BOOLEAN
    BY <1>7 DEF Reopen
  <2>4. QED
    BY <1>7, <2>1, <2>2, <2>3 DEF Reopen, slotVars, handlerVars
<1>8. CASE Retry
  <2>1. answers' \subseteq Answer
    BY <1>8 DEF Retry, Reply, Answer
  <2>2. QED
    BY <1>8, <2>1 DEF Retry, slotVars, handlerVars, shownVars
<1>9. ASSUME NEW type \in {"output", "exit"}, Takes(type)
      PROVE events' \in Seq(Event) /\ Head(events) \in Event
  BY <1>9, EventTaken DEF Takes
<1>10. CASE IgnoreForeign
  BY <1>9, <1>10 DEF IgnoreForeign, slotVars, handlerVars, pageVars, shownVars
<1>11. CASE HandleOutput
  <2>1. currentOut \in Commands /\ events' \in Seq(Event) /\ Head(events) \in Event
    BY <1>9, <1>11 DEF HandleOutput
  <2>2. [cmd |-> From, n |-> Head(events).n] \in Chunk
    BY <2>1 DEF Chunk, Event, From
  <2>3. Append(shown[currentOut], [cmd |-> From, n |-> Head(events).n]) \in Seq(Chunk)
    BY <2>1, <2>2, AppendProperties
  <2>4. shown' \in [Commands -> Seq(Chunk)]
    BY <1>11, <2>3 DEF HandleOutput
  <2>5. QED
    BY <1>11, <2>1, <2>4 DEF HandleOutput, slotVars, handlerVars, pageVars
<1>12. CASE HandleExit
  BY <1>9, <1>12 DEF HandleExit, slotVars, handlerVars
<1>13. CASE HandleNothing
  BY <1>9, <1>13 DEF HandleNothing, slotVars, handlerVars, pageVars, shownVars
<1>14. CASE HandleStarted
  BY <1>14 DEF HandleStarted, Settles, slotVars, handlerVars, shownVars
<1>15. CASE HandleRefused
  <2>1. PICK a \in answers : /\ Settles(Refused, a) /\ awaited' = awaited \ {a.cmd}
                             /\ a.cmd \in awaited => ended' = ended \union {a.cmd}
                             /\ a.cmd \notin awaited => ended' = ended
    BY <1>15 DEF HandleRefused
  <2>2. ended' \subseteq Commands /\ awaited' \subseteq Commands /\ answers' \subseteq Answer
    BY <2>1 DEF Settles
  <2>3. /\ {running', retry'} \subseteq BOOLEAN
        /\ currentOut' \in Commands \union {NoCommand}
        /\ running' => currentOut' # NoCommand
    BY <1>15 DEF HandleRefused
  <2>4. QED
    BY <1>15, <2>2, <2>3 DEF HandleRefused, slotVars, handlerVars
<1>16. CASE HandleLoaded
  BY <1>16 DEF HandleLoaded, Settles, slotVars, handlerVars
<1>17. CASE HandleUnloaded
  BY <1>17 DEF HandleUnloaded, Settles, slotVars, handlerVars, shownVars
<1>18. CASE UNCHANGED vars
  BY <1>18 DEF vars, slotVars, handlerVars, pageVars, shownVars
<1>19. QED
  BY <1>1, <1>2, <1>3, <1>4, <1>5, <1>6, <1>7, <1>8, <1>10, <1>11, <1>12, <1>13, <1>14,
     <1>15, <1>16, <1>17, <1>18 DEF Next, HandleEvent, HandleAnswer

\* Every variable of the page, of the session and of what is between them has its
\* type; a running page has a block.
THEOREM TypeCorrect == Spec => []TypeOK
  BY TypeInit, TypeStep, PTL DEF Spec

-----------------------------------------------------------------------------
(* The handlers and what they sent                                         *)

LEMMA HandlerInit == Init => HandlerInv
  BY ForeignAssumption DEF Init, SlotInit, HandlerInv, CommandOK, AnswersOK, AllCommands

\* A step of the page leaves the session and the handlers alone; it settles answers
\* or asks again for the session.
LEMMA PageLeavesHandlers ==
    ASSUME HandlerInv, UNCHANGED <<slot, fresh, unreported, request, produced>>,
           \A a \in answers' : a.cmd \in Commands => a \in answers
    PROVE  HandlerInv'
  BY DEF HandlerInv, CommandOK, AnswersOK

\* A step of one command leaves the others alone.
LEMMA OtherCommands ==
    ASSUME NEW c \in Commands, CommandOK(c),
           slot' = c <=> slot = c, c \in unreported' <=> c \in unreported,
           c \in fresh' <=> c \in fresh,
           request'[c] = request[c], produced'[c] = produced[c]
    PROVE  CommandOK(c)'
  BY DEF CommandOK

LEMMA HandlerStepInv == TypeOK /\ HandlerInv /\ [Next]_vars => HandlerInv'
<1> SUFFICES ASSUME TypeOK, HandlerInv, [Next]_vars PROVE HandlerInv'
  OBVIOUS
<1> USE ForeignAssumption
<1>0. \A a \in answers : a.cmd \in Commands \/ a.cmd = NoCommand
  BY DEF TypeOK, Answer
<1>a. request \in [Commands -> {"none", "sent", "claimed", "started", "answered"}]
  BY DEF TypeOK
<1>b. /\ produced \in [AllCommands -> 0..MaxChunks] /\ Commands \subseteq AllCommands
      /\ Foreign \subseteq AllCommands
  BY DEF TypeOK, AllCommands
<1>c. \A d \in Commands : CommandOK(d)
  BY DEF HandlerInv
<1>d. AnswersOK
  BY DEF HandlerInv
<1>1. ASSUME NEW c \in Commands, Submit(c) PROVE HandlerInv'
  <2>1. \A d \in Commands \ {c} : CommandOK(d)'
    BY <1>1, <1>a, <1>c, OtherCommands DEF Submit, Step, slotVars
  <2>2. CommandOK(c)'
    BY <1>1, <1>a, <1>c DEF Submit, Step, slotVars, CommandOK
  <2>3. AnswersOK'
    BY <1>1, <1>a, <1>d DEF Submit, Step, AnswersOK
  <2>4. QED
    BY <2>1, <2>2, <2>3 DEF HandlerInv
<1>2. ASSUME NEW c \in Commands, HandlerStep(c) PROVE HandlerInv'
  <2>1. CASE RefuseBusy(c)
    <3>1. \A d \in Commands \ {c} : CommandOK(d)'
      BY <2>1, <1>a, <1>c, OtherCommands DEF RefuseBusy, Step, slotVars
    <3>2. CommandOK(c)'
      BY <2>1, <1>a, <1>c DEF RefuseBusy, Step, slotVars, CommandOK
    <3>3. AnswersOK'
      BY <2>1, <1>a, <1>d DEF RefuseBusy, Step, Reply, AnswersOK
    <3>4. QED
      BY <3>1, <3>2, <3>3 DEF HandlerInv
  <2>2. CASE RefuseGone(c)
    <3>1. \A d \in Commands \ {c} : CommandOK(d)'
      BY <2>2, <1>a, <1>c, OtherCommands DEF RefuseGone, Step, slotVars
    <3>2. CommandOK(c)'
      BY <2>2, <1>a, <1>c DEF RefuseGone, Step, slotVars, CommandOK
    <3>3. AnswersOK'
      BY <2>2, <1>a, <1>d DEF RefuseGone, Step, Reply, AnswersOK
    <3>4. QED
      BY <3>1, <3>2, <3>3 DEF HandlerInv
  <2>3. CASE Claim(c)
    <3>1. \A d \in Commands \ {c} : CommandOK(d)'
      BY <2>3, <1>a, <1>c, OtherCommands DEF Claim, Acquire, Step
    <3>2. CommandOK(c)'
      BY <2>3, <1>a, <1>c DEF Claim, Acquire, Step, CommandOK
    <3>3. AnswersOK'
      BY <2>3, <1>a, <1>d DEF Claim, Acquire, Step, AnswersOK
    <3>4. QED
      BY <3>1, <3>2, <3>3 DEF HandlerInv
  <2>4. CASE StartFails(c)
    <3>1. \A d \in Commands \ {c} : CommandOK(d)'
      BY <2>4, <1>a, <1>c, OtherCommands DEF StartFails, GiveUp, Step
    <3>2. CommandOK(c)'
      BY <2>4, <1>a, <1>c DEF StartFails, GiveUp, Step, CommandOK
    <3>3. AnswersOK'
      BY <2>4, <1>a, <1>d DEF StartFails, GiveUp, Step, Reply, AnswersOK
    <3>4. QED
      BY <3>1, <3>2, <3>3 DEF HandlerInv
  <2>5. CASE Start(c)
    <3>1. \A d \in Commands \ {c} : CommandOK(d)'
      BY <2>5, <1>a, <1>c, OtherCommands DEF Start, Step, slotVars
    <3>2. CommandOK(c)'
      BY <2>5, <1>a, <1>c DEF Start, Step, slotVars, CommandOK
    <3>3. AnswersOK'
      BY <2>5, <1>a, <1>d DEF Start, Step, AnswersOK
    <3>4. QED
      BY <3>1, <3>2, <3>3 DEF HandlerInv
  <2>6. CASE AnswerStarted(c)
    <3>1. \A d \in Commands \ {c} : CommandOK(d)'
      BY <2>6, <1>a, <1>c, OtherCommands DEF AnswerStarted, Step, slotVars
    <3>2. CommandOK(c)'
      BY <2>6, <1>a, <1>c DEF AnswerStarted, Step, slotVars, CommandOK
    <3>3. AnswersOK'
      BY <2>6, <1>a, <1>d DEF AnswerStarted, Step, Reply, AnswersOK
    <3>4. QED
      BY <3>1, <3>2, <3>3 DEF HandlerInv
  <2>7. QED
    BY <1>2, <2>1, <2>2, <2>3, <2>4, <2>5, <2>6 DEF HandlerStep
<1>3. ASSUME NEW c \in Commands, WriteOutput(c) PROVE HandlerInv'
  <2>1. \A d \in Commands \ {c} : CommandOK(d)'
    BY <1>3, <1>b, <1>c, OtherCommands DEF WriteOutput, slotVars
  <2>2. CommandOK(c)'
    BY <1>3, <1>b, <1>c DEF WriteOutput, Runs, slotVars, CommandOK
  <2>3. AnswersOK'
    BY <1>3, <1>d DEF WriteOutput, AnswersOK
  <2>4. QED
    BY <2>1, <2>2, <2>3 DEF HandlerInv
<1>4. ASSUME NEW c \in Commands, CommandFinishes(c) PROVE HandlerInv'
  <2>1. \A d \in Commands \ {c} : CommandOK(d)'
    BY <1>4, <1>c, OtherCommands DEF CommandFinishes, Runs, Finish, handlerVars
  <2>2. CommandOK(c)'
    BY <1>4, <1>c DEF CommandFinishes, Runs, Finish, handlerVars, CommandOK
  <2>3. AnswersOK'
    BY <1>4, <1>d DEF CommandFinishes, handlerVars, AnswersOK
  <2>4. QED
    BY <2>1, <2>2, <2>3 DEF HandlerInv
<1>5. ASSUME NEW c \in Commands, SendExit(c) PROVE HandlerInv'
  <2>1. \A d \in Commands : CommandOK(d)'
    BY <1>5, <1>c DEF SendExit, Report, handlerVars, CommandOK
  <2>2. AnswersOK'
    BY <1>5, <1>d DEF SendExit, handlerVars, AnswersOK
  <2>3. QED
    BY <2>1, <2>2 DEF HandlerInv
<1>6. ASSUME NEW f \in Foreign, ForeignEvent(f) PROVE HandlerInv'
  <2>1. \A d \in Commands : CommandOK(d)'
    BY <1>6, <1>b, <1>c, OtherCommands DEF ForeignEvent, slotVars
  <2>2. AnswersOK'
    BY <1>6, <1>d DEF ForeignEvent, AnswersOK
  <2>3. QED
    BY <2>1, <2>2 DEF HandlerInv
<1>7. CASE Reopen
  BY <1>0, <1>7, PageLeavesHandlers DEF Reopen, slotVars, handlerVars
<1>8. CASE Retry
  BY <1>0, <1>8, PageLeavesHandlers DEF Retry, Reply, slotVars, handlerVars
<1>9. CASE HandleEvent
  <2>1. UNCHANGED <<slot, fresh, unreported, request, produced, answers>>
    BY <1>9 DEF HandleEvent, IgnoreForeign, HandleOutput, HandleExit, HandleNothing,
                slotVars, handlerVars
  <2>2. QED
    BY <2>1, PageLeavesHandlers
<1>10. CASE HandleAnswer
  <2>1. UNCHANGED <<slot, fresh, unreported, request, produced>> /\ answers' \subseteq answers
    BY <1>10 DEF HandleAnswer, HandleStarted, HandleRefused, HandleLoaded, HandleUnloaded,
                 Settles, slotVars, handlerVars
  <2>2. QED
    BY <2>1, PageLeavesHandlers
<1>11. CASE UNCHANGED vars
  BY <1>11, PageLeavesHandlers DEF vars, slotVars, handlerVars
<1>12. QED
  BY <1>1, <1>2, <1>3, <1>4, <1>5, <1>6, <1>7, <1>8, <1>9, <1>10, <1>11 DEF Next

-----------------------------------------------------------------------------
(* The events on their way                                                 *)

LEMMA QueueKept ==
    ASSUME NEW c, events' = events, shown'[c] = shown[c], produced'[c] = produced[c]
    PROVE  /\ NothingSent' <=> NothingSent
           /\ SentBy(c)' <=> SentBy(c)
           /\ ExitSent' <=> ExitSent
  BY DEF NothingSent, SentBy, ExitSent, Ours, Output, Exit

\* Nothing on its way is all there is to come when all that was written is shown.
LEMMA NothingSentBy ==
    ASSUME NEW c, NothingSent, Len(shown[c]) \in Nat, produced[c] \in Nat,
           produced[c] <= Len(shown[c])
    PROVE  SentBy(c) /\ ~ExitSent
  BY DEF NothingSent, SentBy, ExitSent, Output, Exit

\* An event of another connection is sent ...
LEMMA ForeignSent ==
    ASSUME NEW e \in Event, e.cmd \notin Commands,
           events \in Seq(Event), events' = Append(events, e)
    PROVE  /\ NothingSent => NothingSent'
           /\ ExitSent' => ExitSent
           /\ \A c : SentBy(c) /\ shown'[c] = shown[c] /\ produced'[c] = produced[c]
                    => SentBy(c)'
<1>0. PICK N : N = Len(events) + 1
  OBVIOUS
<1>1. /\ DOMAIN events = 1..Len(events) /\ DOMAIN events' = 1..N
      /\ Len(events) \in Nat /\ events'[N] = e
      /\ \A i \in 1..Len(events) : events'[i] = events[i]
  BY <1>0, EventSent
<1>2. \A i \in DOMAIN events' : i = N \/ (i \in DOMAIN events /\ i # N)
  BY <1>0, <1>1
<1>3. ~Ours(N)'
  BY <1>1 DEF Ours
<1>4. \A i \in DOMAIN events : /\ Ours(i)' <=> Ours(i)
                               /\ Output(i)' <=> Output(i)
                               /\ Exit(i)' <=> Exit(i)
                               /\ events'[i] = events[i] /\ i \in DOMAIN events'
  BY <1>0, <1>1 DEF Ours, Output, Exit
<1>5. ~Output(N)' /\ ~Exit(N)'
  BY <1>3 DEF Output, Exit
<1>6. NothingSent => NothingSent'
  BY <1>2, <1>3, <1>4 DEF NothingSent
<1>7. ExitSent' => ExitSent
  BY <1>2, <1>4, <1>5 DEF ExitSent
<1>8. ASSUME NEW c, SentBy(c), shown'[c] = shown[c], produced'[c] = produced[c]
      PROVE  SentBy(c)'
  <2>1. \A i \in DOMAIN events' : Ours(i)' => events'[i].cmd = c
    BY <1>2, <1>3, <1>4, <1>8 DEF SentBy
  <2>2. \A i \in DOMAIN events' : Output(i)' => events'[i].n \in Len(shown'[c]) + 1..produced'[c]
    BY <1>2, <1>4, <1>5, <1>8 DEF SentBy
  <2>3. \A i, j \in DOMAIN events' : Output(i)' /\ Output(j)' /\ i < j =>
           events'[i].n < events'[j].n
    BY <1>2, <1>4, <1>5, <1>8 DEF SentBy
  <2>4. \A n \in Len(shown'[c]) + 1..produced'[c] :
           \E i \in DOMAIN events' : Output(i)' /\ events'[i].n = n
    BY <1>4, <1>8 DEF SentBy
  <2>5. \A i, j \in DOMAIN events' : Exit(i)' /\ i < j => ~Ours(j)'
    BY <1>2, <1>3, <1>4, <1>5, <1>8 DEF SentBy
  <2>6. QED
    BY <2>1, <2>2, <2>3, <2>4, <2>5 DEF SentBy
<1>9. QED
  BY <1>6, <1>7, <1>8

\* ... or taken off the queue.
LEMMA ForeignTaken ==
    ASSUME events \in Seq(Event), events # <<>>, events' = Tail(events),
           Head(events).cmd \notin Commands
    PROVE  /\ NothingSent => NothingSent'
           /\ ExitSent' => ExitSent
           /\ \A c : SentBy(c) /\ shown'[c] = shown[c] /\ produced'[c] = produced[c]
                    => SentBy(c)'
<1>1. /\ DOMAIN events = 1..Len(events) /\ DOMAIN events' = 1..Len(events) - 1
      /\ Len(events) \in Nat \ {0} /\ events[1] = Head(events)
      /\ \A i \in 1..Len(events) - 1 : events'[i] = events[i + 1]
  BY EventTaken
<1>2. \A i \in DOMAIN events' : i \in Nat /\ i + 1 \in DOMAIN events
  BY <1>1
<1>3. \A i \in DOMAIN events' : /\ Ours(i)' <=> Ours(i + 1)
                                /\ Output(i)' <=> Output(i + 1)
                                /\ Exit(i)' <=> Exit(i + 1)
                                /\ events'[i] = events[i + 1]
  BY <1>1 DEF Ours, Output, Exit
<1>4. ~Output(1)
  BY <1>1 DEF Output, Ours
<1>5. NothingSent => NothingSent'
  BY <1>2, <1>3 DEF NothingSent
<1>6. ExitSent' => ExitSent
  BY <1>2, <1>3 DEF ExitSent
<1>7. ASSUME NEW c, SentBy(c), shown'[c] = shown[c], produced'[c] = produced[c]
      PROVE  SentBy(c)'
  <2>1. \A i \in DOMAIN events' : Ours(i)' => events'[i].cmd = c
    BY <1>2, <1>3, <1>7 DEF SentBy
  <2>2. \A i \in DOMAIN events' : Output(i)' => events'[i].n \in Len(shown'[c]) + 1..produced'[c]
    BY <1>2, <1>3, <1>7 DEF SentBy
  <2>3. ASSUME NEW i \in DOMAIN events', NEW j \in DOMAIN events', Output(i)', Output(j)', i < j
        PROVE  events'[i].n < events'[j].n
    <3>1. i + 1 \in DOMAIN events /\ j + 1 \in DOMAIN events /\ i + 1 < j + 1
      BY <1>2, <2>3
    <3>2. Output(i + 1) /\ Output(j + 1)
      BY <1>3, <2>3
    <3>3. events[i + 1].n < events[j + 1].n
      BY <3>1, <3>2, <1>7 DEF SentBy
    <3>4. QED
      BY <3>3, <1>3
  <2>4. ASSUME NEW n \in Len(shown'[c]) + 1..produced'[c]
        PROVE  \E i \in DOMAIN events' : Output(i)' /\ events'[i].n = n
    <3>1. PICK i \in DOMAIN events : Output(i) /\ events[i].n = n
      BY <1>7 DEF SentBy
    <3>2. i # 1 /\ i - 1 \in DOMAIN events' /\ (i - 1) + 1 = i
      BY <3>1, <1>1, <1>4
    <3>3. QED
      BY <3>1, <3>2, <1>3
  <2>5. ASSUME NEW i \in DOMAIN events', NEW j \in DOMAIN events', Exit(i)', i < j
        PROVE  ~Ours(j)'
    <3>1. i + 1 \in DOMAIN events /\ j + 1 \in DOMAIN events /\ i + 1 < j + 1
      BY <1>2, <2>5
    <3>2. ~Ours(j + 1)
      BY <3>1, <2>5, <1>3, <1>7 DEF SentBy
    <3>3. QED
      BY <3>2, <1>3
  <2>6. QED
    BY <2>1, <2>2, <2>3, <2>4, <2>5 DEF SentBy
<1>8. QED
  BY <1>5, <1>6, <1>7

\* The command writes one more chunk, before its exit was sent.
LEMMA OutputSent ==
    ASSUME NEW c \in Commands, events \in Seq(Event), SentBy(c), ~ExitSent,
           Len(shown[c]) \in Nat, produced[c] \in Nat, Len(shown[c]) <= produced[c],
           [type |-> "output", cmd |-> c, n |-> produced[c] + 1] \in Event,
           events' = Append(events, [type |-> "output", cmd |-> c, n |-> produced[c] + 1]),
           shown'[c] = shown[c], produced'[c] = produced[c] + 1
    PROVE  SentBy(c)' /\ ~ExitSent'
<1> DEFINE e == [type |-> "output", cmd |-> c, n |-> produced[c] + 1]
<1>0. PICK N : N = Len(events) + 1
  OBVIOUS
<1>1. /\ DOMAIN events = 1..Len(events) /\ DOMAIN events' = 1..N
      /\ Len(events) \in Nat /\ events'[N] = e
      /\ \A i \in 1..Len(events) : events'[i] = events[i]
  BY <1>0, EventSent
<1>2. N \in DOMAIN events' /\ \A i \in DOMAIN events' : i = N \/ (i \in DOMAIN events /\ i # N)
  BY <1>0, <1>1
<1>a. e.cmd = c /\ e.type = "output" /\ e.n = produced[c] + 1
  OBVIOUS
<1> HIDE DEF e
<1>3. Ours(N)' /\ Output(N)' /\ ~Exit(N)' /\ events'[N].cmd = c /\ events'[N].n = produced[c] + 1
  BY <1>1, <1>a DEF Ours, Output, Exit
<1>4. \A i \in DOMAIN events : /\ Ours(i)' <=> Ours(i)
                               /\ Output(i)' <=> Output(i)
                               /\ Exit(i)' <=> Exit(i)
                               /\ events'[i] = events[i] /\ i \in DOMAIN events' /\ i < N
  BY <1>0, <1>1 DEF Ours, Output, Exit
<1>5. \A i \in DOMAIN events' : ~Exit(i)'
  BY <1>2, <1>3, <1>4 DEF ExitSent
<1>6. \A i \in DOMAIN events' : Ours(i)' => events'[i].cmd = c
  BY <1>2, <1>3, <1>4 DEF SentBy
<1>7. \A i \in DOMAIN events : Output(i) => events[i].n \in Len(shown[c]) + 1..produced[c]
  BY DEF SentBy
<1>8. \A i \in DOMAIN events' : Output(i)' => events'[i].n \in Len(shown'[c]) + 1..produced'[c]
  BY <1>2, <1>3, <1>4, <1>7
<1>9. ASSUME NEW i \in DOMAIN events', NEW j \in DOMAIN events', Output(i)', Output(j)', i < j
      PROVE  events'[i].n < events'[j].n
  <2>1. i # N /\ i \in DOMAIN events
    BY <1>0, <1>1, <1>2, <1>4, <1>9
  <2>2. CASE j = N
    BY <2>1, <2>2, <1>3, <1>4, <1>7, <1>9
  <2>3. CASE j # N
    BY <2>1, <2>3, <1>2, <1>4, <1>9 DEF SentBy
  <2>4. QED
    BY <2>2, <2>3
<1>10. ASSUME NEW n \in Len(shown'[c]) + 1..produced'[c]
       PROVE  \E i \in DOMAIN events' : Output(i)' /\ events'[i].n = n
  <2>1. CASE n = produced[c] + 1
    BY <2>1, <1>2, <1>3
  <2>2. CASE n # produced[c] + 1
    <3>1. n \in Len(shown[c]) + 1..produced[c]
      BY <2>2
    <3>2. PICK i \in DOMAIN events : Output(i) /\ events[i].n = n
      BY <3>1 DEF SentBy
    <3>3. QED
      BY <3>2, <1>4
  <2>3. QED
    BY <2>1, <2>2
<1>11. QED
  BY <1>5, <1>6, <1>8, <1>9, <1>10 DEF SentBy, ExitSent

\* The exit of the command is sent, once.
LEMMA ExitIsSent ==
    ASSUME NEW c \in Commands, events \in Seq(Event), SentBy(c), ~ExitSent,
           [type |-> "exit", cmd |-> c, n |-> 0] \in Event,
           events' = Append(events, [type |-> "exit", cmd |-> c, n |-> 0]),
           shown'[c] = shown[c], produced'[c] = produced[c]
    PROVE  SentBy(c)'
<1> DEFINE e == [type |-> "exit", cmd |-> c, n |-> 0]
<1>0. PICK N : N = Len(events) + 1
  OBVIOUS
<1>1. /\ DOMAIN events = 1..Len(events) /\ DOMAIN events' = 1..N
      /\ Len(events) \in Nat /\ events'[N] = e
      /\ \A i \in 1..Len(events) : events'[i] = events[i]
  BY <1>0, EventSent
<1>2. \A i \in DOMAIN events' : (i = N \/ i \in DOMAIN events) /\ ~(N < i)
  BY <1>0, <1>1
<1>a. e.cmd = c /\ e.type = "exit"
  OBVIOUS
<1> HIDE DEF e
<1>3. Ours(N)' /\ ~Output(N)' /\ events'[N].cmd = c
  BY <1>1, <1>a DEF Ours, Output
<1>4. \A i \in DOMAIN events : /\ Ours(i)' <=> Ours(i)
                               /\ Output(i)' <=> Output(i)
                               /\ Exit(i)' <=> Exit(i)
                               /\ events'[i] = events[i] /\ i \in DOMAIN events'
  BY <1>0, <1>1 DEF Ours, Output, Exit
<1>5. \A i \in DOMAIN events' : Exit(i)' => i = N
  BY <1>2, <1>4 DEF ExitSent
<1>6. \A i, j \in DOMAIN events' : Exit(i)' /\ i < j => ~Ours(j)'
  BY <1>2, <1>5
<1>7. \A i \in DOMAIN events' : Ours(i)' => events'[i].cmd = c
  BY <1>2, <1>3, <1>4 DEF SentBy
<1>8. \A i \in DOMAIN events' : Output(i)' => events'[i].n \in Len(shown'[c]) + 1..produced'[c]
  BY <1>2, <1>3, <1>4 DEF SentBy
<1>9. \A i, j \in DOMAIN events' : Output(i)' /\ Output(j)' /\ i < j => events'[i].n < events'[j].n
  BY <1>2, <1>3, <1>4 DEF SentBy
<1>10. \A n \in Len(shown'[c]) + 1..produced'[c] :
          \E i \in DOMAIN events' : Output(i)' /\ events'[i].n = n
  BY <1>4 DEF SentBy
<1>11. QED
  BY <1>6, <1>7, <1>8, <1>9, <1>10 DEF SentBy

\* The page takes the first chunk of its command: it is the next one to show.
LEMMA OutputTaken ==
    ASSUME NEW c \in Commands, events \in Seq(Event), SentBy(c),
           Len(shown[c]) \in Nat, produced[c] \in Nat,
           events # <<>>, events' = Tail(events),
           Head(events).cmd \in Commands, Head(events).type = "output",
           Len(shown'[c]) = Len(shown[c]) + 1, produced'[c] = produced[c]
    PROVE  /\ Head(events).cmd = c /\ Head(events).n = Len(shown[c]) + 1
           /\ Len(shown[c]) + 1 <= produced[c]
           /\ SentBy(c)'
           /\ ExitSent' => ExitSent
<1>1. /\ DOMAIN events = 1..Len(events) /\ DOMAIN events' = 1..Len(events) - 1
      /\ Len(events) \in Nat \ {0} /\ events[1] = Head(events)
      /\ \A i \in 1..Len(events) - 1 : events'[i] = events[i + 1]
  BY EventTaken
<1>2. 1 \in DOMAIN events /\ \A i \in DOMAIN events' : i \in Nat \ {0} /\ i + 1 \in DOMAIN events
  BY <1>1
<1>3. \A i \in DOMAIN events' : /\ Ours(i)' <=> Ours(i + 1)
                                /\ Output(i)' <=> Output(i + 1)
                                /\ Exit(i)' <=> Exit(i + 1)
                                /\ events'[i] = events[i + 1]
  BY <1>1 DEF Ours, Output, Exit
<1>4. Output(1) /\ Ours(1)
  BY <1>1 DEF Output, Ours
<1>5. Head(events).cmd = c
  BY <1>1, <1>2, <1>4 DEF SentBy
<1>6. events[1].n \in Len(shown[c]) + 1..produced[c]
  BY <1>2, <1>4 DEF SentBy
<1>7. \A i \in DOMAIN events : Output(i) /\ i # 1 => events[1].n < events[i].n
  <2>1. \A i \in DOMAIN events : i # 1 => 1 < i
    BY <1>1
  <2>2. QED
    BY <2>1, <1>2, <1>4 DEF SentBy
<1>8. events[1].n = Len(shown[c]) + 1
  <2>1. Len(shown[c]) + 1 \in Len(shown[c]) + 1..produced[c]
    BY <1>6
  <2>2. \A n \in Len(shown[c]) + 1..produced[c] :
           \E i \in DOMAIN events : Output(i) /\ events[i].n = n
    BY DEF SentBy
  <2>3. PICK i \in DOMAIN events : Output(i) /\ events[i].n = Len(shown[c]) + 1
    BY <2>1, <2>2
  <2>4. QED
    BY <2>3, <1>6, <1>7
<1>9. \A i \in DOMAIN events' : Ours(i)' => events'[i].cmd = c
  BY <1>2, <1>3 DEF SentBy
<1>10. ASSUME NEW i \in DOMAIN events', Output(i)'
       PROVE  events'[i].n \in Len(shown'[c]) + 1..produced'[c]
  <2>1. i + 1 \in DOMAIN events /\ i + 1 # 1 /\ Output(i + 1)
    BY <1>2, <1>3, <1>10
  <2>2. events[i + 1].n \in Len(shown[c]) + 1..produced[c] /\ events[1].n < events[i + 1].n
    BY <2>1, <1>7 DEF SentBy
  <2>3. QED
    BY <2>2, <1>3, <1>8
<1>11. ASSUME NEW i \in DOMAIN events', NEW j \in DOMAIN events', Output(i)', Output(j)', i < j
       PROVE  events'[i].n < events'[j].n
  <2>1. i + 1 \in DOMAIN events /\ j + 1 \in DOMAIN events /\ i + 1 < j + 1
    BY <1>2, <1>11
  <2>2. Output(i + 1) /\ Output(j + 1)
    BY <1>3, <1>11
  <2>3. events[i + 1].n < events[j + 1].n
    BY <2>1, <2>2 DEF SentBy
  <2>4. QED
    BY <2>3, <1>3
<1>12. ASSUME NEW n \in Len(shown'[c]) + 1..produced'[c]
       PROVE  \E i \in DOMAIN events' : Output(i)' /\ events'[i].n = n
  <2>1. n \in Len(shown[c]) + 1..produced[c] /\ n # Len(shown[c]) + 1
    BY <1>12
  <2>2. PICK i \in DOMAIN events : Output(i) /\ events[i].n = n
    BY <2>1 DEF SentBy
  <2>3. i # 1 /\ i - 1 \in DOMAIN events' /\ (i - 1) + 1 = i
    BY <2>1, <2>2, <1>1, <1>8
  <2>4. QED
    BY <2>2, <2>3, <1>3
<1>13. ASSUME NEW i \in DOMAIN events', NEW j \in DOMAIN events', Exit(i)', i < j
       PROVE  ~Ours(j)'
  <2>1. i + 1 \in DOMAIN events /\ j + 1 \in DOMAIN events /\ i + 1 < j + 1
    BY <1>2, <1>13
  <2>2. ~Ours(j + 1)
    BY <2>1, <1>13, <1>3 DEF SentBy
  <2>3. QED
    BY <2>2, <1>3
<1>14. SentBy(c)'
  BY <1>9, <1>10, <1>11, <1>12, <1>13 DEF SentBy
<1>15. ExitSent' => ExitSent
  BY <1>2, <1>3 DEF ExitSent
<1>16. QED
  BY <1>1, <1>5, <1>6, <1>8, <1>14, <1>15

\* An exit is the last of its command: all that was written is shown.
LEMMA ExitTaken ==
    ASSUME NEW c \in Commands, events \in Seq(Event), SentBy(c),
           Len(shown[c]) \in Nat, produced[c] \in Nat, Len(shown[c]) <= produced[c],
           events # <<>>, events' = Tail(events),
           Head(events).cmd \in Commands, Head(events).type = "exit"
    PROVE  /\ ExitSent /\ Len(shown[c]) = produced[c]
           /\ NothingSent'
<1>1. /\ DOMAIN events = 1..Len(events) /\ DOMAIN events' = 1..Len(events) - 1
      /\ Len(events) \in Nat \ {0} /\ events[1] = Head(events)
      /\ \A i \in 1..Len(events) - 1 : events'[i] = events[i + 1]
  BY EventTaken
<1>2. 1 \in DOMAIN events /\ Exit(1) /\ ~Output(1)
  BY <1>1 DEF Exit, Output, Ours
<1>3. \A i \in DOMAIN events : i # 1 => 1 < i
  BY <1>1
<1>4. \A i \in DOMAIN events : i # 1 => ~Ours(i)
  BY <1>2, <1>3 DEF SentBy
<1>5. \A i \in DOMAIN events : ~Output(i)
  BY <1>2, <1>4 DEF Output
<1>6. \A n \in Len(shown[c]) + 1..produced[c] : FALSE
  BY <1>5 DEF SentBy
<1>7. Len(shown[c]) = produced[c]
  BY <1>6
<1>8. \A i \in DOMAIN events' : i + 1 \in DOMAIN events /\ i + 1 # 1
  BY <1>1
<1>9. \A i \in DOMAIN events' : Ours(i)' <=> Ours(i + 1)
  BY <1>1 DEF Ours
<1>10. NothingSent'
  BY <1>4, <1>8, <1>9 DEF NothingSent
<1>11. QED
  BY <1>2, <1>7, <1>10 DEF ExitSent

-----------------------------------------------------------------------------
(* The page keeps track                                                    *)

\* The end of a command is known only when its handler started it.
LEMMA BlockKept ==
    ASSUME NEW c \in Commands, BlockOK(c), UNCHANGED <<shown, ended>>,
           produced'[c] = produced[c],
           request[c] \in {"started", "answered"} => request'[c] \in {"started", "answered"}
    PROVE  BlockOK(c)'
  BY DEF BlockOK

LEMMA PendingKept ==
    ASSUME ended' = ended, \A c \in Commands : request'[c] = "none" <=> request[c] = "none"
    PROVE  Pending' = Pending
  BY DEF Pending

\* Nothing is under way, and a step that only takes answers and events that are not
\* for this session changes nothing about it.
LEMMA IdleKept ==
    ASSUME AllOver, UNCHANGED <<slot, unreported>>, Pending' = Pending, NothingSent',
           Refusals' \subseteq Refusals
    PROVE  AllOver'
  BY DEF AllOver

LEMMA WaitingKept ==
    ASSUME NEW c \in Commands, Waiting(c), UNCHANGED <<slot, unreported>>,
           Pending' = Pending, request'[c] = request[c], produced'[c] = produced[c],
           answers' \subseteq answers,
           \A d \in awaited \ awaited' : request[d] = "answered" /\ \A a \in Refusals : a.cmd # d,
           NothingSent => NothingSent', SentBy(c)', ExitSent' => ExitSent
    PROVE  Waiting(c)'
<1>1. /\ slot' \in {c, NoCommand} /\ unreported' \subseteq {c} /\ Pending' = {c}
  BY DEF Waiting
<1>2. request'[c] \in {"sent", "claimed", "started"} => c \in awaited'
  BY DEF Waiting
<1>3. ExitSent' => slot' = NoCommand /\ unreported' = {} /\ request'[c] \in {"started", "answered"}
  BY DEF Waiting
<1>4. ASSUME NEW a \in Refusals'
      PROVE  /\ a.cmd = c /\ a.type # "busy" /\ \A b \in answers' : b.cmd = c => b = a
             /\ slot' = NoCommand /\ unreported' = {} /\ NothingSent'
             /\ produced'[c] = 0 /\ c \in awaited'
  <2>1. a \in Refusals
    BY DEF Refusals
  <2>2. QED
    BY <2>1 DEF Waiting
<1>5. QED
  BY <1>1, <1>2, <1>3, <1>4 DEF Waiting

\* Asking again for the session brings no refusal.
LEMMA RefusalsOf ==
    /\ answers' = answers => Refusals' = Refusals
    /\ answers' \subseteq answers => Refusals' \subseteq Refusals
    /\ \A t, c : Reply(t, c) /\ t \notin Refused => Refusals' = Refusals
    /\ \A t, c : Reply(t, c) /\ t \in Refused =>
         Refusals' = Refusals \union {[type |-> t, cmd |-> c]}
  BY DEF Refusals, Reply

-----------------------------------------------------------------------------
\* What is known when a command holds the session, when it is due to be reported,
\* and when its handler has not answered.
LEMMA HoldsSession ==
    ASSUME NEW c \in Commands, slot = c \/ c \in unreported, PageInv
    PROVE  running /\ currentOut = c /\ Waiting(c) /\ ~ExitSent /\ Refusals = {}
<1>1. running
  BY ForeignAssumption DEF PageInv, AllOver
<1>2. Waiting(currentOut)
  BY <1>1 DEF PageInv
<1>3. currentOut = c
  BY <1>2, ForeignAssumption DEF Waiting
<1>4. QED
  BY <1>1, <1>2, <1>3, ForeignAssumption DEF Waiting

LEMMA NotAnswered ==
    ASSUME NEW c \in Commands, request[c] \in {"sent", "claimed"}, PageInv
    PROVE  running /\ currentOut = c /\ Waiting(c)
<1>1. c \in Pending
  BY DEF PageInv, BlockOK, Pending
<1>2. running
  BY <1>1 DEF PageInv, AllOver
<1>3. QED
  BY <1>1, <1>2 DEF PageInv, Waiting

LEMMA Unrefused ==
    ASSUME NEW c \in Commands, Waiting(c), AnswersOK, request[c] # "answered"
    PROVE  Refusals = {} /\ \A a \in answers : a.cmd # c
  BY DEF Waiting, AnswersOK, Refusals

\* Nothing is on its way of a command that wrote nothing and was not reported.
LEMMA NothingProduced ==
    ASSUME NEW c \in Commands, events \in Seq(Event), SentBy(c), ~ExitSent,
           Len(shown[c]) \in Nat, produced[c] = 0
    PROVE  NothingSent
<1>1. ASSUME NEW i \in DOMAIN events PROVE ~Output(i) /\ ~Exit(i)
  <2>1. ~Exit(i)
    BY DEF ExitSent
  <2>2. Output(i) => events[i].n \in Len(shown[c]) + 1..0
    BY DEF SentBy
  <2>3. QED
    BY <2>1, <2>2
<1>2. ASSUME NEW i \in DOMAIN events PROVE events[i].type \in {"output", "exit"}
  <2>1. events[i] \in Event
    BY LenProperties
  <2>2. QED
    BY <2>1 DEF Event
<1>3. QED
  BY <1>1, <1>2 DEF NothingSent, Output, Exit

\* The refusal of the command the page waits for, which has nothing in the session.
LEMMA RefusedWaiting ==
    ASSUME NEW c \in Commands, NEW t \in {"failed", "gone"},
           Waiting(c), AnswersOK, request[c] # "answered", Reply(t, c),
           events \in Seq(Event), ~ExitSent, Len(shown[c]) \in Nat,
           Pending' = Pending, slot' = NoCommand, unreported' = {},
           produced[c] = 0, UNCHANGED <<produced, events, shown, awaited>>,
           request'[c] = "answered", c \in awaited
    PROVE  Waiting(c)'
<1>1. SentBy(c)' /\ ~ExitSent'
  BY QueueKept DEF Waiting
<1>2. NothingSent'
  BY NothingProduced, QueueKept DEF Waiting
<1>3. Refusals = {} /\ \A a \in answers : a.cmd # c
  BY Unrefused
<1> DEFINE r == [type |-> t, cmd |-> c]
<1>4. Refusals' = {r} /\ answers' = answers \union {r}
  BY <1>3 DEF Reply, Refusals, Refused
<1>5. r.cmd = c /\ r.type # "busy"
  OBVIOUS
<1>6. \A b \in answers' : b.cmd = c => b = r
  BY <1>3, <1>4
<1> HIDE DEF r
<1>7. \A a \in Refusals' :
         /\ a.cmd = c /\ a.type # "busy" /\ \A b \in answers' : b.cmd = c => b = a
         /\ slot' = NoCommand /\ unreported' = {} /\ NothingSent'
         /\ produced'[c] = 0 /\ c \in awaited'
  BY <1>2, <1>4, <1>5, <1>6
<1>8. Pending' = {c}
  BY DEF Waiting
<1>9. QED
  BY <1>1, <1>7, <1>8 DEF Waiting

-----------------------------------------------------------------------------
\* A step of a page that keeps track: what it waits for, and what is on its way.
LEMMA PageStepInv ==
    TypeOK /\ HandlerInv /\ PageInv /\ [Next]_vars /\ ~disturbed' => PageInv'
<1> SUFFICES ASSUME TypeOK, HandlerInv, PageInv, [Next]_vars, ~disturbed' PROVE PageInv'
  OBVIOUS
<1>a. /\ request \in [Commands -> {"none", "sent", "claimed", "started", "answered"}]
      /\ produced \in [AllCommands -> 0..MaxChunks] /\ Commands \subseteq AllCommands
      /\ Foreign \subseteq AllCommands /\ Foreign \intersect Commands = {}
      /\ NoCommand \notin Commands /\ MaxChunks \in Nat
      /\ events \in Seq(Event) /\ answers \subseteq Answer
      /\ shown \in [Commands -> Seq(Chunk)]
  BY BoundsAssumption, ForeignAssumption DEF TypeOK, AllCommands
<1>b. \A c \in Commands : Len(shown[c]) \in Nat /\ produced[c] \in Nat
  BY <1>a, LenProperties
<1>c. \A c \in Commands : CommandOK(c) /\ BlockOK(c)
  BY DEF HandlerInv, PageInv
<1>d. AnswersOK
  BY DEF HandlerInv
<1>e. (~running => AllOver) /\ (running => Waiting(currentOut))
  BY DEF PageInv
<1>1. ASSUME NEW c \in Commands, Submit(c) PROVE PageInv'
  <2>0. /\ ~running /\ request[c] = "none" /\ request' = [request EXCEPT ![c] = "sent"]
        /\ running' /\ currentOut' = c /\ awaited' = awaited \union {c}
        /\ UNCHANGED <<slot, unreported, produced, events, answers, shown, ended>>
    BY <1>1 DEF Submit, Step, slotVars, shownVars
  <2>1. c \notin ended /\ AllOver
    BY <2>0, <1>c, <1>e DEF BlockOK
  <2>2. \A d \in Commands : BlockOK(d)'
    BY <2>0, <2>1, <1>a, <1>c, BlockKept
  <2>3. Pending' = {c}
    BY <2>0, <2>1, <1>a DEF AllOver, Pending
  <2>4. produced[c] = 0
    BY <2>0, <1>c DEF CommandOK
  <2>5. SentBy(c) /\ ~ExitSent
    BY <2>1, <2>4, <1>b, NothingSentBy DEF AllOver
  <2>6. SentBy(c)' /\ ~ExitSent'
    BY <2>0, <2>5, QueueKept
  <2>7. Refusals' = {}
    BY <2>0, <2>1 DEF AllOver, Refusals
  <2>8. Waiting(c)'
    BY <2>0, <2>1, <2>3, <2>6, <2>7 DEF Waiting, AllOver
  <2>9. QED
    BY <2>0, <2>2, <2>8 DEF PageInv
<1>2. ASSUME NEW c \in Commands, RefuseBusy(c) PROVE PageInv'
  <2>1. slot # NoCommand /\ request[c] = "sent"
    BY <1>2 DEF RefuseBusy, Step
  <2>2. running /\ currentOut = c /\ Waiting(c)
    BY <2>1, NotAnswered
  <2>3. slot = c
    BY <2>1, <2>2 DEF Waiting
  <2>4. QED
    BY <2>1, <2>3, <1>c DEF CommandOK
<1>3. ASSUME NEW c \in Commands, RefuseGone(c) PROVE PageInv'
  <2>0. /\ request[c] = "sent" /\ request' = [request EXCEPT ![c] = "answered"]
        /\ Reply("gone", c)
        /\ UNCHANGED <<slot, unreported, produced, events, shown, ended, running,
                       currentOut, awaited>>
    BY <1>3 DEF RefuseGone, Step, slotVars, pageVars, shownVars
  <2>1. running /\ currentOut = c /\ Waiting(c)
    BY <2>0, NotAnswered
  <2>2. \A d \in Commands : BlockOK(d)'
    BY <2>0, <1>a, <1>c, BlockKept
  <2>3. Pending' = Pending
    BY <2>0, <1>a, PendingKept
  <2>4. produced[c] = 0 /\ slot # c /\ c \notin unreported
    BY <2>0, <1>c DEF CommandOK
  <2>5. slot = NoCommand /\ unreported = {} /\ ~ExitSent /\ c \in awaited
    BY <2>0, <2>1, <2>4 DEF Waiting
  <2>6. request'[c] = "answered" /\ request[c] # "answered"
    BY <2>0, <1>a
  <2>7. Waiting(c)'
    BY <2>0, <2>1, <2>3, <2>4, <2>5, <2>6, <1>a, <1>b, <1>d, RefusedWaiting
  <2>8. QED
    BY <2>0, <2>1, <2>2, <2>7 DEF PageInv
<1>4. ASSUME NEW c \in Commands, Claim(c) PROVE PageInv'
  <2>0. /\ request[c] = "sent" /\ request' = [request EXCEPT ![c] = "claimed"] /\ slot' = c
        /\ UNCHANGED <<unreported, produced, events, answers, shown, ended, running,
                       currentOut, awaited>>
    BY <1>4 DEF Claim, Acquire, Step, pageVars, shownVars
  <2>1. running /\ currentOut = c /\ Waiting(c)
    BY <2>0, NotAnswered
  <2>2. \A d \in Commands : BlockOK(d)'
    BY <2>0, <1>a, <1>c, BlockKept
  <2>3. Pending' = Pending
    BY <2>0, <1>a, PendingKept
  <2>4. request'[c] = "claimed" /\ request[c] # "answered"
    BY <2>0, <1>a
  <2>5. Refusals = {} /\ ~ExitSent
    BY <2>0, <2>1, <2>4, <1>d, Unrefused DEF Waiting
  <2>6. Refusals' = {} /\ SentBy(c)' /\ ~ExitSent'
    BY <2>0, <2>1, <2>5, RefusalsOf, QueueKept DEF Waiting
  <2>7. Waiting(c)'
    BY <2>0, <2>1, <2>3, <2>6 DEF Waiting
  <2>8. QED
    BY <2>0, <2>1, <2>2, <2>7 DEF PageInv
<1>5. ASSUME NEW c \in Commands, StartFails(c) PROVE PageInv'
  <2>0. /\ request[c] = "claimed" /\ request' = [request EXCEPT ![c] = "answered"]
        /\ slot' = NoCommand /\ Reply("failed", c)
        /\ UNCHANGED <<unreported, produced, events, shown, ended, running, currentOut,
                       awaited>>
    BY <1>5 DEF StartFails, GiveUp, Step, pageVars, shownVars
  <2>1. running /\ currentOut = c /\ Waiting(c)
    BY <2>0, NotAnswered
  <2>2. \A d \in Commands : BlockOK(d)'
    BY <2>0, <1>a, <1>c, BlockKept
  <2>3. Pending' = Pending
    BY <2>0, <1>a, PendingKept
  <2>4. produced[c] = 0 /\ slot = c /\ c \notin unreported
    BY <2>0, <1>c DEF CommandOK
  <2>5. unreported = {} /\ ~ExitSent /\ c \in awaited
    BY <2>0, <2>1, <2>4, <1>a DEF Waiting
  <2>6. request'[c] = "answered" /\ request[c] # "answered"
    BY <2>0, <1>a
  <2>7. Waiting(c)'
    BY <2>0, <2>1, <2>3, <2>4, <2>5, <2>6, <1>a, <1>b, <1>d, RefusedWaiting
  <2>8. QED
    BY <2>0, <2>1, <2>2, <2>7 DEF PageInv
<1>6. ASSUME NEW c \in Commands, Start(c) PROVE PageInv'
  <2>0. /\ request[c] = "claimed" /\ request' = [request EXCEPT ![c] = "started"]
        /\ UNCHANGED <<slot, unreported, produced, events, answers, shown, ended, running,
                       currentOut, awaited>>
    BY <1>6 DEF Start, Step, slotVars, pageVars, shownVars
  <2>1. running /\ currentOut = c /\ Waiting(c)
    BY <2>0, NotAnswered
  <2>2. \A d \in Commands : BlockOK(d)'
    BY <2>0, <1>a, <1>c, BlockKept
  <2>3. Pending' = Pending
    BY <2>0, <1>a, PendingKept
  <2>4. request'[c] = "started" /\ request[c] # "answered"
    BY <2>0, <1>a
  <2>5. Refusals = {}
    BY <2>1, <2>4, <1>d, Unrefused
  <2>6. Refusals' = {} /\ SentBy(c)' /\ (ExitSent' <=> ExitSent)
    BY <2>0, <2>1, <2>5, RefusalsOf, QueueKept DEF Waiting
  <2>7. Waiting(c)'
    BY <2>0, <2>1, <2>3, <2>4, <2>6 DEF Waiting
  <2>8. QED
    BY <2>0, <2>1, <2>2, <2>7 DEF PageInv
<1>7. ASSUME NEW c \in Commands, AnswerStarted(c) PROVE PageInv'
  <2>0. /\ request[c] = "started" /\ request' = [request EXCEPT ![c] = "answered"]
        /\ Reply("started", c)
        /\ UNCHANGED <<slot, unreported, produced, events, shown, ended, running,
                       currentOut, awaited>>
    BY <1>7 DEF AnswerStarted, Step, slotVars, pageVars, shownVars
  <2>1. \A d \in Commands : BlockOK(d)'
    BY <2>0, <1>a, <1>c, BlockKept
  <2>2. Pending' = Pending
    BY <2>0, <1>a, PendingKept
  <2>3. Refusals' = Refusals
    BY <2>0, RefusalsOf DEF Refused
  <2>4. CASE ~running
    <3>1. NothingSent' /\ AllOver
      BY <2>0, <2>4, <1>e, QueueKept DEF AllOver
    <3>2. AllOver'
      BY <3>1, <2>0, <2>2, <2>3, IdleKept
    <3>3. QED
      BY <3>2, <2>0, <2>1, <2>4 DEF PageInv
  <2>5. CASE running
    <3>1. Waiting(currentOut) /\ currentOut \in Commands
      BY <2>5, <1>e DEF Waiting
    <3>2. SentBy(currentOut)' /\ (ExitSent' <=> ExitSent) /\ (NothingSent' <=> NothingSent)
      BY <3>1, <2>0, QueueKept DEF Waiting
    <3>3. CASE currentOut = c
      <4>1. Refusals' = {} /\ request'[c] = "answered"
        BY <2>0, <2>3, <3>1, <3>3, <1>a, <1>d, Unrefused
      <4>2. Waiting(c)'
        BY <2>0, <2>2, <3>1, <3>2, <3>3, <4>1 DEF Waiting
      <4>3. QED
        BY <4>2, <2>0, <2>1, <2>5, <3>3 DEF PageInv
    <3>4. CASE currentOut # c
      <4>1. request'[currentOut] = request[currentOut]
        BY <2>0, <3>1, <3>4, <1>a
      <4>2. \A b \in answers' : b.cmd = currentOut => b \in answers
        BY <2>0, <3>4 DEF Reply
      <4>3. \A a \in Refusals' :
               /\ a.cmd = currentOut /\ a.type # "busy"
               /\ \A b \in answers' : b.cmd = currentOut => b = a
               /\ slot' = NoCommand /\ unreported' = {} /\ NothingSent'
               /\ produced'[currentOut] = 0 /\ currentOut \in awaited'
        BY <2>0, <2>3, <3>1, <3>2, <4>2 DEF Waiting
      <4>4. Waiting(currentOut)'
        BY <2>0, <2>2, <3>1, <3>2, <4>1, <4>3 DEF Waiting
      <4>5. QED
        BY <4>4, <2>0, <2>1, <2>5 DEF PageInv
    <3>5. QED
      BY <3>3, <3>4
  <2>6. QED
    BY <2>4, <2>5
<1>8. ASSUME NEW c \in Commands, WriteOutput(c) PROVE PageInv'
  <2>0. /\ slot = c /\ produced[c] < MaxChunks
        /\ produced' = [produced EXCEPT ![c] = produced[c] + 1]
        /\ events' = Append(events, [type |-> "output", cmd |-> c, n |-> produced[c] + 1])
        /\ UNCHANGED <<slot, unreported, request, answers, shown, ended, running,
                       currentOut, awaited>>
    BY <1>8 DEF WriteOutput, Runs, Send, slotVars, pageVars, shownVars
  <2>1. running /\ currentOut = c /\ Waiting(c) /\ ~ExitSent /\ Refusals = {}
    BY <2>0, HoldsSession
  <2>2. produced'[c] = produced[c] + 1
    BY <2>0, <1>a
  <2>3. \A d \in Commands : BlockOK(d)'
    <3>1. c \notin ended
      BY <2>1 DEF Waiting, Pending
    <3>2. BlockOK(c)'
      BY <2>0, <2>2, <3>1, <1>b, <1>c DEF BlockOK
    <3>3. ASSUME NEW d \in Commands, d # c PROVE BlockOK(d)'
      BY <2>0, <3>3, <1>a, <1>c, BlockKept
    <3>4. QED
      BY <3>2, <3>3
  <2>4. Pending' = Pending
    BY <2>0, PendingKept
  <2>5. Len(shown[c]) <= produced[c] /\ SentBy(c)
    BY <2>1, <1>c DEF BlockOK, Waiting
  <2>6. [type |-> "output", cmd |-> c, n |-> produced[c] + 1] \in Event
    <3>1. produced[c] + 1 \in 0..MaxChunks
      BY <2>0, <1>a
    <3>2. QED
      BY <3>1, <1>a, EventTypes
  <2>7. SentBy(c)' /\ ~ExitSent'
    BY <2>0, <2>1, <2>2, <2>5, <2>6, <1>a, <1>b, OutputSent
  <2>8. Refusals' = {}
    BY <2>0, <2>1, RefusalsOf
  <2>9. Waiting(c)'
    BY <2>0, <2>1, <2>4, <2>7, <2>8 DEF Waiting
  <2>10. QED
    BY <2>0, <2>1, <2>3, <2>9 DEF PageInv
<1>9. ASSUME NEW c \in Commands, CommandFinishes(c) PROVE PageInv'
  <2>0. /\ slot = c /\ slot' = NoCommand /\ unreported' = unreported \union {c}
        /\ UNCHANGED <<request, produced, events, answers, shown, ended, running,
                       currentOut, awaited>>
    BY <1>9 DEF CommandFinishes, Runs, Finish, handlerVars, pageVars, shownVars
  <2>1. running /\ currentOut = c /\ Waiting(c) /\ ~ExitSent /\ Refusals = {}
    BY <2>0, HoldsSession
  <2>2. \A d \in Commands : BlockOK(d)'
    BY <2>0, <1>c, BlockKept
  <2>3. Pending' = Pending
    BY <2>0, PendingKept
  <2>4. Refusals' = {} /\ SentBy(c)' /\ ~ExitSent'
    BY <2>0, <2>1, RefusalsOf, QueueKept DEF Waiting
  <2>5. Waiting(c)'
    BY <2>0, <2>1, <2>3, <2>4 DEF Waiting
  <2>6. QED
    BY <2>0, <2>1, <2>2, <2>5 DEF PageInv
<1>10. ASSUME NEW c \in Commands, SendExit(c) PROVE PageInv'
  <2>0. /\ c \in unreported /\ unreported' = unreported \ {c}
        /\ events' = Append(events, [type |-> "exit", cmd |-> c, n |-> 0])
        /\ UNCHANGED <<slot, request, produced, answers, shown, ended, running, currentOut,
                       awaited>>
    BY <1>10 DEF SendExit, Report, Send, handlerVars, pageVars, shownVars
  <2>1. running /\ currentOut = c /\ Waiting(c) /\ ~ExitSent /\ Refusals = {}
    BY <2>0, HoldsSession
  <2>2. \A d \in Commands : BlockOK(d)'
    BY <2>0, <1>c, BlockKept
  <2>3. Pending' = Pending
    BY <2>0, PendingKept
  <2>4. slot = NoCommand /\ unreported' = {} /\ request[c] \in {"started", "answered"}
    BY <2>0, <2>1, <1>c DEF Waiting, CommandOK
  <2>5. [type |-> "exit", cmd |-> c, n |-> 0] \in Event
    <3>1. 0 \in 0..MaxChunks
      BY <1>a
    <3>2. QED
      BY <3>1, <1>a, EventTypes
  <2>6. SentBy(c)'
    BY <2>0, <2>1, <2>5, <1>a, ExitIsSent DEF Waiting
  <2>7. Refusals' = {}
    BY <2>0, <2>1, RefusalsOf
  <2>8. Waiting(c)'
    BY <2>0, <2>1, <2>3, <2>4, <2>6, <2>7 DEF Waiting
  <2>9. QED
    BY <2>0, <2>1, <2>2, <2>8 DEF PageInv
\* A step that leaves what the page knows and takes nothing of this session.
<1>11. ASSUME UNCHANGED <<slot, unreported, request, shown, ended, running, currentOut>>,
              \A c \in Commands : produced'[c] = produced[c],
              answers' \subseteq answers,
              \A d \in awaited \ awaited' : request[d] = "answered" /\ \A a \in Refusals : a.cmd # d,
              NothingSent => NothingSent', ExitSent' => ExitSent,
              \A c \in Commands : SentBy(c) => SentBy(c)'
       PROVE  PageInv'
  <2>1. \A d \in Commands : BlockOK(d)'
    BY <1>11, <1>c, BlockKept
  <2>2. Pending' = Pending
    BY <1>11, PendingKept
  <2>3. ASSUME ~running PROVE AllOver'
    <3>1. Refusals' \subseteq Refusals
      BY <1>11, RefusalsOf
    <3>2. AllOver /\ NothingSent'
      BY <1>11, <2>3, <1>e DEF AllOver
    <3>3. QED
      BY <1>11, <2>2, <3>1, <3>2, IdleKept
  <2>4. ASSUME running PROVE Waiting(currentOut)'
    <3>1. Waiting(currentOut) /\ currentOut \in Commands
      BY <2>4, <1>e DEF Waiting
    <3>2. SentBy(currentOut)'
      BY <3>1, <1>11 DEF Waiting
    <3>3. ASSUME NEW c \in Commands, Waiting(c), SentBy(c)' PROVE Waiting(c)'
      BY <3>3, <1>11, <2>2, WaitingKept
    <3>4. QED
      BY <3>1, <3>2, <3>3, <1>11
  <2>5. QED
    BY <2>1, <2>3, <2>4, <1>11 DEF PageInv
<1>12. ASSUME NEW f \in Foreign, ForeignEvent(f) PROVE PageInv'
  <2>0. /\ produced' = [produced EXCEPT ![f] = MaxChunks]
        /\ UNCHANGED <<slot, unreported, request, answers, shown, ended, running,
                       currentOut, awaited>>
    BY <1>12 DEF ForeignEvent, slotVars, pageVars, shownVars
  <2>1. PICK type \in {"output", "exit"} :
          events' = Append(events, [type |-> type, cmd |-> f, n |-> 0])
    BY <1>12 DEF ForeignEvent, Send
  <2> DEFINE e == [type |-> type, cmd |-> f, n |-> 0]
  <2>2. e \in Event /\ e.cmd = f
    <3>1. 0 \in 0..MaxChunks
      BY <1>a
    <3>2. QED
      BY <3>1, <1>a, EventTypes
  <2>3. events' = Append(events, e) /\ e.cmd \notin Commands
    BY <2>1, <2>2, <1>a
  <2>4. \A c \in Commands : produced'[c] = produced[c]
    BY <2>0, <1>a
  <2> HIDE DEF e
  <2>5. /\ NothingSent => NothingSent'
        /\ ExitSent' => ExitSent
        /\ \A c \in Commands : SentBy(c) => SentBy(c)'
    BY <2>0, <2>2, <2>3, <2>4, <1>a, ForeignSent
  <2>6. QED
    BY <2>0, <2>4, <2>5, <1>11
<1>13. CASE Reopen
  <2>0. /\ ~running'
        /\ disturbed' <=> disturbed \/ Pending # {}
        /\ UNCHANGED <<slot, unreported, request, produced, events, shown, ended>>
    BY <1>13 DEF Reopen, slotVars, handlerVars
  <2>a. \A a \in answers' : a \in answers \/ a.type \in {"loaded", "unloaded"}
    BY <1>13 DEF Reopen
  <2>1. ~running
    BY <2>0, <1>e DEF Waiting
  <2>2. \A d \in Commands : BlockOK(d)'
    BY <2>0, <1>c, BlockKept
  <2>3. Pending' = Pending
    BY <2>0, PendingKept
  <2>4. Refusals' \subseteq Refusals
    BY <2>a DEF Refusals, Refused
  <2>5. AllOver /\ NothingSent'
    BY <2>0, <2>1, <1>e, QueueKept DEF AllOver
  <2>6. AllOver'
    BY <2>0, <2>3, <2>4, <2>5, IdleKept
  <2>7. QED
    BY <2>0, <2>2, <2>6 DEF PageInv
<1>14. CASE Retry
  <2>0. /\ \E t \in {"loaded", "unloaded"} : Reply(t, NoCommand)
        /\ UNCHANGED <<slot, unreported, request, produced, events, shown, ended, running,
                       currentOut, awaited>>
    BY <1>14 DEF Retry, slotVars, handlerVars, shownVars
  <2>1. Refusals' = Refusals
    BY <2>0, RefusalsOf DEF Refused
  <2>2. \A c \in Commands : BlockOK(c)'
    BY <2>0, <1>c, BlockKept
  <2>3. Pending' = Pending
    BY <2>0, PendingKept
  <2>4. ASSUME ~running PROVE AllOver'
    <3>1. AllOver /\ NothingSent'
      BY <2>0, <2>4, <1>e, QueueKept DEF AllOver
    <3>2. QED
      BY <2>0, <2>1, <2>3, <3>1, IdleKept
  <2>5. ASSUME running PROVE Waiting(currentOut)'
    <3>1. Waiting(currentOut) /\ currentOut \in Commands
      BY <2>5, <1>e DEF Waiting
    <3>2. SentBy(currentOut)' /\ (ExitSent' <=> ExitSent) /\ (NothingSent' <=> NothingSent)
      BY <3>1, <2>0, QueueKept DEF Waiting
    <3>3. \A b \in answers' : b.cmd = currentOut => b \in answers
      BY <2>0, <3>1, <1>a DEF Reply
    <3>4. \A a \in Refusals' :
             /\ a.cmd = currentOut /\ a.type # "busy"
             /\ \A b \in answers' : b.cmd = currentOut => b = a
             /\ slot' = NoCommand /\ unreported' = {} /\ NothingSent'
             /\ produced'[currentOut] = 0 /\ currentOut \in awaited'
      BY <2>0, <2>1, <3>1, <3>2, <3>3 DEF Waiting
    <3>5. QED
      BY <2>0, <2>3, <3>1, <3>2, <3>4 DEF Waiting
  <2>6. QED
    BY <2>0, <2>2, <2>4, <2>5 DEF PageInv
<1>15. CASE IgnoreForeign
  <2>0. /\ events # <<>> /\ events' = Tail(events) /\ Head(events).cmd \notin Commands
        /\ UNCHANGED <<slot, unreported, request, produced, answers, shown, ended, running,
                       currentOut, awaited>>
    BY <1>15, <1>a DEF IgnoreForeign, Takes, From, slotVars, handlerVars, pageVars, shownVars
  <2>1. /\ NothingSent => NothingSent'
        /\ ExitSent' => ExitSent
        /\ \A c \in Commands : SentBy(c) => SentBy(c)'
    BY <2>0, <1>a, ForeignTaken
  <2>2. QED
    BY <2>0, <2>1, <1>11
<1>16. ASSUME events # <<>>, Head(events).cmd \in Commands
       PROVE  running
  <2>1. Head(events) = events[1] /\ 1 \in DOMAIN events
    <3>1. Len(events) \in Nat \ {0} /\ DOMAIN events = 1..Len(events)
      BY <1>16, <1>a, EmptySeq, LenProperties
    <3>2. QED
      BY <3>1
  <2>2. ~NothingSent
    BY <1>16, <2>1 DEF NothingSent, Ours
  <2>3. QED
    BY <2>2, <1>e DEF AllOver
<1>17. CASE HandleOutput
  <2>0. /\ events # <<>> /\ events' = Tail(events)
        /\ Head(events).type = "output" /\ Head(events).cmd \in Commands
        /\ shown' = [shown EXCEPT ![currentOut] =
                       Append(shown[currentOut], [cmd |-> Head(events).cmd, n |-> Head(events).n])]
        /\ UNCHANGED <<slot, unreported, request, produced, answers, ended, running,
                       currentOut, awaited>>
    BY <1>17 DEF HandleOutput, Takes, From, slotVars, handlerVars, pageVars
  <2>1. running /\ Waiting(currentOut) /\ currentOut \in Commands
    BY <2>0, <1>16, <1>e DEF Waiting
  <2>2. PICK c \in Commands : c = currentOut
    BY <2>1
  <2> DEFINE new == [cmd |-> Head(events).cmd, n |-> Head(events).n]
  <2>3. new \in Chunk
    <3>1. Head(events) \in Event
      BY <2>0, <1>a, EventTaken
    <3>2. QED
      BY <3>1 DEF Event, Chunk
  <2>4. shown'[c] = Append(shown[c], new) /\ \A d \in Commands \ {c} : shown'[d] = shown[d]
    BY <2>0, <2>2, <1>a
  <2>5. new.cmd = Head(events).cmd /\ new.n = Head(events).n
    OBVIOUS
  <2>6. new = [cmd |-> Head(events).cmd, n |-> Head(events).n]
    OBVIOUS
  <2> HIDE DEF new
  <2>7. /\ Len(shown'[c]) = Len(shown[c]) + 1
        /\ DOMAIN shown[c] = 1..Len(shown[c]) /\ DOMAIN shown'[c] = 1..Len(shown[c]) + 1
        /\ \A i \in 1..Len(shown[c]) : shown'[c][i] = shown[c][i]
        /\ shown'[c][Len(shown[c]) + 1] = new
    BY <2>3, <2>4, <1>a, AppendProperties, LenProperties
  <2>8. SentBy(c) /\ produced'[c] = produced[c]
    BY <2>0, <2>1, <2>2 DEF Waiting
  <2>9. /\ Head(events).cmd = c /\ Head(events).n = Len(shown[c]) + 1
        /\ Len(shown[c]) + 1 <= produced[c]
        /\ SentBy(c)' /\ (ExitSent' => ExitSent)
    BY <2>0, <2>7, <2>8, <1>a, <1>b, OutputTaken
  <2>10. c \notin ended
    BY <2>1, <2>2 DEF Waiting, Pending
  <2>11. BlockOK(c)'
    <3>1. \A i \in DOMAIN shown'[c] : shown'[c][i] = [cmd |-> c, n |-> i]
      <4>1. \A i \in 1..Len(shown[c]) : shown'[c][i] = [cmd |-> c, n |-> i]
        BY <2>7, <1>c DEF BlockOK
      <4>2. shown'[c][Len(shown[c]) + 1] = [cmd |-> c, n |-> Len(shown[c]) + 1]
        BY <2>6, <2>7, <2>9
      <4>3. \A i \in DOMAIN shown'[c] : i \in 1..Len(shown[c]) \/ i = Len(shown[c]) + 1
        BY <2>7, <1>b
      <4>4. QED
        BY <4>1, <4>2, <4>3
    <3>2. Len(shown'[c]) <= produced'[c] /\ c \notin ended'
      BY <2>0, <2>7, <2>9, <2>10
    <3>3. QED
      BY <3>1, <3>2 DEF BlockOK
  <2>12. ASSUME NEW d \in Commands, d # c PROVE BlockOK(d)'
    BY <2>0, <2>4, <2>12, <1>c DEF BlockOK
  <2>13. Pending' = Pending
    BY <2>0, PendingKept
  <2>14. Refusals = {} /\ Refusals' = {}
    <3>1. ~NothingSent
      <4>1. Head(events) = events[1] /\ 1 \in DOMAIN events
        <5>1. Len(events) \in Nat \ {0} /\ DOMAIN events = 1..Len(events)
          BY <2>0, <1>a, EmptySeq, LenProperties
        <5>2. QED
          BY <5>1
      <4>2. QED
        BY <2>0, <4>1 DEF NothingSent, Ours
    <3>2. Refusals = {}
      BY <3>1, <2>1 DEF Waiting
    <3>3. QED
      BY <3>2, <2>0, RefusalsOf
  <2>15. Waiting(c)'
    BY <2>0, <2>1, <2>2, <2>9, <2>13, <2>14 DEF Waiting
  <2>16. QED
    BY <2>0, <2>1, <2>2, <2>11, <2>12, <2>15 DEF PageInv
<1>18. CASE HandleExit
  <2>0. /\ events # <<>> /\ events' = Tail(events)
        /\ Head(events).type = "exit" /\ Head(events).cmd \in Commands
        /\ running /\ ~running' /\ ended' = ended \union {currentOut}
        /\ UNCHANGED <<slot, unreported, request, produced, answers, shown>>
    BY <1>18 DEF HandleExit, Takes, From, slotVars, handlerVars
  <2>1. Waiting(currentOut) /\ currentOut \in Commands
    BY <2>0, <1>e DEF Waiting
  <2>2. PICK c \in Commands : c = currentOut
    BY <2>1
  <2>3. SentBy(c) /\ Len(shown[c]) <= produced[c]
    BY <2>1, <2>2, <1>c DEF Waiting, BlockOK
  <2>4. ExitSent /\ Len(shown[c]) = produced[c] /\ NothingSent'
    BY <2>0, <2>3, <1>a, <1>b, ExitTaken
  <2>5. slot = NoCommand /\ unreported = {} /\ request[c] \in {"started", "answered"}
    BY <2>1, <2>2, <2>4 DEF Waiting
  <2>6. ~NothingSent
    BY <2>4 DEF NothingSent, ExitSent, Exit
  <2>7. Refusals' = {}
    BY <2>0, <2>1, <2>6, RefusalsOf DEF Waiting
  <2>8. Pending' = {}
    BY <2>0, <2>1, <2>2 DEF Waiting, Pending
  <2>9. \A d \in Commands : BlockOK(d)'
    BY <2>0, <2>2, <2>4, <2>5, <1>c DEF BlockOK
  <2>10. AllOver'
    BY <2>0, <2>4, <2>5, <2>7, <2>8 DEF AllOver
  <2>11. QED
    BY <2>0, <2>9, <2>10 DEF PageInv
<1>19. CASE HandleNothing
  <2>1. events # <<>> /\ Head(events).cmd \in Commands /\ (currentOut = NoCommand \/ ~running)
    BY <1>19 DEF HandleNothing, Takes, From
  <2>2. running /\ currentOut # NoCommand
    BY <2>1, <1>16 DEF TypeOK
  <2>3. QED
    BY <2>1, <2>2
<1>20. CASE HandleStarted
  <2>1. PICK a \in answers : /\ a.type = "started" /\ answers' = answers \ {a}
                             /\ awaited' = awaited \ {a.cmd}
    BY <1>20 DEF HandleStarted, Settles
  <2>0. UNCHANGED <<slot, unreported, request, produced, events, shown, ended, running,
                    currentOut>>
    BY <1>20 DEF HandleStarted, slotVars, handlerVars, shownVars
  <2>2. a.cmd \in Commands /\ request[a.cmd] = "answered"
    BY <2>1, <1>a, <1>d DEF Answer, AnswersOK
  <2>3. CASE Refusals # {}
    <3>1. PICK b \in Refusals : TRUE
      BY <2>3
    <3>2. running
      BY <2>3, <1>e DEF AllOver
    <3>3. Waiting(currentOut) /\ b.cmd = currentOut
      BY <3>1, <3>2, <1>e DEF Waiting
    <3>4. a.cmd # currentOut
      <4>1. a # b
        BY <2>1, <3>1 DEF Refusals, Refused
      <4>2. QED
        BY <4>1, <3>1, <3>3 DEF Waiting
    <3>5. \A c \in Refusals : c.cmd # a.cmd
      BY <3>3, <3>4 DEF Waiting
    <3>6. QED
      BY <2>0, <2>1, <2>2, <3>5, <1>11, QueueKept
  <2>4. CASE Refusals = {}
    BY <2>0, <2>1, <2>2, <2>4, <1>11, QueueKept
  <2>5. QED
    BY <2>3, <2>4
<1>21. CASE HandleRefused
  <2>0. PICK a \in answers :
          /\ a.type \in Refused /\ answers' = answers \ {a}
          /\ a.cmd \in awaited => ~running' /\ ended' = ended \union {a.cmd}
          /\ UNCHANGED <<slot, unreported, request, produced, events, shown>>
    BY <1>21 DEF HandleRefused, Settles, slotVars, handlerVars
  <2>1. a \in Refusals
    BY <2>0 DEF Refusals
  <2>2. running /\ Waiting(currentOut) /\ currentOut \in Commands
    BY <2>1, <1>e DEF AllOver, Waiting
  <2>3. PICK c \in Commands : c = currentOut
    BY <2>2
  <2>4. /\ a.cmd = c /\ slot = NoCommand /\ unreported = {} /\ NothingSent
        /\ produced[c] = 0 /\ c \in awaited
        /\ \A b \in answers : b.cmd = c => b = a
    BY <2>1, <2>2, <2>3 DEF Waiting
  <2>5. ~running' /\ ended' = ended \union {c}
    BY <2>0, <2>4
  <2>6. Refusals' = {}
    <3>1. \A b \in Refusals : b.cmd = c
      BY <2>2, <2>3 DEF Waiting
    <3>2. QED
      BY <3>1, <2>0, <2>4 DEF Refusals
  <2>7. NothingSent'
    BY <2>0, <2>4, QueueKept
  <2>8. Pending' = {}
    BY <2>0, <2>2, <2>3, <2>5 DEF Waiting, Pending
  <2>9. request[c] = "answered" /\ Len(shown[c]) = produced[c]
    BY <2>0, <2>4, <1>b, <1>c, <1>d DEF AnswersOK, BlockOK
  <2>10. \A d \in Commands : BlockOK(d)'
    BY <2>0, <2>5, <2>9, <1>c DEF BlockOK
  <2>11. AllOver'
    BY <2>0, <2>4, <2>6, <2>7, <2>8 DEF AllOver
  <2>12. QED
    BY <2>5, <2>10, <2>11 DEF PageInv
<1>22. CASE HandleLoaded
  <2>0. /\ answers' \subseteq answers /\ running' = FALSE
        /\ disturbed' <=> disturbed \/ running
        /\ UNCHANGED <<slot, unreported, request, produced, events, shown, ended, currentOut,
                       awaited>>
    BY <1>22 DEF HandleLoaded, Settles, slotVars, handlerVars
  <2>1. ~running
    BY <2>0
  <2>2. running' = running
    BY <2>0, <2>1 DEF TypeOK
  <2>3. QED
    BY <2>0, <2>2, <1>11, QueueKept
<1>23. CASE HandleUnloaded
  <2>1. /\ answers' \subseteq answers
        /\ UNCHANGED <<slot, unreported, request, produced, events, shown, ended, running,
                       currentOut, awaited>>
    BY <1>23 DEF HandleUnloaded, Settles, slotVars, handlerVars, shownVars
  <2>2. QED
    BY <2>1, <1>11, QueueKept
<1>24. CASE UNCHANGED vars
  <2>1. UNCHANGED <<slot, unreported, request, produced, events, answers, shown, ended,
                    running, currentOut, awaited>>
    BY <1>24 DEF vars, slotVars, handlerVars, pageVars, shownVars
  <2>2. QED
    BY <2>1, <1>11, QueueKept
<1>25. QED
  BY <1>1, <1>2, <1>3, <1>4, <1>5, <1>6, <1>7, <1>8, <1>9, <1>10, <1>12, <1>13, <1>14, <1>15,
     <1>17, <1>18, <1>19, <1>20, <1>21, <1>22, <1>23, <1>24
  DEF Next, HandlerStep, HandleEvent, HandleAnswer

-----------------------------------------------------------------------------
\* A page that lost track does not find it again.
LEMMA StaysDisturbed == TypeOK /\ [Next]_vars /\ disturbed => disturbed'
<1>1. ASSUME TypeOK, disturbed, Next PROVE disturbed'
  <2>1. CASE \E c \in Commands : Submit(c) \/ HandlerStep(c)
    BY <1>1, <2>1 DEF Submit, HandlerStep, RefuseBusy, RefuseGone, Claim, StartFails, Start,
                      AnswerStarted, shownVars
  <2>2. CASE \E c \in Commands : WriteOutput(c) \/ CommandFinishes(c) \/ SendExit(c)
    BY <1>1, <2>2 DEF WriteOutput, CommandFinishes, SendExit, shownVars
  <2>3. CASE (\E f \in Foreign : ForeignEvent(f)) \/ Retry
    BY <1>1, <2>3 DEF ForeignEvent, Retry, shownVars
  <2>4. CASE Reopen
    BY <1>1, <2>4 DEF Reopen
  <2>5. CASE HandleEvent
    BY <1>1, <2>5 DEF HandleEvent, IgnoreForeign, HandleOutput, HandleExit, HandleNothing,
                      shownVars
  <2>6. CASE HandleStarted \/ HandleRefused \/ HandleUnloaded
    BY <1>1, <2>6 DEF HandleStarted, HandleRefused, HandleUnloaded, shownVars
  <2>7. CASE HandleLoaded
    BY <1>1, <2>7 DEF HandleLoaded
  <2>8. QED
    BY <1>1, <2>1, <2>2, <2>3, <2>4, <2>5, <2>6, <2>7 DEF Next, HandleAnswer
<1>2. ASSUME disturbed, UNCHANGED vars PROVE disturbed'
  BY <1>2 DEF vars, shownVars
<1>3. QED
  BY <1>1, <1>2

LEMMA PageInit == Init => PageInv
<1> SUFFICES ASSUME Init PROVE PageInv
  OBVIOUS
<1>1. /\ slot = NoCommand /\ unreported = {} /\ events = <<>> /\ ~running
      /\ ended = {} /\ \A c \in Commands : request[c] = "none"
      /\ \A a \in answers : a.type \in {"loaded", "unloaded"}
  BY DEF Init, SlotInit
<1>2. \A c \in Commands : shown[c] = <<>> /\ produced[c] = 0
  BY DEF Init, AllCommands
<1>3. NothingSent
  BY <1>1 DEF NothingSent
<1>4. Refusals = {} /\ Pending = {}
  BY <1>1 DEF Refusals, Refused, Pending
<1>5. ASSUME NEW c \in Commands PROVE BlockOK(c)
  <2>1. shown[c] = <<>> /\ produced[c] = 0 /\ c \notin ended
    BY <1>1, <1>2
  <2>2. Len(shown[c]) = 0 /\ \A i \in DOMAIN shown[c] : FALSE
    BY <2>1
  <2>3. \A i \in DOMAIN shown[c] : shown[c][i] = [cmd |-> c, n |-> i]
    BY <2>2
  <2>4. QED
    BY <2>1, <2>2, <2>3 DEF BlockOK
<1>6. QED
  BY <1>1, <1>3, <1>4, <1>5 DEF PageInv, AllOver

\* What the handlers, the session and a page that keeps track know of each other.
THEOREM InvHolds == Spec => []Inv
<1>1. Init => Inv
  BY TypeInit, HandlerInit, PageInit DEF Inv
<1>2. Inv /\ [Next]_vars => Inv'
  BY TypeStep, HandlerStepInv, PageStepInv, StaysDisturbed DEF Inv
<1>3. QED
  BY <1>1, <1>2, PTL DEF Spec

\* Every chunk is shown in the block of the command that wrote it, once and in
\* order, and none is missing when the page takes the command for ended
\* (streamWriter.Write, wait, handleEvent), for any number of commands and chunks.
THEOREM OwnOutputHolds == Spec => []OwnOutput
<1>1. Inv => OwnOutput
  BY DEF Inv, PageInv, BlockOK, OwnOutput
<1>2. QED
  BY <1>1, InvHolds, PTL

\* When the input line is back, the session is free and everything submitted is
\* reported; no command of such a page is refused as busy (execCommand).
THEOREM IdleMeansDoneHolds == Spec => []IdleMeansDone
<1>1. ASSUME PageInv PROVE ~running => Pending = {} /\ slot = NoCommand /\ unreported = {}
  BY <1>1 DEF PageInv, AllOver
<1>2. ASSUME PageInv PROVE \A a \in answers : a.type # "busy"
  BY <1>2 DEF PageInv, AllOver, Waiting, Refusals, Refused
<1>3. Inv => IdleMeansDone
  BY <1>1, <1>2 DEF Inv, IdleMeansDone
<1>4. QED
  BY <1>3, InvHolds, PTL

\* The session the page talks to does only what CommandSlot promises, the promise
\* ShellExec is proved to keep: one command at a time, each that ran reported once.
THEOREM SessionKeepsPromise == Spec => SlotSpec
<1>1. Init => SlotInit
  BY DEF Init
<1>2. ASSUME [Next]_vars PROVE [SlotNext]_slotVars
  <2>1. CASE \E c \in Commands : HandlerStep(c)
    <3>1. PICK c \in Commands : HandlerStep(c)
      BY <2>1
    <3>2. Acquire(c) \/ GiveUp(c) \/ UNCHANGED slotVars
      BY <3>1 DEF HandlerStep, RefuseBusy, RefuseGone, Claim, StartFails, Start, AnswerStarted
    <3>3. QED
      BY <3>2 DEF SlotNext
  <2>2. CASE \E c \in Commands : Submit(c) \/ WriteOutput(c)
    BY <2>2 DEF Submit, WriteOutput
  <2>3. CASE \E c \in Commands : CommandFinishes(c) \/ SendExit(c)
    BY <2>3 DEF CommandFinishes, SendExit, SlotNext
  <2>4. CASE (\E f \in Foreign : ForeignEvent(f)) \/ Reopen \/ Retry
    BY <2>4 DEF ForeignEvent, Reopen, Retry
  <2>5. CASE HandleEvent
    BY <2>5 DEF HandleEvent, IgnoreForeign, HandleOutput, HandleExit, HandleNothing
  <2>6. CASE HandleAnswer
    BY <2>6 DEF HandleAnswer, HandleStarted, HandleRefused, HandleLoaded, HandleUnloaded
  <2>7. CASE UNCHANGED vars
    BY <2>7 DEF vars
  <2>8. QED
    BY <1>2, <2>1, <2>2, <2>3, <2>4, <2>5, <2>6, <2>7 DEF Next
<1>3. QED
  BY <1>1, <1>2, PTL DEF Spec, SlotSpec

-----------------------------------------------------------------------------
(* The plugin's request loop                                               *)

\* What is in a sequence of lines is a line.
LEMMA LineOf ==
    ASSUME NEW s \in Seq(Lines), NEW n \in DOMAIN s PROVE s[n] \in Lines
OBVIOUS

\* A line can be added to what was answered.
LEMMA LineAdded ==
    ASSUME NEW s \in Seq(Lines), NEW l \in Lines PROVE Append(s, l) \in Seq(Lines)
OBVIOUS

\* Serve, its workers and what it wrote stay well typed.
THEOREM ServerTypeCorrect == S!Spec => []S!TypeOK
<1> USE DEF S!TypeOK
<1>1. S!Init => S!TypeOK
  <2>1. S!Init => answered \in Seq(Lines)
    BY DEF S!Init
  <2>2. S!Init => host \in BOOLEAN
    BY DEF S!Init
  <2>3. QED
    BY <2>1, <2>2 DEF S!Init
<1>2. S!TypeOK /\ [S!Next]_(S!vars) => S!TypeOK'
  <2> SUFFICES ASSUME S!TypeOK, [S!Next]_(S!vars) PROVE S!TypeOK'
    OBVIOUS
  <2> USE DEF S!Move, S!Answer
  <2>1. ASSUME NEW l \in Lines, S!ReadLine(l) PROVE S!TypeOK'
    BY <2>1 DEF S!ReadLine
  <2>2. ASSUME NEW l \in Lines, S!ReadInitialize(l) PROVE S!TypeOK'
    <3>1. answered' \in Seq(Lines)
      <4>1. Append(answered, l) \in Seq(Lines)
        BY LineAdded
      <4>2. answered' = answered \/ answered' = Append(answered, l)
        BY <2>2 DEF S!ReadInitialize
      <4>3. QED
        BY <4>1, <4>2
    <3>2. serving' \in {"reading", "draining", "returned", "failed"}
      BY <2>2 DEF S!ReadInitialize
    <3>3. /\ progress' \in [Lines -> {"unread", "handling", "ended", "over"}]
          /\ UNCHANGED <<kind, outcome, input, host>>
      BY <2>2 DEF S!ReadInitialize
    <3>4. QED
      BY <3>1, <3>2, <3>3
  <2>3. ASSUME NEW l \in Lines, S!HandlerEnds(l) PROVE S!TypeOK'
    BY <2>3, ZenonT(40) DEF S!HandlerEnds
  <2>4. ASSUME NEW l \in Lines, S!Respond(l) PROVE S!TypeOK'
    <3>1. answered' \in Seq(Lines)
      <4>1. Append(answered, l) \in Seq(Lines)
        BY LineAdded
      <4>2. answered' = answered \/ answered' = Append(answered, l)
        BY <2>4 DEF S!Respond
      <4>3. QED
        BY <4>1, <4>2
    <3>2. serving' \in {"reading", "draining", "returned", "failed"}
      BY <2>4 DEF S!Respond
    <3>3. /\ progress' \in [Lines -> {"unread", "handling", "ended", "over"}]
          /\ UNCHANGED <<kind, outcome, input, host>>
      BY <2>4 DEF S!Respond
    <3>4. QED
      BY <3>1, <3>2, <3>3
  <2>5. CASE S!StopReading
    BY <2>5 DEF S!StopReading
  <2>6. CASE S!Return
    BY <2>6 DEF S!Return
  <2>7. CASE S!CloseInput
    BY <2>7 DEF S!CloseInput
  <2>8. CASE S!CloseOutput
    BY <2>8 DEF S!CloseOutput
  <2>9. CASE UNCHANGED S!vars
    BY <2>9 DEF S!vars
  <2>10. QED
    BY <2>1, <2>2, <2>3, <2>4, <2>5, <2>6, <2>7, <2>8, <2>9
    DEF S!Next, S!WorkerStep, S!ServeStep
<1>3. QED
  BY <1>1, <1>2, PTL DEF S!Spec

\* A line is answered when its handling is over, and not again.
OnceOver ==
    /\ \A m, n \in DOMAIN answered : answered[m] = answered[n] => m = n
    /\ \A n \in DOMAIN answered :
         /\ progress[answered[n]] = "over"
         /\ kind[answered[n]] \in {"call", "initialize"}

\* What is over was answered, unless it could not be.
NoneForgotten ==
    \A l \in Lines :
      progress[l] = "over" /\ kind[l] = "call" =>
        S!Answered(l) \/ outcome[l] = "too large" \/ ~host

ServeInv == OnceOver /\ NoneForgotten

\* A step that answers nothing.
LEMMA StillServed ==
    ASSUME ServeInv, answered \in Seq(Lines), UNCHANGED <<answered, kind>>,
           host' => host,
           \A k \in Lines : progress[k] = "over" =>
             progress'[k] = "over" /\ outcome'[k] = outcome[k],
           \A k \in Lines : progress'[k] = "over" /\ kind[k] = "call" =>
             progress[k] = "over" \/ outcome'[k] = "too large" \/ ~host'
    PROVE  ServeInv'
<1> USE DEF ServeInv
<1>1. \A n \in DOMAIN answered : answered[n] \in Lines
  BY LineOf
<1>2. OnceOver'
  BY <1>1 DEF OnceOver
<1>3. \A l \in Lines : S!Answered(l) => S!Answered(l)'
  BY DEF S!Answered
<1>4. NoneForgotten'
  BY <1>3 DEF NoneForgotten
<1>5. QED
  BY <1>2, <1>4

\* An answer that was added can be told from none.
LEMMA AppendIsLonger ==
    ASSUME answered \in Seq(Lines), NEW l \in Lines
    PROVE  Append(answered, l) # answered
<1>1. Len(Append(answered, l)) = Len(answered) + 1 /\ Len(answered) \in Nat
  OBVIOUS
<1>2. QED
  BY <1>1

\* A step that answers l.
LEMMA OneMore ==
    ASSUME NEW l \in Lines, ServeInv, answered \in Seq(Lines),
           answered' = Append(answered, l), UNCHANGED <<kind, outcome, host>>,
           kind[l] \in {"call", "initialize"}, progress[l] # "over",
           progress \in [Lines -> {"unread", "handling", "ended", "over"}],
           progress' = [progress EXCEPT ![l] = "over"]
    PROVE  ServeInv'
<1> USE DEF ServeInv
<1> DEFINE N == Len(answered)
<1>1. /\ N \in Nat /\ DOMAIN answered = 1..N /\ DOMAIN answered' = 1..(N + 1)
      /\ answered'[N + 1] = l /\ \A n \in 1..N : answered'[n] = answered[n]
  OBVIOUS
<1>2. \A n \in 1..N : answered[n] \in Lines /\ answered[n] # l
  BY <1>1 DEF OnceOver
<1> HIDE DEF N
<1>3. \A n \in 1..(N + 1) : n = N + 1 \/ n \in 1..N
  BY <1>1
<1>4. OnceOver'
  BY <1>1, <1>2, <1>3 DEF OnceOver
<1>5. S!Answered(l)' /\ \A k \in Lines : S!Answered(k) => S!Answered(k)'
  <2>1. N + 1 \in DOMAIN answered' /\ \A n \in 1..N : n \in DOMAIN answered'
    BY <1>1
  <2>2. QED
    BY <1>1, <2>1 DEF S!Answered
<1>6. NoneForgotten'
  BY <1>5 DEF NoneForgotten
<1>7. QED
  BY <1>4, <1>6

\* The answer of a request and the end of its handling are one step.
LEMMA ServeInvHolds == S!Spec => []ServeInv
<1>1. S!Init => ServeInv
  BY DEF S!Init, ServeInv, OnceOver, NoneForgotten
<1>2. S!TypeOK /\ ServeInv /\ [S!Next]_(S!vars) => ServeInv'
  <2> SUFFICES ASSUME S!TypeOK, ServeInv, [S!Next]_(S!vars) PROVE ServeInv'
    OBVIOUS
  <2>a. answered \in Seq(Lines)
    BY DEF S!TypeOK
  <2> USE DEF S!Move
  <2>1. ASSUME NEW l \in Lines, S!ReadLine(l) PROVE ServeInv'
    <3>1. /\ UNCHANGED <<answered, kind>> /\ (host' => host)
          /\ \A k \in Lines : progress[k] = "over" =>
               progress'[k] = "over" /\ outcome'[k] = outcome[k]
          /\ \A k \in Lines : progress'[k] = "over" /\ kind[k] = "call" =>
               progress[k] = "over" \/ outcome'[k] = "too large" \/ ~host'
      BY <2>1 DEF S!ReadLine, S!TypeOK
    <3>2. QED
      BY <2>a, <3>1, StillServed
  <2>2. ASSUME NEW l \in Lines, S!ReadInitialize(l) PROVE ServeInv'
    <3>1. /\ UNCHANGED <<kind, outcome, host>> /\ progress[l] # "over"
          /\ progress' = [progress EXCEPT ![l] = "over"]
          /\ progress \in [Lines -> {"unread", "handling", "ended", "over"}]
      BY <2>2 DEF S!ReadInitialize, S!TypeOK
    <3>2. CASE answered' = Append(answered, l)
      <4>1. kind[l] \in {"call", "initialize"}
        BY <2>2, <3>2, <2>a, AppendIsLonger DEF S!ReadInitialize
      <4>2. QED
        BY <2>a, <3>1, <3>2, <4>1, OneMore
    <3>3. CASE answered' = answered
      <4>1. kind[l] = "call" => outcome[l] = "too large" \/ ~host
        BY <2>2, <3>3, <2>a, AppendIsLonger DEF S!ReadInitialize, S!Answer
      <4>2. QED
        BY <2>a, <3>1, <3>3, <4>1, StillServed
    <3>4. QED
      BY <2>2, <3>2, <3>3 DEF S!ReadInitialize, S!Answer
  <2>3. ASSUME NEW l \in Lines, S!HandlerEnds(l) PROVE ServeInv'
    <3>1. /\ UNCHANGED <<answered, kind>> /\ (host' => host)
          /\ \A k \in Lines : progress[k] = "over" =>
               progress'[k] = "over" /\ outcome'[k] = outcome[k]
          /\ \A k \in Lines : progress'[k] = "over" /\ kind[k] = "call" =>
               progress[k] = "over" \/ outcome'[k] = "too large" \/ ~host'
      BY <2>3 DEF S!HandlerEnds, S!TypeOK
    <3>2. QED
      BY <2>a, <3>1, StillServed
  <2>4. ASSUME NEW l \in Lines, S!Respond(l) PROVE ServeInv'
    <3>1. /\ UNCHANGED <<kind, outcome, host>> /\ progress[l] # "over"
          /\ progress' = [progress EXCEPT ![l] = "over"]
          /\ progress \in [Lines -> {"unread", "handling", "ended", "over"}]
      BY <2>4 DEF S!Respond, S!TypeOK
    <3>2. CASE answered' = Append(answered, l)
      <4>1. kind[l] \in {"call", "initialize"}
        BY <2>4, <3>2, <2>a, AppendIsLonger DEF S!Respond
      <4>2. QED
        BY <2>a, <3>1, <3>2, <4>1, OneMore
    <3>3. CASE answered' = answered
      <4>1. kind[l] = "call" => outcome[l] = "too large" \/ ~host
        BY <2>4, <3>3, <2>a, AppendIsLonger DEF S!Respond, S!Answer
      <4>2. QED
        BY <2>a, <3>1, <3>3, <4>1, StillServed
    <3>4. QED
      BY <2>4, <3>2, <3>3 DEF S!Respond, S!Answer
  <2>5. CASE S!StopReading
    BY <2>5, <2>a, StillServed DEF S!StopReading
  <2>6. CASE S!Return
    BY <2>6, <2>a, StillServed DEF S!Return
  <2>7. CASE S!CloseInput
    BY <2>7, <2>a, StillServed DEF S!CloseInput
  <2>8. CASE S!CloseOutput
    BY <2>8, <2>a, StillServed DEF S!CloseOutput
  <2>9. CASE UNCHANGED S!vars
    BY <2>9, <2>a, StillServed DEF S!vars
  <2>10. QED
    BY <2>1, <2>2, <2>3, <2>4, <2>5, <2>6, <2>7, <2>8, <2>9
    DEF S!Next, S!WorkerStep, S!ServeStep
<1>3. QED
  BY <1>1, <1>2, ServerTypeCorrect, PTL DEF S!Spec

\* Serve waits for the requests in flight before it returns; it does not when its own
\* write fails, but then the host is gone.
Waited == serving = "returned" \/ (~S!Lives /\ host) => S!Workers = {}

LEMMA WaitedHolds == S!Spec => []Waited
<1> USE DEF Waited, S!Lives
<1>1. S!Init => Waited
  BY DEF S!Init
<1>2. S!TypeOK /\ Waited /\ [S!Next]_(S!vars) => Waited'
  <2> SUFFICES ASSUME S!TypeOK, Waited, [S!Next]_(S!vars) PROVE Waited'
    OBVIOUS
  <2>1. ASSUME NEW l \in Lines, S!ReadLine(l) PROVE Waited'
    BY <2>1 DEF S!ReadLine
  <2>2. ASSUME NEW l \in Lines, S!ReadInitialize(l) PROVE Waited'
    BY <2>2 DEF S!ReadInitialize, S!Answer
  <2>3. ASSUME NEW l \in Lines, S!HandlerEnds(l) PROVE Waited'
    BY <2>3 DEF S!HandlerEnds
  <2>4. ASSUME NEW l \in Lines, S!Respond(l) PROVE Waited'
    BY <2>4 DEF S!Respond, S!Answer
  <2>5. CASE S!StopReading
    BY <2>5 DEF S!StopReading
  <2>6. CASE S!Return
    BY <2>6 DEF S!Return, S!Workers
  <2>7. CASE S!CloseInput
    BY <2>7 DEF S!CloseInput, S!Workers
  <2>8. CASE S!CloseOutput
    BY <2>8 DEF S!CloseOutput, S!Workers
  <2>9. CASE UNCHANGED S!vars
    BY <2>9 DEF S!vars, S!Workers
  <2>10. QED
    BY <2>1, <2>2, <2>3, <2>4, <2>5, <2>6, <2>7, <2>8, <2>9
    DEF S!Next, S!WorkerStep, S!ServeStep
<1>3. QED
  BY <1>1, <1>2, ServerTypeCorrect, PTL DEF S!Spec

\* When Serve returns no handler is running any more, and every request that was read
\* is answered once, however many run beside it and whatever becomes of the input;
\* what is not answered is in flight, too large, or its host is gone.
THEOREM ServerServesAll == S!Spec => []S!ServesAll
<1>1. S!TypeOK /\ ServeInv /\ Waited => S!ServesAll
  <2> SUFFICES ASSUME S!TypeOK, ServeInv, Waited PROVE S!ServesAll
    OBVIOUS
  <2>1. /\ \A m, n \in DOMAIN answered : answered[m] = answered[n] => m = n
        /\ \A l \in Lines : S!Answered(l) => kind[l] \in {"call", "initialize"}
    BY DEF ServeInv, OnceOver, S!Answered
  <2>2. ASSUME NEW l \in Lines, kind[l] = "call", progress[l] # "unread"
        PROVE  \/ S!Answered(l) \/ (S!Lives /\ l \in S!Workers)
               \/ outcome[l] = "too large" \/ ~host
    <3>1. progress[l] = "over" \/ l \in S!Workers
      BY <2>2 DEF S!TypeOK, S!Workers
    <3>2. CASE progress[l] = "over"
      BY <2>2, <3>2 DEF ServeInv, NoneForgotten
    <3>3. CASE l \in S!Workers
      BY <3>3 DEF Waited
    <3>4. QED
      BY <3>1, <3>2, <3>3
  <2>3. QED
    BY <2>1, <2>2 DEF S!ServesAll, Waited
<1>2. QED
  BY <1>1, ServerTypeCorrect, ServeInvHolds, WaitedHolds, PTL

-----------------------------------------------------------------------------
(* The parts together                                                      *)

\* Each part behaves as its own specification says, whatever the others do: what
\* is proved or checked of one alone holds beside the others.
THEOREM PartsApart == PartsSpec => Spec /\ T!Spec /\ C!Spec /\ F!Spec /\ S!Spec
<1>1. PartsInit => Init /\ T!Init /\ C!Init /\ F!Init /\ S!Init
  BY DEF PartsInit
<1> DEFINE all == <<part, vars, terminalVars, commandVars, fileVars, serverVars>>
<1>2. ASSUME [PartsNext]_all
      PROVE  /\ [Next]_vars /\ [T!Next]_(T!vars) /\ [C!Next]_(C!vars)
             /\ [F!Next]_(F!vars) /\ [S!Next]_(S!vars)
  <2>1. /\ UNCHANGED terminalVars => UNCHANGED T!vars
        /\ UNCHANGED commandVars => UNCHANGED C!vars
    BY DEF T!vars, terminalVars, C!vars, commandVars
  <2>2. /\ UNCHANGED fileVars => UNCHANGED F!vars
        /\ UNCHANGED serverVars => UNCHANGED S!vars
    BY DEF F!vars, F!callVars, fileVars, S!vars, serverVars
  <2>3. CASE PageStep /\ UNCHANGED <<terminalVars, commandVars, fileVars, serverVars>>
    BY <2>1, <2>2, <2>3 DEF PageStep
  <2>4. CASE TerminalStep /\ UNCHANGED <<vars, commandVars, fileVars, serverVars>>
    BY <2>1, <2>2, <2>4 DEF TerminalStep
  <2>5. CASE CommandStep /\ UNCHANGED <<vars, terminalVars, fileVars, serverVars>>
    BY <2>1, <2>2, <2>5 DEF CommandStep
  <2>6. CASE FilesStep /\ UNCHANGED <<vars, terminalVars, commandVars, serverVars>>
    BY <2>1, <2>2, <2>6 DEF FilesStep
  <2>7. CASE ServerStep /\ UNCHANGED <<vars, terminalVars, commandVars, fileVars>>
    BY <2>1, <2>2, <2>7 DEF ServerStep
  <2>8. CASE UNCHANGED all
    BY <2>1, <2>2, <2>8
  <2>9. QED
    BY <1>2, <2>3, <2>4, <2>5, <2>6, <2>7, <2>8 DEF PartsNext
<1>3. QED
  BY <1>1, <1>2, PTL DEF PartsSpec, Spec, T!Spec, C!Spec, F!Spec, S!Spec

\* The blocks of the page hold what the commands wrote (handleEvent).
THEOREM PartsOwnOutput == PartsSpec => []OwnOutput
  BY PartsApart, OwnOutputHolds, PTL

\* When the page takes the next command, nothing is left of those before
\* (submitCommand, handleEvent).
THEOREM PartsIdleMeansDone == PartsSpec => []IdleMeansDone
  BY PartsApart, IdleMeansDoneHolds, PTL

\* When Serve returns no handler is running any more, and every request that was read
\* is answered once; what is not answered is in flight, too large, or its host is gone
\* (Serve, Handle).
THEOREM PartsServesAll == PartsSpec => []ServesAll
<1>1. S!ServesAll <=> ServesAll
  BY DEF ServesAll
<1>2. QED
  BY <1>1, ServerServesAll, PartsApart, PTL

-----------------------------------------------------------------------------
(* The output of a command and that of the terminal, at the sizes of MCParts *)

CP == INSTANCE Streams_proofs WITH
        MaxOutput <- 7, MaxChunk <- 3, Limit <- 4, RingSize <- 5, MaxSearched <- 3,
        Chunks <- Pieces, KeepTail <- 1, MaxPayload <- 2

LEMMA CommandSpec == C!Spec => CP!Spec
<1>1. C!Init => CP!Init
  BY DEF C!Init, CP!Init, C!NotFound, CP!NotFound
<1>2. [C!Next]_(C!vars) => [CP!Next]_(CP!vars)
  <2>1. CP!vars = C!vars /\ CP!vars' = C!vars'
    BY DEF CP!vars, C!vars
  <2>2. CP!Next = C!Next
    BY DEF C!Next, CP!Next, C!Write, CP!Write, C!Collect, CP!Collect, C!Search,
           CP!Search, C!FirstOf, CP!FirstOf, C!LastOf, CP!LastOf, C!Occurs,
           CP!Occurs, C!After, CP!After, C!Min, CP!Min, C!Marker, CP!Marker,
           C!Cells, CP!Cells, C!NotFound, CP!NotFound, C!BoundedSeq,
           CP!BoundedSeq, C!SeqOf, CP!SeqOf
  <2>3. QED
    BY <2>1, <2>2
<1>3. QED
  BY <1>1, <1>2, PTL DEF C!Spec, CP!Spec

\* Exactly the first Limit cells of a command's output are forwarded and collected,
\* and what is missing is flagged (streamWriter.Write, limitedBuffer.Write).
THEOREM PartsCutAtLimit == PartsSpec => []CutAtLimit
<1>1. CP!SizesOK
  BY DEF CP!SizesOK
<1>2. CP!Spec => []CP!CutAtLimit
  BY <1>1, CP!CutAtLimitHolds
<1>3. CP!CutAtLimit <=> CutAtLimit
  BY DEF CutAtLimit, CP!CutAtLimit, C!CutAtLimit, CP!FirstOf, C!FirstOf, CP!LastOf,
         C!LastOf
<1>4. QED
  BY <1>2, <1>3, CommandSpec, PartsApart, PTL

\* The directory of the script's line is found when that line is the last, and what
\* is found is the last line but for its tag, unless the kept end begins with a tag;
\* a marker is found when it comes, and all that came after it is read next
\* (parseRingMeta, readUntilOutputMarker).
THEOREM PartsMarkersFound == PartsSpec => []MarkersFound
<1>1. CP!SizesOK /\ 5 >= Len(CP!ScriptLine)
  BY DEF CP!SizesOK, CP!ScriptLine
<1>2. CP!Spec => []CP!MarkersFound
  BY <1>1, CP!MarkersFoundHolds
<1>3. CP!MarkersFound <=> MarkersFound
  BY DEF MarkersFound, CP!MarkersFound, C!MarkersFound, CP!FirstOf, C!FirstOf, CP!Occurs,
         C!Occurs, CP!After, C!After, CP!Min, C!Min, CP!Max, C!Max, CP!Marker, C!Marker,
         CP!NotFound, C!NotFound, CP!ScriptLine, C!ScriptLine, CP!Parse, C!Parse,
         CP!Trimmed, C!Trimmed, CP!LastLine, C!LastLine, CP!IsPrefix, C!IsPrefix,
         CP!IsSuffix, C!IsSuffix, CP!Reverse, C!Reverse
<1>4. QED
  BY <1>2, <1>3, CommandSpec, PartsApart, PTL

LEMMA TerminalSpec == T!Spec => CP!T!Spec
<1>1. T!Init => CP!T!Init
  BY DEF T!Init, CP!T!Init, T!Outside, CP!T!Outside
<1>2. [T!Next]_(T!vars) => [CP!T!Next]_(CP!T!vars)
  <2>1. CP!T!vars = T!vars /\ CP!T!vars' = T!vars'
    BY DEF CP!T!vars, T!vars
  <2>2. CP!T!Scan = T!Scan
    BY DEF CP!T!Scan, T!Scan, CP!T!Cells, T!Cells, CP!T!Begins, T!Begins, CP!T!Ends,
           T!Ends, CP!T!At, T!At, CP!T!Width, T!Width, CP!T!Kept, T!Kept, CP!T!LastOf,
           T!LastOf, CP!T!Min, T!Min
  <2>3. \A payload : CP!T!Path(payload) = T!Path(payload)
    BY DEF CP!T!Path, T!Path, CP!T!Min, T!Min
  <2>4. \A chunk : CP!T!Feed(chunk) = T!Feed(chunk)
    BY <2>2, <2>3 DEF CP!T!Feed, T!Feed, CP!T!Last, T!Last
  <2>5. \A s, chunk : CP!T!States(s, chunk) = T!States(s, chunk)
    BY DEF CP!T!States, T!States, CP!T!ReadCell, T!ReadCell, CP!T!Outside, T!Outside,
           CP!T!Front, T!Front
  <2>6. \A chunk : CP!T!Heard(chunk) = T!Heard(chunk)
    BY <2>3, <2>5 DEF CP!T!Heard, T!Heard, CP!T!Outside, T!Outside, CP!T!Max, T!Max
  <2>7. CP!T!Next = T!Next
    BY <2>4, <2>6 DEF CP!T!Next, T!Next
  <2>8. QED
    BY <2>1, <2>7
<1>3. QED
  BY <1>1, <1>2, PTL DEF T!Spec, CP!T!Spec

\* What the run's terminal may print is made of cells.
LEMMA FiveCells ==
    ASSUME NEW A, NEW a \in A, NEW b \in A, NEW c \in A, NEW d \in A, NEW e \in A
    PROVE  <<a, b, c, d, e>> \in Seq(A) /\ Len(<<a, b, c, d, e>>) = 5
OBVIOUS

LEMMA PiecesAre == Pieces \subseteq Seq(CP!T!Cells)
<1>1. /\ "/" \in CP!T!Cells /\ "bel" \in CP!T!Cells /\ "esc" \in CP!T!Cells
      /\ "]7;" \in CP!T!Cells /\ "\\" \in CP!T!Cells
  BY Zenon DEF CP!T!Cells
<1>2. <<"/", "bel", "esc", "]7;", "bel">> \in Seq(CP!T!Cells)
      /\ Len(<<"/", "bel", "esc", "]7;", "bel">>) = 5
  BY <1>1, FiveCells, Zenon
<1>3. <<"esc", "]7;", "/", "esc", "\\">> \in Seq(CP!T!Cells)
      /\ Len(<<"esc", "]7;", "/", "esc", "\\">>) = 5
  BY <1>1, FiveCells, Zenon
<1>4. \A o \in Outputs : o \in Seq(CP!T!Cells) /\ Len(o) = 5
  BY <1>2, <1>3, Zenon DEF Outputs
<1>5. SUFFICES ASSUME NEW p \in Pieces PROVE p \in Seq(CP!T!Cells)
  OBVIOUS
<1>6. PICK o \in Outputs, i \in 1..5, j \in 1..5 : p = SubSeq(o, i, j)
  BY DEF Pieces
<1>7. QED
  BY <1>4, <1>6, SubSeqProperties

\* The session's directory is the last one the shell reported, however its output is
\* cut into chunks (osc7Scanner.feed, emitOsc7Cwd).
THEOREM PartsFollowsTerminal == PartsSpec => []FollowsTerminal
<1>1. CP!BoundsOK
  BY PiecesAre DEF CP!BoundsOK
<1>2. CP!T!Spec => []CP!T!FollowsTerminal
  BY <1>1, CP!TerminalFollowed
<1>3. CP!T!FollowsTerminal <=> FollowsTerminal
  BY DEF FollowsTerminal, CP!T!FollowsTerminal, T!FollowsTerminal
<1>4. QED
  BY <1>2, <1>3, TerminalSpec, PartsApart, PTL

-----------------------------------------------------------------------------
(* The file-system provider, at the trees of MCParts                       *)

FP == INSTANCE FileSystem_proofs WITH Target <- <<2>>, MaxSize <- 2

LEMMA FilesSpec == F!Spec => FP!Spec
<1>1. F!Init => FP!Init
  BY DEF F!Init, FP!Init, F!Idle, FP!Idle
<1>2. [F!Next]_(F!vars) => [FP!Next]_(FP!vars)
  <2>1. FP!vars = F!vars /\ FP!vars' = F!vars'
    BY DEF FP!vars, F!vars, FP!callVars, F!callVars
  <2>2. /\ FP!Locate = F!Locate /\ \A p : FP!Open(p) = F!Open(p)
        /\ \A p : FP!Children(p) = F!Children(p) /\ FP!IsDir(p) = F!IsDir(p)
        /\ \A p, q : FP!IsPrefix(p, q) = F!IsPrefix(p, q) /\ FP!Front(p) = F!Front(p)
    BY DEF F!Open, FP!Open, F!Follow, FP!Follow, F!Is, FP!Is, F!Locate, FP!Locate,
           F!Front, FP!Front, F!Last, FP!Last, F!Children, FP!Children, F!Below,
           FP!Below, F!IsPrefix, FP!IsPrefix, F!IsDir, FP!IsDir
  <2>3. \A p : FP!Listing(p) = F!Listing(p)
    BY DEF F!Listing, FP!Listing, F!Sorted, FP!Sorted, F!Last, FP!Last,
           F!Cardinality, FP!Cardinality, F!Children, FP!Children, F!Below,
           FP!Below, F!IsPrefix, FP!IsPrefix, F!IsDir, FP!IsDir, F!Is, FP!Is
  <2>4. \A s, t : FP!Moved(s, t) = F!Moved(s, t)
    BY DEF F!Moved, FP!Moved, F!IsPrefix, FP!IsPrefix, F!Below, FP!Below
  <2>5. \A r : FP!Begin(r) = F!Begin(r)
    BY DEF F!Begin, FP!Begin, F!Calls, FP!Calls, F!Limits, FP!Limits, F!Move,
           FP!Move
  <2>6. \A r : FP!Refuse(r) = F!Refuse(r)
    BY DEF F!Refuse, FP!Refuse, F!Move, FP!Move, F!callVars, FP!callVars
  <2>7. \A r : FP!ListPage(r) = F!ListPage(r)
    BY <2>2, <2>3 DEF F!ListPage, FP!ListPage, F!Asks, FP!Asks, F!Asked, FP!Asked,
           F!Move, FP!Move
  <2>8. \A r : FP!OpenToRead(r) = F!OpenToRead(r)
    BY <2>2 DEF F!OpenToRead, FP!OpenToRead, F!Is, FP!Is, F!Asked, FP!Asked, F!Move,
           FP!Move, F!callVars, FP!callVars
  <2>9. \A r : FP!Read(r) = F!Read(r)
    BY DEF F!Read, FP!Read, F!Asks, FP!Asks, F!Move, FP!Move, F!callVars, FP!callVars
  <2>10. \A r : FP!Download(r) = F!Download(r)
    BY DEF F!Download, FP!Download, F!Asks, FP!Asks, F!Move, FP!Move, F!callVars,
           FP!callVars
  <2>11. \A r : FP!OpenToWrite(r) = F!OpenToWrite(r)
    BY DEF F!OpenToWrite, FP!OpenToWrite, F!Open, FP!Open, F!Follow, FP!Follow,
           F!Is, FP!Is, F!Locate, FP!Locate, F!Front, FP!Front, F!Last, FP!Last,
           F!Asked, FP!Asked, F!CanCreate, FP!CanCreate, F!IsDir, FP!IsDir,
           F!Changes, FP!Changes, F!Way, FP!Way, F!IsPrefix, FP!IsPrefix, F!Extend,
           FP!Extend, F!File, FP!File, F!Untouched, FP!Untouched, F!Move, FP!Move,
           F!callVars, FP!callVars
  <2>12. \A r : FP!Write(r) = F!Write(r)
    BY DEF F!Write, FP!Write, F!Open, FP!Open, F!Follow, FP!Follow, F!Is, FP!Is,
           F!Locate, FP!Locate, F!Front, FP!Front, F!Last, FP!Last, F!Asked,
           FP!Asked, F!Move, FP!Move, F!Changes, FP!Changes, F!Way, FP!Way,
           F!IsPrefix, FP!IsPrefix, F!Extend, FP!Extend, F!File, FP!File, F!Max,
           FP!Max, F!Untouched, FP!Untouched, F!callVars, FP!callVars
  <2>13. \A r : FP!DeleteFails(r) = F!DeleteFails(r)
    BY DEF F!DeleteFails, FP!DeleteFails, F!Asks, FP!Asks, F!Move, FP!Move, F!callVars,
           FP!callVars
  <2>14. \A r : FP!Mkdir(r) = F!Mkdir(r)
    BY <2>2 DEF F!Mkdir, FP!Mkdir, F!Asks, FP!Asks, F!CanCreate, FP!CanCreate,
           F!Asked, FP!Asked, F!Changes, FP!Changes, F!Way, FP!Way, F!Extend,
           FP!Extend, F!Move, FP!Move, F!callVars, FP!callVars
  <2>15. \A r : FP!Rename(r) = F!Rename(r)
    BY <2>2, <2>4 DEF F!Rename, FP!Rename, F!Asked, FP!Asked, F!Asks, FP!Asks, F!Is,
           FP!Is, F!Changes, FP!Changes, F!Way, FP!Way, F!Move, FP!Move, F!callVars,
           FP!callVars
  <2>16. \A r : FP!Delete(r) = F!Delete(r)
    BY <2>2 DEF F!Delete, FP!Delete, F!Asked, FP!Asked, F!Asks, FP!Asks, F!Move,
           FP!Move, F!Todo, FP!Todo, F!callVars, FP!callVars
  <2>17. \A r : FP!ReadTree(r) = F!ReadTree(r)
    BY DEF F!ReadTree, FP!ReadTree, F!Last, FP!Last, F!Children, FP!Children,
           F!Below, FP!Below, F!IsPrefix, FP!IsPrefix, F!Open, FP!Open, F!Follow,
           FP!Follow, F!Is, FP!Is, F!Locate, FP!Locate, F!Front, FP!Front, F!Todo,
           FP!Todo, F!IsDir, FP!IsDir, F!Asks, FP!Asks, F!SetToSeq, FP!SetToSeq,
           F!IsInjective, FP!IsInjective, F!Cardinality, FP!Cardinality, F!callVars,
           FP!callVars
  <2>18. \A r : FP!RemoveOne(r) = F!RemoveOne(r)
    BY DEF F!RemoveOne, FP!RemoveOne, F!Locate, FP!Locate, F!Follow, FP!Follow,
           F!Is, FP!Is, F!Front, FP!Front, F!Last, FP!Last, F!Asks, FP!Asks,
           F!Children, FP!Children, F!Below, FP!Below, F!IsPrefix, FP!IsPrefix,
           F!IsDir, FP!IsDir, F!Changes, FP!Changes, F!Way, FP!Way, F!Open, FP!Open,
           F!callVars, FP!callVars
  <2>19. \A r : FP!Deleted(r) = F!Deleted(r)
    BY DEF F!Deleted, FP!Deleted, F!Asks, FP!Asks, F!Move, FP!Move, F!callVars,
           FP!callVars
  <2>20. FP!Next = F!Next
    BY <2>5, <2>6, <2>7, <2>8, <2>9, <2>10, <2>11, <2>12, <2>13, <2>14, <2>15,
       <2>16, <2>17, <2>18, <2>19 DEF F!Next, FP!Next, F!Handle, FP!Handle
  <2>21. QED
    BY <2>1, <2>20
<1>3. QED
  BY <1>1, <1>2, PTL DEF F!Spec, FP!Spec

\* The paths of the run have one name or two.
LEMMA OneName ==
    ASSUME NEW i \in Nat
    PROVE  /\ <<i>> \in Seq(Nat) /\ <<i>> # <<>> /\ Len(<<i>>) = 1
           /\ FP!Front(<<i>>) = <<>>
<1>1. <<i>> \in Seq(Nat) /\ Len(<<i>>) = 1 /\ Len(<<>>) = 0
  OBVIOUS
<1>2. SubSeq(<<i>>, 1, Len(<<i>>) - 1) = <<>>
  BY <1>1
<1>3. QED
  BY <1>1, <1>2 DEF FP!Front

LEMMA TwoNames ==
    ASSUME NEW i \in Nat, NEW j \in Nat
    PROVE  /\ <<i, j>> \in Seq(Nat) /\ <<i, j>> # <<>> /\ Len(<<i, j>>) = 2
           /\ FP!Front(<<i, j>>) = <<i>>
<1>1. <<i, j>> \in Seq(Nat) /\ Len(<<i, j>>) = 2 /\ Len(<<>>) = 0
  OBVIOUS
<1>2. /\ SubSeq(<<i, j>>, 1, 1) \in Seq(Nat) /\ Len(SubSeq(<<i, j>>, 1, 1)) = 1
      /\ SubSeq(<<i, j>>, 1, 1)[1] = i
  BY SubSeqProperties
<1>3. <<i>> \in Seq(Nat) /\ Len(<<i>>) = 1 /\ <<i>>[1] = i
  OBVIOUS
<1>4. SubSeq(<<i, j>>, 1, 1) = <<i>>
  <2>1. \A n \in 1..1 : SubSeq(<<i, j>>, 1, 1)[n] = <<i>>[n]
    BY <1>2, <1>3
  <2>2. QED
    BY <1>2, <1>3, <2>1, SeqEqual
<1>5. SubSeq(<<i, j>>, 1, Len(<<i, j>>) - 1) = <<i>>
  BY <1>1, <1>4
<1>6. QED
  BY <1>1, <1>5 DEF FP!Front

LEMMA PathsAre == Paths \subseteq Seq(Nat) \ {<<>>} /\ IsFiniteSet(Paths)
<1>1. \A p \in Paths : p \in Seq(Nat) /\ p # <<>>
  <2>1. \A p \in Paths : (\E i \in Nat : p = <<i>>) \/ (\E i, j \in Nat : p = <<i, j>>)
    BY DEF Paths
  <2>2. QED
    BY <2>1, OneName, TwoNames, Zenon
<1>2. IsFiniteSet(Paths)
  <2>1. Paths = {<<1>>} \union {<<2>>} \union {<<3>>} \union {<<1, 1>>} \union {<<1, 2>>} \union {<<2, 1>>}
    BY Zenon DEF Paths
  <2>2. QED
    BY <2>1, FS_Singleton, FS_Union, Zenon
<1>3. QED
  BY <1>1, <1>2

\* What is below something is below a directory.
LEMMA TreesOf ==
    ASSUME NEW d \in SUBSET Paths, NEW l \in SUBSET Paths, NEW s \in SUBSET Paths,
           NEW b \in SUBSET Paths,
           \A p \in d \union l \union s \union b : FP!Front(p) \in d \union {<<>>}
    PROVE  FP!TreeIs(Tree(d, l, s, b))
<1> DEFINE t == Tree(d, l, s, b)
<1>1. /\ DOMAIN t = d \union l \union s \union b
      /\ \A p \in DOMAIN t : t[p] \in FP!Entries
      /\ \A p \in d : t[p].kind = "dir"
  BY DEF Tree, FP!Entries
<1> HIDE DEF t
<1>2. FP!TreeIs(t)
  BY <1>1 DEF FP!TreeIs, FP!DirIn
<1>3. QED
  BY <1>2 DEF t

LEMMA TreesAre == \A t \in Trees : FP!TreeIs(t)
<1>1. /\ FP!Front(<<1>>) = <<>> /\ FP!Front(<<2>>) = <<>> /\ FP!Front(<<3>>) = <<>>
      /\ FP!Front(<<1, 1>>) = <<1>> /\ FP!Front(<<1, 2>>) = <<1>>
      /\ FP!Front(<<2, 1>>) = <<2>>
  BY OneName, TwoNames
<1>2. /\ <<1>> \in Paths /\ <<2>> \in Paths /\ <<3>> \in Paths /\ <<1, 1>> \in Paths
      /\ <<1, 2>> \in Paths /\ <<2, 1>> \in Paths
  BY DEF Paths
<1>3. FP!TreeIs(Tree({<<1>>, <<2>>}, {<<1, 1>>}, {<<2, 1>>, <<3>>}, {<<1, 2>>}))
  BY <1>1, <1>2, TreesOf, Zenon
<1>4. FP!TreeIs(Tree({<<2>>, <<2, 1>>}, {<<1>>}, {}, {}))
  BY <1>1, <1>2, TreesOf, Zenon
<1>5. FP!TreeIs(Tree({<<2>>}, {<<2, 1>>}, {}, {<<1>>}))
  BY <1>1, <1>2, TreesOf, Zenon
<1>6. QED
  BY <1>3, <1>4, <1>5, Zenon DEF Trees, LinkBeside

LEMMA FilesAre == FP!FilesOK
<1>1. <<2>> \in Seq(Nat) /\ 2 \in Nat
  BY OneName
<1>2. QED
  BY <1>1, PathsAre, TreesAre DEF FP!FilesOK, IsFiniteSet, FP!IsFiniteSet

\* A listing holds its directory, wherever the pages end (fsList, fsCursor).
THEOREM PartsNothingLeftOut == PartsSpec => []NothingLeftOut
<1>1. FP!Spec => []FP!NothingLeftOut
  BY FilesAre, FP!FilesLeaveNothingOut
<1>2. FP!NothingLeftOut <=> NothingLeftOut
  BY DEF NothingLeftOut, F!NothingLeftOut, FP!NothingLeftOut, F!Children, FP!Children,
         F!Below, FP!Below, F!Open, FP!Open, F!Locate, FP!Locate, F!Follow, FP!Follow,
         F!Is, FP!Is, F!Asked, FP!Asked, F!Front, FP!Front, F!Last, FP!Last,
         F!IsPrefix, FP!IsPrefix, F!ToSet, FP!ToSet, F!Cardinality, FP!Cardinality
<1>3. QED
  BY <1>1, <1>2, FilesSpec, PartsApart, PTL

\* A deletion removes nothing outside of the path it names, unless that is a link, whose
\* target is emptied, and leaves nothing of it when it is answered with success (fsDelete,
\* removeRemoteTree).
THEOREM PartsDeletesItsPath == PartsSpec => DeletesItsPath
<1>1. FP!Spec => FP!DeletesItsPath
  BY FilesAre, FP!FilesDeleteTheirPath
<1>2. FP!DeletesItsPath <=> DeletesItsPath
  BY DEF DeletesItsPath, F!DeletesItsPath, FP!DeletesItsPath, F!Locate, FP!Locate,
         F!Follow, FP!Follow, F!Is, FP!Is, F!Asked, FP!Asked, F!Front, FP!Front, F!Last,
         FP!Last, F!IsPrefix, FP!IsPrefix, F!vars, FP!vars, F!callVars, FP!callVars
<1>3. QED
  BY <1>1, <1>2, FilesSpec, PartsApart, PTL

-----------------------------------------------------------------------------
(* Types                                                                   *)

LEMMA FilesTypes == F!Spec => []F!TypeOK
<1>1. FP!Spec => []FP!TypeOK
  BY FilesAre, FP!FilesTypeCorrect
<1>2. FP!TypeOK <=> F!TypeOK
  BY DEF F!TypeOK, FP!TypeOK, F!Entries, FP!Entries, F!Calls, FP!Calls, F!Limits,
         FP!Limits, F!Idle, FP!Idle, F!IsDir, FP!IsDir, F!Is, FP!Is, F!Front, FP!Front
<1>3. QED
  BY <1>1, <1>2, FilesSpec, PTL

LEMMA CommandTypes == C!Spec => []C!TypeOK
<1>1. CP!Spec => []CP!TypeOK
  <2>1. CP!SizesOK
    BY DEF CP!SizesOK
  <2>2. QED
    BY <2>1, CP!TypeCorrect
<1>2. CP!TypeOK <=> C!TypeOK
  BY DEF C!TypeOK, CP!TypeOK, C!Cells, CP!Cells, C!Taken, CP!Taken, C!NotFound,
         CP!NotFound
<1>3. QED
  BY <1>1, <1>2, CommandSpec, PTL

LEMMA TerminalTypes == T!Spec => []T!TypeOK
<1>1. CP!T!Spec => []CP!T!TypeOK
  <2>1. CP!BoundsOK
    BY PiecesAre DEF CP!BoundsOK
  <2>2. QED
    BY <2>1, CP!TerminalTypeCorrect
<1>2. CP!T!TypeOK <=> T!TypeOK
  BY DEF T!TypeOK, CP!T!TypeOK, T!Cells, CP!T!Cells
<1>3. QED
  BY <1>1, <1>2, TerminalSpec, PTL

\* Whatever part takes the steps, its state keeps its type.
THEOREM PartsTypeCorrect == PartsSpec => []PartsTypeOK
<1> DEFINE Known == part \in {"page", "terminal", "command", "files", "server"}
<1>1. PartsSpec => []Known
  <2>1. PartsInit => Known
    BY DEF PartsInit
  <2>2. Known /\ [PartsNext]_<<part, vars, terminalVars, commandVars, fileVars, serverVars>>
          => Known'
    BY DEF PartsNext
  <2>3. QED
    BY <2>1, <2>2, PTL DEF PartsSpec
<1>2. Known /\ TypeOK /\ T!TypeOK /\ C!TypeOK /\ F!TypeOK /\ S!TypeOK => PartsTypeOK
  <2> HIDE DEF TypeOK
  <2>1. QED
    BY Zenon DEF PartsTypeOK
<1>3. QED
  BY <1>1, <1>2, PartsApart, TypeCorrect, TerminalTypes, CommandTypes, FilesTypes,
     ServerTypeCorrect, PTL
=============================================================================
