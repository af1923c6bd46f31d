------------------------ MODULE ShellSessions_proofs ------------------------
(***************************************************************************)
(* Proofs about ShellSessions, for any number of connects and disconnects.  *)
(***************************************************************************)
EXTENDS ShellSessions, TLAPS

\* fallbackSession does nothing to a session that is being shut down, and takes
\* the terminal from any other.
LEMMA FallbackOutcome ==
    ASSUME NEW s \in Sessions, Fallback(s)
    PROVE  /\ \/ watchdog' = [watchdog EXCEPT ![s] = "done"]
              \/ watchdog' = [watchdog EXCEPT ![s] = "falling"]
           /\ \/ UNCHANGED <<hasPty, stopping, fallback>>
              \/ /\ hasPty' = [hasPty EXCEPT ![s] = FALSE]
                 /\ stopping' = [stopping EXCEPT ![s] = TRUE]
                 /\ fallback' = TRUE
           /\ UNCHANGED <<kind, current, connect, ptyClosed, dead, pty, shell,
                          outputSeen, chunks, reader, closing, shut, panicked, events>>
BY DEF Fallback, Move, Set, terminalVars, closeVars

\* A session that is being shut down stays so.
LEMMA StoppingStays ==
    ASSUME NEW s \in Sessions, Fallback(s), stopping \in [Sessions -> BOOLEAN]
    PROVE  \A t \in Sessions : stopping[t] => stopping'[t]
<1>1. stopping' = stopping \/ stopping' = [stopping EXCEPT ![s] = TRUE]
  BY FallbackOutcome
<1>2. CASE stopping' = stopping
  BY <1>2
<1>3. CASE stopping' = [stopping EXCEPT ![s] = TRUE]
  <2>1. ASSUME NEW t \in Sessions PROVE stopping'[t] = IF t = s THEN TRUE ELSE stopping[t]
    BY <1>3
  <2>2. QED
    BY <2>1
<1>4. QED
  BY <1>1, <1>2, <1>3

\* The registry, the sessions and their goroutines stay well typed.
THEOREM TypeCorrect == Spec => []TypeOK
<1> USE DEF TypeOK, Closers, SessionOrNone, Event
<1>1. Init => TypeOK
  <2> SUFFICES ASSUME Init PROVE TypeOK
    OBVIOUS
  <2>1. events \in Seq(Event)
    BY DEF Init
  <2>2. chunks \in [Sessions -> 0..MaxChunks]
    BY MaxChunksAssumption DEF Init
  <2>3. /\ closing \in [Closers -> SessionOrNone] /\ panicked \subseteq Closers
        /\ shut \in [Closers -> {"idle", "begun", "stopped", "closingPty",
                                 "ptyClosed", "done"}]
    BY DEF Init
  <2>4. /\ kind \in {"local", "ssh"}
        /\ current \in SessionOrNone /\ fallback \in BOOLEAN
        /\ connect \in [Sessions ->
             {"new", "opening", "built", "registered", "failed"}]
        /\ hasPty \in [Sessions -> BOOLEAN] /\ stopping \in [Sessions -> BOOLEAN]
        /\ ptyClosed \in [Sessions -> BOOLEAN] /\ dead \in [Sessions -> BOOLEAN]
    BY DEF Init
  <2>5. /\ pty \in [Sessions -> {"none", "open", "closed"}]
        /\ shell \in [Sessions -> {"none", "running", "exited"}]
        /\ outputSeen \in [Sessions -> BOOLEAN]
        /\ reader \in [Sessions ->
             {"none", "reading", "chunk", "ended", "closing", "done"}]
        /\ watchdog \in [Sessions ->
             {"none", "sleeping", "awake", "checked", "falling", "fell", "done"}]
    BY DEF Init
  <2>6. QED
    BY <2>1, <2>2, <2>3, <2>4, <2>5
<1>2. TypeOK /\ [Next]_vars => TypeOK'
  <2> SUFFICES ASSUME TypeOK, [Next]_vars PROVE TypeOK'
    OBVIOUS
  <2> USE DEF registryVars, fieldVars, terminalVars, closeVars, Move, Set, Emit
  <2>1. ASSUME NEW s \in Sessions, StartConnect(s) PROVE TypeOK'
    BY <2>1 DEF StartConnect
  <2>2. ASSUME NEW s \in Sessions, OpenPty(s) PROVE TypeOK'
    BY <2>2 DEF OpenPty
  <2>3. ASSUME NEW s \in Sessions, OpenPtyFails(s) PROVE TypeOK'
    BY <2>3 DEF OpenPtyFails
  <2>4. ASSUME NEW s \in Sessions, Register(s) PROVE TypeOK'
    BY <2>4 DEF Register
  <2>5. ASSUME NEW d \in Disconnects, Remove(d) PROVE TypeOK'
    BY <2>5 DEF Remove
  <2>6. ASSUME NEW x \in Closers, StopSession(x) PROVE TypeOK'
    BY <2>6 DEF StopSession
  <2>7. ASSUME NEW x \in Closers, LookAtPty(x) PROVE TypeOK'
    BY <2>7 DEF LookAtPty
  <2>8. ASSUME NEW x \in Closers, ClosePty(x) PROVE TypeOK'
    <3>1. CASE hasPty[closing[x]]
      BY <2>8, <3>1 DEF ClosePty
    <3>2. CASE ~(hasPty[closing[x]])
      BY <2>8, <3>2 DEF ClosePty
    <3>3. QED
      BY <3>1, <3>2
  <2>9. ASSUME NEW x \in Closers, ClosePtySession(x) PROVE TypeOK'
    BY <2>9 DEF ClosePtySession
  <2>10. ASSUME NEW x \in Closers, MarkDead(x) PROVE TypeOK'
    BY <2>10 DEF MarkDead
  <2>11. ASSUME NEW s \in Sessions, ReadChunk(s) PROVE TypeOK'
    BY <2>11, MaxChunksAssumption DEF ReadChunk
  <2>12. ASSUME NEW s \in Sessions, EmitOutput(s) PROVE TypeOK'
    BY <2>12 DEF EmitOutput
  <2>13. ASSUME NEW s \in Sessions, ReadFails(s) PROVE TypeOK'
    BY <2>13 DEF ReadFails
  <2>14. ASSUME NEW s \in Sessions, SampleStopping(s) PROVE TypeOK'
    BY <2>14 DEF SampleStopping
  <2>15. ASSUME NEW s \in Sessions, EmitClosed(s) PROVE TypeOK'
    BY <2>15 DEF EmitClosed
  <2>16. ASSUME NEW s \in Sessions, Wake(s) PROVE TypeOK'
    BY <2>16 DEF Wake
  <2>17. ASSUME NEW s \in Sessions, WatchStopping(s) PROVE TypeOK'
    BY <2>17 DEF WatchStopping
  <2>18. ASSUME NEW s \in Sessions, Fallback(s) PROVE TypeOK'
    <3>1. CASE UNCHANGED <<hasPty, stopping, fallback>>
      BY <2>18, <3>1, FallbackOutcome, ZenonT(40)
    <3>2. CASE /\ hasPty' = [hasPty EXCEPT ![s] = FALSE]
               /\ stopping' = [stopping EXCEPT ![s] = TRUE]
               /\ fallback' = TRUE
      BY <2>18, <3>2, FallbackOutcome, ZenonT(40)
    <3>3. QED
      BY <2>18, <3>1, <3>2, FallbackOutcome
  <2>19. ASSUME NEW s \in Sessions, FallbackClosesPty(s) PROVE TypeOK'
    BY <2>19 DEF FallbackClosesPty
  <2>20. ASSUME NEW s \in Sessions, EmitFallback(s) PROVE TypeOK'
    BY <2>20 DEF EmitFallback
  <2>21. ASSUME NEW s \in Sessions, ShellExits(s) PROVE TypeOK'
    BY <2>21 DEF ShellExits
  <2>22. ASSUME NEW s \in Sessions, ConnectionLost(s) PROVE TypeOK'
    BY <2>22 DEF ConnectionLost
  <2>23. CASE UNCHANGED vars
    BY <2>23 DEF vars
  <2>24. QED
    BY <2>1, <2>2, <2>3, <2>4, <2>5, <2>6, <2>7, <2>8, <2>9, <2>10,
       <2>11, <2>12, <2>13, <2>14, <2>15, <2>16, <2>17, <2>18, <2>19,
       <2>20, <2>21, <2>22, <2>23
    DEF Next, ConnectStep, ShutdownStep, ReaderStep, WatchdogStep
<1>3. QED
  BY <1>1, <1>2, PTL DEF Spec

-----------------------------------------------------------------------------
(* Who closes what                                                         *)

\* A session is registered once, by its own request, and leaves the registry for
\* the request that closes it; a request that closes nothing yet is idle.
CloserInv ==
    /\ \A s \in Sessions :
         /\ s = current => connect[s] = "registered"
         /\ connect[s] # "registered" => shut[s] = "idle"
    /\ \A x \in Closers :
         /\ shut[x] = "idle" => closing[x] = NoSession
         /\ shut[x] \notin {"idle", "done"} => closing[x] # NoSession
         /\ closing[x] # NoSession =>
              closing[x] # current /\ connect[closing[x]] = "registered"
    /\ \A x, y \in Closers :
         closing[x] # NoSession /\ closing[x] = closing[y] => x = y

LEMMA CloserInvHolds == Spec => []CloserInv
<1> USE DEF CloserInv
<1>1. Init => CloserInv
  BY NoSessionAssumption DEF Init, Closers
<1>2. TypeOK /\ CloserInv /\ [Next]_vars => CloserInv'
  <2> SUFFICES ASSUME TypeOK, CloserInv, [Next]_vars PROVE CloserInv'
    OBVIOUS
  <2> USE DEF registryVars, fieldVars, terminalVars, closeVars, Move, Set, Closers,
              TypeOK, SessionOrNone
  <2>1. ASSUME NEW s \in Sessions, StartConnect(s) PROVE CloserInv'
    BY <2>1, NoSessionAssumption, RequestsAssumption DEF StartConnect
  <2>2. ASSUME NEW s \in Sessions, OpenPty(s) PROVE CloserInv'
    BY <2>2, NoSessionAssumption, RequestsAssumption DEF OpenPty
  <2>3. ASSUME NEW s \in Sessions, OpenPtyFails(s) PROVE CloserInv'
    BY <2>3, NoSessionAssumption, RequestsAssumption DEF OpenPtyFails
  <2>4. ASSUME NEW s \in Sessions, Register(s) PROVE CloserInv'
    BY <2>4, NoSessionAssumption, RequestsAssumption DEF Register
  <2>5. ASSUME NEW d \in Disconnects, Remove(d) PROVE CloserInv'
    BY <2>5, NoSessionAssumption, RequestsAssumption DEF Remove
  <2>6. ASSUME NEW x \in Closers, StopSession(x) PROVE CloserInv'
    BY <2>6, NoSessionAssumption, RequestsAssumption DEF StopSession
  <2>7. ASSUME NEW x \in Closers, LookAtPty(x) PROVE CloserInv'
    BY <2>7, NoSessionAssumption, RequestsAssumption DEF LookAtPty
  <2>8. ASSUME NEW x \in Closers, ClosePty(x) PROVE CloserInv'
    BY <2>8, NoSessionAssumption, RequestsAssumption DEF ClosePty
  <2>9. ASSUME NEW x \in Closers, ClosePtySession(x) PROVE CloserInv'
    BY <2>9, NoSessionAssumption, RequestsAssumption DEF ClosePtySession
  <2>10. ASSUME NEW x \in Closers, MarkDead(x) PROVE CloserInv'
    BY <2>10, NoSessionAssumption, RequestsAssumption DEF MarkDead
  <2>11. ASSUME NEW s \in Sessions, ReadChunk(s) PROVE CloserInv'
    BY <2>11, NoSessionAssumption, RequestsAssumption DEF ReadChunk
  <2>12. ASSUME NEW s \in Sessions, EmitOutput(s) PROVE CloserInv'
    BY <2>12, NoSessionAssumption, RequestsAssumption DEF EmitOutput
  <2>13. ASSUME NEW s \in Sessions, ReadFails(s) PROVE CloserInv'
    BY <2>13, NoSessionAssumption, RequestsAssumption DEF ReadFails
  <2>14. ASSUME NEW s \in Sessions, SampleStopping(s) PROVE CloserInv'
    BY <2>14, NoSessionAssumption, RequestsAssumption DEF SampleStopping
  <2>15. ASSUME NEW s \in Sessions, EmitClosed(s) PROVE CloserInv'
    BY <2>15, NoSessionAssumption, RequestsAssumption DEF EmitClosed
  <2>16. ASSUME NEW s \in Sessions, Wake(s) PROVE CloserInv'
    BY <2>16, NoSessionAssumption, RequestsAssumption DEF Wake
  <2>17. ASSUME NEW s \in Sessions, WatchStopping(s) PROVE CloserInv'
    BY <2>17, NoSessionAssumption, RequestsAssumption DEF WatchStopping
  <2>18. ASSUME NEW s \in Sessions, Fallback(s) PROVE CloserInv'
    BY <2>18, NoSessionAssumption, RequestsAssumption DEF Fallback
  <2>19. ASSUME NEW s \in Sessions, FallbackClosesPty(s) PROVE CloserInv'
    BY <2>19, NoSessionAssumption, RequestsAssumption DEF FallbackClosesPty
  <2>20. ASSUME NEW s \in Sessions, EmitFallback(s) PROVE CloserInv'
    BY <2>20, NoSessionAssumption, RequestsAssumption DEF EmitFallback
  <2>21. ASSUME NEW s \in Sessions, ShellExits(s) PROVE CloserInv'
    BY <2>21, NoSessionAssumption, RequestsAssumption DEF ShellExits
  <2>22. ASSUME NEW s \in Sessions, ConnectionLost(s) PROVE CloserInv'
    BY <2>22, NoSessionAssumption, RequestsAssumption DEF ConnectionLost
  <2>23. CASE UNCHANGED vars
    BY <2>23 DEF vars
  <2>24. QED
    BY <2>1, <2>2, <2>3, <2>4, <2>5, <2>6, <2>7, <2>8, <2>9, <2>10,
       <2>11, <2>12, <2>13, <2>14, <2>15, <2>16, <2>17, <2>18, <2>19,
       <2>20, <2>21, <2>22, <2>23
    DEF Next, ConnectStep, ShutdownStep, ReaderStep, WatchdogStep
<1>3. QED
  BY <1>1, <1>2, TypeCorrect, PTL DEF Spec

\* stopping is set before anything of a session is taken away.
StopInv ==
    /\ \A s \in Sessions :
         /\ pty[s] = "open" /\ ~hasPty[s] => watchdog[s] = "falling"
         /\ pty[s] = "closed" \/ watchdog[s] = "falling" => stopping[s]
    /\ \A x \in Closers :
         /\ closing[x] # NoSession /\ shut[x] # "begun" => stopping[closing[x]]
         /\ shut[x] = "closingPty" => kind = "local" /\ hasPty[closing[x]]
         /\ shut[x] = "ptyClosed" => kind = "ssh" /\ pty[closing[x]] = "closed"
    /\ panicked = {}

LEMMA StopInvHolds == Spec => []StopInv
<1> USE DEF StopInv
<1>1. Init => StopInv
  BY NoSessionAssumption DEF Init, Closers
<1>2. TypeOK /\ CloserInv /\ StopInv /\ [Next]_vars => StopInv'
  <2> SUFFICES ASSUME TypeOK, CloserInv, StopInv, [Next]_vars PROVE StopInv'
    OBVIOUS
  <2> USE DEF registryVars, fieldVars, terminalVars, closeVars, Move, Set, Closers,
              TypeOK, SessionOrNone, CloserInv
  <2>1. ASSUME NEW s \in Sessions, StartConnect(s) PROVE StopInv'
    BY <2>1, NoSessionAssumption, RequestsAssumption DEF StartConnect
  <2>2. ASSUME NEW s \in Sessions, OpenPty(s) PROVE StopInv'
    BY <2>2, NoSessionAssumption, RequestsAssumption DEF OpenPty
  <2>3. ASSUME NEW s \in Sessions, OpenPtyFails(s) PROVE StopInv'
    BY <2>3, NoSessionAssumption, RequestsAssumption DEF OpenPtyFails
  <2>4. ASSUME NEW s \in Sessions, Register(s) PROVE StopInv'
    BY <2>4, NoSessionAssumption, RequestsAssumption DEF Register
  <2>5. ASSUME NEW d \in Disconnects, Remove(d) PROVE StopInv'
    BY <2>5, NoSessionAssumption, RequestsAssumption DEF Remove
  <2>6. ASSUME NEW x \in Closers, StopSession(x) PROVE StopInv'
    BY <2>6, NoSessionAssumption, RequestsAssumption DEF StopSession
  <2>7. ASSUME NEW x \in Closers, LookAtPty(x) PROVE StopInv'
    BY <2>7, NoSessionAssumption, RequestsAssumption DEF LookAtPty
  <2>8. ASSUME NEW x \in Closers, ClosePty(x) PROVE StopInv'
    BY <2>8, NoSessionAssumption, RequestsAssumption DEF ClosePty
  <2>9. ASSUME NEW x \in Closers, ClosePtySession(x) PROVE StopInv'
    <3>1. /\ kind = "ssh" /\ shut[x] = "stopped"
          /\ closing[x] \in Sessions /\ stopping[closing[x]]
      BY <2>9 DEF ClosePtySession
    <3>2. /\ pty' = [pty EXCEPT ![closing[x]] = "closed"]
          /\ hasPty' = [hasPty EXCEPT ![closing[x]] = FALSE]
          /\ shut' = [shut EXCEPT ![x] = "ptyClosed"]
          /\ UNCHANGED <<kind, stopping, watchdog, closing, panicked>>
      BY <2>9 DEF ClosePtySession
    <3>3. \A y \in Closers : y # x => closing[y] # closing[x]
      BY <3>1, NoSessionAssumption
    <3>4. (\A t \in Sessions :
             /\ pty[t] = "open" /\ ~hasPty[t] => watchdog[t] = "falling"
             /\ pty[t] = "closed" \/ watchdog[t] = "falling" => stopping[t])'
      BY <3>1, <3>2
    <3>5. ASSUME NEW y \in Closers
          PROVE  /\ closing[y] # NoSession /\ shut'[y] # "begun" =>
                      stopping[closing[y]]
                 /\ shut'[y] # "closingPty"
                 /\ shut'[y] = "ptyClosed" =>
                      kind = "ssh" /\ pty'[closing[y]] = "closed"
      <4>1. CASE y = x
        BY <3>1, <3>2, <4>1
      <4>2. CASE y # x
        BY <3>1, <3>2, <3>3, <4>2
      <4>3. QED
        BY <4>1, <4>2
    <3>6. QED
      BY <3>2, <3>4, <3>5
  <2>10. ASSUME NEW x \in Closers, MarkDead(x) PROVE StopInv'
    BY <2>10, NoSessionAssumption, RequestsAssumption DEF MarkDead
  <2>11. ASSUME NEW s \in Sessions, ReadChunk(s) PROVE StopInv'
    BY <2>11, NoSessionAssumption, RequestsAssumption DEF ReadChunk
  <2>12. ASSUME NEW s \in Sessions, EmitOutput(s) PROVE StopInv'
    BY <2>12, NoSessionAssumption, RequestsAssumption DEF EmitOutput
  <2>13. ASSUME NEW s \in Sessions, ReadFails(s) PROVE StopInv'
    BY <2>13, NoSessionAssumption, RequestsAssumption DEF ReadFails
  <2>14. ASSUME NEW s \in Sessions, SampleStopping(s) PROVE StopInv'
    BY <2>14, NoSessionAssumption, RequestsAssumption DEF SampleStopping
  <2>15. ASSUME NEW s \in Sessions, EmitClosed(s) PROVE StopInv'
    BY <2>15, NoSessionAssumption, RequestsAssumption DEF EmitClosed
  <2>16. ASSUME NEW s \in Sessions, Wake(s) PROVE StopInv'
    BY <2>16, NoSessionAssumption, RequestsAssumption DEF Wake
  <2>17. ASSUME NEW s \in Sessions, WatchStopping(s) PROVE StopInv'
    BY <2>17, NoSessionAssumption, RequestsAssumption DEF WatchStopping
  <2>18. ASSUME NEW s \in Sessions, Fallback(s) PROVE StopInv'
    <3>1. CASE stopping[s] \/ ~hasPty[s]
      BY <2>18, <3>1, NoSessionAssumption, RequestsAssumption DEF Fallback
    <3>2. CASE ~(stopping[s] \/ ~hasPty[s])
      <4>1. /\ stopping' = [stopping EXCEPT ![s] = TRUE]
            /\ hasPty' = [hasPty EXCEPT ![s] = FALSE]
            /\ watchdog' = [watchdog EXCEPT ![s] = "falling"]
            /\ UNCHANGED <<kind, pty, closing, shut, panicked>>
        BY <2>18, <3>2 DEF Fallback
      <4>2. \A x \in Closers : closing[x] = s => shut[x] \in {"idle", "begun"}
        BY <3>2, NoSessionAssumption
      <4>3. (\A t \in Sessions :
               /\ pty[t] = "open" /\ ~hasPty[t] => watchdog[t] = "falling"
               /\ pty[t] = "closed" \/ watchdog[t] = "falling" => stopping[t])'
        BY <4>1
      <4>4. ASSUME NEW x \in Closers
            PROVE  /\ closing[x] # NoSession /\ shut[x] # "begun" =>
                        stopping'[closing[x]]
                   /\ shut[x] = "closingPty" =>
                        kind = "local" /\ hasPty'[closing[x]]
                   /\ shut[x] = "ptyClosed" =>
                        kind = "ssh" /\ pty[closing[x]] = "closed"
        BY <4>1, <4>2
      <4>5. QED
        BY <4>1, <4>3, <4>4
    <3>3. QED
      BY <3>1, <3>2
  <2>19. ASSUME NEW s \in Sessions, FallbackClosesPty(s) PROVE StopInv'
    BY <2>19, NoSessionAssumption, RequestsAssumption DEF FallbackClosesPty
  <2>20. ASSUME NEW s \in Sessions, EmitFallback(s) PROVE StopInv'
    BY <2>20, NoSessionAssumption, RequestsAssumption DEF EmitFallback
  <2>21. ASSUME NEW s \in Sessions, ShellExits(s) PROVE StopInv'
    BY <2>21, NoSessionAssumption, RequestsAssumption DEF ShellExits
  <2>22. ASSUME NEW s \in Sessions, ConnectionLost(s) PROVE StopInv'
    BY <2>22, NoSessionAssumption, RequestsAssumption DEF ConnectionLost
  <2>23. CASE UNCHANGED vars
    BY <2>23 DEF vars
  <2>24. QED
    BY <2>1, <2>2, <2>3, <2>4, <2>5, <2>6, <2>7, <2>8, <2>9, <2>10,
       <2>11, <2>12, <2>13, <2>14, <2>15, <2>16, <2>17, <2>18, <2>19,
       <2>20, <2>21, <2>22, <2>23
    DEF Next, ConnectStep, ShutdownStep, ReaderStep, WatchdogStep
<1>3. QED
  BY <1>1, <1>2, TypeCorrect, CloserInvHolds, PTL DEF Spec

\* shutdown() never runs into a nil terminal: fallbackSession cannot come between
\* its two looks at localPty, because stopping was set before the first.
THEOREM NoPanicInShutdownHolds == Spec => []NoPanicInShutdown
<1>1. StopInv => NoPanicInShutdown
  BY DEF StopInv, NoPanicInShutdown
<1>2. QED
  BY <1>1, StopInvHolds, PTL

\* An open terminal has an owner.
Owned(s) ==
    \/ s = current
    \/ connect[s] = "built"
    \/ \E x \in Closers : closing[x] = s /\ shut[x] # "done"
    \/ watchdog[s] = "falling"

OpenHasOwner == \A s \in Sessions : pty[s] = "open" => Owned(s)

LEMMA OpenHasOwnerHolds == Spec => []OpenHasOwner
<1> USE DEF OpenHasOwner, Owned
<1>1. Init => OpenHasOwner
  BY DEF Init
<1>2. TypeOK /\ CloserInv /\ StopInv /\ OpenHasOwner /\ [Next]_vars => OpenHasOwner'
  <2> SUFFICES ASSUME TypeOK, CloserInv, StopInv, OpenHasOwner, [Next]_vars
               PROVE  OpenHasOwner'
    OBVIOUS
  <2> USE DEF registryVars, fieldVars, terminalVars, closeVars, Move, Set, Closers,
              TypeOK, SessionOrNone
  <2>1. ASSUME NEW s \in Sessions, StartConnect(s) PROVE OpenHasOwner'
    BY <2>1, ZenonT(40) DEF StartConnect
  <2>2. ASSUME NEW s \in Sessions, OpenPty(s) PROVE OpenHasOwner'
    BY <2>2, ZenonT(40) DEF OpenPty
  <2>3. ASSUME NEW s \in Sessions, OpenPtyFails(s) PROVE OpenHasOwner'
    BY <2>3 DEF OpenPtyFails
  <2>4. ASSUME NEW s \in Sessions, Register(s) PROVE OpenHasOwner'
    <3> SUFFICES ASSUME NEW t \in Sessions, pty'[t] = "open" PROVE Owned(t)'
      OBVIOUS
    <3>1. pty[t] = "open" /\ Owned(t)
      BY <2>4 DEF Register
    <3>2. CASE t = current
      BY <2>4, <3>2, NoSessionAssumption DEF Register
    <3>3. CASE connect[t] = "built"
      BY <2>4, <3>3 DEF Register
    <3>4. CASE \E y \in Closers : closing[y] = t /\ shut[y] # "done"
      <4>1. PICK y \in Closers : closing[y] = t /\ shut[y] # "done"
        BY <3>4
      <4>2. shut[s] = "idle"
        BY <2>4 DEF Register, CloserInv
      <4>3. y # s
        BY <4>1, <4>2, NoSessionAssumption DEF CloserInv
      <4>4. closing'[y] = t /\ shut'[y] # "done"
        BY <2>4, <4>1, <4>3 DEF Register
      <4>5. QED
        BY <4>4
    <3>5. CASE watchdog[t] = "falling"
      BY <2>4, <3>5 DEF Register
    <3>6. QED
      BY <3>1, <3>2, <3>3, <3>4, <3>5
  <2>5. ASSUME NEW d \in Disconnects, Remove(d) PROVE OpenHasOwner'
    BY <2>5, NoSessionAssumption, RequestsAssumption DEF Remove, CloserInv, StopInv
  <2>6. ASSUME NEW x \in Closers, StopSession(x) PROVE OpenHasOwner'
    BY <2>6 DEF StopSession
  <2>7. ASSUME NEW x \in Closers, LookAtPty(x) PROVE OpenHasOwner'
    BY <2>7, NoSessionAssumption, RequestsAssumption
      DEF LookAtPty, CloserInv, StopInv
  <2>8. ASSUME NEW x \in Closers, ClosePty(x) PROVE OpenHasOwner'
    <3> SUFFICES ASSUME NEW t \in Sessions, pty'[t] = "open" PROVE Owned(t)'
      OBVIOUS
    <3>1. pty[t] = "open" /\ Owned(t) /\ closing[x] \in Sessions
      <4>1. closing[x] \in Sessions
        <5>1. shut[x] \notin {"idle", "done"}
          BY <2>8 DEF ClosePty
        <5>2. closing[x] # NoSession
          BY <5>1 DEF CloserInv
        <5>3. QED
          BY <5>2
      <4>2. pty[t] = "open"
        BY <2>8, <4>1 DEF ClosePty
      <4>3. QED
        BY <4>1, <4>2
    <3>2. CASE t = current
      BY <2>8, <3>2 DEF ClosePty
    <3>3. CASE connect[t] = "built"
      BY <2>8, <3>3 DEF ClosePty
    <3>4. CASE \E y \in Closers : closing[y] = t /\ shut[y] # "done"
      <4>1. PICK y \in Closers : closing[y] = t /\ shut[y] # "done"
        BY <3>4
      <4>2. CASE y # x
        BY <2>8, <4>1, <4>2 DEF ClosePty
      <4>3. CASE y = x
        BY <2>8, <3>1, <4>1, <4>3 DEF ClosePty, StopInv
      <4>4. QED
        BY <4>2, <4>3
    <3>5. CASE watchdog[t] = "falling"
      BY <2>8, <3>5 DEF ClosePty
    <3>6. QED
      BY <3>1, <3>2, <3>3, <3>4, <3>5
  <2>9. ASSUME NEW x \in Closers, ClosePtySession(x) PROVE OpenHasOwner'
    <3> SUFFICES ASSUME NEW t \in Sessions, pty'[t] = "open" PROVE Owned(t)'
      OBVIOUS
    <3>1. pty[t] = "open" /\ Owned(t) /\ closing[x] \in Sessions
      <4>1. closing[x] \in Sessions
        <5>1. shut[x] \notin {"idle", "done"}
          BY <2>9 DEF ClosePtySession
        <5>2. closing[x] # NoSession
          BY <5>1 DEF CloserInv
        <5>3. QED
          BY <5>2
      <4>2. pty[t] = "open"
        BY <2>9, <4>1 DEF ClosePtySession
      <4>3. QED
        BY <4>1, <4>2
    <3>2. CASE t = current
      BY <2>9, <3>2 DEF ClosePtySession
    <3>3. CASE connect[t] = "built"
      BY <2>9, <3>3 DEF ClosePtySession
    <3>4. CASE \E y \in Closers : closing[y] = t /\ shut[y] # "done"
      <4>1. PICK y \in Closers : closing[y] = t /\ shut[y] # "done"
        BY <3>4
      <4>2. CASE y # x
        BY <2>9, <4>1, <4>2 DEF ClosePtySession
      <4>3. CASE y = x
        BY <2>9, <3>1, <4>1, <4>3 DEF ClosePtySession, StopInv
      <4>4. QED
        BY <4>2, <4>3
    <3>5. CASE watchdog[t] = "falling"
      BY <2>9, <3>5 DEF ClosePtySession
    <3>6. QED
      BY <3>1, <3>2, <3>3, <3>4, <3>5
  <2>10. ASSUME NEW x \in Closers, MarkDead(x) PROVE OpenHasOwner'
    <3> SUFFICES ASSUME NEW t \in Sessions, pty'[t] = "open" PROVE Owned(t)'
      OBVIOUS
    <3>1. pty[t] = "open" /\ Owned(t) /\ closing[x] \in Sessions
      <4>1. closing[x] \in Sessions
        <5>1. shut[x] \notin {"idle", "done"}
          BY <2>10 DEF MarkDead
        <5>2. closing[x] # NoSession
          BY <5>1 DEF CloserInv
        <5>3. QED
          BY <5>2
      <4>2. pty[t] = "open"
        BY <2>10, <4>1 DEF MarkDead
      <4>3. QED
        BY <4>1, <4>2
    <3>2. CASE t = current
      BY <2>10, <3>2 DEF MarkDead
    <3>3. CASE connect[t] = "built"
      BY <2>10, <3>3 DEF MarkDead
    <3>4. CASE \E y \in Closers : closing[y] = t /\ shut[y] # "done"
      <4>1. PICK y \in Closers : closing[y] = t /\ shut[y] # "done"
        BY <3>4
      <4>2. CASE y # x
        BY <2>10, <4>1, <4>2 DEF MarkDead
      <4>3. CASE y = x
        BY <2>10, <3>1, <4>1, <4>3 DEF MarkDead, StopInv
      <4>4. QED
        BY <4>2, <4>3
    <3>5. CASE watchdog[t] = "falling"
      BY <2>10, <3>5 DEF MarkDead
    <3>6. QED
      BY <3>1, <3>2, <3>3, <3>4, <3>5
  <2>11. ASSUME NEW s \in Sessions, ReadChunk(s) PROVE OpenHasOwner'
    BY <2>11 DEF ReadChunk
  <2>12. ASSUME NEW s \in Sessions, EmitOutput(s) PROVE OpenHasOwner'
    BY <2>12 DEF EmitOutput
  <2>13. ASSUME NEW s \in Sessions, ReadFails(s) PROVE OpenHasOwner'
    BY <2>13 DEF ReadFails
  <2>14. ASSUME NEW s \in Sessions, SampleStopping(s) PROVE OpenHasOwner'
    BY <2>14 DEF SampleStopping
  <2>15. ASSUME NEW s \in Sessions, EmitClosed(s) PROVE OpenHasOwner'
    BY <2>15 DEF EmitClosed
  <2>16. ASSUME NEW s \in Sessions, Wake(s) PROVE OpenHasOwner'
    BY <2>16, ZenonT(40) DEF Wake
  <2>17. ASSUME NEW s \in Sessions, WatchStopping(s) PROVE OpenHasOwner'
    BY <2>17, ZenonT(40) DEF WatchStopping
  <2>18. ASSUME NEW s \in Sessions, Fallback(s) PROVE OpenHasOwner'
    <3>1. /\ UNCHANGED <<pty, current, connect, closing, shut>>
          /\ \A t \in Sessions : watchdog[t] = "falling" => watchdog'[t] = "falling"
      BY <2>18 DEF Fallback
    <3>2. \A t \in Sessions : Owned(t) => Owned(t)'
      BY <3>1
    <3>3. QED
      BY <3>1, <3>2
  <2>19. ASSUME NEW s \in Sessions, FallbackClosesPty(s) PROVE OpenHasOwner'
    BY <2>19, ZenonT(40) DEF FallbackClosesPty
  <2>20. ASSUME NEW s \in Sessions, EmitFallback(s) PROVE OpenHasOwner'
    BY <2>20, ZenonT(40) DEF EmitFallback
  <2>21. ASSUME NEW s \in Sessions, ShellExits(s) PROVE OpenHasOwner'
    BY <2>21 DEF ShellExits
  <2>22. ASSUME NEW s \in Sessions, ConnectionLost(s) PROVE OpenHasOwner'
    BY <2>22 DEF ConnectionLost
  <2>23. CASE UNCHANGED vars
    BY <2>23 DEF vars
  <2>24. QED
    BY <2>1, <2>2, <2>3, <2>4, <2>5, <2>6, <2>7, <2>8, <2>9, <2>10,
       <2>11, <2>12, <2>13, <2>14, <2>15, <2>16, <2>17, <2>18, <2>19,
       <2>20, <2>21, <2>22, <2>23
    DEF Next, ConnectStep, ShutdownStep, ReaderStep, WatchdogStep
<1>3. QED
  BY <1>1, <1>2, TypeCorrect, CloserInvHolds, StopInvHolds, PTL DEF Spec

\* Every session is closed by one request and no open terminal is left without
\* somebody who closes it, for any number of connects and disconnects.
THEOREM OneCloserHolds == Spec => []OneCloser
<1>1. CloserInv /\ OpenHasOwner => OneCloser
  BY DEF CloserInv, OpenHasOwner, Owned, OneCloser, BeingShutDown
<1>2. QED
  BY <1>1, CloserInvHolds, OpenHasOwnerHolds, PTL

-----------------------------------------------------------------------------
(* What is announced                                                       *)

\* The reason for an announcement is there when the read loop looks at stopping,
\* and stays.
ReasonInv ==
    /\ \A s \in Sessions :
         /\ dead[s] => kind = "ssh"
         /\ connect[s] \in {"new", "opening"} => shell[s] = "none"
         /\ \/ reader[s] = "ended" /\ ~stopping[s]
            \/ reader[s] = "closing"
            => shell[s] = "exited" \/ dead[s]
    /\ ClosedMeansExited

LEMMA Appended ==
    ASSUME NEW s \in Seq(Event), NEW e \in Event
    PROVE  \A n \in DOMAIN Append(s, e) :
             Append(s, e)[n] = e \/ (n \in DOMAIN s /\ Append(s, e)[n] = s[n])
<1> HIDE DEF Event
<1>1. QED
  OBVIOUS

LEMMA ReasonInvHolds == Spec => []ReasonInv
<1> USE DEF ReasonInv, ClosedMeansExited, Announced
<1>1. Init => ReasonInv
  BY DEF Init
<1>2. TypeOK /\ StopInv /\ ReasonInv /\ [Next]_vars => ReasonInv'
  <2> SUFFICES ASSUME TypeOK, StopInv, ReasonInv, [Next]_vars PROVE ReasonInv'
    OBVIOUS
  <2> USE DEF registryVars, fieldVars, terminalVars, closeVars, Move, Set, TypeOK,
              StopInv
  <2>1. ASSUME NEW s \in Sessions, StartConnect(s) PROVE ReasonInv'
    BY <2>1 DEF StartConnect
  <2>2. ASSUME NEW s \in Sessions, OpenPty(s) PROVE ReasonInv'
    BY <2>2 DEF OpenPty
  <2>3. ASSUME NEW s \in Sessions, OpenPtyFails(s) PROVE ReasonInv'
    BY <2>3 DEF OpenPtyFails
  <2>4. ASSUME NEW s \in Sessions, Register(s) PROVE ReasonInv'
    BY <2>4 DEF Register
  <2>5. ASSUME NEW d \in Disconnects, Remove(d) PROVE ReasonInv'
    BY <2>5 DEF Remove
  <2>6. ASSUME NEW x \in Closers, StopSession(x) PROVE ReasonInv'
    BY <2>6 DEF StopSession
  <2>7. ASSUME NEW x \in Closers, LookAtPty(x) PROVE ReasonInv'
    BY <2>7 DEF LookAtPty
  <2>8. ASSUME NEW x \in Closers, ClosePty(x) PROVE ReasonInv'
    BY <2>8 DEF ClosePty
  <2>9. ASSUME NEW x \in Closers, ClosePtySession(x) PROVE ReasonInv'
    BY <2>9 DEF ClosePtySession
  <2>10. ASSUME NEW x \in Closers, MarkDead(x) PROVE ReasonInv'
    BY <2>10 DEF MarkDead
  <2>11. ASSUME NEW s \in Sessions, ReadChunk(s) PROVE ReasonInv'
    BY <2>11 DEF ReadChunk
  <2>12. ASSUME NEW s \in Sessions, EmitOutput(s) PROVE ReasonInv'
    BY <2>12 DEF EmitOutput
  <2>13. ASSUME NEW s \in Sessions, ReadFails(s) PROVE ReasonInv'
    BY <2>13 DEF ReadFails
  <2>14. ASSUME NEW s \in Sessions, SampleStopping(s) PROVE ReasonInv'
    BY <2>14 DEF SampleStopping
  <2>15. ASSUME NEW s \in Sessions, EmitClosed(s) PROVE ReasonInv'
    <3>1. [event |-> "pty-closed", session |-> s] \in Event
      BY DEF Event
    <3>2. \A n \in DOMAIN events' :
            \/ events'[n] = [event |-> "pty-closed", session |-> s]
            \/ n \in DOMAIN events /\ events'[n] = events[n]
      BY <2>15, <3>1, Appended DEF EmitClosed, Emit
    <3>3. UNCHANGED <<kind, connect, shell, dead, stopping, pty>>
      BY <2>15 DEF EmitClosed
    <3>4. ASSUME NEW t \in Sessions, NEW n \in DOMAIN events',
                 events'[n] = [event |-> "pty-closed", session |-> t]
          PROVE  shell[t] = "exited" \/ dead[t]
      <4>1. CASE n \in DOMAIN events /\ events'[n] = events[n]
        BY <3>4, <4>1
      <4>2. CASE events'[n] = [event |-> "pty-closed", session |-> s]
        <5>1. t = s
          BY <3>4, <4>2
        <5>2. QED
          BY <2>15, <5>1 DEF EmitClosed
      <4>3. QED
        BY <3>2, <4>1, <4>2
    <3>5. ClosedMeansExited'
      BY <3>3, <3>4
    <3>6. QED
      BY <2>15, <3>3, <3>5 DEF EmitClosed
  <2>16. ASSUME NEW s \in Sessions, Wake(s) PROVE ReasonInv'
    BY <2>16 DEF Wake
  <2>17. ASSUME NEW s \in Sessions, WatchStopping(s) PROVE ReasonInv'
    BY <2>17 DEF WatchStopping
  <2>18. ASSUME NEW s \in Sessions, Fallback(s) PROVE ReasonInv'
    <3>1. UNCHANGED <<kind, connect, shell, dead, reader, events>>
      BY <2>18, FallbackOutcome
    <3>2. \A t \in Sessions : stopping[t] => stopping'[t]
      BY <2>18, StoppingStays DEF TypeOK
    <3>3. QED
      BY <3>1, <3>2
  <2>19. ASSUME NEW s \in Sessions, FallbackClosesPty(s) PROVE ReasonInv'
    BY <2>19 DEF FallbackClosesPty
  <2>20. ASSUME NEW s \in Sessions, EmitFallback(s) PROVE ReasonInv'
    <3>1. [event |-> "legacy-fallback", session |-> s] \in Event
      BY DEF Event
    <3>2. \A n \in DOMAIN events' :
            \/ events'[n] = [event |-> "legacy-fallback", session |-> s]
            \/ n \in DOMAIN events /\ events'[n] = events[n]
      BY <2>20, <3>1, Appended DEF EmitFallback, Emit
    <3>3. UNCHANGED <<kind, connect, shell, dead, stopping, pty>>
      BY <2>20 DEF EmitFallback
    <3>4. ASSUME NEW t \in Sessions, NEW n \in DOMAIN events',
                 events'[n] = [event |-> "pty-closed", session |-> t]
          PROVE  shell[t] = "exited" \/ dead[t]
      <4>1. CASE n \in DOMAIN events /\ events'[n] = events[n]
        BY <3>4, <4>1
      <4>2. CASE events'[n] = [event |-> "legacy-fallback", session |-> s]
        <5>1. [event |-> "legacy-fallback", session |-> s].event
                # [event |-> "pty-closed", session |-> t].event
          OBVIOUS
        <5>2. QED
          BY <3>4, <4>2, <5>1
      <4>3. QED
        BY <3>2, <4>1, <4>2
    <3>5. ClosedMeansExited'
      BY <3>3, <3>4
    <3>6. QED
      BY <2>20, <3>3, <3>5 DEF EmitFallback
  <2>21. ASSUME NEW s \in Sessions, ShellExits(s) PROVE ReasonInv'
    BY <2>21 DEF ShellExits
  <2>22. ASSUME NEW s \in Sessions, ConnectionLost(s) PROVE ReasonInv'
    BY <2>22 DEF ConnectionLost
  <2>23. CASE UNCHANGED vars
    BY <2>23 DEF vars
  <2>24. QED
    BY <2>1, <2>2, <2>3, <2>4, <2>5, <2>6, <2>7, <2>8, <2>9, <2>10,
       <2>11, <2>12, <2>13, <2>14, <2>15, <2>16, <2>17, <2>18, <2>19,
       <2>20, <2>21, <2>22, <2>23
    DEF Next, ConnectStep, ShutdownStep, ReaderStep, WatchdogStep
<1>3. QED
  BY <1>1, <1>2, TypeCorrect, StopInvHolds, PTL DEF Spec

\* shell/pty-closed means that the shell exited or the connection was lost.
THEOREM ClosedMeansExitedHolds == Spec => []ClosedMeansExited
<1>1. ReasonInv => ClosedMeansExited
  BY DEF ReasonInv
<1>2. QED
  BY <1>1, ReasonInvHolds, PTL
=============================================================================
