------------------------ MODULE RemoteSession_proofs ------------------------
(***************************************************************************)
(* Proofs about RemoteSession, for any requests, kinds of requests and      *)
(* behaviours of the network.                                               *)
(***************************************************************************)
EXTENDS RemoteSession, TLAPS

\* The session, its locks and its clients stay well typed.
THEOREM TypeCorrect == Spec => []TypeOK
<1> USE DEF TypeOK, Ops, Stages, RequestOrNobody
<1>1. Init => TypeOK
  <2> SUFFICES ASSUME Init PROVE TypeOK
    OBVIOUS
  <2>1. hangs \in 0..MaxHangs
    BY MaxHangsAssumption DEF Init
  <2>2. /\ registered \in BOOLEAN /\ dead \in BOOLEAN /\ stdin \in BOOLEAN
        /\ loaded \in BOOLEAN /\ injected \in BOOLEAN
        /\ crashed \in BOOLEAN /\ trouble \in BOOLEAN
    BY DEF Init
  <2>3. QED
    BY <2>1, <2>2 DEF Init
<1>2. TypeOK /\ [Next]_vars => TypeOK'
  <2> SUFFICES ASSUME TypeOK, [Next]_vars PROVE TypeOK'
    OBVIOUS
  <2> USE DEF requestVars, lockVars, clientVars, namesVars, configVars, hostVars,
              netVars,
              Move, Finish, CloseMove, Free, Works, Fails
  <2>1. ASSUME NEW r \in Requests, Lookup(r) PROVE TypeOK'
    BY <2>1, NobodyAssumption, MaxHangsAssumption DEF Lookup
  <2>2. ASSUME NEW r \in Requests, Configure(r) PROVE TypeOK'
    BY <2>2, NobodyAssumption, MaxHangsAssumption DEF Configure
  <2>3. ASSUME NEW r \in Requests, AskShell(r) PROVE TypeOK'
    BY <2>3, NobodyAssumption, MaxHangsAssumption DEF AskShell
  <2>4. ASSUME NEW r \in Requests, LookForTerminal(r) PROVE TypeOK'
    BY <2>4, NobodyAssumption, MaxHangsAssumption DEF LookForTerminal
  <2>5. ASSUME NEW r \in Requests, TypeReporter(r) PROVE TypeOK'
    BY <2>5, NobodyAssumption, MaxHangsAssumption DEF TypeReporter
  <2>6. ASSUME NEW r \in Requests, TypingPanics(r) PROVE TypeOK'
    BY <2>6, NobodyAssumption, MaxHangsAssumption DEF TypingPanics
  <2>7. ASSUME NEW r \in Requests, Begin(r) PROVE TypeOK'
    BY <2>7, NobodyAssumption, MaxHangsAssumption DEF Begin
  <2>8. ASSUME NEW r \in Requests, EnterSftp(r) PROVE TypeOK'
    BY <2>8, NobodyAssumption, MaxHangsAssumption DEF EnterSftp, WithoutClient
  <2>9. ASSUME NEW r \in Requests, SetupDone(r) PROVE TypeOK'
    BY <2>9, NobodyAssumption, MaxHangsAssumption DEF SetupDone
  <2>10. ASSUME NEW r \in Requests, SetupFails(r) PROVE TypeOK'
    BY <2>10, NobodyAssumption, MaxHangsAssumption DEF SetupFails, WithoutClient
  <2>11. ASSUME NEW r \in Requests, SetupTimesOut(r) PROVE TypeOK'
    BY <2>11, NobodyAssumption, MaxHangsAssumption DEF SetupTimesOut, WithoutClient
  <2>12. ASSUME NEW r \in Requests, UseClient(r) PROVE TypeOK'
    BY <2>12, NobodyAssumption, MaxHangsAssumption DEF UseClient
  <2>13. ASSUME NEW r \in Requests, EnterRemote(r) PROVE TypeOK'
    BY <2>13, NobodyAssumption, MaxHangsAssumption DEF EnterRemote
  <2>14. ASSUME NEW r \in Requests, ListedEnv(r) PROVE TypeOK'
    BY <2>14, NobodyAssumption, MaxHangsAssumption DEF ListedEnv
  <2>15. ASSUME NEW r \in Requests, ReadNames(r) PROVE TypeOK'
    BY <2>15, NobodyAssumption, MaxHangsAssumption DEF ReadNames
  <2>16. ASSUME NEW r \in Requests, OpenChannel(r) PROVE TypeOK'
    BY <2>16, NobodyAssumption, MaxHangsAssumption DEF OpenChannel
  <2>17. ASSUME NEW r \in Requests, OpenChannelFails(r) PROVE TypeOK'
    BY <2>17, NobodyAssumption, MaxHangsAssumption
      DEF OpenChannelFails, WithoutClient
  <2>18. ASSUME NEW r \in Requests, DockerDone(r) PROVE TypeOK'
    BY <2>18, NobodyAssumption, MaxHangsAssumption DEF DockerDone
  <2>19. ASSUME NEW r \in Requests, CommandTimesOut(r) PROVE TypeOK'
    BY <2>19, NobodyAssumption, MaxHangsAssumption
      DEF CommandTimesOut, WithoutClient
  <2>20. ASSUME NEW r \in Requests, DockerBreaks(r) PROVE TypeOK'
    BY <2>20, NobodyAssumption, MaxHangsAssumption DEF DockerBreaks
  <2>21. ASSUME NEW r \in Requests, LockWrite(r) PROVE TypeOK'
    BY <2>21, NobodyAssumption, MaxHangsAssumption DEF LockWrite
  <2>22. ASSUME NEW r \in Requests, WritePanics(r) PROVE TypeOK'
    BY <2>22, NobodyAssumption, MaxHangsAssumption DEF WritePanics
  <2>23. ASSUME NEW r \in Requests, WriteStdin(r) PROVE TypeOK'
    BY <2>23, NobodyAssumption, MaxHangsAssumption DEF WriteStdin
  <2>24. ASSUME NEW r \in Requests, LateSetup(r) PROVE TypeOK'
    BY <2>24, NobodyAssumption, MaxHangsAssumption DEF LateSetup
  <2>25. CASE KeepaliveTick
    BY <2>25, NobodyAssumption, MaxHangsAssumption DEF KeepaliveTick
  <2>26. CASE KeepaliveAnswered
    BY <2>26, NobodyAssumption, MaxHangsAssumption DEF KeepaliveAnswered
  <2>27. CASE KeepaliveFails
    BY <2>27, NobodyAssumption, MaxHangsAssumption DEF KeepaliveFails
  <2>28. CASE RemoveSession
    <3>1. /\ registered' \in BOOLEAN
          /\ closing' \in {"open", "removed", "ptyClosed", "sftpClosed", "closed"}
      BY <2>28 DEF RemoveSession
    <3>2. UNCHANGED <<requestVars, lockVars, clientVars, namesVars, op, configVars,
                      netVars, dead, keepalive, trouble, stdin>>
      BY <2>28 DEF RemoveSession
    <3>3. QED
      BY <3>1, <3>2
  <2>29. CASE ClosePty
    <3>1. /\ stdin' \in BOOLEAN
          /\ closing' \in {"open", "removed", "ptyClosed", "sftpClosed", "closed"}
      BY <2>29 DEF ClosePty
    <3>2. UNCHANGED <<requestVars, lockVars, clientVars, namesVars, op, configVars,
                      netVars, dead, keepalive, trouble, registered>>
      BY <2>29 DEF ClosePty
    <3>3. QED
      BY <3>1, <3>2
  <2>30. CASE CloseSftp
    BY <2>30, NobodyAssumption, MaxHangsAssumption DEF CloseSftp
  <2>31. CASE MarkDead
    BY <2>31, NobodyAssumption, MaxHangsAssumption DEF MarkDead
  <2>32. CASE FallSilent
    BY <2>32, NobodyAssumption, MaxHangsAssumption DEF FallSilent
  <2>33. CASE Recover
    BY <2>33, NobodyAssumption, MaxHangsAssumption DEF Recover
  <2>34. CASE Break
    BY <2>34, NobodyAssumption, MaxHangsAssumption DEF Break
  <2>35. CASE UNCHANGED vars
    BY <2>35 DEF vars
  <2>36. QED
    BY <2>1, <2>2, <2>3, <2>4, <2>5, <2>6, <2>7, <2>8, <2>9, <2>10,
       <2>11, <2>12, <2>13, <2>14, <2>15, <2>16, <2>17, <2>18, <2>19,
       <2>20, <2>21, <2>22, <2>23, <2>24, <2>25, <2>26, <2>27, <2>28,
       <2>29, <2>30, <2>31, <2>32, <2>33, <2>34, <2>35
    DEF Next, HandlerStep, ConfigStep, SftpStep, NamesStep, ChannelStep, InputStep,
        KeepaliveStep, ShutdownStep
<1>3. QED
  BY <1>1, <1>2, PTL DEF Spec

-----------------------------------------------------------------------------
(* Why a session is given up                                               *)

\* A connection that is broken had trouble.
CauseInv == (net = "broken" => trouble) /\ DeadHasCause

\* Only the keepalive acts on the state of the network instead of on an error.
LEMMA CauseInvHolds == Spec => []CauseInv
<1> USE DEF CauseInv, DeadHasCause
<1>1. Init => CauseInv
  BY DEF Init
<1>2. TypeOK /\ CauseInv /\ [Next]_vars => CauseInv'
  <2> SUFFICES ASSUME TypeOK, CauseInv, [Next]_vars PROVE CauseInv'
    OBVIOUS
  <2> USE DEF requestVars, lockVars, clientVars, namesVars, configVars, hostVars,
              netVars, Move, Finish, CloseMove, Free, Works, Fails, TypeOK, Ops,
              Stages, RequestOrNobody
  <2>1. ASSUME NEW r \in Requests, Lookup(r) PROVE CauseInv'
    BY <2>1 DEF Lookup
  <2>2. ASSUME NEW r \in Requests, Configure(r) PROVE CauseInv'
    BY <2>2 DEF Configure
  <2>3. ASSUME NEW r \in Requests, AskShell(r) PROVE CauseInv'
    BY <2>3 DEF AskShell
  <2>4. ASSUME NEW r \in Requests, LookForTerminal(r) PROVE CauseInv'
    BY <2>4 DEF LookForTerminal
  <2>5. ASSUME NEW r \in Requests, TypeReporter(r) PROVE CauseInv'
    BY <2>5 DEF TypeReporter
  <2>6. ASSUME NEW r \in Requests, TypingPanics(r) PROVE CauseInv'
    BY <2>6 DEF TypingPanics
  <2>7. ASSUME NEW r \in Requests, Begin(r) PROVE CauseInv'
    BY <2>7 DEF Begin
  <2>8. ASSUME NEW r \in Requests, EnterSftp(r) PROVE CauseInv'
    BY <2>8 DEF EnterSftp, WithoutClient
  <2>9. ASSUME NEW r \in Requests, SetupDone(r) PROVE CauseInv'
    BY <2>9 DEF SetupDone
  <2>10. ASSUME NEW r \in Requests, SetupFails(r) PROVE CauseInv'
    BY <2>10 DEF SetupFails, WithoutClient
  <2>11. ASSUME NEW r \in Requests, SetupTimesOut(r) PROVE CauseInv'
    BY <2>11 DEF SetupTimesOut, WithoutClient
  <2>12. ASSUME NEW r \in Requests, UseClient(r) PROVE CauseInv'
    BY <2>12 DEF UseClient
  <2>13. ASSUME NEW r \in Requests, EnterRemote(r) PROVE CauseInv'
    BY <2>13 DEF EnterRemote
  <2>14. ASSUME NEW r \in Requests, ListedEnv(r) PROVE CauseInv'
    BY <2>14 DEF ListedEnv
  <2>15. ASSUME NEW r \in Requests, ReadNames(r) PROVE CauseInv'
    BY <2>15 DEF ReadNames
  <2>16. ASSUME NEW r \in Requests, OpenChannel(r) PROVE CauseInv'
    BY <2>16 DEF OpenChannel
  <2>17. ASSUME NEW r \in Requests, OpenChannelFails(r) PROVE CauseInv'
    BY <2>17 DEF OpenChannelFails, WithoutClient
  <2>18. ASSUME NEW r \in Requests, DockerDone(r) PROVE CauseInv'
    BY <2>18 DEF DockerDone
  <2>19. ASSUME NEW r \in Requests, CommandTimesOut(r) PROVE CauseInv'
    BY <2>19 DEF CommandTimesOut, WithoutClient
  <2>20. ASSUME NEW r \in Requests, DockerBreaks(r) PROVE CauseInv'
    BY <2>20 DEF DockerBreaks
  <2>21. ASSUME NEW r \in Requests, LockWrite(r) PROVE CauseInv'
    BY <2>21 DEF LockWrite
  <2>22. ASSUME NEW r \in Requests, WritePanics(r) PROVE CauseInv'
    BY <2>22 DEF WritePanics
  <2>23. ASSUME NEW r \in Requests, WriteStdin(r) PROVE CauseInv'
    BY <2>23 DEF WriteStdin
  <2>24. ASSUME NEW r \in Requests, LateSetup(r) PROVE CauseInv'
    BY <2>24 DEF LateSetup
  <2>25. CASE KeepaliveTick
    BY <2>25 DEF KeepaliveTick
  <2>26. CASE KeepaliveAnswered
    BY <2>26 DEF KeepaliveAnswered
  <2>27. CASE KeepaliveFails
    BY <2>27 DEF KeepaliveFails
  <2>28. CASE RemoveSession
    BY <2>28 DEF RemoveSession
  <2>29. CASE ClosePty
    BY <2>29 DEF ClosePty
  <2>30. CASE CloseSftp
    BY <2>30 DEF CloseSftp
  <2>31. CASE MarkDead
    BY <2>31 DEF MarkDead
  <2>32. CASE FallSilent
    BY <2>32 DEF FallSilent
  <2>33. CASE Recover
    BY <2>33 DEF Recover
  <2>34. CASE Break
    BY <2>34 DEF Break
  <2>35. CASE UNCHANGED vars
    BY <2>35 DEF vars
  <2>36. QED
    BY <2>1, <2>2, <2>3, <2>4, <2>5, <2>6, <2>7, <2>8, <2>9, <2>10,
       <2>11, <2>12, <2>13, <2>14, <2>15, <2>16, <2>17, <2>18, <2>19,
       <2>20, <2>21, <2>22, <2>23, <2>24, <2>25, <2>26, <2>27, <2>28,
       <2>29, <2>30, <2>31, <2>32, <2>33, <2>34, <2>35
    DEF Next, HandlerStep, ConfigStep, SftpStep, NamesStep, ChannelStep, InputStep,
        KeepaliveStep, ShutdownStep
<1>3. QED
  BY <1>1, <1>2, TypeCorrect, PTL DEF Spec

\* No session is given up because a docker command took too long, or for any other
\* reason than trouble of the connection or the end of its shutdown.
THEOREM DeadHasCauseHolds == Spec => []DeadHasCause
<1>1. CauseInv => DeadHasCause
  BY DEF CauseInv
<1>2. QED
  BY <1>1, CauseInvHolds, PTL

-----------------------------------------------------------------------------
(* What is done once                                                       *)

\* A client is set up under sftpMutex while there is none.
ClientInv ==
    /\ \A r \in Requests : stage[r] = "setup" => sftpLock = r /\ sftpConn = Nobody
    /\ \A r \in opened : dead \/ r = sftpConn \/ r \in timedOut

\* The mutex keeps every other setup out until the client is stored.
LEMMA ClientInvHolds == Spec => []ClientInv
<1> USE DEF ClientInv
<1>1. Init => ClientInv
  BY DEF Init
<1>2. TypeOK /\ ClientInv /\ [Next]_vars => ClientInv'
  <2> SUFFICES ASSUME TypeOK, ClientInv, [Next]_vars PROVE ClientInv'
    OBVIOUS
  <2> USE DEF requestVars, lockVars, clientVars, namesVars, configVars, hostVars,
              netVars, Move, Finish, CloseMove, Free, Works, Fails, TypeOK, Ops,
              Stages, RequestOrNobody
  <2>1. ASSUME NEW r \in Requests, Lookup(r) PROVE ClientInv'
    BY <2>1, NobodyAssumption DEF Lookup
  <2>2. ASSUME NEW r \in Requests, Configure(r) PROVE ClientInv'
    BY <2>2, NobodyAssumption DEF Configure
  <2>3. ASSUME NEW r \in Requests, AskShell(r) PROVE ClientInv'
    BY <2>3, NobodyAssumption DEF AskShell
  <2>4. ASSUME NEW r \in Requests, LookForTerminal(r) PROVE ClientInv'
    BY <2>4, NobodyAssumption DEF LookForTerminal
  <2>5. ASSUME NEW r \in Requests, TypeReporter(r) PROVE ClientInv'
    BY <2>5, NobodyAssumption DEF TypeReporter
  <2>6. ASSUME NEW r \in Requests, TypingPanics(r) PROVE ClientInv'
    BY <2>6, NobodyAssumption DEF TypingPanics
  <2>7. ASSUME NEW r \in Requests, Begin(r) PROVE ClientInv'
    BY <2>7, NobodyAssumption DEF Begin
  <2>8. ASSUME NEW r \in Requests, EnterSftp(r) PROVE ClientInv'
    BY <2>8, NobodyAssumption DEF EnterSftp, WithoutClient
  <2>9. ASSUME NEW r \in Requests, SetupDone(r) PROVE ClientInv'
    BY <2>9, NobodyAssumption DEF SetupDone
  <2>10. ASSUME NEW r \in Requests, SetupFails(r) PROVE ClientInv'
    BY <2>10, NobodyAssumption DEF SetupFails, WithoutClient
  <2>11. ASSUME NEW r \in Requests, SetupTimesOut(r) PROVE ClientInv'
    BY <2>11, NobodyAssumption DEF SetupTimesOut, WithoutClient
  <2>12. ASSUME NEW r \in Requests, UseClient(r) PROVE ClientInv'
    BY <2>12, NobodyAssumption DEF UseClient
  <2>13. ASSUME NEW r \in Requests, EnterRemote(r) PROVE ClientInv'
    BY <2>13, NobodyAssumption DEF EnterRemote
  <2>14. ASSUME NEW r \in Requests, ListedEnv(r) PROVE ClientInv'
    BY <2>14, NobodyAssumption DEF ListedEnv
  <2>15. ASSUME NEW r \in Requests, ReadNames(r) PROVE ClientInv'
    BY <2>15, NobodyAssumption DEF ReadNames
  <2>16. ASSUME NEW r \in Requests, OpenChannel(r) PROVE ClientInv'
    BY <2>16, NobodyAssumption DEF OpenChannel
  <2>17. ASSUME NEW r \in Requests, OpenChannelFails(r) PROVE ClientInv'
    BY <2>17, NobodyAssumption DEF OpenChannelFails, WithoutClient
  <2>18. ASSUME NEW r \in Requests, DockerDone(r) PROVE ClientInv'
    BY <2>18, NobodyAssumption DEF DockerDone
  <2>19. ASSUME NEW r \in Requests, CommandTimesOut(r) PROVE ClientInv'
    BY <2>19, NobodyAssumption DEF CommandTimesOut, WithoutClient
  <2>20. ASSUME NEW r \in Requests, DockerBreaks(r) PROVE ClientInv'
    BY <2>20, NobodyAssumption DEF DockerBreaks
  <2>21. ASSUME NEW r \in Requests, LockWrite(r) PROVE ClientInv'
    BY <2>21, NobodyAssumption DEF LockWrite
  <2>22. ASSUME NEW r \in Requests, WritePanics(r) PROVE ClientInv'
    BY <2>22, NobodyAssumption DEF WritePanics
  <2>23. ASSUME NEW r \in Requests, WriteStdin(r) PROVE ClientInv'
    BY <2>23, NobodyAssumption DEF WriteStdin
  <2>24. ASSUME NEW r \in Requests, LateSetup(r) PROVE ClientInv'
    BY <2>24, NobodyAssumption DEF LateSetup
  <2>25. CASE KeepaliveTick
    BY <2>25, NobodyAssumption DEF KeepaliveTick
  <2>26. CASE KeepaliveAnswered
    BY <2>26, NobodyAssumption DEF KeepaliveAnswered
  <2>27. CASE KeepaliveFails
    BY <2>27, NobodyAssumption DEF KeepaliveFails
  <2>28. CASE RemoveSession
    BY <2>28, NobodyAssumption DEF RemoveSession
  <2>29. CASE ClosePty
    BY <2>29, NobodyAssumption DEF ClosePty
  <2>30. CASE CloseSftp
    BY <2>30, NobodyAssumption DEF CloseSftp
  <2>31. CASE MarkDead
    BY <2>31, NobodyAssumption DEF MarkDead
  <2>32. CASE FallSilent
    BY <2>32, NobodyAssumption DEF FallSilent
  <2>33. CASE Recover
    BY <2>33, NobodyAssumption DEF Recover
  <2>34. CASE Break
    BY <2>34, NobodyAssumption DEF Break
  <2>35. CASE UNCHANGED vars
    BY <2>35 DEF vars
  <2>36. QED
    BY <2>1, <2>2, <2>3, <2>4, <2>5, <2>6, <2>7, <2>8, <2>9, <2>10,
       <2>11, <2>12, <2>13, <2>14, <2>15, <2>16, <2>17, <2>18, <2>19,
       <2>20, <2>21, <2>22, <2>23, <2>24, <2>25, <2>26, <2>27, <2>28,
       <2>29, <2>30, <2>31, <2>32, <2>33, <2>34, <2>35
    DEF Next, HandlerStep, ConfigStep, SftpStep, NamesStep, ChannelStep, InputStep,
        KeepaliveStep, ShutdownStep
<1>3. QED
  BY <1>1, <1>2, TypeCorrect, PTL DEF Spec

\* The request that loads the names holds remoteMutex from the moment remoteLoaded
\* is set until they are there; nobody reads them before it gives the mutex back.
Loading(r) ==
    /\ op[r] = "names"
    /\ stage[r] \in {"opening", "running", "wantSftp", "setup", "using"}

NamesInv ==
    /\ \A r \in Requests :
         /\ stage[r] = "wantRemote" => op[r] = "names"
         /\ Loading(r) => loaded /\ remoteLock = r
         /\ stage[r] = "reading" \/ seen[r] # "unread" =>
              loaded /\ remoteLock = Nobody
         /\ seen[r] # "unread" => seen[r] = names

\* Once a completion has read the names nobody loads them any more.
LEMMA NamesInvHolds == Spec => []NamesInv
<1> USE DEF NamesInv, Loading
<1>1. Init => NamesInv
  BY DEF Init
<1>2. TypeOK /\ NamesInv /\ [Next]_vars => NamesInv'
  <2> SUFFICES ASSUME TypeOK, NamesInv, [Next]_vars PROVE NamesInv'
    OBVIOUS
  <2> USE DEF requestVars, lockVars, clientVars, namesVars, configVars, hostVars,
              netVars, Move, Finish, CloseMove, Free, Works, Fails, TypeOK, Ops,
              Stages, RequestOrNobody
  <2>1. ASSUME NEW r \in Requests, Lookup(r) PROVE NamesInv'
    BY <2>1, NobodyAssumption DEF Lookup
  <2>2. ASSUME NEW r \in Requests, Configure(r) PROVE NamesInv'
    BY <2>2, NobodyAssumption DEF Configure
  <2>3. ASSUME NEW r \in Requests, AskShell(r) PROVE NamesInv'
    BY <2>3, NobodyAssumption DEF AskShell
  <2>4. ASSUME NEW r \in Requests, LookForTerminal(r) PROVE NamesInv'
    BY <2>4, NobodyAssumption DEF LookForTerminal
  <2>5. ASSUME NEW r \in Requests, TypeReporter(r) PROVE NamesInv'
    BY <2>5, NobodyAssumption DEF TypeReporter
  <2>6. ASSUME NEW r \in Requests, TypingPanics(r) PROVE NamesInv'
    BY <2>6, NobodyAssumption DEF TypingPanics
  <2>7. ASSUME NEW r \in Requests, Begin(r) PROVE NamesInv'
    BY <2>7, NobodyAssumption DEF Begin
  <2>8. ASSUME NEW r \in Requests, EnterSftp(r) PROVE NamesInv'
    BY <2>8, NobodyAssumption DEF EnterSftp, WithoutClient
  <2>9. ASSUME NEW r \in Requests, SetupDone(r) PROVE NamesInv'
    BY <2>9, NobodyAssumption DEF SetupDone
  <2>10. ASSUME NEW r \in Requests, SetupFails(r) PROVE NamesInv'
    BY <2>10, NobodyAssumption DEF SetupFails, WithoutClient
  <2>11. ASSUME NEW r \in Requests, SetupTimesOut(r) PROVE NamesInv'
    BY <2>11, NobodyAssumption DEF SetupTimesOut, WithoutClient
  <2>12. ASSUME NEW r \in Requests, UseClient(r) PROVE NamesInv'
    BY <2>12, NobodyAssumption DEF UseClient
  <2>13. ASSUME NEW r \in Requests, EnterRemote(r) PROVE NamesInv'
    BY <2>13, NobodyAssumption DEF EnterRemote
  <2>14. ASSUME NEW r \in Requests, ListedEnv(r) PROVE NamesInv'
    BY <2>14, NobodyAssumption DEF ListedEnv
  <2>15. ASSUME NEW r \in Requests, ReadNames(r) PROVE NamesInv'
    BY <2>15, NobodyAssumption DEF ReadNames
  <2>16. ASSUME NEW r \in Requests, OpenChannel(r) PROVE NamesInv'
    BY <2>16, NobodyAssumption DEF OpenChannel
  <2>17. ASSUME NEW r \in Requests, OpenChannelFails(r) PROVE NamesInv'
    BY <2>17, NobodyAssumption DEF OpenChannelFails, WithoutClient
  <2>18. ASSUME NEW r \in Requests, DockerDone(r) PROVE NamesInv'
    BY <2>18, NobodyAssumption DEF DockerDone
  <2>19. ASSUME NEW r \in Requests, CommandTimesOut(r) PROVE NamesInv'
    BY <2>19, NobodyAssumption DEF CommandTimesOut, WithoutClient
  <2>20. ASSUME NEW r \in Requests, DockerBreaks(r) PROVE NamesInv'
    BY <2>20, NobodyAssumption DEF DockerBreaks
  <2>21. ASSUME NEW r \in Requests, LockWrite(r) PROVE NamesInv'
    BY <2>21, NobodyAssumption DEF LockWrite
  <2>22. ASSUME NEW r \in Requests, WritePanics(r) PROVE NamesInv'
    BY <2>22, NobodyAssumption DEF WritePanics
  <2>23. ASSUME NEW r \in Requests, WriteStdin(r) PROVE NamesInv'
    BY <2>23, NobodyAssumption DEF WriteStdin
  <2>24. ASSUME NEW r \in Requests, LateSetup(r) PROVE NamesInv'
    BY <2>24, NobodyAssumption DEF LateSetup
  <2>25. CASE KeepaliveTick
    BY <2>25, NobodyAssumption DEF KeepaliveTick
  <2>26. CASE KeepaliveAnswered
    BY <2>26, NobodyAssumption DEF KeepaliveAnswered
  <2>27. CASE KeepaliveFails
    BY <2>27, NobodyAssumption DEF KeepaliveFails
  <2>28. CASE RemoveSession
    BY <2>28, NobodyAssumption DEF RemoveSession
  <2>29. CASE ClosePty
    BY <2>29, NobodyAssumption DEF ClosePty
  <2>30. CASE CloseSftp
    BY <2>30, NobodyAssumption DEF CloseSftp
  <2>31. CASE MarkDead
    BY <2>31, NobodyAssumption DEF MarkDead
  <2>32. CASE FallSilent
    BY <2>32, NobodyAssumption DEF FallSilent
  <2>33. CASE Recover
    BY <2>33, NobodyAssumption DEF Recover
  <2>34. CASE Break
    BY <2>34, NobodyAssumption DEF Break
  <2>35. CASE UNCHANGED vars
    BY <2>35 DEF vars
  <2>36. QED
    BY <2>1, <2>2, <2>3, <2>4, <2>5, <2>6, <2>7, <2>8, <2>9, <2>10,
       <2>11, <2>12, <2>13, <2>14, <2>15, <2>16, <2>17, <2>18, <2>19,
       <2>20, <2>21, <2>22, <2>23, <2>24, <2>25, <2>26, <2>27, <2>28,
       <2>29, <2>30, <2>31, <2>32, <2>33, <2>34, <2>35
    DEF Next, HandlerStep, ConfigStep, SftpStep, NamesStep, ChannelStep, InputStep,
        KeepaliveStep, ShutdownStep
<1>3. QED
  BY <1>1, <1>2, TypeCorrect, PTL DEF Spec

\* One request types the reporter: the one that found osc7Injected unset.
Reporting(r) ==
    /\ op[r] = "config"
    /\ stage[r] \in {"opening", "running", "wantWrite", "writing", "typing"}

ReporterInv ==
    /\ \A r \in Requests :
         /\ stage[r] = "wantRemote" => op[r] = "names"
         /\ stage[r] = "typing" => op[r] = "config"
         /\ Reporting(r) => injected /\ reports = 0
    /\ \A q, r \in Requests : Reporting(q) /\ Reporting(r) => q = r
    /\ ~injected => reports = 0
    /\ reports <= 1

\* osc7Injected is set with the mutex held and never taken back.
LEMMA ReporterInvHolds == Spec => []ReporterInv
<1> USE DEF ReporterInv, Reporting
<1>1. Init => ReporterInv
  BY DEF Init
<1>2. TypeOK /\ ReporterInv /\ [Next]_vars => ReporterInv'
  <2> SUFFICES ASSUME TypeOK, ReporterInv, [Next]_vars PROVE ReporterInv'
    OBVIOUS
  <2> USE DEF requestVars, lockVars, clientVars, namesVars, configVars, hostVars,
              netVars, Move, Finish, CloseMove, Free, Works, Fails, TypeOK, Ops,
              Stages, RequestOrNobody
  <2>1. ASSUME NEW r \in Requests, Lookup(r) PROVE ReporterInv'
    BY <2>1 DEF Lookup
  <2>2. ASSUME NEW r \in Requests, Configure(r) PROVE ReporterInv'
    BY <2>2 DEF Configure
  <2>3. ASSUME NEW r \in Requests, AskShell(r) PROVE ReporterInv'
    BY <2>3 DEF AskShell
  <2>4. ASSUME NEW r \in Requests, LookForTerminal(r) PROVE ReporterInv'
    BY <2>4 DEF LookForTerminal
  <2>5. ASSUME NEW r \in Requests, TypeReporter(r) PROVE ReporterInv'
    BY <2>5 DEF TypeReporter
  <2>6. ASSUME NEW r \in Requests, TypingPanics(r) PROVE ReporterInv'
    BY <2>6 DEF TypingPanics
  <2>7. ASSUME NEW r \in Requests, Begin(r) PROVE ReporterInv'
    BY <2>7 DEF Begin
  <2>8. ASSUME NEW r \in Requests, EnterSftp(r) PROVE ReporterInv'
    BY <2>8 DEF EnterSftp, WithoutClient
  <2>9. ASSUME NEW r \in Requests, SetupDone(r) PROVE ReporterInv'
    BY <2>9 DEF SetupDone
  <2>10. ASSUME NEW r \in Requests, SetupFails(r) PROVE ReporterInv'
    BY <2>10 DEF SetupFails, WithoutClient
  <2>11. ASSUME NEW r \in Requests, SetupTimesOut(r) PROVE ReporterInv'
    BY <2>11 DEF SetupTimesOut, WithoutClient
  <2>12. ASSUME NEW r \in Requests, UseClient(r) PROVE ReporterInv'
    BY <2>12 DEF UseClient
  <2>13. ASSUME NEW r \in Requests, EnterRemote(r) PROVE ReporterInv'
    BY <2>13 DEF EnterRemote
  <2>14. ASSUME NEW r \in Requests, ListedEnv(r) PROVE ReporterInv'
    BY <2>14 DEF ListedEnv
  <2>15. ASSUME NEW r \in Requests, ReadNames(r) PROVE ReporterInv'
    BY <2>15 DEF ReadNames
  <2>16. ASSUME NEW r \in Requests, OpenChannel(r) PROVE ReporterInv'
    BY <2>16 DEF OpenChannel
  <2>17. ASSUME NEW r \in Requests, OpenChannelFails(r) PROVE ReporterInv'
    BY <2>17 DEF OpenChannelFails, WithoutClient
  <2>18. ASSUME NEW r \in Requests, DockerDone(r) PROVE ReporterInv'
    BY <2>18 DEF DockerDone
  <2>19. ASSUME NEW r \in Requests, CommandTimesOut(r) PROVE ReporterInv'
    BY <2>19 DEF CommandTimesOut, WithoutClient
  <2>20. ASSUME NEW r \in Requests, DockerBreaks(r) PROVE ReporterInv'
    BY <2>20 DEF DockerBreaks
  <2>21. ASSUME NEW r \in Requests, LockWrite(r) PROVE ReporterInv'
    BY <2>21 DEF LockWrite
  <2>22. ASSUME NEW r \in Requests, WritePanics(r) PROVE ReporterInv'
    BY <2>22 DEF WritePanics
  <2>23. ASSUME NEW r \in Requests, WriteStdin(r) PROVE ReporterInv'
    BY <2>23 DEF WriteStdin
  <2>24. ASSUME NEW r \in Requests, LateSetup(r) PROVE ReporterInv'
    BY <2>24 DEF LateSetup
  <2>25. CASE KeepaliveTick
    BY <2>25 DEF KeepaliveTick
  <2>26. CASE KeepaliveAnswered
    BY <2>26 DEF KeepaliveAnswered
  <2>27. CASE KeepaliveFails
    BY <2>27 DEF KeepaliveFails
  <2>28. CASE RemoveSession
    BY <2>28 DEF RemoveSession
  <2>29. CASE ClosePty
    BY <2>29 DEF ClosePty
  <2>30. CASE CloseSftp
    BY <2>30 DEF CloseSftp
  <2>31. CASE MarkDead
    BY <2>31 DEF MarkDead
  <2>32. CASE FallSilent
    BY <2>32 DEF FallSilent
  <2>33. CASE Recover
    BY <2>33 DEF Recover
  <2>34. CASE Break
    BY <2>34 DEF Break
  <2>35. CASE UNCHANGED vars
    BY <2>35 DEF vars
  <2>36. QED
    BY <2>1, <2>2, <2>3, <2>4, <2>5, <2>6, <2>7, <2>8, <2>9, <2>10,
       <2>11, <2>12, <2>13, <2>14, <2>15, <2>16, <2>17, <2>18, <2>19,
       <2>20, <2>21, <2>22, <2>23, <2>24, <2>25, <2>26, <2>27, <2>28,
       <2>29, <2>30, <2>31, <2>32, <2>33, <2>34, <2>35
    DEF Next, HandlerStep, ConfigStep, SftpStep, NamesStep, ChannelStep, InputStep,
        KeepaliveStep, ShutdownStep
<1>3. QED
  BY <1>1, <1>2, TypeCorrect, PTL DEF Spec

\* One SFTP client, one set of names and one reporter, however many requests want
\* them at once and however the network behaves.
THEOREM DoneOnceHolds == Spec => []DoneOnce
<1>1. ClientInv /\ NamesInv /\ ReporterInv => DoneOnce
  BY DEF ClientInv, NamesInv, ReporterInv, DoneOnce
<1>2. QED
  BY <1>1, ClientInvHolds, NamesInvHolds, ReporterInvHolds, PTL
=============================================================================
