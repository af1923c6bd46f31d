-------------------------- MODULE FilePanel_proofs --------------------------
(***************************************************************************)
(* Proofs about FilePanel, for any directories, files and size of a file.   *)
(***************************************************************************)
EXTENDS FilePanel, TLAPS

-----------------------------------------------------------------------------
(* The state of one upload                                                 *)

\* Nothing has been asked for it yet.
Fresh(u) ==
    /\ call[u] = "none" /\ file[u] = "none" /\ written[u] = 0
    /\ u \notin pending /\ u \notin told

\* Its remote file is open and holds n chunks.
Intact(u, n) ==
    /\ file[u] = "open" /\ written[u] = n
    /\ u \in pending /\ u \notin told

\* A write failed and the page was told: the file was closed with n chunks at most.
Spoilt(u, n) ==
    /\ file[u] = "closed" /\ written[u] <= n
    /\ u \in pending /\ u \in told

\* A chunk was invalid and the page was told: closed, and known no more.
Forgotten(u, n) ==
    /\ file[u] = "closed" /\ written[u] <= n
    /\ u \notin pending /\ u \in told

\* It could not be begun.
Unknown(u) ==
    /\ file[u] = "none" /\ written[u] = 0
    /\ u \notin pending /\ u \notin told

\* The upload uploadToRemote is busy with.
Working(u) ==
    \/ /\ phase = "begin" /\ offset = 0
       /\ \/ call[u] \in {"begin", "failed", "rejected"} /\ Unknown(u)
          \/ call[u] = "ok" /\ Intact(u, 0)
    \/ /\ phase = "read" /\ offset < Size /\ call[u] = "none"
       /\ \/ Intact(u, offset) \/ Spoilt(u, offset) \/ Forgotten(u, offset)
          \/ Unknown(u) /\ offset = 0
    \/ /\ phase = "chunk" /\ offset > 0
       /\ \/ /\ call[u] = "chunk"
             /\ \/ Intact(u, offset - 1) \/ Spoilt(u, offset - 1)
                \/ Forgotten(u, offset - 1)
                \/ Unknown(u) /\ offset = 1
          \/ call[u] = "ok" /\ Intact(u, offset)
          \/ call[u] = "failed" /\ (Spoilt(u, offset) \/ Forgotten(u, offset))
          \/ call[u] = "rejected" /\ (Unknown(u) \/ Forgotten(u, offset))
    \/ /\ phase = "end" /\ offset = Size
       /\ \/ /\ call[u] = "end"
             /\ Intact(u, Size) \/ Spoilt(u, Size) \/ Forgotten(u, Size)
          \/ call[u] = "rejected" /\ Forgotten(u, Size)
          \/ /\ call[u] \in {"ok", "failed"}
             /\ u \notin pending /\ file[u] = "closed"
             /\ u \in told \/ (call[u] = "ok" /\ written[u] = Size)

Finished(u) ==
    /\ call[u] = "none" /\ file[u] = "closed" /\ u \notin pending
    /\ u \in told \/ written[u] = Size
    /\ reported[u] = "done"

\* An upload is fresh, worked on, finished or abandoned; one that was abandoned
\* keeps a request under way that finds room for its chunk.
UploadOK(u) ==
    /\ u \in queue \/ u = uploading => u \notin abandoned /\ reported[u] = "nothing"
    /\ u \in abandoned => reported[u] # "done"
    /\ call[u] = "chunk" => written[u] < Size
    /\ u \notin abandoned /\ u = uploading => Working(u)
    /\ u \notin abandoned /\ u # uploading =>
         Finished(u) \/ (Fresh(u) /\ reported[u] = "nothing")

UploadInv == \A u \in Uploads : UploadOK(u)

-----------------------------------------------------------------------------
(* Steps that touch one upload                                             *)

\* The handler of a request works on its own upload alone.
LEMMA OtherUploads ==
    ASSUME NEW v \in Uploads, UploadOK(v), UNCHANGED loopVars,
           call'[v] = call[v], file'[v] = file[v], written'[v] = written[v],
           v \in pending' <=> v \in pending, v \in told' <=> v \in told
    PROVE UploadOK(v)'
  BY DEF loopVars, UploadOK, Working, Fresh, Intact, Spoilt, Forgotten, Unknown,
         Finished

\* The loop's state after one file is that of the next, or of none.
LEMMA NextFileTypes ==
    ASSUME TypeOK, uploading \in Uploads, NextFile
    PROVE  /\ uploading' \in Uploads \union {NoUpload}
           /\ queue' \subseteq Uploads \ {uploading'}
           /\ queue' # {} => uploading' # NoUpload
           /\ phase' \in {"idle", "begin"}
           /\ phase' = "idle" <=> uploading' = NoUpload
           /\ offset' \in 0..Size
           /\ call' \in [Uploads -> {"none"} \union Requests \union Answers]
<1>1. NoUpload \notin Uploads /\ 0 \in 0..Size
  BY NamesAssumption, SizesAssumption
<1>2. CASE queue = {}
  BY <1>1, <1>2 DEF NextFile, TypeOK
<1>3. CASE queue # {}
  <2>1. PICK u \in queue :
          /\ uploading' = u /\ queue' = queue \ {u} /\ phase' = "begin" /\ offset' = 0
          /\ call' = [call EXCEPT ![uploading] = "none", ![u] = "begin"]
    BY <1>3 DEF NextFile
  <2>2. u \in Uploads /\ queue \subseteq Uploads
    BY DEF TypeOK
  <2>3. QED
    BY <1>1, <2>1, <2>2 DEF TypeOK, Requests
<1>4. QED
  BY <1>2, <1>3

-----------------------------------------------------------------------------
\* Types, and what is known of each upload, hold in every reachable state.
THEOREM InvHolds == Spec => [](TypeOK /\ UploadInv)
<1>1. Init => TypeOK /\ UploadInv
  <2>1. Init => TypeOK
    <3>1. ASSUME Init PROVE 0 \in 0..Size /\ 0 \in 0..MaxCds /\ 0 \in 0..MaxReloads
      BY SizesAssumption
    <3>2. QED
      BY <3>1, NamesAssumption DEF Init, TypeOK, Requests, Answers
  <2>2. Init => UploadInv
    BY NamesAssumption DEF Init, UploadInv, UploadOK, Fresh
  <2>3. QED
    BY <2>1, <2>2
<1>2. TypeOK /\ UploadInv /\ [Next]_vars => TypeOK'
  <2>a. SUFFICES ASSUME TypeOK, UploadInv, [Next]_vars PROVE TypeOK'
    OBVIOUS
  <2>1. CASE Toggle
    BY <2>a, <2>1, SizesAssumption, NamesAssumption
      DEF Toggle, OpenFiles, TypeOK, panelVars, loopVars, pluginVars, Requests,
          Answers
  <2>2. CASE SwitchFollow
    BY <2>a, <2>2, SizesAssumption, NamesAssumption
      DEF SwitchFollow, OpenFiles, TypeOK, panelVars, loopVars, pluginVars,
          Requests, Answers
  <2>3. CASE FollowTimer
    BY <2>a, <2>3, SizesAssumption, NamesAssumption
      DEF FollowTimer, OpenFiles, TypeOK, panelVars, loopVars, pluginVars,
          Requests, Answers
  <2>4. ASSUME NEW path \in Dirs, Browse(path) PROVE TypeOK'
    BY <2>a, <2>4, SizesAssumption, NamesAssumption
      DEF Browse, OpenFiles, TypeOK, panelVars, loopVars, pluginVars, Requests,
          Answers
  <2>5. ASSUME NEW path \in Dirs, TerminalMoves(path) PROVE TypeOK'
    <3>1. dir' \in Dirs /\ cds' \in 0..MaxCds
      BY <2>a, <2>5, SizesAssumption DEF TerminalMoves, TypeOK
    <3>2. timer' \in BOOLEAN /\ missed' \in BOOLEAN
      <4>1. timer' \in {TRUE, timer} /\ missed' \in {TRUE, missed}
        BY <2>5 DEF TerminalMoves
      <4>2. timer \in BOOLEAN /\ missed \in BOOLEAN
        BY <2>a DEF TypeOK
      <4>3. QED
        BY <4>1, <4>2
    <3>3. UNCHANGED <<shown, open, visible, follow, lists, loopVars, call,
                      pluginVars, reloads>>
      BY <2>5 DEF TerminalMoves
    <3>4. QED
      BY <2>a, <3>1, <3>2, <3>3 DEF TypeOK, loopVars, pluginVars
  <2>6. ASSUME NEW path \in Dirs, ListAnswered(path) PROVE TypeOK'
    BY <2>a, <2>6, SizesAssumption, NamesAssumption
      DEF ListAnswered, TypeOK, panelVars, loopVars, pluginVars, Requests,
          Answers
  <2>7. ASSUME NEW path \in Dirs, ListRejected(path) PROVE TypeOK'
    BY <2>a, <2>7, SizesAssumption, NamesAssumption
      DEF ListRejected, TypeOK, panelVars, loopVars, pluginVars, Requests,
          Answers
  <2>8. ASSUME NEW files \in SUBSET Uploads, Drop(files) PROVE TypeOK'
    <3>1. PICK u \in files : Begin(u, files \ {u})
      BY <2>8 DEF Drop
    <3>2. /\ uploading' \in Uploads /\ queue' \subseteq Uploads \ {uploading'}
          /\ phase' = "begin" /\ offset' \in 0..Size
          /\ call' \in [Uploads -> {"none"} \union Requests \union Answers]
      BY <2>a, <3>1, SizesAssumption DEF Begin, Call, TypeOK, Requests
    <3>3. UNCHANGED <<panelVars, reported, abandoned, pluginVars, reloads>>
      BY <2>8 DEF Drop
    <3>4. QED
      BY <2>a, <3>2, <3>3, NamesAssumption DEF TypeOK, panelVars, pluginVars
  <2>9. CASE BeginAnswered
    BY <2>a, <2>9, SizesAssumption, NamesAssumption
      DEF BeginAnswered, Call, TypeOK, panelVars, loopVars, pluginVars,
          Requests, Answers
  <2>10. CASE SendChunk
    BY <2>a, <2>10, SizesAssumption, NamesAssumption
      DEF SendChunk, Call, TypeOK, panelVars, loopVars, pluginVars, UploadInv,
          UploadOK, Working, Requests, Answers
  <2>11. CASE ChunkAnswered
    BY <2>a, <2>11, SizesAssumption, NamesAssumption
      DEF ChunkAnswered, Call, TypeOK, panelVars, loopVars, pluginVars,
          Requests, Answers
  <2>12. CASE EndAnswered
    <3>1. uploading \in Uploads
      BY <2>a, <2>12 DEF EndAnswered, TypeOK, Requests
    <3>2. NextFile
      BY <2>12 DEF EndAnswered
    <3>3. reported' \in [Uploads -> {"nothing", "done", "error"}]
      BY <2>a, <2>12 DEF EndAnswered, Report, TypeOK
    <3>4. /\ visible' \in BOOLEAN /\ lists' \subseteq Dirs
          /\ UNCHANGED <<dir, shown, open, follow, timer, missed, cds, abandoned,
                         pluginVars, reloads>>
      BY <2>a, <2>12 DEF EndAnswered, OpenFiles, TypeOK
    <3>5. QED
      BY <2>a, <3>1, <3>2, <3>3, <3>4, NextFileTypes
        DEF TypeOK, panelVars, pluginVars
  <2>13. CASE UploadError
    <3>1. uploading \in Uploads
      BY <2>a, <2>13 DEF UploadError, TypeOK, Requests
    <3>2. NextFile
      BY <2>13 DEF UploadError
    <3>3. reported' \in [Uploads -> {"nothing", "done", "error"}]
      BY <2>a, <2>13 DEF UploadError, Report, TypeOK
    <3>4. /\ abandoned' \subseteq Uploads
          /\ UNCHANGED <<panelVars, pluginVars, reloads>>
      BY <2>a, <2>13, <3>1 DEF UploadError, TypeOK
    <3>5. QED
      BY <2>a, <3>1, <3>2, <3>3, <3>4, NextFileTypes
        DEF TypeOK, panelVars, pluginVars
  <2>14. CASE Reload
    <3>1. /\ dir' \in Dirs /\ shown' = NoDir
          /\ open' = FALSE /\ visible' = FALSE /\ timer' = FALSE /\ missed' = FALSE
          /\ lists' = {} /\ uploading' = NoUpload /\ queue' = {} /\ phase' = "idle"
          /\ UNCHANGED <<follow, cds, reported, pluginVars>>
      BY <2>14 DEF Reload
    <3>2. offset' \in 0..Size /\ reloads' \in 0..MaxReloads
      BY <2>a, <2>14, SizesAssumption DEF Reload, TypeOK
    <3>3. /\ abandoned' \subseteq Uploads
          /\ call' \in [Uploads -> {"none"} \union Requests \union Answers]
      BY <2>a, <2>14 DEF Reload, TypeOK
    <3>4. QED
      BY <2>a, <3>1, <3>2, <3>3 DEF TypeOK, pluginVars
  <2>15. ASSUME NEW u \in Uploads, UploadBegin(u) PROVE TypeOK'
    <3>1. call' \in [Uploads -> {"none"} \union Requests \union Answers]
      BY <2>a, <2>15 DEF UploadBegin, Answer, Call, TypeOK, Answers
    <3>2. /\ file' \in [Uploads -> {"none", "open", "closed"}]
          /\ pending' \subseteq Uploads
      BY <2>a, <2>15 DEF UploadBegin, TypeOK
    <3>3. UNCHANGED <<panelVars, loopVars, written, told, reloads>>
      BY <2>15 DEF UploadBegin
    <3>4. QED
      BY <2>a, <3>1, <3>2, <3>3 DEF TypeOK, panelVars, loopVars
  <2>16. ASSUME NEW u \in Uploads, ChunkUnknown(u) PROVE TypeOK'
    BY <2>a, <2>16, SizesAssumption, NamesAssumption
      DEF ChunkUnknown, Answer, Call, TypeOK, panelVars, loopVars, pluginVars,
          Requests, Answers
  <2>17. ASSUME NEW u \in Uploads, WriteChunk(u) PROVE TypeOK'
    BY <2>a, <2>17, SizesAssumption, NamesAssumption
      DEF WriteChunk, Answer, Call, TypeOK, panelVars, loopVars, pluginVars,
          UploadInv, UploadOK, Working, Requests, Answers
  <2>18. ASSUME NEW u \in Uploads, WriteFails(u) PROVE TypeOK'
    BY <2>a, <2>18, SizesAssumption, NamesAssumption
      DEF WriteFails, Answer, Call, TypeOK, panelVars, loopVars, pluginVars,
          Requests, Answers
  <2>19. ASSUME NEW u \in Uploads, UploadEnd(u) PROVE TypeOK'
    BY <2>a, <2>19, SizesAssumption, NamesAssumption
      DEF UploadEnd, Answer, Call, TypeOK, panelVars, loopVars, pluginVars,
          Requests, Answers
  <2>20. ASSUME NEW u \in Uploads, ChunkInvalid(u) PROVE TypeOK'
    BY <2>a, <2>20, SizesAssumption, NamesAssumption
      DEF ChunkInvalid, Answer, Call, TypeOK, panelVars, loopVars, pluginVars,
          Requests, Answers
  <2>21. ASSUME NEW u \in Uploads, EndUnknown(u) PROVE TypeOK'
    BY <2>a, <2>21, SizesAssumption, NamesAssumption
      DEF EndUnknown, Answer, Call, TypeOK, panelVars, loopVars, pluginVars,
          Requests, Answers
  <2>22. CASE UNCHANGED vars
    BY <2>a, <2>22 DEF TypeOK, vars, panelVars, loopVars, pluginVars
  <2>23. QED
    BY <2>a, <2>1, <2>2, <2>3, <2>4, <2>5, <2>6, <2>7, <2>8, <2>9, <2>10, <2>11,
       <2>12, <2>13, <2>14, <2>15, <2>16, <2>17, <2>18, <2>19, <2>20, <2>21,
       <2>22
      DEF Next, LoopStep, HandlerStep
<1>3. TypeOK /\ UploadInv /\ [Next]_vars => UploadInv'
  <2>a. SUFFICES ASSUME TypeOK, UploadInv, [Next]_vars PROVE UploadInv'
    OBVIOUS
  <2>b. ASSUME UNCHANGED <<loopVars, call, pluginVars>> PROVE UploadInv'
    BY <2>a, <2>b
      DEF loopVars, pluginVars, UploadInv, UploadOK, Working, Fresh, Intact,
          Spoilt, Forgotten, Unknown, Finished
  <2>1. CASE Toggle
    BY <2>b, <2>1 DEF Toggle
  <2>2. CASE SwitchFollow
    BY <2>b, <2>2 DEF SwitchFollow
  <2>3. CASE FollowTimer
    BY <2>b, <2>3 DEF FollowTimer
  <2>4. ASSUME NEW path \in Dirs, Browse(path) PROVE UploadInv'
    BY <2>b, <2>4 DEF Browse
  <2>5. ASSUME NEW path \in Dirs, TerminalMoves(path) PROVE UploadInv'
    BY <2>b, <2>5 DEF TerminalMoves
  <2>6. ASSUME NEW path \in Dirs, ListAnswered(path) PROVE UploadInv'
    BY <2>b, <2>6 DEF ListAnswered
  <2>7. ASSUME NEW path \in Dirs, ListRejected(path) PROVE UploadInv'
    BY <2>b, <2>7 DEF ListRejected
  <2>8. ASSUME NEW files \in SUBSET Uploads, Drop(files) PROVE UploadInv'
    <3>1. ASSUME NEW w \in Uploads PROVE UploadOK(w)'
      <4>1. CASE w = uploading
        BY <2>a, <2>8, <3>1, <4>1, SizesAssumption, NamesAssumption
          DEF Drop, Begin, Call, loopVars, pluginVars, TypeOK, UploadOK,
              Working, Fresh, Intact, Spoilt, Forgotten, Unknown, Finished,
              Requests, UploadInv
      <4>2. CASE w # uploading
        BY <2>a, <2>8, <3>1, <4>2, SizesAssumption, NamesAssumption
          DEF Drop, Begin, Call, loopVars, pluginVars, TypeOK, UploadOK,
              Working, Fresh, Intact, Spoilt, Forgotten, Unknown, Finished,
              Requests, UploadInv
      <4>3. QED
        BY <4>1, <4>2
    <3>2. QED
      BY <3>1 DEF UploadInv
  <2>9. CASE BeginAnswered
    <3>1. ASSUME NEW w \in Uploads PROVE UploadOK(w)'
      <4>1. CASE w = uploading
        BY <2>a, <2>9, <3>1, <4>1, SizesAssumption, NamesAssumption
          DEF BeginAnswered, Call, loopVars, pluginVars, TypeOK, UploadOK,
              Working, Fresh, Intact, Spoilt, Forgotten, Unknown, Finished,
              Requests, UploadInv
      <4>2. CASE w # uploading
        BY <2>a, <2>9, <3>1, <4>2, SizesAssumption, NamesAssumption
          DEF BeginAnswered, Call, loopVars, pluginVars, TypeOK, UploadOK,
              Working, Fresh, Intact, Spoilt, Forgotten, Unknown, Finished,
              Requests, UploadInv
      <4>3. QED
        BY <4>1, <4>2
    <3>2. QED
      BY <3>1 DEF UploadInv
  <2>10. CASE SendChunk
    <3>1. ASSUME NEW w \in Uploads PROVE UploadOK(w)'
      <4>1. CASE w = uploading
        BY <2>a, <2>10, <3>1, <4>1, SizesAssumption, NamesAssumption
          DEF SendChunk, Call, loopVars, pluginVars, TypeOK, UploadOK, Working,
              Fresh, Intact, Spoilt, Forgotten, Unknown, Finished, Requests,
              UploadInv
      <4>2. CASE w # uploading
        BY <2>a, <2>10, <3>1, <4>2, SizesAssumption, NamesAssumption
          DEF SendChunk, Call, loopVars, pluginVars, TypeOK, UploadOK, Working,
              Fresh, Intact, Spoilt, Forgotten, Unknown, Finished, Requests,
              UploadInv
      <4>3. QED
        BY <4>1, <4>2
    <3>2. QED
      BY <3>1 DEF UploadInv
  <2>11. CASE ChunkAnswered
    <3>1. ASSUME NEW w \in Uploads PROVE UploadOK(w)'
      <4>1. CASE w = uploading
        BY <2>a, <2>11, <3>1, <4>1, SizesAssumption, NamesAssumption
          DEF ChunkAnswered, Call, loopVars, pluginVars, TypeOK, UploadOK,
              Working, Fresh, Intact, Spoilt, Forgotten, Unknown, Finished,
              Requests, UploadInv
      <4>2. CASE w # uploading
        BY <2>a, <2>11, <3>1, <4>2, SizesAssumption, NamesAssumption
          DEF ChunkAnswered, Call, loopVars, pluginVars, TypeOK, UploadOK,
              Working, Fresh, Intact, Spoilt, Forgotten, Unknown, Finished,
              Requests, UploadInv
      <4>3. QED
        BY <4>1, <4>2
    <3>2. QED
      BY <3>1 DEF UploadInv
  <2>12. CASE EndAnswered
    <3>1. ASSUME NEW w \in Uploads PROVE UploadOK(w)'
      <4>1. CASE w = uploading
        BY <2>a, <2>12, <3>1, <4>1, SizesAssumption, NamesAssumption
          DEF EndAnswered, Report, OpenFiles, NextFile, loopVars, pluginVars,
              TypeOK, UploadOK, Working, Fresh, Intact, Spoilt, Forgotten,
              Unknown, Finished, Requests, UploadInv
      <4>2. CASE w # uploading
        BY <2>a, <2>12, <3>1, <4>2, SizesAssumption, NamesAssumption
          DEF EndAnswered, Report, OpenFiles, NextFile, loopVars, pluginVars,
              TypeOK, UploadOK, Working, Fresh, Intact, Spoilt, Forgotten,
              Unknown, Finished, Requests, UploadInv
      <4>3. QED
        BY <4>1, <4>2
    <3>2. QED
      BY <3>1 DEF UploadInv
  <2>13. CASE UploadError
    <3>1. ASSUME NEW w \in Uploads PROVE UploadOK(w)'
      <4>1. CASE w = uploading
        BY <2>a, <2>13, <3>1, <4>1, SizesAssumption, NamesAssumption
          DEF UploadError, Report, NextFile, Requests, loopVars, pluginVars,
              TypeOK, UploadOK, Working, Fresh, Intact, Spoilt, Forgotten,
              Unknown, Finished, UploadInv
      <4>2. CASE w # uploading
        BY <2>a, <2>13, <3>1, <4>2, SizesAssumption, NamesAssumption
          DEF UploadError, Report, NextFile, Requests, loopVars, pluginVars,
              TypeOK, UploadOK, Working, Fresh, Intact, Spoilt, Forgotten,
              Unknown, Finished, UploadInv
      <4>3. QED
        BY <4>1, <4>2
    <3>2. QED
      BY <3>1 DEF UploadInv
  <2>14. CASE Reload
    <3>1. ASSUME NEW w \in Uploads PROVE UploadOK(w)'
      <4>1. CASE w = uploading
        BY <2>a, <2>14, <3>1, <4>1, SizesAssumption, NamesAssumption
          DEF Reload, loopVars, pluginVars, TypeOK, UploadOK, Working, Fresh,
              Intact, Spoilt, Forgotten, Unknown, Finished, Requests, Answers,
              UploadInv
      <4>2. CASE w # uploading
        BY <2>a, <2>14, <3>1, <4>2, SizesAssumption, NamesAssumption
          DEF Reload, loopVars, pluginVars, TypeOK, UploadOK, Working, Fresh,
              Intact, Spoilt, Forgotten, Unknown, Finished, Requests, Answers,
              UploadInv
      <4>3. QED
        BY <4>1, <4>2
    <3>2. QED
      BY <3>1 DEF UploadInv
  <2>15. ASSUME NEW u \in Uploads, UploadBegin(u) PROVE UploadInv'
    <3>1. UploadOK(u)'
      BY <2>a, <2>15, SizesAssumption, NamesAssumption
        DEF UploadBegin, Answer, Call, loopVars, TypeOK, UploadOK, Working,
            Fresh, Intact, Spoilt, Forgotten, Unknown, Finished, Requests,
            UploadInv, pluginVars
    <3>2. ASSUME NEW w \in Uploads \ {u} PROVE UploadOK(w)'
      BY <2>a, <2>15, <3>2, OtherUploads
        DEF UploadBegin, Answer, Call, UploadInv, TypeOK, pluginVars
    <3>3. QED
      BY <3>1, <3>2 DEF UploadInv
  <2>16. ASSUME NEW u \in Uploads, ChunkUnknown(u) PROVE UploadInv'
    <3>1. UploadOK(u)'
      BY <2>a, <2>16, SizesAssumption, NamesAssumption
        DEF ChunkUnknown, Answer, Call, loopVars, TypeOK, UploadOK, Working,
            Fresh, Intact, Spoilt, Forgotten, Unknown, Finished, Requests,
            UploadInv, pluginVars
    <3>2. ASSUME NEW w \in Uploads \ {u} PROVE UploadOK(w)'
      BY <2>a, <2>16, <3>2, OtherUploads
        DEF ChunkUnknown, Answer, Call, UploadInv, TypeOK, pluginVars
    <3>3. QED
      BY <3>1, <3>2 DEF UploadInv
  <2>17. ASSUME NEW u \in Uploads, WriteChunk(u) PROVE UploadInv'
    <3>1. UploadOK(u)'
      BY <2>a, <2>17, SizesAssumption, NamesAssumption
        DEF WriteChunk, Answer, Call, loopVars, TypeOK, UploadOK, Working,
            Fresh, Intact, Spoilt, Forgotten, Unknown, Finished, Requests,
            UploadInv, pluginVars
    <3>2. ASSUME NEW w \in Uploads \ {u} PROVE UploadOK(w)'
      BY <2>a, <2>17, <3>2, OtherUploads
        DEF WriteChunk, Answer, Call, UploadInv, TypeOK, pluginVars
    <3>3. QED
      BY <3>1, <3>2 DEF UploadInv
  <2>18. ASSUME NEW u \in Uploads, WriteFails(u) PROVE UploadInv'
    <3>1. UploadOK(u)'
      BY <2>a, <2>18, SizesAssumption, NamesAssumption
        DEF WriteFails, Answer, Call, loopVars, TypeOK, UploadOK, Working,
            Fresh, Intact, Spoilt, Forgotten, Unknown, Finished, Requests,
            UploadInv, pluginVars
    <3>2. ASSUME NEW w \in Uploads \ {u} PROVE UploadOK(w)'
      BY <2>a, <2>18, <3>2, OtherUploads
        DEF WriteFails, Answer, Call, UploadInv, TypeOK, pluginVars
    <3>3. QED
      BY <3>1, <3>2 DEF UploadInv
  <2>19. ASSUME NEW u \in Uploads, UploadEnd(u) PROVE UploadInv'
    <3>1. UploadOK(u)'
      BY <2>a, <2>19, SizesAssumption, NamesAssumption
        DEF UploadEnd, Answer, Call, loopVars, TypeOK, UploadOK, Working, Fresh,
            Intact, Spoilt, Forgotten, Unknown, Finished, Requests, UploadInv,
            pluginVars
    <3>2. ASSUME NEW w \in Uploads \ {u} PROVE UploadOK(w)'
      BY <2>a, <2>19, <3>2, OtherUploads
        DEF UploadEnd, Answer, Call, UploadInv, TypeOK, pluginVars
    <3>3. QED
      BY <3>1, <3>2 DEF UploadInv
  <2>20. ASSUME NEW u \in Uploads, ChunkInvalid(u) PROVE UploadInv'
    <3>1. UploadOK(u)'
      BY <2>a, <2>20, SizesAssumption, NamesAssumption
        DEF ChunkInvalid, Answer, Call, loopVars, TypeOK, UploadOK, Working,
            Fresh, Intact, Spoilt, Forgotten, Unknown, Finished, Requests,
            UploadInv, pluginVars
    <3>2. ASSUME NEW w \in Uploads \ {u} PROVE UploadOK(w)'
      BY <2>a, <2>20, <3>2, OtherUploads
        DEF ChunkInvalid, Answer, Call, UploadInv, TypeOK, pluginVars
    <3>3. QED
      BY <3>1, <3>2 DEF UploadInv
  <2>21. ASSUME NEW u \in Uploads, EndUnknown(u) PROVE UploadInv'
    <3>1. UploadOK(u)'
      BY <2>a, <2>21, SizesAssumption, NamesAssumption
        DEF EndUnknown, Answer, Call, loopVars, TypeOK, UploadOK, Working,
            Fresh, Intact, Spoilt, Forgotten, Unknown, Finished, Requests,
            UploadInv, pluginVars
    <3>2. ASSUME NEW w \in Uploads \ {u} PROVE UploadOK(w)'
      BY <2>a, <2>21, <3>2, OtherUploads
        DEF EndUnknown, Answer, Call, UploadInv, TypeOK, pluginVars
    <3>3. QED
      BY <3>1, <3>2 DEF UploadInv
  <2>22. CASE UNCHANGED vars
    BY <2>b, <2>22 DEF vars
  <2>23. QED
    BY <2>a, <2>1, <2>2, <2>3, <2>4, <2>5, <2>6, <2>7, <2>8, <2>9, <2>10, <2>11,
       <2>12, <2>13, <2>14, <2>15, <2>16, <2>17, <2>18, <2>19, <2>20, <2>21,
       <2>22
      DEF Next, LoopStep, HandlerStep
<1>4. QED
  BY <1>1, <1>2, <1>3, PTL DEF Spec

\* The page's state, the plugin's registry and the remote files are well formed
\* (uploadToRemote, openFiles, uploads).
THEOREM TypeCorrect == Spec => []TypeOK
  BY InvHolds, PTL

\* "Upload complete" is said of a complete file, or against an answer of the
\* plugin (uploadToRemote, sftpUploadChunk, sftpUploadEnd).
THEOREM DoneIsCompleteHolds == Spec => []DoneIsComplete
<1>1. TypeOK /\ UploadInv => DoneIsComplete
  BY NamesAssumption DEF TypeOK, UploadInv, UploadOK, Finished, DoneIsComplete
<1>2. QED
  BY <1>1, InvHolds, PTL

\* What is registered belongs to the upload the page works on or gave up
\* (sftpUploadBegin, sftpUploadChunk, sftpUploadEnd).
THEOREM RegistryIsOwnedHolds == Spec => []RegistryIsOwned
<1>1. UploadInv => RegistryIsOwned
  BY DEF UploadInv, UploadOK, Finished, Fresh, RegistryIsOwned
<1>2. QED
  BY <1>1, InvHolds, PTL

\* A settled panel shows the directory its commands go to (openFiles,
\* handleEvent, toggleFilePanel).
THEOREM SettledShowsDirHolds == Spec => []SettledShowsDir
<1>1. Init => SettledShowsDir
  BY DEF Init, SettledShowsDir
<1>2. TypeOK /\ SettledShowsDir /\ [Next]_vars => SettledShowsDir'
  <2>a. SUFFICES ASSUME TypeOK, SettledShowsDir, [Next]_vars PROVE SettledShowsDir'
    OBVIOUS
  <2>b. ASSUME UNCHANGED panelVars PROVE SettledShowsDir'
    BY <2>a, <2>b DEF SettledShowsDir, panelVars
  <2>1. CASE Toggle
    BY <2>a, <2>1
      DEF Toggle, OpenFiles, SettledShowsDir, TypeOK
  <2>2. CASE SwitchFollow
    BY <2>a, <2>2
      DEF SwitchFollow, OpenFiles, SettledShowsDir, TypeOK
  <2>3. CASE FollowTimer
    BY <2>a, <2>3
      DEF FollowTimer, OpenFiles, SettledShowsDir, TypeOK
  <2>4. ASSUME NEW path \in Dirs, Browse(path) PROVE SettledShowsDir'
    BY <2>a, <2>4
      DEF Browse, OpenFiles, SettledShowsDir, TypeOK
  <2>5. ASSUME NEW path \in Dirs, TerminalMoves(path) PROVE SettledShowsDir'
    BY <2>a, <2>5
      DEF TerminalMoves, SettledShowsDir, TypeOK
  <2>6. ASSUME NEW path \in Dirs, ListAnswered(path) PROVE SettledShowsDir'
    BY <2>a, <2>6
      DEF ListAnswered, SettledShowsDir, TypeOK
  <2>7. ASSUME NEW path \in Dirs, ListRejected(path) PROVE SettledShowsDir'
    BY <2>a, <2>7
      DEF ListRejected, SettledShowsDir, TypeOK
  <2>8. CASE EndAnswered
    BY <2>a, <2>8
      DEF EndAnswered, OpenFiles, SettledShowsDir, TypeOK
  <2>9. CASE Reload
    BY <2>a, <2>9
      DEF Reload, SettledShowsDir, TypeOK
  <2>10. ASSUME NEW files \in SUBSET Uploads, Drop(files) PROVE SettledShowsDir'
    BY <2>b, <2>10
      DEF Drop
  <2>11. CASE BeginAnswered
    BY <2>b, <2>11
      DEF BeginAnswered
  <2>12. CASE SendChunk
    BY <2>b, <2>12
      DEF SendChunk
  <2>13. CASE ChunkAnswered
    BY <2>b, <2>13
      DEF ChunkAnswered
  <2>14. CASE UploadError
    BY <2>b, <2>14
      DEF UploadError
  <2>15. ASSUME NEW u \in Uploads, HandlerStep(u) PROVE SettledShowsDir'
    BY <2>b, <2>15
      DEF HandlerStep, UploadBegin, ChunkUnknown, ChunkInvalid, WriteChunk,
          WriteFails, UploadEnd, EndUnknown
  <2>16. CASE UNCHANGED vars
    BY <2>b, <2>16 DEF vars
  <2>17. QED
    BY <2>a, <2>1, <2>2, <2>3, <2>4, <2>5, <2>6, <2>7, <2>8, <2>9, <2>10, <2>11,
       <2>12, <2>13, <2>14, <2>15, <2>16
      DEF Next, LoopStep
<1>3. QED
  BY <1>1, <1>2, TypeCorrect, PTL DEF Spec
=============================================================================
