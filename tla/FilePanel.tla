----------------------------- MODULE FilePanel -----------------------------
(***************************************************************************)
(* The file panel of the workbench page and the upload registry of the      *)
(* plugin (ui/index.html, backend/sftpapi.go): the panel lists a directory, *)
(* follows the terminal's, and uploads files chunk by chunk with the        *)
(* requests sftp/uploadBegin, uploadChunk and uploadEnd.                    *)
(*                                                                         *)
(* The page runs one thing at a time and waits for each answer; listings    *)
(* are answered in any order.  "ok" is a result, "failed" a result with     *)
(* success: false (fail, ssh.go), "rejected" an error of the protocol.      *)
(* invoke() resolves for the first two.  The user's files, the terminal and *)
(* the SFTP server are external.                                            *)
(*                                                                         *)
(* A definition marked (variant) is a mistake somebody could make in the    *)
(* definition it precedes; no other definition uses it.                     *)
(***************************************************************************)
EXTENDS Naturals, FiniteSets

CONSTANTS
    Dirs,       \* remote directories
    Uploads,    \* files to upload, each named by its turn
    Size,       \* chunks of a file
    MaxCds,     \* bound: how often the terminal changes its directory
    MaxReloads, \* bound: how often the page is reloaded
    NoDir, NoUpload

ASSUME NamesAssumption ==
    NoDir \notin Dirs /\ Uploads \subseteq Nat /\ NoUpload \notin Uploads
ASSUME SizesAssumption ==
    Size \in Nat \ {0} /\ MaxCds \in Nat /\ MaxReloads \in Nat

VARIABLES
    dir,       \* page: remoteCwd
    shown,     \* page: the directory the table was rendered for
    open,      \* page: filePanelOpen
    visible,   \* page: ~filePanel.hidden
    follow,    \* page: settings.sftpFollowCwd
    timer,     \* page: followTimer is set
    lists,     \* directories whose sftp/list is not answered (one per directory)
    uploading, \* page: the file uploadToRemote is busy with (uploadBusy)
    queue,     \* page: the files of the same drop that come after it
    phase,     \* page: what uploadToRemote waits for
    offset,    \* page: chunks of the file that were sent
    call,      \* per upload: its request to the plugin, or the answer
    pending,   \* plugin: uploads.pending
    file,      \* plugin: the remote file of each upload
    written,   \* chunks that reached the remote file
    told,      \* uploads that got "failed" after their file was opened
    reported,  \* what the page told the user about each upload
    abandoned, \* uploads the page gave up after it had asked for them to begin
    missed,    \* the terminal moved and the page did not plan to follow
    cds, reloads

panelVars  == <<dir, shown, open, visible, follow, timer, lists, missed, cds>>
loopVars   == <<uploading, queue, phase, offset, reported, abandoned>>
pluginVars == <<pending, file, written, told>>
vars == <<panelVars, loopVars, call, pluginVars, reloads>>

-----------------------------------------------------------------------------
Requests == {"begin", "chunk", "end"}
Answers == {"ok", "failed", "rejected"}

TypeOK ==
    /\ dir \in Dirs /\ shown \in Dirs \union {NoDir}
    /\ open \in BOOLEAN /\ visible \in BOOLEAN /\ follow \in BOOLEAN
    /\ timer \in BOOLEAN /\ missed \in BOOLEAN
    /\ lists \subseteq Dirs
    /\ uploading \in Uploads \union {NoUpload}
    /\ queue \subseteq Uploads \ {uploading}
    /\ queue # {} => uploading # NoUpload
    /\ phase \in {"idle", "begin", "read", "chunk", "end"}
    /\ phase = "idle" <=> uploading = NoUpload
    /\ offset \in 0..Size
    /\ call \in [Uploads -> {"none"} \union Requests \union Answers]
    /\ pending \subseteq Uploads /\ told \subseteq Uploads
    /\ abandoned \subseteq Uploads
    /\ file \in [Uploads -> {"none", "open", "closed"}]
    /\ written \in [Uploads -> 0..Size]
    /\ reported \in [Uploads -> {"nothing", "done", "error"}]
    /\ cds \in 0..MaxCds /\ reloads \in 0..MaxReloads

\* loadSession of an SSH session has ended.
Init ==
    /\ dir \in Dirs /\ shown = NoDir
    /\ open = FALSE /\ visible = FALSE /\ follow \in BOOLEAN /\ timer = FALSE
    /\ lists = {} /\ missed = FALSE /\ cds = 0
    /\ uploading = NoUpload /\ queue = {} /\ phase = "idle" /\ offset = 0
    /\ reported = [u \in Uploads |-> "nothing"] /\ abandoned = {}
    /\ call = [u \in Uploads |-> "none"]
    /\ pending = {} /\ told = {}
    /\ file = [u \in Uploads |-> "none"] /\ written = [u \in Uploads |-> 0]
    /\ reloads = 0

-----------------------------------------------------------------------------
(* The panel                                                               *)

\* openFiles: the panel is made visible, whether it is open or not.
OpenFiles(path) == visible' = TRUE /\ lists' = lists \union {path}

\* toggleFilePanel; the listing of an opened panel is asked for.
Toggle ==
    /\ open' = ~open
    /\ IF open THEN visible' = FALSE /\ UNCHANGED lists ELSE OpenFiles(dir)
    /\ UNCHANGED <<dir, shown, follow, timer, missed, cds, loopVars, call,
                   pluginVars, reloads>>

\* A directory is clicked or typed, refreshed, or changed by mkdir and the like.
Browse(path) ==
    /\ visible
    /\ OpenFiles(path)
    /\ UNCHANGED <<dir, shown, open, follow, timer, missed, cds, loopVars,
                   call, pluginVars, reloads>>

\* (variant) the table is rendered, the directory it belongs to is not kept
ListAnsweredKeepsDir(path) ==
    /\ path \in lists /\ lists' = lists \ {path}
    /\ shown' = path /\ missed' = FALSE
    /\ UNCHANGED <<dir, open, visible, follow, timer, cds, loopVars, call,
                   pluginVars, reloads>>

\* A result, with success: false too: the path is that of the question.
ListAnswered(path) ==
    /\ path \in lists /\ lists' = lists \ {path}
    /\ dir' = path /\ shown' = path /\ missed' = FALSE
    /\ UNCHANGED <<open, visible, follow, timer, cds, loopVars, call,
                   pluginVars, reloads>>

\* The session is gone: an empty table.
ListRejected(path) ==
    /\ path \in lists /\ lists' = lists \ {path}
    /\ shown' = dir /\ missed' = FALSE
    /\ UNCHANGED <<dir, open, visible, follow, timer, cds, loopVars, call,
                   pluginVars, reloads>>

\* shell/cwd-changed: remoteCwd moves, a refresh is planned if the panel follows.
TerminalMoves(path) ==
    /\ cds < MaxCds /\ cds' = cds + 1
    /\ dir' = path
    /\ IF follow /\ open /\ uploading = NoUpload
       THEN timer' = TRUE /\ UNCHANGED missed
       ELSE missed' = TRUE /\ UNCHANGED timer
    /\ UNCHANGED <<shown, open, visible, follow, lists, loopVars, call,
                   pluginVars, reloads>>

FollowTimer ==
    /\ timer /\ timer' = FALSE
    /\ IF open THEN OpenFiles(dir) ELSE UNCHANGED <<visible, lists>>
    /\ UNCHANGED <<dir, shown, open, follow, missed, cds, loopVars, call,
                   pluginVars, reloads>>

\* The follow button; switched on, it catches up at once.
SwitchFollow ==
    /\ follow' = ~follow
    /\ IF ~follow /\ open THEN OpenFiles(dir) ELSE UNCHANGED <<visible, lists>>
    /\ UNCHANGED <<dir, shown, open, timer, missed, cds, loopVars, call,
                   pluginVars, reloads>>

-----------------------------------------------------------------------------
(* uploadToRemote                                                          *)

Call(u, request) == call' = [call EXCEPT ![u] = request]

Begin(u, rest) ==
    /\ uploading' = u /\ queue' = rest /\ phase' = "begin" /\ offset' = 0
    /\ Call(u, "begin")

First(u, files) == u \in files /\ \A v \in files : u <= v

\* Files are dropped on the visible panel, or one is chosen: they are the next.
Drop(files) ==
    /\ visible /\ uploading = NoUpload
    /\ LET new == {u \in Uploads : u \notin abandoned /\ reported[u] = "nothing"}
       IN  files \subseteq new /\ \A u \in files, v \in new \ files : u < v
    /\ \E u \in files : First(u, files) /\ Begin(u, files \ {u})
    /\ UNCHANGED <<panelVars, reported, abandoned, pluginVars, reloads>>

\* (variant) the rest of the drop stays queued and is not begun
NextFileStops ==
    /\ uploading' = NoUpload /\ phase' = "idle" /\ offset' = 0
    /\ call' = [call EXCEPT ![uploading] = "none"]
    /\ UNCHANGED queue

\* The loop over the files of a drop goes on at once.
NextFile ==
    IF queue = {}
    THEN /\ uploading' = NoUpload /\ phase' = "idle" /\ offset' = 0
         /\ call' = [call EXCEPT ![uploading] = "none"]
         /\ UNCHANGED queue
    ELSE \E u \in queue :
         /\ First(u, queue)
         /\ uploading' = u /\ queue' = queue \ {u} /\ phase' = "begin" /\ offset' = 0
         /\ call' = [call EXCEPT ![uploading] = "none", ![u] = "begin"]

Report(what) == reported' = [reported EXCEPT ![uploading] = what]

\* An answer without success is taken like any other.
BeginAnswered ==
    /\ phase = "begin" /\ call[uploading] \in {"ok", "failed"}
    /\ phase' = "read"
    /\ Call(uploading, "none")
    /\ UNCHANGED <<panelVars, uploading, queue, offset, reported, abandoned,
                   pluginVars, reloads>>

\* The next chunk of the user's file is read and sent.
SendChunk ==
    /\ phase = "read"
    /\ phase' = "chunk" /\ offset' = offset + 1
    /\ Call(uploading, "chunk")
    /\ UNCHANGED <<panelVars, uploading, queue, reported, abandoned,
                   pluginVars, reloads>>

ChunkAnswered ==
    /\ phase = "chunk" /\ call[uploading] \in {"ok", "failed"}
    /\ IF offset = Size THEN phase' = "end" /\ Call(uploading, "end")
                        ELSE phase' = "read" /\ Call(uploading, "none")
    /\ UNCHANGED <<panelVars, uploading, queue, offset, reported, abandoned,
                   pluginVars, reloads>>

\* "Upload complete", and the directory is listed again.
EndAnswered ==
    /\ phase = "end" /\ call[uploading] \in {"ok", "failed"}
    /\ Report("done")
    /\ OpenFiles(dir)
    /\ NextFile
    /\ UNCHANGED <<dir, shown, open, follow, timer, missed, cds, abandoned,
                   pluginVars, reloads>>

\* (variant) the upload stays the current one after an error
UploadErrorStaysBusy ==
    /\ \/ phase \in Requests /\ call[uploading] = "rejected"
       \/ phase = "read"
    /\ Report("error")
    /\ abandoned' = abandoned \union {uploading}
    /\ UNCHANGED <<panelVars, uploading, queue, phase, offset, call, pluginVars,
                   reloads>>

\* A request is rejected, or the user's file cannot be read: the upload is
\* reported and left as it is.
UploadError ==
    /\ \/ phase \in Requests /\ call[uploading] = "rejected"
       \/ phase = "read"
    /\ Report("error")
    /\ abandoned' = abandoned \union {uploading}
    /\ NextFile
    /\ UNCHANGED <<panelVars, pluginVars, reloads>>

\* The page is gone with all it knows, the answers it did not take yet included;
\* requests under way are still handled.
Reload ==
    /\ reloads < MaxReloads /\ reloads' = reloads + 1
    /\ \E path \in Dirs : dir' = path
    /\ shown' = NoDir /\ open' = FALSE /\ visible' = FALSE /\ timer' = FALSE
    /\ lists' = {} /\ missed' = FALSE
    /\ uploading' = NoUpload /\ queue' = {} /\ phase' = "idle" /\ offset' = 0
    /\ abandoned' = abandoned \union ({uploading} \ {NoUpload})
    /\ call' = [u \in Uploads |-> IF call[u] \in Answers THEN "none" ELSE call[u]]
    /\ UNCHANGED <<follow, cds, reported, pluginVars>>

-----------------------------------------------------------------------------
(* The plugin's handlers                                                   *)

\* An answer to a page that is gone is lost.
Answer(u, request, result) ==
    call[u] = request /\ Call(u, IF u = uploading THEN result ELSE "none")

\* The remote file is opened and registered, or nothing is.
UploadBegin(u) ==
    /\ \/ /\ Answer(u, "begin", "ok")
          /\ file' = [file EXCEPT ![u] = "open"]
          /\ pending' = pending \union {u}
       \/ /\ \E result \in {"failed", "rejected"} : Answer(u, "begin", result)
          /\ UNCHANGED <<file, pending>>
    /\ UNCHANGED <<panelVars, loopVars, written, told, reloads>>

ChunkUnknown(u) ==
    /\ u \notin pending
    /\ Answer(u, "chunk", "rejected")
    /\ UNCHANGED <<panelVars, loopVars, pluginVars, reloads>>

\* The chunk cannot be decoded: the file is closed and the upload forgotten.
ChunkInvalid(u) ==
    /\ u \in pending
    /\ Answer(u, "chunk", "failed")
    /\ file' = [file EXCEPT ![u] = "closed"]
    /\ pending' = pending \ {u}
    /\ told' = told \union {u}
    /\ UNCHANGED <<panelVars, loopVars, written, reloads>>

WriteChunk(u) ==
    /\ u \in pending /\ file[u] = "open"
    /\ Answer(u, "chunk", "ok")
    /\ written' = [written EXCEPT ![u] = @ + 1]
    /\ UNCHANGED <<panelVars, loopVars, pending, file, told, reloads>>

\* (variant) the error of the write is dropped
WriteFailsQuiet(u) ==
    /\ u \in pending
    /\ Answer(u, "chunk", "ok")
    /\ UNCHANGED <<panelVars, loopVars, pending, file, written, told, reloads>>

\* The write fails, for good or because the connection was closed since the
\* upload began: the file is closed, and the upload stays registered.
WriteFails(u) ==
    /\ u \in pending
    /\ Answer(u, "chunk", "failed")
    /\ file' = [file EXCEPT ![u] = "closed"]
    /\ told' = told \union {u}
    /\ UNCHANGED <<panelVars, loopVars, pending, written, reloads>>

\* (variant) the upload is looked up and not removed
UploadEndPeeks(u) ==
    /\ u \in pending
    /\ \/ /\ file[u] = "open"
          /\ Answer(u, "end", "ok") /\ UNCHANGED told
       \/ /\ Answer(u, "end", "failed") /\ told' = told \union {u}
    /\ file' = [file EXCEPT ![u] = "closed"]
    /\ UNCHANGED <<panelVars, loopVars, pending, written, reloads>>

\* Taken out of the registry and closed; closing it may fail.
UploadEnd(u) ==
    /\ u \in pending
    /\ pending' = pending \ {u}
    /\ \/ /\ file[u] = "open"
          /\ Answer(u, "end", "ok") /\ UNCHANGED told
       \/ /\ Answer(u, "end", "failed") /\ told' = told \union {u}
    /\ file' = [file EXCEPT ![u] = "closed"]
    /\ UNCHANGED <<panelVars, loopVars, written, reloads>>

\* An invalid chunk had it forgotten, and the page did not mind.
EndUnknown(u) ==
    /\ u \notin pending
    /\ Answer(u, "end", "rejected")
    /\ UNCHANGED <<panelVars, loopVars, pluginVars, reloads>>

-----------------------------------------------------------------------------
HandlerStep(u) ==
    \/ UploadBegin(u)
    \/ ChunkUnknown(u) \/ ChunkInvalid(u) \/ WriteChunk(u) \/ WriteFails(u)
    \/ UploadEnd(u) \/ EndUnknown(u)

LoopStep ==
    BeginAnswered \/ SendChunk \/ ChunkAnswered \/ EndAnswered \/ UploadError

Next ==
    \/ Toggle \/ SwitchFollow \/ FollowTimer
    \/ \E path \in Dirs :
         \/ Browse(path) \/ TerminalMoves(path)
         \/ ListAnswered(path) \/ ListRejected(path)
    \/ \E files \in SUBSET Uploads : Drop(files)
    \/ LoopStep \/ Reload
    \/ \E u \in Uploads : HandlerStep(u)

Spec == Init /\ [][Next]_vars

\* Handlers end, and the page goes on with the answers it gets.
Fairness == (\A u \in Uploads : WF_vars(HandlerStep(u))) /\ WF_vars(LoopStep)

FairSpec == Spec /\ Fairness

-----------------------------------------------------------------------------
(* Properties                                                              *)

\* When nothing is on its way, the table an open panel shows is that of the
\* directory uploads, mkdir and refresh go to, in whatever order the listings
\* were answered, unless the terminal moved while the panel was not following
\* or an upload was going on (openFiles, handleEvent, toggleFilePanel).
SettledShowsDir ==
    open /\ lists = {} /\ ~timer /\ ~missed => shown = dir

\* "Upload complete" is said of a remote file with all its chunks, or against an
\* answer of the plugin: no chunk is skipped, sent twice or lost silently
\* (uploadToRemote, sftpUploadChunk, sftpUploadEnd).
DoneIsComplete ==
    \A u \in Uploads :
      reported[u] = "done" /\ u \notin told => written[u] = Size /\ file[u] = "closed"

\* A registered upload and its open file belong to the upload the page works on,
\* unless the page gave it up: nothing stays behind a finished one, whatever
\* failed on the way.
RegistryIsOwned ==
    \A u \in Uploads :
      u \in pending \/ file[u] = "open" => u = uploading \/ u \in abandoned

\* Every upload comes to an end, and the page is free for the next.
UploadsEnd == \A u \in Uploads : uploading = u ~> uploading # u
=============================================================================
