---------------------------- MODULE DockerPanel ----------------------------
(***************************************************************************)
(* The Docker panel of the workbench page with its three dialogs (logs,     *)
(* image details, container details) and the docker/... handlers of the     *)
(* plugin (ui/index.html, backend/dockerapi.go).                            *)
(*                                                                         *)
(* The panel works on one request at a time (dockerBusy).  A dialog numbers *)
(* its questions with a generation counter and takes only the answer to the *)
(* last one; closing it counts too.  The page runs one handler at a time;   *)
(* handlers of the plugin run concurrently, each a few docker commands over *)
(* SSH with a time limit.  Docker itself and its other users are external.  *)
(* A click reaches only what no dialog covers.                              *)
(*                                                                         *)
(* A definition marked (variant) is a mistake somebody could make in the    *)
(* definition it precedes; no other definition uses it.                     *)
(***************************************************************************)
EXTENDS Naturals, FiniteSets

CONSTANTS
    Containers, Images,
    Running,    \* the containers that run when the page is opened
    MaxEvents,  \* bound: what the user and others do, not counting answers to
                \* a confirmation and the closing of a dialog
    NoId

Ids == Containers \union Images

ASSUME NamesAssumption == NoId \notin Ids /\ Containers \intersect Images = {}
ASSUME RunningAssumption == Running \subseteq Containers
ASSUME BoundsAssumption == MaxEvents \in Nat

VARIABLES
    open,      \* page: dockerPanelOpen
    panel,     \* page: dockerPanelState
    busy,      \* page: dockerBusy
    overview,  \* page: lastDockerOverview, what the panel lists
    reload,    \* page: the refresh under way is followed by a load of details
    dialog,    \* page: id, generation, busy flag and content of each dialog
    acting,    \* page: dockerContainerDetailsActionBusy
    locked,    \* page: the buttons of the container details are disabled
    asking,    \* page: what the confirmation names, if one is open
    requests,  \* requests of the page with their answers
    docker,    \* the state of every container and image
    late,      \* commands given up by the plugin that may still take effect
    unseen,    \* docker changed, and the panel did not ask for an overview since
    disconnected, \* shell/pty-closed has been received
    happened   \* what the user and others have done, see MaxEvents

panelVars  == <<open, panel, busy, overview, reload>>
detailVars == <<acting, locked>>
worldVars  == <<docker, late>>
vars == <<panelVars, dialog, detailVars, asking, requests, worldVars, unseen,
          disconnected, happened>>

-----------------------------------------------------------------------------
Dialogs == {"logs", "image", "details"}
Actions == {"start", "stop", "restart", "remove", "remove image"}
States == {"running", "exited", "present", "gone", "unknown"}
Unknown == [x \in Ids |-> "unknown"]

Question(to, what, id, gen) ==
    [to |-> to, what |-> what, id |-> id, gen |-> gen, state |-> "sent",
     data |-> Unknown]

OverviewQuestion == Question("panel", "overview", NoId, 0)

Removal(image) == Question("panel", "remove image", image, 0)

details == dialog["details"]

Hidden(d) == dialog[d].id = NoId

\* (variant) every answer is taken
CurrentAlways(r) == r.gen <= dialog[r.to].gen

\* The generation check; a request of the panel has no generation.
Current(r) == r.gen = dialog[r.to].gen

\* What a dialog can hold.
Dialog ==
    [id : Ids \union {NoId}, gen : Nat, busy : BOOLEAN,
     shown : Ids \union {NoId}, seen : States]

\* A request of the page with how far it came and what its answer says.
Request ==
    [to : Dialogs \union {"panel"},
     what : {"detect", "overview", "load"} \union Actions,
     id : Ids \union {NoId}, gen : Nat,
     state : {"sent", "listed", "acted", "ok", "missing", "down", "failed"},
     data : [Ids -> States]]

\* The page's variables, its requests and Docker's states are well formed, and a
\* panel that shows it is loading is busy (setDockerPanelState, dockerBusy).
TypeOK ==
    /\ open \in BOOLEAN /\ busy \in BOOLEAN /\ reload \in BOOLEAN
    /\ acting \in BOOLEAN /\ locked \in BOOLEAN
    /\ unseen \in BOOLEAN /\ disconnected \in BOOLEAN
    /\ panel \in {"idle", "loading", "missing", "ready", "error"}
    /\ panel = "loading" => busy
    /\ overview \in [Ids -> States]
    /\ dialog \in [Dialogs -> Dialog]
    /\ asking \in Ids \union {NoId}
    /\ requests \subseteq Request
    /\ docker \in [Ids -> States \ {"unknown"}]
    /\ late \subseteq Actions \X Ids
    /\ happened \in 0..MaxEvents

Init ==
    /\ open = FALSE /\ panel = "idle" /\ busy = FALSE /\ overview = Unknown
    /\ reload = FALSE
    /\ dialog = [d \in Dialogs |-> [id |-> NoId, gen |-> 0, busy |-> FALSE,
                                    shown |-> NoId, seen |-> "unknown"]]
    /\ acting = FALSE /\ locked = FALSE /\ asking = NoId /\ requests = {}
    /\ docker = [x \in Ids |-> CASE x \in Images -> "present"
                                 [] x \in Running -> "running"
                                 [] OTHER -> "exited"]
    /\ late = {} /\ unseen = FALSE
    /\ disconnected = FALSE /\ happened = 0

-----------------------------------------------------------------------------
(* The page: what its handlers have in common                              *)

Covered == asking # NoId \/ \E d \in Dialogs : ~Hidden(d)

\* The dialog on top: the logs are stacked above the container details.
Top(d) ==
    /\ asking = NoId /\ ~Hidden(d)
    /\ d = "logs" \/ Hidden("logs")

Event == happened < MaxEvents /\ happened' = happened + 1

\* The dialogs after a load was begun, and after some were closed.
Loading(d, id) ==
    [dialog EXCEPT ![d].id = id, ![d].gen = @ + 1, ![d].busy = TRUE,
                   ![d].shown = IF d = "logs" THEN @ ELSE NoId,
                   ![d].seen = "unknown"]

Closed(which) ==
    [d \in Dialogs |->
       IF d \notin which THEN dialog[d]
       ELSE [id |-> NoId, gen |-> dialog[d].gen + 1, busy |-> FALSE,
             shown |-> NoId, seen |-> "unknown"]]

LoadQuestion(d, id) == Question(d, "load", id, dialog[d].gen + 1)

\* Closing the container details forgets an action under way.
CloseDetails == acting' = FALSE /\ locked' = FALSE

\* startDockerPanel and refreshDocker, when the panel is free.
AskPanel(what) ==
    /\ busy' = TRUE /\ panel' = "loading"
    /\ unseen' = (unseen /\ what = "detect")

-----------------------------------------------------------------------------
(* The page: the panel                                                     *)

\* toggleDockerPanel, or toggleFilePanel taking its place.
Toggle ==
    /\ Event /\ ~Covered
    /\ open' = ~open
    /\ IF ~open /\ ~busy
       THEN /\ AskPanel("detect")
            /\ requests' = requests \union {Question("panel", "detect", NoId, 0)}
       ELSE UNCHANGED <<busy, panel, unseen, requests>>
    /\ IF open THEN dialog' = Closed(Dialogs) /\ CloseDetails
               ELSE UNCHANGED <<dialog, detailVars>>
    /\ UNCHANGED <<overview, reload, asking, worldVars, disconnected>>

RefreshPanel ==
    /\ Event /\ ~Covered /\ open /\ ~busy
    /\ LET what == IF panel = "ready" THEN "overview" ELSE "detect"
       IN  /\ AskPanel(what)
           /\ requests' = requests \union {Question("panel", what, NoId, 0)}
    /\ UNCHANGED <<open, overview, reload, dialog, detailVars, asking, worldVars,
                   disconnected>>

\* Detection is over: the overview is next, or the panel says what is wrong.
DetectAnswered(r) ==
    /\ r.what = "detect" /\ r.state \in {"ok", "missing", "failed"}
    /\ IF r.state = "ok"
       THEN /\ AskPanel("overview")
            /\ requests' = (requests \ {r}) \union {OverviewQuestion}
            /\ UNCHANGED overview
       ELSE /\ busy' = FALSE
            /\ panel' = (IF r.state = "missing" THEN "missing" ELSE "error")
            /\ overview' = Unknown
            /\ requests' = requests \ {r} /\ UNCHANGED unseen
    /\ UNCHANGED <<open, reload, dialog, detailVars, asking, worldVars, disconnected,
                   happened>>

\* loadDockerContainerDetails, called when a refresh is over.
LoadAgain(left) ==
    IF reload /\ ~details.busy /\ ~acting /\ ~Hidden("details")
    THEN /\ dialog' = Loading("details", details.id)
         /\ requests' = left \union {LoadQuestion("details", details.id)}
         /\ locked' = TRUE
         /\ UNCHANGED acting
    ELSE requests' = left /\ UNCHANGED <<dialog, detailVars>>

\* (variant) an error leaves the panel as it is
OverviewAnsweredKeepsSpinner(r) ==
    /\ r.what = "overview" /\ r.state \in {"ok", "down", "missing", "failed"}
    /\ busy' = FALSE
    /\ panel' = (CASE r.state \in {"ok", "down"} -> "ready"
                   [] r.state = "missing" -> "missing"
                   [] OTHER -> panel)
    /\ overview' = (IF r.state = "ok" THEN r.data ELSE Unknown)
    /\ reload' = FALSE
    /\ LoadAgain(requests \ {r})
    /\ UNCHANGED <<open, asking, worldVars, unseen, disconnected, happened>>

\* With the daemon down the lists are empty, and the status line says so.
OverviewAnswered(r) ==
    /\ r.what = "overview" /\ r.state \in {"ok", "down", "missing", "failed"}
    /\ busy' = FALSE
    /\ panel' = (CASE r.state \in {"ok", "down"} -> "ready"
                   [] r.state = "missing" -> "missing"
                   [] OTHER -> "error")
    /\ overview' = (IF r.state = "ok" THEN r.data ELSE Unknown)
    /\ reload' = FALSE
    /\ LoadAgain(requests \ {r})
    /\ UNCHANGED <<open, asking, worldVars, unseen, disconnected, happened>>

\* The image's button asks for a confirmation first.
RemoveImage(image) ==
    /\ Event /\ ~Covered /\ open /\ ~busy
    /\ panel = "ready" /\ overview[image] = "present"
    /\ asking' = image
    /\ UNCHANGED <<panelVars, dialog, detailVars, requests, worldVars, unseen,
                   disconnected>>

\* (variant) the lists are not read again after a removal
ImageRemovedQuietly(r) ==
    /\ r.what = "remove image" /\ r.state \in {"ok", "failed"}
    /\ busy' = FALSE
    /\ requests' = requests \ {r}
    /\ UNCHANGED <<open, panel, overview, reload, dialog, detailVars, asking,
                   worldVars, unseen, disconnected, happened>>

\* runDockerAction is over: a new overview after a success.
ImageRemoved(r) ==
    /\ r.what = "remove image" /\ r.state \in {"ok", "failed"}
    /\ IF r.state = "ok"
       THEN /\ AskPanel("overview")
            /\ requests' = (requests \ {r}) \union {OverviewQuestion}
       ELSE /\ busy' = FALSE
            /\ requests' = requests \ {r} /\ UNCHANGED <<panel, unseen>>
    /\ UNCHANGED <<open, overview, reload, dialog, detailVars, asking, worldVars,
                   disconnected, happened>>

-----------------------------------------------------------------------------
(* The page: the dialogs                                                   *)

\* openDockerLogs, openDockerImageDetails and openDockerContainerDetails have
\* checked that the dialog is free and the id is one of Docker's.
Open(d, id) ==
    /\ dialog' = [Loading(d, id) EXCEPT ![d].shown = NoId]
    /\ requests' = requests \union {LoadQuestion(d, id)}

OpenLogs ==
    /\ Event /\ Top("details") /\ ~locked
    /\ details.shown # NoId /\ ~dialog["logs"].busy
    /\ Open("logs", details.shown)
    /\ UNCHANGED <<panelVars, detailVars, asking, worldVars, unseen, disconnected>>

OpenImageDetails(image) ==
    /\ Event /\ ~Covered /\ open /\ ~busy
    /\ panel = "ready" /\ overview[image] = "present"
    /\ Open("image", image)
    /\ UNCHANGED <<panelVars, detailVars, asking, worldVars, unseen, disconnected>>

\* The load is refused while an action is under way: the dialog stays empty.
OpenContainerDetails(c) ==
    /\ Event /\ ~Covered /\ open /\ ~busy
    /\ panel = "ready" /\ overview[c] \in {"running", "exited"}
    /\ IF acting \/ details.busy
       THEN /\ dialog' = [dialog EXCEPT !["details"].id = c]
            /\ UNCHANGED <<locked, requests>>
       ELSE Open("details", c) /\ locked' = TRUE
    /\ UNCHANGED <<panelVars, acting, asking, worldVars, unseen,
                   disconnected>>

\* The refresh button of a dialog.
LoadDialog(d) ==
    /\ Event /\ Top(d) /\ ~dialog[d].busy
    /\ d = "details" => ~acting /\ ~locked
    /\ dialog' = Loading(d, dialog[d].id)
    /\ requests' = requests \union {LoadQuestion(d, dialog[d].id)}
    /\ locked' = (locked \/ d = "details")
    /\ UNCHANGED <<panelVars, acting, asking, worldVars, unseen,
                   disconnected>>

CloseDialog(d) ==
    /\ Top(d)
    /\ dialog' = Closed({d})
    /\ IF d = "details" THEN CloseDetails ELSE UNCHANGED detailVars
    /\ UNCHANGED <<panelVars, asking, requests, worldVars, unseen, disconnected, happened>>

\* setDisconnected on shell/pty-closed: under an open confirmation, too.
ShellClosed ==
    /\ Event /\ ~disconnected /\ disconnected' = TRUE
    /\ dialog' = Closed(Dialogs) /\ CloseDetails
    /\ UNCHANGED <<panelVars, asking, requests, worldVars, unseen>>

\* What an answer to the last question makes of the dialog.
Answered(d, r) ==
    [dialog EXCEPT ![d].busy = FALSE,
                   ![d].shown = IF r.state = "ok" THEN r.id ELSE @,
                   ![d].seen = IF r.state = "ok" THEN r.data[r.id] ELSE @]

LoadAnswer(d, r) ==
    /\ r.to = d /\ r.what = "load" /\ r.state \in {"ok", "failed"}
    /\ requests' = requests \ {r}
    /\ dialog' = IF Current(r) THEN Answered(d, r) ELSE dialog
    /\ UNCHANGED <<panelVars, acting, asking, worldVars, unseen,
                   disconnected, happened>>

LogsAnswered(r) == LoadAnswer("logs", r) /\ UNCHANGED locked

\* (variant) an error does not end the loading
ImageAnsweredStaysBusy(r) ==
    /\ r.to = "image" /\ r.what = "load" /\ r.state \in {"ok", "failed"}
    /\ requests' = requests \ {r}
    /\ dialog' = IF Current(r) /\ r.state = "ok" THEN Answered("image", r)
                                               ELSE dialog
    /\ UNCHANGED <<panelVars, detailVars, asking, worldVars, unseen, disconnected,
                   happened>>

ImageAnswered(r) == LoadAnswer("image", r) /\ UNCHANGED locked

DetailsAnswered(r) ==
    /\ LoadAnswer("details", r)
    /\ locked' = IF Current(r) THEN acting ELSE locked

-----------------------------------------------------------------------------
(* The page: actions on a container                                        *)

\* The buttons offered with the details of a container in that state.
Offered(state) ==
    CASE state = "running" -> {"stop", "restart"}
      [] state = "exited" -> {"start", "remove"}
      [] OTHER -> {}

\* The action goes to the container the dialog is for at that moment.
Act(action) ==
    /\ dialog' = [dialog EXCEPT !["details"].gen = @ + 1]
    /\ requests' = requests \union
         {Question("details", action, details.id, details.gen + 1)}
    /\ acting' = TRUE /\ locked' = TRUE

ContainerAction(action) ==
    /\ Event /\ Top("details") /\ ~locked /\ ~acting /\ ~details.busy
    /\ details.shown # NoId /\ action \in Offered(details.seen)
    /\ IF action = "remove"
       THEN asking' = details.id /\ UNCHANGED <<dialog, requests, detailVars>>
       ELSE Act(action) /\ UNCHANGED asking
    /\ UNCHANGED <<panelVars, worldVars, unseen, disconnected>>

Decline ==
    /\ asking # NoId /\ asking' = NoId
    /\ UNCHANGED <<panelVars, dialog, detailVars, requests, worldVars, unseen,
                   disconnected, happened>>

\* Neither the busy flags nor the dialog are looked at again.
ConfirmContainer ==
    /\ asking \in Containers /\ asking' = NoId
    /\ Act("remove")
    /\ UNCHANGED <<panelVars, worldVars, unseen, disconnected, happened>>

\* runDockerAction
ConfirmImage ==
    /\ asking \in Images /\ asking' = NoId
    /\ IF busy THEN UNCHANGED <<busy, requests>>
       ELSE /\ busy' = TRUE
            /\ requests' = requests \union {Removal(asking)}
    /\ UNCHANGED <<open, panel, overview, reload, dialog, detailVars, worldVars,
                   unseen, disconnected, happened>>

\* (variant) the flags are cleared whoever they belong to
ActionDroppedClears(r) ==
    /\ r.what \in Actions \ {"remove image"} /\ r.state \in {"ok", "failed"}
    /\ ~Current(r) \/ r.state = "failed"
    /\ requests' = requests \ {r}
    /\ acting' = FALSE /\ locked' = FALSE
    /\ unseen' = (unseen \/ r.state = "ok")
    /\ UNCHANGED <<panelVars, dialog, asking, worldVars, disconnected, happened>>

\* A superseded or failed action: only the flags of a current one are cleared.
ActionDropped(r) ==
    /\ r.what \in Actions \ {"remove image"} /\ r.state \in {"ok", "failed"}
    /\ ~Current(r) \/ r.state = "failed"
    /\ requests' = requests \ {r}
    /\ IF Current(r) THEN acting' = FALSE /\ locked' = FALSE
                     ELSE UNCHANGED <<acting, locked>>
    /\ unseen' = (unseen \/ r.state = "ok")
    /\ UNCHANGED <<panelVars, dialog, asking, worldVars, disconnected, happened>>

\* refreshDocker, if the panel is free; nothing is asked later if it is not.
Refresh(left) ==
    IF busy
    THEN requests' = left /\ UNCHANGED <<busy, panel, unseen>>
    ELSE /\ AskPanel("overview")
         /\ requests' = left \union {OverviewQuestion}

Removed(r) ==
    /\ r.what = "remove" /\ r.state = "ok" /\ Current(r)
    /\ dialog' = Closed({"details"}) /\ CloseDetails
    /\ Refresh(requests \ {r})
    /\ UNCHANGED <<open, overview, reload, asking, worldVars, disconnected, happened>>

\* The panel is refreshed and the details are loaded after that.
ActionDone(r) ==
    /\ r.what \in {"start", "stop", "restart"} /\ r.state = "ok" /\ Current(r)
    /\ acting' = FALSE
    /\ IF busy
       THEN /\ dialog' = Loading("details", details.id)
            /\ Refresh((requests \ {r}) \union {LoadQuestion("details", details.id)})
            /\ UNCHANGED reload
       ELSE /\ reload' = TRUE /\ Refresh(requests \ {r})
            /\ UNCHANGED dialog
    /\ UNCHANGED <<open, overview, locked, asking, worldVars, disconnected,
                   happened>>

-----------------------------------------------------------------------------
(* The plugin's handlers                                                   *)

\* The request goes on; answers replace it.
Turns(r, state, data) ==
    requests' = (requests \ {r})
                  \union {[r EXCEPT !.state = state, !.data = data]}

pageVars == <<panelVars, dialog, detailVars, asking, disconnected, happened>>

Detect(r) ==
    /\ r.what = "detect" /\ r.state = "sent"
    /\ \E state \in {"ok", "missing", "failed"} : Turns(r, state, Unknown)
    /\ UNCHANGED <<pageVars, worldVars, unseen>>

\* Detection, version and docker ps; an unreachable daemon is no failure.
Overview(r) ==
    /\ r.what = "overview" /\ r.state = "sent"
    /\ \/ \E state \in {"missing", "down", "failed"} : Turns(r, state, Unknown)
       \/ Turns(r, "listed",
                [x \in Ids |-> IF x \in Containers THEN docker[x] ELSE "unknown"])
    /\ UNCHANGED <<pageVars, worldVars, unseen>>

\* docker images
OverviewImages(r) ==
    /\ r.what = "overview" /\ r.state = "listed"
    /\ \/ Turns(r, "failed", Unknown)
       \/ Turns(r, "ok",
                [x \in Ids |-> IF x \in Images THEN docker[x] ELSE r.data[x]])
    /\ UNCHANGED <<pageVars, worldVars, unseen>>

Load(r) ==
    /\ r.to \in {"logs", "details"} /\ r.what = "load" /\ r.state = "sent"
    /\ \/ Turns(r, "failed", Unknown)
       \/ /\ docker[r.id] # "gone"
          /\ Turns(r, "ok", [Unknown EXCEPT ![r.id] = docker[r.id]])
    /\ UNCHANGED <<pageVars, worldVars, unseen>>

\* The image and the ids of its containers, in one command.
ImageDetails(r) ==
    /\ r.to = "image" /\ r.what = "load" /\ r.state = "sent"
    /\ \/ Turns(r, "failed", Unknown)
       \/ docker[r.id] # "gone" /\ Turns(r, "listed", docker)
    /\ UNCHANGED <<pageVars, worldVars, unseen>>

\* The containers, in a second one: it fails if one of them is gone since.
ImageContainers(r) ==
    /\ r.to = "image" /\ r.state = "listed"
    /\ \/ Turns(r, "failed", Unknown)
       \/ /\ \A c \in Containers : r.data[c] # "gone" => docker[c] # "gone"
          /\ Turns(r, "ok", r.data)
    /\ UNCHANGED <<pageVars, worldVars, unseen>>

\* What docker makes of a command.
CanDo(action, x) ==
    IF action = "remove" THEN docker[x] = "exited" ELSE docker[x] # "gone"

Effect(action, x) ==
    [docker EXCEPT ![x] = CASE action \in {"start", "restart"} -> "running"
                            [] action = "stop" -> "exited"
                            [] OTHER -> "gone"]

\* dockerContainerAction and dockerImageAction; the page may ask for no id.
RunAction(r) ==
    /\ r.what \in Actions /\ r.state = "sent"
    /\ r.id # NoId /\ CanDo(r.what, r.id)
    /\ docker' = Effect(r.what, r.id)
    /\ Turns(r, "acted", Unknown)
    /\ UNCHANGED <<pageVars, late, unseen>>

ActionSucceeds(r) ==
    /\ r.what \in Actions /\ r.state = "acted"
    /\ Turns(r, "ok", Unknown)
    /\ UNCHANGED <<pageVars, worldVars, unseen>>

\* Refused, timed out, or cut off; docker may have acted, or do so later.
ActionFails(r) ==
    /\ r.what \in Actions /\ r.state \in {"sent", "acted"}
    /\ Turns(r, "failed", Unknown)
    /\ unseen' = (unseen \/ r.state = "acted")
    /\ late' \in {late} \union
         {late \union {<<r.what, r.id>>} : x \in {r.id} \ {NoId}}
    /\ UNCHANGED <<pageVars, docker>>

-----------------------------------------------------------------------------
(* Docker and its other users                                              *)

\* A command whose channel was closed takes effect, or never does.
ActsLate(action, x) ==
    /\ <<action, x>> \in late
    /\ late' = late \ {<<action, x>>}
    /\ IF CanDo(action, x) THEN docker' = Effect(action, x) /\ unseen' = TRUE
                           ELSE UNCHANGED <<docker, unseen>>
    /\ UNCHANGED <<pageVars, requests>>

\* A container ends or starts, or somebody removes something.
Elsewhere(x) ==
    /\ Event
    /\ \/ docker[x] = "running" /\ docker' = [docker EXCEPT ![x] = "exited"]
       \/ /\ docker[x] = "exited"
          /\ \E s \in {"running", "gone"} : docker' = [docker EXCEPT ![x] = s]
       \/ docker[x] = "present" /\ docker' = [docker EXCEPT ![x] = "gone"]
    /\ unseen' = TRUE
    /\ UNCHANGED <<panelVars, dialog, detailVars, asking, requests, late, disconnected>>

-----------------------------------------------------------------------------
PageAnswer(r) ==
    \/ DetectAnswered(r) \/ OverviewAnswered(r) \/ ImageRemoved(r)
    \/ LogsAnswered(r) \/ ImageAnswered(r) \/ DetailsAnswered(r)
    \/ ActionDropped(r) \/ Removed(r) \/ ActionDone(r)

PluginStep(r) ==
    \/ Detect(r) \/ Overview(r) \/ OverviewImages(r) \/ Load(r)
    \/ ImageDetails(r) \/ ImageContainers(r)
    \/ RunAction(r) \/ ActionSucceeds(r) \/ ActionFails(r)

AnswerAny == \E r \in requests : PageAnswer(r)
HandleAny == \E r \in requests : PluginStep(r)

Next ==
    \/ Toggle \/ RefreshPanel
    \/ \E image \in Images : RemoveImage(image) \/ OpenImageDetails(image)
    \/ OpenLogs \/ \E c \in Containers : OpenContainerDetails(c)
    \/ \E d \in Dialogs : LoadDialog(d) \/ CloseDialog(d)
    \/ \E action \in Actions : ContainerAction(action)
    \/ Decline \/ ConfirmContainer \/ ConfirmImage \/ ShellClosed
    \/ \E r \in requests : PageAnswer(r)
    \/ \E r \in requests : PluginStep(r)
    \/ \E x \in Ids : Elsewhere(x) \/ \E action \in Actions : ActsLate(action, x)

Spec == Init /\ [][Next]_vars

\* Every handler ends (each command has its time limit) and every answer is
\* taken; the requests are finitely many, so that none is passed over for good.
FairSpec == Spec /\ WF_vars(AnswerAny) /\ WF_vars(HandleAny)

-----------------------------------------------------------------------------
(* Properties                                                              *)

\* A dialog shows the answer for what it was opened for, and a closed one shows
\* nothing, however late and in whatever order the answers arrive (the
\* generation checks of loadDockerLogs, loadDockerImageDetails and
\* loadDockerContainerDetails).
ShownIsSubject ==
    \A d \in Dialogs : dialog[d].shown \in {dialog[d].id, NoId}

\* A dialog is busy exactly as long as its last question is under way: it never
\* waits for nothing, and no second question or action is begun next to it, by
\* a click, a confirmation or the end of a refresh.
BusyIsAsked ==
    \A d \in Dialogs :
      LET last == {r \in requests : r.to = d /\ Current(r)}
          working == dialog[d].busy \/ (d = "details" /\ acting)
      IN  Cardinality(last) = (IF working THEN 1 ELSE 0)

\* When no action and no overview is under way, the lists of the panel are those
\* of Docker: every success is followed by a new overview, asked for after it.
\* The exceptions are changes nobody told the panel about, and a success that
\* came after its dialog was closed (runDockerContainerDetailsAction).
OverviewIsFresh ==
    \/ unseen \/ panel # "ready" \/ overview = Unknown
    \/ \E r \in requests : r.what \in Actions \union {"overview"}
    \/ overview = docker

Idle ==
    /\ ~busy /\ ~locked
    /\ \A d \in Dialogs : ~dialog[d].busy

\* The panel and its dialogs come back to a user who lets them be: no busy flag
\* and no disabled button stays after the last answer, whatever was closed,
\* refused or lost on the way.
ControlsComeBack == []<>Idle
=============================================================================
