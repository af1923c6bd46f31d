-------------------------- MODULE DockerPanel_proofs --------------------------
(***************************************************************************)
(* Proofs about DockerPanel, for any containers and images.                 *)
(***************************************************************************)
EXTENDS DockerPanel, FiniteSetTheorems, TLAPS

-----------------------------------------------------------------------------
(* The inductive invariant                                                 *)

ContainerActions == Actions \ {"remove image"}
PanelQuestions == {"detect", "overview", "remove image"}

\* Who asks for what.
Addressed ==
    \A r \in requests :
      /\ r.to = "panel" <=> r.what \in PanelQuestions
      /\ r.what \in ContainerActions => r.to = "details"
      /\ r.what = "load" => r.id \in Ids

\* The panel has one request at most, and only while it is busy; the details are
\* loaded again only at the end of a refresh.
PanelInv ==
    /\ \A r \in requests : r.to = "panel" =>
         /\ busy
         /\ r.what = "remove image" => panel # "loading"
         /\ reload => r.what = "overview"
         /\ \A q \in requests : q.to = "panel" => r = q
    /\ reload => busy

\* What a dialog waits for.
Working(d) == dialog[d].busy \/ (d = "details" /\ acting)

\* The last question of a dialog is under way exactly while it is working, a load
\* for what the dialog is for; and a closed dialog waits for no load, and for no
\* action but the removal that was confirmed after it was closed.
DialogOK(d) ==
    /\ \A r \in requests : r.to = d => r.gen <= dialog[d].gen
    /\ \A r \in requests : r.to = d /\ r.gen = dialog[d].gen =>
         IF r.what = "load" THEN dialog[d].busy /\ r.id = dialog[d].id
         ELSE /\ d = "details" /\ acting
              /\ r.what = "remove" \/ dialog[d].id # NoId
    /\ \A r, q \in requests :
         r.to = d /\ q.to = d /\ r.gen = dialog[d].gen /\ q.gen = r.gen => r = q
    /\ Working(d) => \E r \in requests : r.to = d /\ r.gen = dialog[d].gen
    /\ dialog[d].shown \in {dialog[d].id, NoId}
    /\ dialog[d].id = NoId => ~dialog[d].busy

\* Nothing else is begun next to an action on a container, under a confirmation,
\* or before the load at the end of a refresh.
AloneInv ==
    /\ ~(dialog["details"].busy /\ acting)
    /\ acting => locked
    /\ asking \in Containers =>
         ~dialog["details"].busy /\ ~acting /\ ~reload
    /\ reload =>
         /\ ~dialog["details"].busy /\ ~acting
         /\ dialog["details"].id = NoId \/ locked

DialogsInv == \A d \in Dialogs : DialogOK(d)

PanelsInv == Addressed /\ PanelInv /\ DialogsInv /\ AloneInv

-----------------------------------------------------------------------------
(* What the operators of the model return                                  *)

\* The dialogs after a load was begun.
LEMMA LoadingIs ==
    ASSUME dialog \in [Dialogs -> Dialog], NEW d \in Dialogs,
           NEW id \in Ids \union {NoId}
    PROVE  /\ Loading(d, id) \in [Dialogs -> Dialog]
           /\ \A x \in Dialogs : x # d => Loading(d, id)[x] = dialog[x]
           /\ Loading(d, id)[d].id = id /\ Loading(d, id)[d].gen = dialog[d].gen + 1
           /\ Loading(d, id)[d].busy = TRUE
           /\ Loading(d, id)[d].shown \in {dialog[d].shown, NoId}
<1> DEFINE new == [dialog[d] EXCEPT !.id = id, !.gen = @ + 1, !.busy = TRUE,
                                    !.shown = IF d = "logs" THEN @ ELSE NoId,
                                    !.seen = "unknown"]
<1>1. dialog[d] \in Dialog
  OBVIOUS
<1>a. /\ dialog[d].gen + 1 \in Nat /\ "unknown" \in States
      /\ (IF d = "logs" THEN dialog[d].shown ELSE NoId) \in Ids \union {NoId}
  BY <1>1 DEF Dialog, States
<1>2. new \in Dialog
  BY <1>1, <1>a DEF Dialog
<1>3. /\ new.id = id /\ new.gen = dialog[d].gen + 1 /\ new.busy = TRUE
      /\ new.shown \in {dialog[d].shown, NoId}
  BY <1>1 DEF Dialog
<1>4. Loading(d, id) = [dialog EXCEPT ![d] = new]
  BY <1>1 DEF Loading, Dialog
<1> HIDE DEF new
<1>5. QED
  BY <1>2, <1>3, <1>4

\* The dialogs after some were closed.
LEMMA ClosedIs ==
    ASSUME dialog \in [Dialogs -> Dialog], NEW which \in SUBSET Dialogs
    PROVE  /\ Closed(which) \in [Dialogs -> Dialog]
           /\ \A x \in Dialogs :
                IF x \notin which THEN Closed(which)[x] = dialog[x]
                ELSE /\ Closed(which)[x].id = NoId /\ Closed(which)[x].shown = NoId
                     /\ Closed(which)[x].gen = dialog[x].gen + 1
                     /\ Closed(which)[x].busy = FALSE
<1>1. \A x \in Dialogs : dialog[x] \in Dialog
  OBVIOUS
<1>2. \A x \in Dialogs :
        [id |-> NoId, gen |-> dialog[x].gen + 1, busy |-> FALSE, shown |-> NoId,
         seen |-> "unknown"] \in Dialog
  BY <1>1 DEF Dialog, States
<1>3. QED
  BY <1>1, <1>2 DEF Closed

\* A dialog after the answer to its last question.
LEMMA AnsweredIs ==
    ASSUME dialog \in [Dialogs -> Dialog], NEW d \in Dialogs, NEW r \in Request,
           r.id \in Ids
    PROVE  /\ Answered(d, r) \in [Dialogs -> Dialog]
           /\ \A x \in Dialogs : x # d => Answered(d, r)[x] = dialog[x]
           /\ Answered(d, r)[d].id = dialog[d].id
           /\ Answered(d, r)[d].gen = dialog[d].gen
           /\ Answered(d, r)[d].busy = FALSE
           /\ Answered(d, r)[d].shown \in {dialog[d].shown, r.id}
<1> DEFINE new == [dialog[d] EXCEPT
                     !.busy = FALSE,
                     !.shown = IF r.state = "ok" THEN r.id ELSE @,
                     !.seen = IF r.state = "ok" THEN r.data[r.id] ELSE @]
<1>1. dialog[d] \in Dialog /\ r.data[r.id] \in States
  BY DEF Request
<1>2. new \in Dialog
  BY <1>1 DEF Dialog
<1>3. /\ new.id = dialog[d].id /\ new.gen = dialog[d].gen /\ new.busy = FALSE
      /\ new.shown \in {dialog[d].shown, r.id}
  BY <1>1 DEF Dialog
<1>4. Answered(d, r) = [dialog EXCEPT ![d] = new]
  BY <1>1 DEF Answered, Dialog
<1> HIDE DEF new
<1>5. QED
  BY <1>2, <1>3, <1>4

-----------------------------------------------------------------------------
(* What a step can do to a dialog                                          *)

\* Nothing: neither the dialog nor its requests are touched.
LEMMA Untouched ==
    ASSUME NEW d \in Dialogs, DialogOK(d), dialog'[d] = dialog[d],
           d = "details" => acting' = acting,
           \A r : r.to = d => (r \in requests' <=> r \in requests)
    PROVE  DialogOK(d)'
BY DEF DialogOK, Working

\* One of its requests goes on.
LEMMA GoesOn ==
    ASSUME NEW d \in Dialogs, DialogOK(d), dialog'[d] = dialog[d],
           d = "details" => acting' = acting,
           NEW r \in requests, NEW q, requests' = (requests \ {r}) \union {q},
           q.to = r.to, q.what = r.what, q.id = r.id, q.gen = r.gen
    PROVE  DialogOK(d)'
BY DEF DialogOK, Working

\* It is closed.
LEMMA IsClosed ==
    ASSUME NEW d \in Dialogs, DialogOK(d), dialog[d].gen \in Nat,
           dialog'[d].gen = dialog[d].gen + 1, dialog'[d].id = NoId,
           dialog'[d].shown = NoId, dialog'[d].busy = FALSE,
           d = "details" => acting' = FALSE,
           \A r \in requests' : r.to = d => r \in requests /\ r.gen \in Nat
    PROVE  DialogOK(d)'
BY DEF DialogOK, Working

\* An action on its container is begun.
LEMMA ActionBegins ==
    ASSUME DialogOK("details"), dialog["details"].gen \in Nat,
           dialog'["details"].gen = dialog["details"].gen + 1,
           dialog'["details"].id = dialog["details"].id,
           dialog'["details"].shown = dialog["details"].shown,
           dialog'["details"].busy = dialog["details"].busy, acting' = TRUE,
           NEW q \in requests', q.to = "details", q.what # "load",
           q.what = "remove" \/ dialog["details"].id # NoId,
           q.gen = dialog'["details"].gen,
           \A r \in requests' :
             r.to = "details" /\ r # q => r \in requests /\ r.gen \in Nat
    PROVE  DialogOK("details")'
BY DEF DialogOK, Working

\* The answer to its last question is taken.
LEMMA IsAnswered ==
    ASSUME NEW d \in Dialogs, DialogOK(d),
           dialog'[d].gen = dialog[d].gen, dialog'[d].id = dialog[d].id,
           dialog'[d].busy = FALSE, d = "details" => acting' = FALSE,
           NEW r \in requests, r.to = d, r.gen = dialog[d].gen, r.what = "load",
           dialog'[d].shown \in {dialog[d].shown, r.id},
           \A q \in requests' : q.to = d => q \in requests \ {r}
    PROVE  DialogOK(d)'
BY DEF DialogOK, Working

\* An answer that comes too late is dropped.
LEMMA IsDropped ==
    ASSUME NEW d \in Dialogs, DialogOK(d), dialog'[d] = dialog[d],
           d = "details" => acting' = acting,
           NEW r \in requests, r.to = d => r.gen # dialog[d].gen,
           requests' = requests \ {r}
    PROVE  DialogOK(d)'
BY DEF DialogOK, Working

\* The last action is over.
LEMMA ActionEnds ==
    ASSUME DialogOK("details"), dialog'["details"] = dialog["details"],
           ~dialog["details"].busy, acting' = FALSE,
           NEW r \in requests, r.to = "details", r.gen = dialog["details"].gen,
           \A q \in requests' : q.to = "details" => q \in requests \ {r}
    PROVE  DialogOK("details")'
BY DEF DialogOK, Working

\* It is opened for a container while an action is under way.
LEMMA IsNamed ==
    ASSUME DialogOK("details"), dialog["details"].id = NoId,
           ~dialog["details"].busy, dialog'["details"].id # NoId,
           dialog'["details"].gen = dialog["details"].gen,
           dialog'["details"].shown = dialog["details"].shown,
           ~dialog'["details"].busy, acting' = acting, requests' = requests
    PROVE  DialogOK("details")'
BY DEF DialogOK, Working

-----------------------------------------------------------------------------
(* The plugin's handlers, Docker, and the steps that ask nothing           *)

\* What the type invariant says of a dialog, and of a request.
LEMMA Typed ==
    ASSUME TypeOK
    PROVE  /\ \A d \in Dialogs :
                /\ dialog[d].id \in Ids \union {NoId} /\ dialog[d].gen \in Nat
                /\ dialog[d].shown \in Ids \union {NoId} /\ dialog[d].busy \in BOOLEAN
                /\ dialog[d] \in Dialog
           /\ \A r \in requests :
                /\ r \in Request
                /\ r.id \in Ids \union {NoId} /\ r.gen \in Nat
                /\ r.data \in [Ids -> States]
                /\ r.to \in Dialogs \union {"panel"}
                /\ r.what \in {"detect", "overview", "load"} \union Actions
           /\ dialog \in [Dialogs -> Dialog] /\ Unknown \in [Ids -> States]
<1>1. /\ \A d \in Dialogs : dialog[d] \in Dialog
      /\ \A r \in requests : r \in Request
      /\ dialog \in [Dialogs -> Dialog]
  BY DEF TypeOK
<1>2. Unknown \in [Ids -> States]
  BY DEF Unknown, States
<1>3. \A r \in requests :
        /\ r \in Request
        /\ r.id \in Ids \union {NoId} /\ r.gen \in Nat
        /\ r.data \in [Ids -> States]
        /\ r.to \in Dialogs \union {"panel"}
        /\ r.what \in {"detect", "overview", "load"} \union Actions
  BY <1>1 DEF Request
<1>4. \A d \in Dialogs :
        /\ dialog[d].id \in Ids \union {NoId} /\ dialog[d].gen \in Nat
        /\ dialog[d].shown \in Ids \union {NoId} /\ dialog[d].busy \in BOOLEAN
  BY <1>1 DEF Dialog
<1>5. QED
  BY <1>1, <1>2, <1>3, <1>4

\* The dialogs stay as they are if neither they nor their requests change.
LEMMA SameDialogs ==
    ASSUME DialogsInv, UNCHANGED <<dialog, acting>>,
           \A r : r.to \in Dialogs => (r \in requests' <=> r \in requests)
    PROVE  DialogsInv'
<1> SUFFICES ASSUME NEW d \in Dialogs PROVE DialogOK(d)'
  BY DEF DialogsInv
<1>1. DialogOK(d)
  BY DEF DialogsInv
<1>2. QED
  BY <1>1, Untouched

\* A request that goes on disturbs nothing in the page.
LEMMA Turned ==
    ASSUME TypeOK, PanelsInv, UNCHANGED pageVars, NEW r \in requests,
           NEW data \in [Ids -> States],
           NEW state \in {"sent", "listed", "acted", "ok", "missing", "down", "failed"},
           Turns(r, state, data)
    PROVE  requests' \subseteq Request /\ PanelsInv'
<1> DEFINE q == [r EXCEPT !.state = state, !.data = data]
<1>a. r \in Request
  BY Typed
<1>1. /\ q \in Request
      /\ q.to = r.to /\ q.what = r.what /\ q.id = r.id /\ q.gen = r.gen
  BY <1>a DEF Request
<1>2. requests' = (requests \ {r}) \union {q}
  BY DEF Turns
<1>3. UNCHANGED <<open, panel, busy, overview, reload, dialog, acting, locked, asking>>
  BY DEF pageVars, panelVars, detailVars
<1> HIDE DEF q
<1>4. requests' \subseteq Request
  BY <1>1, <1>2 DEF TypeOK
<1>5. Addressed'
  BY <1>1, <1>2 DEF PanelsInv, Addressed
<1>6. PanelInv'
  BY <1>1, <1>2, <1>3, ZenonT(40) DEF PanelsInv, PanelInv
<1>7. DialogsInv'
  <2> SUFFICES ASSUME NEW d \in Dialogs PROVE DialogOK(d)'
    BY DEF DialogsInv
  <2>1. DialogOK(d)
    BY DEF PanelsInv, DialogsInv
  <2>2. QED
    BY <2>1, <1>1, <1>2, <1>3, GoesOn
<1>8. AloneInv'
  BY <1>3 DEF PanelsInv, AloneInv
<1>9. QED
  BY <1>4, <1>5, <1>6, <1>7, <1>8 DEF PanelsInv

\* A step that leaves the page and its requests alone disturbs nothing in it.
LEMMA Outside ==
    ASSUME PanelsInv,
           UNCHANGED <<panel, busy, reload, dialog, acting, locked, requests>>,
           asking' \in Containers => asking' = asking
    PROVE  PanelsInv'
<1>1. DialogsInv'
  BY SameDialogs DEF PanelsInv
<1>2. QED
  BY <1>1 DEF PanelsInv, Addressed, PanelInv, AloneInv

\* What docker does to a container or image leaves it in a state docker knows.
LEMMA EffectIs ==
    ASSUME TypeOK, NEW action, NEW x \in Ids
    PROVE  Effect(action, x) \in [Ids -> States \ {"unknown"}]
<1>1. (CASE action \in {"start", "restart"} -> "running"
         [] action = "stop" -> "exited"
         [] OTHER -> "gone") \in States \ {"unknown"}
  BY DEF States
<1>2. QED
  BY <1>1 DEF TypeOK, Effect

\* A handler of the plugin goes on or answers.
LEMMA HandlerStep ==
    ASSUME TypeOK, PanelsInv, NEW r \in requests, PluginStep(r)
    PROVE  TypeOK' /\ PanelsInv'
<1>a. /\ docker \in [Ids -> States] /\ \A x \in Ids : docker[x] \in States
      /\ r.data \in [Ids -> States] /\ Unknown \in [Ids -> States]
      /\ \A x \in Ids : r.data[x] \in States /\ Unknown[x] \in States
      /\ r.id \in Ids \union {NoId}
      /\ r.what = "load" => r.id \in Ids
  BY Typed DEF TypeOK, PanelsInv, Addressed
<1>b. UNCHANGED pageVars
  BY DEF PluginStep, Detect, Overview, OverviewImages, Load, ImageDetails,
         ImageContainers, RunAction, ActionSucceeds, ActionFails
<1>1. \E data \in [Ids -> States],
         state \in {"sent", "listed", "acted", "ok", "missing", "down", "failed"} :
        Turns(r, state, data)
  <2>1. CASE Detect(r) \/ RunAction(r) \/ ActionSucceeds(r) \/ ActionFails(r)
    BY <2>1, <1>a DEF Detect, RunAction, ActionSucceeds, ActionFails
  <2>2. CASE Overview(r)
    <3>1. [x \in Ids |-> IF x \in Containers THEN docker[x] ELSE "unknown"]
            \in [Ids -> States]
      BY <1>a DEF States
    <3>2. QED
      BY <2>2, <3>1, <1>a DEF Overview
  <2>3. CASE OverviewImages(r)
    <3>1. [x \in Ids |-> IF x \in Images THEN docker[x] ELSE r.data[x]]
            \in [Ids -> States]
      BY <1>a
    <3>2. QED
      BY <2>3, <3>1, <1>a DEF OverviewImages
  <2>4. CASE Load(r)
    <3>1. [Unknown EXCEPT ![r.id] = docker[r.id]] \in [Ids -> States]
      BY <2>4, <1>a DEF Load
    <3>2. QED
      BY <2>4, <3>1, <1>a DEF Load
  <2>5. CASE ImageDetails(r) \/ ImageContainers(r)
    BY <2>5, <1>a DEF ImageDetails, ImageContainers
  <2>6. QED
    BY <2>1, <2>2, <2>3, <2>4, <2>5 DEF PluginStep
<1>2. requests' \subseteq Request /\ PanelsInv'
  BY <1>1, <1>b, Turned
<1>3. /\ docker' \in [Ids -> States \ {"unknown"}]
      /\ late' \subseteq Actions \X Ids
      /\ unseen' \in BOOLEAN
  <2>1. CASE Detect(r) \/ Overview(r) \/ OverviewImages(r) \/ Load(r)
             \/ ImageDetails(r) \/ ImageContainers(r) \/ ActionSucceeds(r)
    BY <2>1 DEF TypeOK, worldVars, Detect, Overview, OverviewImages, Load,
                ImageDetails, ImageContainers, ActionSucceeds
  <2>2. CASE RunAction(r)
    <3>1. Effect(r.what, r.id) \in [Ids -> States \ {"unknown"}]
      BY <2>2, <1>a, EffectIs DEF RunAction
    <3>2. QED
      BY <2>2, <3>1 DEF RunAction, TypeOK
  <2>3. CASE ActionFails(r)
    <3>1. r.id # NoId => <<r.what, r.id>> \in Actions \X Ids
      BY <2>3, <1>a DEF ActionFails
    <3>2. docker' = docker /\ unseen' \in BOOLEAN
      BY <2>3 DEF ActionFails, TypeOK
    <3>3. late' \subseteq Actions \X Ids
      BY <2>3, <3>1 DEF ActionFails, TypeOK
    <3>4. QED
      BY <3>2, <3>3 DEF TypeOK
  <2>4. QED
    BY <2>1, <2>2, <2>3 DEF PluginStep
<1>4. TypeOK'
  BY <1>b, <1>2, <1>3 DEF TypeOK, pageVars, panelVars, detailVars
<1>5. QED
  BY <1>2, <1>4

\* Docker changes, or a command that was given up takes effect.
LEMMA WorldStep ==
    ASSUME TypeOK, PanelsInv, NEW x \in Ids,
           Elsewhere(x) \/ \E action \in Actions : ActsLate(action, x)
    PROVE  TypeOK' /\ PanelsInv'
<1>a. UNCHANGED <<panelVars, dialog, detailVars, asking, requests, disconnected>>
  BY DEF Elsewhere, ActsLate, pageVars
<1>b. UNCHANGED <<open, panel, busy, overview, reload, acting, locked>>
  BY <1>a DEF panelVars, detailVars
<1>1. PanelsInv'
  BY <1>a, <1>b, Outside
<1>2. happened' \in 0..MaxEvents
  <2>1. CASE Elsewhere(x)
    BY <2>1, BoundsAssumption DEF Elsewhere, Event, TypeOK
  <2>2. CASE \E action \in Actions : ActsLate(action, x)
    BY <2>2 DEF ActsLate, pageVars, TypeOK
  <2>3. QED
    BY <2>1, <2>2
<1>3. docker' \in [Ids -> States \ {"unknown"}]
  <2>1. CASE Elsewhere(x)
    BY <2>1 DEF Elsewhere, TypeOK, States
  <2>2. ASSUME NEW action \in Actions, ActsLate(action, x)
        PROVE  docker' \in [Ids -> States \ {"unknown"}]
    BY <2>2, EffectIs DEF ActsLate, TypeOK
  <2>3. QED
    BY <2>1, <2>2
<1>4. late' \subseteq Actions \X Ids /\ unseen' \in BOOLEAN
  BY DEF Elsewhere, ActsLate, TypeOK
<1>5. TypeOK'
  BY <1>a, <1>b, <1>2, <1>3, <1>4 DEF TypeOK
<1>6. QED
  BY <1>1, <1>5

-----------------------------------------------------------------------------
(* The panel                                                               *)

\* The panel asks when it has no request under way.
LEMMA PanelAsks ==
    ASSUME TypeOK, PanelsInv, NEW what \in PanelQuestions,
           NEW id \in Ids \union {NoId}, NEW left \in SUBSET requests,
           \A r \in left : r.to # "panel",
           requests' = left \union {Question("panel", what, id, 0)},
           busy' = TRUE, reload' => what = "overview",
           what = "remove image" => panel' # "loading"
    PROVE  /\ requests' \subseteq Request /\ Addressed' /\ PanelInv'
           /\ \A r : r.to \in Dialogs => (r \in requests' <=> r \in left)
<1> DEFINE q == Question("panel", what, id, 0)
<1>1. /\ q \in Request
      /\ q.to = "panel" /\ q.what = what /\ q.id = id /\ q.gen = 0
  <2>1. /\ what \in {"detect", "overview", "load"} \union Actions /\ 0 \in Nat
        /\ "panel" \in Dialogs \union {"panel"}
    BY DEF PanelQuestions, Actions
  <2>2. QED
    BY <2>1 DEF Question, Request, Unknown, States
<1>2. requests' = left \union {q}
  OBVIOUS
<1> HIDE DEF q
<1>3. requests' \subseteq Request
  BY <1>1, <1>2 DEF TypeOK
<1>4. Addressed'
  BY <1>1, <1>2 DEF PanelsInv, Addressed, PanelQuestions, ContainerActions, Actions
<1>5. PanelInv'
  BY <1>1, <1>2 DEF PanelInv
<1>6. \A r : r.to \in Dialogs => (r \in requests' <=> r \in left)
  BY <1>1, <1>2 DEF Dialogs
<1>7. QED
  BY <1>3, <1>4, <1>5, <1>6

\* The panel's request is over.
LEMMA PanelDone ==
    ASSUME TypeOK, PanelsInv, NEW r \in requests, r.to = "panel",
           requests' = requests \ {r}, ~reload'
    PROVE  /\ requests' \subseteq Request /\ Addressed' /\ PanelInv'
           /\ \A q : q.to \in Dialogs => (q \in requests' <=> q \in requests)
BY DEF TypeOK, PanelsInv, Addressed, PanelInv, Dialogs

\* A free panel has no request, and no load of details waits for it.
LEMMA PanelFree ==
    ASSUME PanelsInv, ~busy
    PROVE  ~reload /\ \A r \in requests : r.to # "panel"
BY DEF PanelsInv, PanelInv

\* One more thing was done.
LEMMA EventCounts ==
    ASSUME TypeOK, Event PROVE happened' \in 0..MaxEvents
BY BoundsAssumption DEF TypeOK, Event

\* Every dialog is closed: by the end of the session, or with the panel.
LEMMA AllClosed ==
    ASSUME TypeOK, PanelsInv, dialog' = Closed(Dialogs), acting' = FALSE,
           requests' = requests
    PROVE  DialogsInv' /\ dialog' \in [Dialogs -> Dialog]
           /\ dialog'["details"].id = NoId /\ ~dialog'["details"].busy
<1>1. /\ dialog' \in [Dialogs -> Dialog]
      /\ \A d \in Dialogs :
           /\ dialog'[d].id = NoId /\ dialog'[d].shown = NoId
           /\ dialog'[d].gen = dialog[d].gen + 1
           /\ dialog'[d].busy = FALSE
  BY Typed, ClosedIs
<1>2. ASSUME NEW d \in Dialogs PROVE DialogOK(d)'
  <2>1. DialogOK(d)
    BY DEF PanelsInv, DialogsInv
  <2>2. /\ dialog[d].gen \in Nat
        /\ \A r \in requests' : r.to = d => r \in requests /\ r.gen \in Nat
    BY Typed
  <2>3. QED
    BY <1>1, <2>1, <2>2, IsClosed
<1>3. QED
  BY <1>1, <1>2 DEF DialogsInv, Dialogs

\* The panel is opened, or closed with its dialogs.
LEMMA ToggleStep ==
    ASSUME TypeOK, PanelsInv, Toggle PROVE TypeOK' /\ PanelsInv'
<1>a. /\ UNCHANGED <<overview, reload, asking, docker, late, disconnected>>
      /\ happened' \in 0..MaxEvents /\ open' \in BOOLEAN /\ asking = NoId
  BY EventCounts DEF Toggle, worldVars, TypeOK, Covered
<1>1. CASE open
  <2>1. /\ UNCHANGED <<busy, panel, unseen, requests>>
        /\ dialog' = Closed(Dialogs) /\ acting' = FALSE /\ locked' = FALSE
    BY <1>1 DEF Toggle, CloseDetails
  <2>2. /\ DialogsInv' /\ dialog' \in [Dialogs -> Dialog]
        /\ dialog'["details"].id = NoId /\ ~dialog'["details"].busy
    BY <2>1, AllClosed
  <2>3. TypeOK'
    BY <1>a, <2>1, <2>2 DEF TypeOK
  <2>4. Addressed' /\ PanelInv'
    BY <1>a, <2>1 DEF PanelsInv, Addressed, PanelInv
  <2>5. AloneInv'
    BY <1>a, <2>1, <2>2, NamesAssumption DEF AloneInv, Ids
  <2>6. QED
    BY <2>2, <2>3, <2>4, <2>5 DEF PanelsInv
<1>2. CASE ~open /\ busy
  <2>1. UNCHANGED <<busy, panel, unseen, requests, dialog, acting, locked>>
    BY <1>2 DEF Toggle, detailVars
  <2>2. PanelsInv'
    BY <1>a, <2>1, Outside
  <2>3. TypeOK'
    BY <1>a, <2>1 DEF TypeOK
  <2>4. QED
    BY <2>2, <2>3
<1>3. CASE ~open /\ ~busy
  <2>1. /\ UNCHANGED <<dialog, acting, locked>>
        /\ busy' = TRUE /\ panel' = "loading" /\ unseen' = unseen
        /\ requests' = requests \union {Question("panel", "detect", NoId, 0)}
    BY <1>3 DEF Toggle, detailVars, AskPanel, TypeOK
  <2>2. ~reload /\ \A r \in requests : r.to # "panel"
    BY <1>3, PanelFree
  <2>3. /\ requests' \subseteq Request /\ Addressed' /\ PanelInv'
        /\ \A r : r.to \in Dialogs => (r \in requests' <=> r \in requests)
    BY <1>a, <2>1, <2>2, PanelAsks DEF PanelQuestions
  <2>4. DialogsInv'
    BY <2>1, <2>3, SameDialogs DEF PanelsInv
  <2>5. AloneInv'
    BY <1>a, <2>1 DEF PanelsInv, AloneInv
  <2>6. TypeOK'
    BY <1>a, <2>1, <2>3 DEF TypeOK
  <2>7. QED
    BY <2>3, <2>4, <2>5, <2>6 DEF PanelsInv
<1>4. QED
  BY <1>1, <1>2, <1>3

\* The panel detects Docker again, or asks for another overview.
LEMMA RefreshPanelStep ==
    ASSUME TypeOK, PanelsInv, RefreshPanel PROVE TypeOK' /\ PanelsInv'
<1>1. PICK what \in {"overview", "detect"} :
        /\ AskPanel(what)
        /\ requests' = requests \union {Question("panel", what, NoId, 0)}
  BY DEF RefreshPanel
<1>2. /\ UNCHANGED <<open, overview, reload, dialog, acting, locked, asking, docker,
                     late, disconnected>>
      /\ happened' \in 0..MaxEvents /\ ~busy
      /\ busy' = TRUE /\ panel' = "loading" /\ unseen' \in BOOLEAN
  BY <1>1, EventCounts DEF RefreshPanel, detailVars, worldVars, AskPanel, TypeOK
<1>3. ~reload /\ \A r \in requests : r.to # "panel"
  BY <1>2, PanelFree
<1>4. /\ requests' \subseteq Request /\ Addressed' /\ PanelInv'
      /\ \A r : r.to \in Dialogs => (r \in requests' <=> r \in requests)
  BY <1>1, <1>2, <1>3, PanelAsks DEF PanelQuestions
<1>5. DialogsInv'
  BY <1>2, <1>4, SameDialogs DEF PanelsInv
<1>6. AloneInv'
  BY <1>2 DEF PanelsInv, AloneInv
<1>7. TypeOK'
  BY <1>2, <1>4 DEF TypeOK
<1>8. QED
  BY <1>4, <1>5, <1>6, <1>7 DEF PanelsInv

\* Detection is over, or the removal of an image: the panel asks for an overview
\* or is free.
LEMMA PanelGoesOn ==
    ASSUME TypeOK, PanelsInv, NEW r \in requests, DetectAnswered(r) \/ ImageRemoved(r)
    PROVE  TypeOK' /\ PanelsInv'
<1>a. UNCHANGED <<open, reload, dialog, acting, locked, asking, docker, late,
                  disconnected, happened>>
  BY DEF DetectAnswered, ImageRemoved, detailVars, worldVars
<1>b. /\ r.to = "panel" /\ busy /\ ~reload
      /\ r.what = "remove image" => panel # "loading"
      /\ \A q \in requests \ {r} : q.to # "panel"
  BY DEF DetectAnswered, ImageRemoved, PanelsInv, Addressed, PanelInv, PanelQuestions
<1>c. AloneInv'
  BY <1>a DEF PanelsInv, AloneInv
<1>1. CASE r.state = "ok"
  <2>1. /\ busy' = TRUE /\ panel' = "loading" /\ unseen' \in BOOLEAN
        /\ overview' = overview
        /\ requests' = (requests \ {r}) \union {Question("panel", "overview", NoId, 0)}
    BY <1>1 DEF DetectAnswered, ImageRemoved, AskPanel, OverviewQuestion, TypeOK
  <2>2. /\ requests' \subseteq Request /\ Addressed' /\ PanelInv'
        /\ \A q : q.to \in Dialogs => (q \in requests' <=> q \in requests \ {r})
    BY <1>a, <1>b, <2>1, PanelAsks DEF PanelQuestions
  <2>3. DialogsInv'
    <3>1. ASSUME NEW q, q.to \in Dialogs
          PROVE  q \in requests' <=> q \in requests
      <4>1. q # r
        BY <1>b, <3>1 DEF Dialogs
      <4>2. QED
        BY <2>2, <3>1, <4>1
    <3>2. QED
      BY <1>a, <3>1, SameDialogs DEF PanelsInv
  <2>4. TypeOK'
    BY <1>a, <2>1, <2>2 DEF TypeOK
  <2>5. QED
    BY <1>c, <2>2, <2>3, <2>4 DEF PanelsInv
<1>2. CASE r.state # "ok"
  <2>1. /\ busy' = FALSE /\ requests' = requests \ {r} /\ UNCHANGED unseen
        /\ panel' \in {"missing", "error", panel}
        /\ r.what = "detect" => panel' \in {"missing", "error"}
        /\ r.what # "detect" => r.what = "remove image" /\ panel' = panel
        /\ overview' \in {overview, Unknown}
    BY <1>2 DEF DetectAnswered, ImageRemoved
  <2>2. /\ requests' \subseteq Request /\ Addressed' /\ PanelInv'
        /\ \A q : q.to \in Dialogs => (q \in requests' <=> q \in requests)
    BY <1>a, <1>b, <2>1, PanelDone
  <2>3. DialogsInv'
    BY <1>a, <2>2, SameDialogs DEF PanelsInv
  <2>4. TypeOK'
    <3>1. overview' \in [Ids -> States]
      BY <2>1, Typed DEF TypeOK
    <3>2. panel' \in {"idle", "loading", "missing", "ready", "error"}
      BY <2>1 DEF TypeOK
    <3>3. panel' # "loading"
      BY <1>b, <2>1
    <3>4. QED
      BY <1>a, <2>1, <2>2, <3>1, <3>2, <3>3 DEF TypeOK
  <2>5. QED
    BY <1>c, <2>2, <2>3, <2>4 DEF PanelsInv
<1>3. QED
  BY <1>1, <1>2

\* The confirmation for an image is opened, or one is declined.
LEMMA AskedStep ==
    ASSUME TypeOK, PanelsInv, Decline \/ \E image \in Images : RemoveImage(image)
    PROVE  TypeOK' /\ PanelsInv'
<1>1. /\ UNCHANGED <<open, panel, busy, overview, reload, dialog, acting, locked,
                     requests, docker, late, unseen, disconnected>>
      /\ asking' \in Images \union {NoId}
  BY DEF Decline, RemoveImage, panelVars, detailVars, worldVars
<1>2. happened' \in 0..MaxEvents
  <2>1. CASE Decline
    BY <2>1 DEF Decline, TypeOK
  <2>2. CASE \E image \in Images : RemoveImage(image)
    BY <2>2, EventCounts DEF RemoveImage
  <2>3. QED
    BY <2>1, <2>2
<1>3. PanelsInv'
  BY <1>1, NamesAssumption, Outside DEF Ids
<1>4. TypeOK'
  BY <1>1, <1>2 DEF TypeOK, Ids
<1>5. QED
  BY <1>3, <1>4

\* An image is removed if the panel is free.
LEMMA ConfirmImageStep ==
    ASSUME TypeOK, PanelsInv, ConfirmImage PROVE TypeOK' /\ PanelsInv'
<1>1. /\ UNCHANGED <<open, panel, overview, reload, dialog, acting, locked, docker,
                     late, unseen, disconnected, happened>>
      /\ asking \in Images /\ asking' = NoId
  BY DEF ConfirmImage, detailVars, worldVars
<1>2. CASE busy
  <2>1. UNCHANGED <<busy, requests>>
    BY <1>2 DEF ConfirmImage
  <2>2. PanelsInv'
    BY <1>1, <2>1, NamesAssumption, Outside DEF Ids
  <2>3. TypeOK'
    BY <1>1, <2>1 DEF TypeOK
  <2>4. QED
    BY <2>2, <2>3
<1>3. CASE ~busy
  <2>1. /\ busy' = TRUE
        /\ requests' = requests \union {Question("panel", "remove image", asking, 0)}
    BY <1>3 DEF ConfirmImage, Removal
  <2>2. /\ ~reload /\ panel # "loading"
        /\ \A r \in requests : r.to # "panel"
    BY <1>3, PanelFree DEF TypeOK
  <2>3. /\ requests' \subseteq Request /\ Addressed' /\ PanelInv'
        /\ \A r : r.to \in Dialogs => (r \in requests' <=> r \in requests)
    BY <1>1, <2>1, <2>2, PanelAsks DEF PanelQuestions, Ids
  <2>4. DialogsInv'
    BY <1>1, <2>3, SameDialogs DEF PanelsInv
  <2>5. AloneInv'
    BY <1>1, NamesAssumption DEF PanelsInv, AloneInv, Ids
  <2>6. TypeOK'
    BY <1>1, <2>1, <2>3 DEF TypeOK
  <2>7. QED
    BY <2>3, <2>4, <2>5, <2>6 DEF PanelsInv
<1>4. QED
  BY <1>2, <1>3

-----------------------------------------------------------------------------
(* The dialogs                                                             *)

\* The dialogs with one of them opened.
LEMMA OpenIs ==
    ASSUME TypeOK, NEW d \in Dialogs, NEW id \in Ids,
           dialog' = [Loading(d, id) EXCEPT ![d].shown = NoId]
    PROVE  /\ dialog' \in [Dialogs -> Dialog]
           /\ \A x \in Dialogs : x # d => dialog'[x] = dialog[x]
           /\ dialog'[d].id = id /\ dialog'[d].gen = dialog[d].gen + 1
           /\ dialog'[d].busy = TRUE /\ dialog'[d].shown = NoId
<1> DEFINE f == Loading(d, id)
<1>1. /\ f \in [Dialogs -> Dialog]
      /\ \A x \in Dialogs : x # d => f[x] = dialog[x]
      /\ f[d].id = id /\ f[d].gen = dialog[d].gen + 1 /\ f[d].busy = TRUE
  <2>1. dialog \in [Dialogs -> Dialog] /\ id \in Ids \union {NoId}
    BY Typed
  <2>2. QED
    BY <2>1, LoadingIs
<1> HIDE DEF f
<1> DEFINE new == [f[d] EXCEPT !.shown = NoId]
<1>2. dialog' = [f EXCEPT ![d] = new]
  BY <1>1 DEF f
<1>3. f[d] \in Dialog
  BY <1>1
<1>4. /\ new \in Dialog /\ new.id = id /\ new.gen = dialog[d].gen + 1
      /\ new.busy = TRUE /\ new.shown = NoId
  BY <1>1, <1>3 DEF Dialog
<1> HIDE DEF new
<1>5. QED
  BY <1>1, <1>2, <1>4

\* One dialog begins a load; the requests that are dropped with that are its own
\* or the panel's.
LEMMA DialogLoads ==
    ASSUME TypeOK, PanelsInv, NEW d \in Dialogs, NEW id \in Ids,
           NEW left \in SUBSET requests,
           \A r \in requests : r \notin left => r.to \in {d, "panel"},
           requests' = left \union {LoadQuestion(d, id)},
           \A x \in Dialogs : x # d => dialog'[x] = dialog[x],
           dialog'[d].id = id, dialog'[d].gen = dialog[d].gen + 1,
           dialog'[d].busy = TRUE, dialog'[d].shown \in {id, NoId},
           d = "details" \/ acting' = acting
    PROVE  /\ requests' \subseteq Request /\ Addressed' /\ DialogsInv'
           /\ \A r : r.to = "panel" => (r \in requests' <=> r \in left)
<1> DEFINE q == LoadQuestion(d, id)
<1>1. /\ q \in Request
      /\ q.to = d /\ q.what = "load" /\ q.id = id /\ q.gen = dialog[d].gen + 1
  <2>1. dialog[d].gen + 1 \in Nat
    BY Typed
  <2>2. QED
    BY <2>1 DEF LoadQuestion, Question, Request, Unknown, States
<1>2. requests' = left \union {q}
  OBVIOUS
<1> HIDE DEF q
<1>3. requests' \subseteq Request
  BY <1>1, <1>2 DEF TypeOK
<1>4. d # "panel" /\ id # NoId
  BY NamesAssumption DEF Dialogs
<1>5. Addressed'
  BY <1>1, <1>2, <1>4
    DEF PanelsInv, Addressed, PanelQuestions, ContainerActions, Actions
<1>6. ASSUME NEW x \in Dialogs PROVE DialogOK(x)'
  <2>1. DialogOK(x) /\ x # "panel"
    BY DEF PanelsInv, DialogsInv, Dialogs
  <2>2. CASE x # d
    <3>1. ASSUME NEW r, r.to = x PROVE r \in requests' <=> r \in requests
      <4>1. r # q /\ r.to \notin {d, "panel"}
        BY <1>1, <2>1, <2>2, <3>1
      <4>2. QED
        BY <1>2, <4>1
    <3>2. dialog'[x] = dialog[x] /\ (x = "details" => acting' = acting)
      BY <2>2
    <3>3. QED
      BY <2>1, <3>1, <3>2, Untouched
  <2>3. CASE x = d
    <3>1. /\ dialog[d].gen \in Nat /\ q \in requests'
          /\ \A r \in requests' : r.to = d /\ r # q => r \in requests /\ r.gen \in Nat
      BY <1>2, Typed
    <3>2. QED
      BY <1>1, <1>4, <2>1, <2>3, <3>1 DEF DialogOK, Working
  <2>4. QED
    BY <2>2, <2>3
<1>7. \A r : r.to = "panel" => (r \in requests' <=> r \in left)
  BY <1>1, <1>2, <1>4
<1>8. QED
  BY <1>3, <1>5, <1>6, <1>7 DEF DialogsInv

\* A dialog is opened or loaded again from the page.
LEMMA DialogOpens ==
    ASSUME TypeOK, PanelsInv, NEW d \in Dialogs, NEW id \in Ids, Event,
           UNCHANGED <<panelVars, acting, asking, worldVars, unseen, disconnected>>,
           requests' = requests \union {LoadQuestion(d, id)},
           dialog' \in [Dialogs -> Dialog],
           \A x \in Dialogs : x # d => dialog'[x] = dialog[x],
           dialog'[d].id = id, dialog'[d].gen = dialog[d].gen + 1,
           dialog'[d].busy = TRUE, dialog'[d].shown \in {id, NoId},
           asking = NoId,
           d = "details" => ~acting /\ ~reload /\ locked' = TRUE,
           d # "details" => locked' = locked
    PROVE  TypeOK' /\ PanelsInv'
<1>a. UNCHANGED <<open, panel, busy, overview, reload, acting, asking, docker, late,
                  unseen, disconnected>>
  BY DEF panelVars, worldVars
<1>1. /\ requests' \subseteq Request /\ Addressed' /\ DialogsInv'
      /\ \A r : r.to = "panel" => (r \in requests' <=> r \in requests)
  BY <1>a, DialogLoads
<1>2. PanelInv'
  BY <1>a, <1>1, ZenonT(40) DEF PanelsInv, PanelInv
<1>3. AloneInv'
  <2>1. asking' \notin Containers
    BY <1>a, NamesAssumption DEF Ids
  <2>2. CASE d = "details"
    BY <1>a, <2>1, <2>2 DEF AloneInv
  <2>3. CASE d # "details"
    <3>1. dialog'["details"] = dialog["details"] /\ locked' = locked
      BY <2>3 DEF Dialogs
    <3>2. QED
      BY <1>a, <2>1, <3>1 DEF PanelsInv, AloneInv
  <2>4. QED
    BY <2>2, <2>3
<1>4. TypeOK'
  <2>1. happened' \in 0..MaxEvents
    BY EventCounts
  <2>2. locked' \in BOOLEAN
    BY DEF TypeOK
  <2>3. QED
    BY <1>a, <1>1, <2>1, <2>2 DEF TypeOK
<1>5. QED
  BY <1>1, <1>2, <1>3, <1>4 DEF PanelsInv

\* The logs of the container whose details are shown.
LEMMA OpenLogsStep ==
    ASSUME TypeOK, PanelsInv, OpenLogs PROVE TypeOK' /\ PanelsInv'
<1>1. details.shown = details.id /\ details.id \in Ids
  <2>1. DialogOK("details") /\ "details" \in Dialogs
    BY DEF PanelsInv, DialogsInv, Dialogs
  <2>2. QED
    BY <2>1, Typed DEF OpenLogs, details, DialogOK
<1>2. /\ Event /\ asking = NoId /\ "logs" \in Dialogs /\ locked' = locked
      /\ UNCHANGED <<panelVars, acting, asking, worldVars, unseen, disconnected>>
      /\ requests' = requests \union {LoadQuestion("logs", details.id)}
      /\ dialog' = [Loading("logs", details.id) EXCEPT !["logs"].shown = NoId]
  BY <1>1 DEF OpenLogs, Top, Open, detailVars, Dialogs
<1>3. /\ dialog' \in [Dialogs -> Dialog]
      /\ \A x \in Dialogs : x # "logs" => dialog'[x] = dialog[x]
      /\ dialog'["logs"].id = details.id
      /\ dialog'["logs"].gen = dialog["logs"].gen + 1
      /\ dialog'["logs"].busy = TRUE /\ dialog'["logs"].shown = NoId
  BY <1>1, <1>2, OpenIs
<1>4. QED
  BY <1>1, <1>2, <1>3, DialogOpens

\* The details of an image.
LEMMA OpenImageStep ==
    ASSUME TypeOK, PanelsInv, NEW image \in Images, OpenImageDetails(image)
    PROVE  TypeOK' /\ PanelsInv'
<1>1. /\ Event /\ asking = NoId /\ "image" \in Dialogs /\ locked' = locked
      /\ image \in Ids
      /\ UNCHANGED <<panelVars, acting, asking, worldVars, unseen, disconnected>>
      /\ requests' = requests \union {LoadQuestion("image", image)}
      /\ dialog' = [Loading("image", image) EXCEPT !["image"].shown = NoId]
  BY DEF OpenImageDetails, Covered, Open, detailVars, Dialogs, Ids
<1>2. /\ dialog' \in [Dialogs -> Dialog]
      /\ \A x \in Dialogs : x # "image" => dialog'[x] = dialog[x]
      /\ dialog'["image"].id = image
      /\ dialog'["image"].gen = dialog["image"].gen + 1
      /\ dialog'["image"].busy = TRUE /\ dialog'["image"].shown = NoId
  BY <1>1, OpenIs
<1>3. QED
  BY <1>1, <1>2, DialogOpens

\* The details of a container: only the dialog is opened while an action is under
\* way.
LEMMA OpenContainerStep ==
    ASSUME TypeOK, PanelsInv, NEW c \in Containers, OpenContainerDetails(c)
    PROVE  TypeOK' /\ PanelsInv'
<1>a. /\ Event /\ asking = NoId /\ ~busy /\ details.id = NoId
      /\ "details" \in Dialogs /\ c \in Ids /\ c # NoId
      /\ UNCHANGED <<panelVars, acting, asking, worldVars, unseen, disconnected>>
  BY NamesAssumption
    DEF OpenContainerDetails, Covered, Hidden, details, Dialogs, Ids
<1>b. ~reload
  BY <1>a, PanelFree
<1>1. CASE acting \/ details.busy
  <2>1. /\ dialog' = [dialog EXCEPT !["details"].id = c]
        /\ UNCHANGED <<locked, requests>>
    BY <1>1 DEF OpenContainerDetails
  <2>2. dialog["details"] \in Dialog
    BY <1>a, Typed
  <2>3. /\ dialog' \in [Dialogs -> Dialog]
        /\ \A x \in Dialogs : x # "details" => dialog'[x] = dialog[x]
        /\ dialog'["details"].id = c
        /\ dialog'["details"].gen = dialog["details"].gen
        /\ dialog'["details"].shown = dialog["details"].shown
        /\ dialog'["details"].busy = dialog["details"].busy
    BY <1>a, <2>1, <2>2 DEF TypeOK, Dialog
  <2>4. DialogOK("details") /\ ~dialog["details"].busy
    BY <1>a DEF PanelsInv, DialogsInv, DialogOK, details
  <2>5. DialogOK("details")'
    BY <1>a, <2>1, <2>3, <2>4, IsNamed DEF details
  <2>6. ASSUME NEW x \in Dialogs PROVE DialogOK(x)'
    <3>1. DialogOK(x)
      BY DEF PanelsInv, DialogsInv
    <3>2. QED
      BY <1>a, <2>1, <2>3, <2>5, <3>1, Untouched
  <2>7. UNCHANGED <<open, panel, busy, overview, reload, acting, asking, docker, late,
                    unseen, disconnected>>
    BY <1>a DEF panelVars, worldVars
  <2>8. Addressed' /\ PanelInv'
    BY <2>1, <2>7 DEF PanelsInv, Addressed, PanelInv
  <2>9. AloneInv'
    BY <1>a, <1>b, <2>1, <2>3, <2>4, <2>7, NamesAssumption
      DEF PanelsInv, AloneInv, Ids
  <2>10. TypeOK'
    BY <1>a, <2>1, <2>3, <2>7, EventCounts DEF TypeOK
  <2>11. QED
    BY <2>6, <2>8, <2>9, <2>10 DEF PanelsInv, DialogsInv
<1>2. CASE ~(acting \/ details.busy)
  <2>1. /\ requests' = requests \union {LoadQuestion("details", c)}
        /\ dialog' = [Loading("details", c) EXCEPT !["details"].shown = NoId]
        /\ locked' = TRUE
    BY <1>2 DEF OpenContainerDetails, Open
  <2>2. /\ dialog' \in [Dialogs -> Dialog]
        /\ \A x \in Dialogs : x # "details" => dialog'[x] = dialog[x]
        /\ dialog'["details"].id = c
        /\ dialog'["details"].gen = dialog["details"].gen + 1
        /\ dialog'["details"].busy = TRUE /\ dialog'["details"].shown = NoId
    BY <1>a, <2>1, OpenIs
  <2>3. QED
    BY <1>a, <1>b, <1>2, <2>1, <2>2, DialogOpens
<1>3. QED
  BY <1>1, <1>2

\* The refresh button of a dialog.
LEMMA LoadDialogStep ==
    ASSUME TypeOK, PanelsInv, NEW d \in Dialogs, LoadDialog(d)
    PROVE  TypeOK' /\ PanelsInv'
<1>1. /\ Event /\ asking = NoId /\ dialog[d].id # NoId
      /\ d = "details" => ~acting /\ ~locked
      /\ UNCHANGED <<panelVars, acting, asking, worldVars, unseen, disconnected>>
      /\ requests' = requests \union {LoadQuestion(d, dialog[d].id)}
      /\ dialog' = Loading(d, dialog[d].id)
      /\ locked' = (locked \/ d = "details")
  BY DEF LoadDialog, Top, Hidden
<1>2. dialog[d].id \in Ids /\ dialog[d].shown \in {dialog[d].id, NoId}
  <2>1. DialogOK(d)
    BY DEF PanelsInv, DialogsInv
  <2>2. QED
    BY <1>1, <2>1, Typed DEF DialogOK
<1>3. /\ dialog' \in [Dialogs -> Dialog]
      /\ \A x \in Dialogs : x # d => dialog'[x] = dialog[x]
      /\ dialog'[d].id = dialog[d].id /\ dialog'[d].gen = dialog[d].gen + 1
      /\ dialog'[d].busy = TRUE /\ dialog'[d].shown \in {dialog[d].id, NoId}
  <2>1. dialog \in [Dialogs -> Dialog] /\ dialog[d].id \in Ids \union {NoId}
    BY Typed
  <2>2. QED
    BY <1>1, <1>2, <2>1, LoadingIs, ZenonT(40)
<1>4. /\ d = "details" => ~reload /\ locked' = TRUE
      /\ d # "details" => locked' = locked
  BY <1>1 DEF PanelsInv, AloneInv, TypeOK
<1>5. QED
  BY <1>1, <1>2, <1>3, <1>4, DialogOpens

\* The end of the session closes the dialogs.
LEMMA ShellClosedStep ==
    ASSUME TypeOK, PanelsInv, ShellClosed PROVE TypeOK' /\ PanelsInv'
<1>1. /\ UNCHANGED <<open, panel, busy, overview, reload, asking, requests, docker,
                     late, unseen>>
      /\ dialog' = Closed(Dialogs) /\ acting' = FALSE /\ locked' = FALSE
      /\ disconnected' = TRUE /\ happened' \in 0..MaxEvents
  BY EventCounts DEF ShellClosed, CloseDetails, panelVars, worldVars
<1>2. /\ DialogsInv' /\ dialog' \in [Dialogs -> Dialog]
      /\ dialog'["details"].id = NoId /\ ~dialog'["details"].busy
  BY <1>1, AllClosed
<1>3. TypeOK'
  BY <1>1, <1>2 DEF TypeOK
<1>4. Addressed' /\ PanelInv'
  BY <1>1 DEF PanelsInv, Addressed, PanelInv
<1>5. AloneInv'
  BY <1>1, <1>2 DEF PanelsInv, AloneInv
<1>6. QED
  BY <1>2, <1>3, <1>4, <1>5 DEF PanelsInv

\* One dialog is closed.
LEMMA OneClosed ==
    ASSUME TypeOK, PanelsInv, NEW d \in Dialogs, dialog' = Closed({d}),
           IF d = "details" THEN acting' = FALSE ELSE acting' = acting,
           \A r : r.to \in Dialogs /\ r.to # d => (r \in requests' <=> r \in requests),
           \A r \in requests' : r.to = d => r \in requests
    PROVE  /\ DialogsInv' /\ dialog' \in [Dialogs -> Dialog]
           /\ \A x \in Dialogs : x # d => dialog'[x] = dialog[x]
           /\ dialog'[d].id = NoId /\ ~dialog'[d].busy
<1>1. /\ dialog' \in [Dialogs -> Dialog]
      /\ \A x \in Dialogs : x # d => dialog'[x] = dialog[x]
      /\ dialog'[d].id = NoId /\ dialog'[d].shown = NoId
      /\ dialog'[d].gen = dialog[d].gen + 1
      /\ dialog'[d].busy = FALSE
  <2>1. {d} \in SUBSET Dialogs /\ dialog \in [Dialogs -> Dialog]
    BY Typed
  <2>2. QED
    BY <2>1, ClosedIs
<1>2. ASSUME NEW x \in Dialogs PROVE DialogOK(x)'
  <2>1. DialogOK(x)
    BY DEF PanelsInv, DialogsInv
  <2>2. CASE x = d
    <3>1. /\ dialog[d].gen \in Nat
          /\ \A r \in requests' : r.to = d => r \in requests /\ r.gen \in Nat
          /\ d = "details" => acting' = FALSE
      BY Typed
    <3>2. QED
      BY <1>1, <2>1, <2>2, <3>1, IsClosed
  <2>3. CASE x # d
    <3>1. /\ dialog'[x] = dialog[x] /\ (x = "details" => acting' = acting)
          /\ \A r : r.to = x => (r \in requests' <=> r \in requests)
      BY <1>1, <2>3
    <3>2. QED
      BY <2>1, <3>1, Untouched
  <2>4. QED
    BY <2>2, <2>3
<1>3. QED
  BY <1>1, <1>2 DEF DialogsInv

\* The close button of a dialog.
LEMMA CloseDialogStep ==
    ASSUME TypeOK, PanelsInv, NEW d \in Dialogs, CloseDialog(d)
    PROVE  TypeOK' /\ PanelsInv'
<1>1. /\ UNCHANGED <<open, panel, busy, overview, reload, asking, requests, docker,
                     late, unseen, disconnected, happened>>
      /\ asking = NoId /\ dialog' = Closed({d})
      /\ IF d = "details" THEN acting' = FALSE /\ locked' = FALSE
                          ELSE acting' = acting /\ locked' = locked
  BY DEF CloseDialog, CloseDetails, Top, panelVars, worldVars, detailVars
<1>2. /\ DialogsInv' /\ dialog' \in [Dialogs -> Dialog]
      /\ \A x \in Dialogs : x # d => dialog'[x] = dialog[x]
      /\ dialog'[d].id = NoId /\ ~dialog'[d].busy
  BY <1>1, OneClosed
<1>3. TypeOK'
  BY <1>1, <1>2 DEF TypeOK
<1>4. Addressed' /\ PanelInv'
  BY <1>1 DEF PanelsInv, Addressed, PanelInv
<1>5. AloneInv'
  <2>1. CASE d = "details"
    BY <1>1, <1>2, <2>1 DEF PanelsInv, AloneInv
  <2>2. CASE d # "details"
    <3>1. dialog'["details"] = dialog["details"]
      BY <1>2, <2>2 DEF Dialogs
    <3>2. QED
      BY <1>1, <2>2, <3>1 DEF PanelsInv, AloneInv
  <2>3. QED
    BY <2>1, <2>2
<1>6. QED
  BY <1>2, <1>3, <1>4, <1>5 DEF PanelsInv

\* The answer to a load: it is taken if it is the last one asked for.
LEMMA LoadAnswerStep ==
    ASSUME TypeOK, PanelsInv, NEW r \in requests, NEW d \in Dialogs, LoadAnswer(d, r),
           IF d = "details" /\ Current(r) THEN locked' = acting ELSE locked' = locked
    PROVE  TypeOK' /\ PanelsInv'
<1>1. /\ UNCHANGED <<open, panel, busy, overview, reload, acting, asking, docker,
                     late, unseen, disconnected, happened>>
      /\ r.to = d /\ r.what = "load" /\ requests' = requests \ {r}
      /\ dialog' = IF Current(r) THEN Answered(d, r) ELSE dialog
  BY DEF LoadAnswer, panelVars, worldVars
<1>2. /\ DialogOK(d) /\ r.id \in Ids /\ d # "panel"
  BY <1>1 DEF PanelsInv, Addressed, DialogsInv, Dialogs
<1>3. Addressed' /\ PanelInv' /\ requests' \subseteq Request
  BY <1>1, <1>2 DEF PanelsInv, Addressed, PanelInv, TypeOK
<1>4. ASSUME NEW x \in Dialogs, x # d, dialog'[x] = dialog[x] PROVE DialogOK(x)'
  <2>1. DialogOK(x) /\ (x = "details" => acting' = acting)
    BY <1>1 DEF PanelsInv, DialogsInv
  <2>2. ASSUME NEW q, q.to = x PROVE q \in requests' <=> q \in requests
    <3>1. q # r
      BY <1>1, <1>4, <2>2
    <3>2. QED
      BY <1>1, <3>1
  <2>3. QED
    BY <1>4, <2>1, <2>2, Untouched
<1>5. CASE Current(r)
  <2>1. /\ dialog' \in [Dialogs -> Dialog]
        /\ \A x \in Dialogs : x # d => dialog'[x] = dialog[x]
        /\ dialog'[d].id = dialog[d].id /\ dialog'[d].gen = dialog[d].gen
        /\ dialog'[d].busy = FALSE
        /\ dialog'[d].shown \in {dialog[d].shown, r.id}
    <3>1. dialog \in [Dialogs -> Dialog] /\ r \in Request
      BY Typed
    <3>2. QED
      BY <1>1, <1>2, <1>5, <3>1, AnsweredIs
  <2>2. r.gen = dialog[d].gen /\ dialog[d].busy
    BY <1>1, <1>2, <1>5 DEF Current, DialogOK
  <2>3. d = "details" => ~acting /\ locked' = FALSE
    BY <1>5, <2>2 DEF PanelsInv, AloneInv, TypeOK
  <2>4. DialogOK(d)'
    <3>1. \A q \in requests' : q.to = d => q \in requests \ {r}
      BY <1>1
    <3>2. d = "details" => acting' = FALSE
      BY <1>1, <2>3 DEF TypeOK
    <3>3. QED
      BY <1>1, <1>2, <2>1, <2>2, <3>1, <3>2, IsAnswered
  <2>5. DialogsInv'
    BY <1>4, <2>1, <2>4 DEF DialogsInv
  <2>6. AloneInv'
    <3>1. CASE d = "details"
      BY <1>1, <2>1, <2>2, <2>3, <3>1 DEF PanelsInv, AloneInv
    <3>2. CASE d # "details"
      <4>1. dialog'["details"] = dialog["details"] /\ locked' = locked
        BY <2>1, <3>2 DEF Dialogs
      <4>2. QED
        BY <1>1, <4>1 DEF PanelsInv, AloneInv
    <3>3. QED
      BY <3>1, <3>2
  <2>7. TypeOK'
    BY <1>1, <1>3, <2>1 DEF TypeOK
  <2>8. QED
    BY <1>3, <2>5, <2>6, <2>7 DEF PanelsInv
<1>6. CASE ~Current(r)
  <2>1. dialog' = dialog /\ locked' = locked /\ r.gen # dialog[d].gen
    BY <1>1, <1>6 DEF Current
  <2>2. DialogOK(d)'
    BY <1>1, <1>2, <2>1, IsDropped
  <2>3. DialogsInv'
    BY <1>4, <2>1, <2>2 DEF DialogsInv
  <2>4. AloneInv'
    BY <1>1, <2>1 DEF PanelsInv, AloneInv
  <2>5. TypeOK'
    BY <1>1, <1>3, <2>1 DEF TypeOK
  <2>6. QED
    BY <1>3, <2>3, <2>4, <2>5 DEF PanelsInv
<1>7. QED
  BY <1>5, <1>6

\* A refresh is over; the details may be loaded after it.
LEMMA OverviewStep ==
    ASSUME TypeOK, PanelsInv, NEW r \in requests, OverviewAnswered(r)
    PROVE  TypeOK' /\ PanelsInv'
<1>1. /\ UNCHANGED <<open, asking, docker, late, unseen, disconnected, happened>>
      /\ busy' = FALSE /\ reload' = FALSE
      /\ panel' \in {"ready", "missing", "error"}
      /\ overview' \in {r.data, Unknown}
      /\ r.what = "overview" /\ LoadAgain(requests \ {r})
  BY DEF OverviewAnswered, worldVars
<1>2. r.to = "panel" /\ \A q \in requests \ {r} : q.to # "panel"
  BY <1>1 DEF PanelsInv, Addressed, PanelInv, PanelQuestions
<1>3. overview' \in [Ids -> States]
  BY <1>1, Typed
<1>4. CASE reload /\ ~details.busy /\ ~acting /\ ~Hidden("details")
  <2>1. /\ dialog' = Loading("details", details.id)
        /\ requests' = (requests \ {r}) \union {LoadQuestion("details", details.id)}
        /\ locked' = TRUE /\ acting' = acting
    BY <1>1, <1>4 DEF LoadAgain
  <2>2. /\ "details" \in Dialogs /\ dialog \in [Dialogs -> Dialog]
        /\ details.id \in Ids /\ details.shown \in {details.id, NoId}
    BY <1>4, Typed
      DEF Hidden, details, Dialogs, PanelsInv, DialogsInv, DialogOK
  <2>3. /\ dialog' \in [Dialogs -> Dialog]
        /\ \A x \in Dialogs : x # "details" => dialog'[x] = dialog[x]
        /\ dialog'["details"].id = details.id
        /\ dialog'["details"].gen = dialog["details"].gen + 1
        /\ dialog'["details"].busy = TRUE
        /\ dialog'["details"].shown \in {details.id, NoId}
    <3>1. /\ details.id \in Ids \union {NoId} /\ details = dialog["details"]
      BY <2>2 DEF details
    <3>2. QED
      BY <2>1, <2>2, <3>1, LoadingIs, ZenonT(40)
  <2>4. /\ requests' \subseteq Request /\ Addressed' /\ DialogsInv'
        /\ \A q : q.to = "panel" => (q \in requests' <=> q \in requests \ {r})
    <3>1. /\ requests \ {r} \in SUBSET requests
          /\ \A q \in requests :
               q \notin requests \ {r} => q.to \in {"details", "panel"}
      BY <1>2
    <3>2. QED
      BY <2>1, <2>2, <2>3, <3>1, DialogLoads
  <2>5. PanelInv'
    BY <1>1, <1>2, <2>4 DEF PanelInv
  <2>6. AloneInv'
    BY <1>1, <1>4, <2>1 DEF PanelsInv, AloneInv
  <2>7. TypeOK'
    BY <1>1, <1>3, <2>1, <2>3, <2>4 DEF TypeOK
  <2>8. QED
    BY <2>4, <2>5, <2>6, <2>7 DEF PanelsInv
<1>5. CASE ~(reload /\ ~details.busy /\ ~acting /\ ~Hidden("details"))
  <2>1. requests' = requests \ {r} /\ UNCHANGED <<dialog, acting, locked>>
    BY <1>1, <1>5 DEF LoadAgain, detailVars
  <2>2. /\ requests' \subseteq Request /\ Addressed' /\ PanelInv'
        /\ \A q : q.to \in Dialogs => (q \in requests' <=> q \in requests)
    BY <1>1, <1>2, <2>1, PanelDone
  <2>3. DialogsInv'
    BY <2>1, <2>2, SameDialogs DEF PanelsInv
  <2>4. AloneInv'
    BY <1>1, <2>1 DEF PanelsInv, AloneInv
  <2>5. TypeOK'
    BY <1>1, <1>3, <2>1, <2>2 DEF TypeOK
  <2>6. QED
    BY <2>2, <2>3, <2>4, <2>5 DEF PanelsInv
<1>6. QED
  BY <1>4, <1>5

-----------------------------------------------------------------------------
(* The actions on a container                                              *)

\* An action is asked for when no load, no action and no refresh that ends in a
\* load is under way.
LEMMA Acts ==
    ASSUME TypeOK, PanelsInv, NEW action \in ContainerActions, Act(action),
           ~details.busy, ~reload, asking' \notin Containers,
           UNCHANGED <<panelVars, worldVars, unseen, disconnected>>,
           happened' \in 0..MaxEvents, asking' \in Ids \union {NoId},
           action = "remove" \/ details.id # NoId
    PROVE  TypeOK' /\ PanelsInv'
<1> DEFINE q == Question("details", action, details.id, details.gen + 1)
<1>a. /\ UNCHANGED <<open, panel, busy, overview, reload, docker, late, unseen,
                     disconnected>>
      /\ dialog' = [dialog EXCEPT !["details"].gen = @ + 1]
      /\ requests' = requests \union {q}
      /\ acting' = TRUE /\ locked' = TRUE
  BY DEF Act, panelVars, worldVars
<1>b. "details" \in Dialogs /\ dialog["details"] \in Dialog
  BY Typed DEF Dialogs
<1>1. /\ q \in Request
      /\ q.to = "details" /\ q.what = action
      /\ q.gen = dialog["details"].gen + 1
  <2>1. /\ details.gen + 1 \in Nat /\ details.id \in Ids \union {NoId}
        /\ "details" \in Dialogs /\ action \in Actions
    <3>1. dialog["details"].gen \in Nat /\ dialog["details"].id \in Ids \union {NoId}
      BY <1>b, Typed
    <3>2. action \in Actions
      BY DEF ContainerActions
    <3>3. QED
      BY <1>b, <3>1, <3>2 DEF details
  <2>2. /\ q \in Request
        /\ q.to = "details" /\ q.what = action /\ q.gen = details.gen + 1
    BY <2>1 DEF Question, Request, Unknown, States
  <2>3. QED
    BY <2>2 DEF details
<1> HIDE DEF q
<1>2. /\ dialog' \in [Dialogs -> Dialog]
      /\ \A x \in Dialogs : x # "details" => dialog'[x] = dialog[x]
      /\ dialog'["details"].id = dialog["details"].id
      /\ dialog'["details"].gen = dialog["details"].gen + 1
      /\ dialog'["details"].shown = dialog["details"].shown
      /\ dialog'["details"].busy = dialog["details"].busy
  BY <1>a, <1>b, Typed DEF TypeOK, Dialog
<1>3. requests' \subseteq Request
  BY <1>a, <1>1 DEF TypeOK
<1>4. Addressed'
  BY <1>a, <1>1
    DEF PanelsInv, Addressed, ContainerActions, Actions, PanelQuestions
<1>5. PanelInv'
  BY <1>a, <1>1 DEF PanelsInv, PanelInv
<1>6. ASSUME NEW x \in Dialogs PROVE DialogOK(x)'
  <2>1. DialogOK(x)
    BY DEF PanelsInv, DialogsInv
  <2>2. CASE x = "details"
    <3>1. /\ dialog["details"].gen \in Nat /\ q \in requests' /\ action # "load"
          /\ \A r \in requests' :
               r.to = "details" /\ r # q => r \in requests /\ r.gen \in Nat
      BY <1>a, <1>b, Typed DEF ContainerActions, Actions
    <3>2. q.what = "remove" \/ dialog["details"].id # NoId
      BY <1>1 DEF details
    <3>3. DialogOK("details")
      BY <2>1, <2>2
    <3>4. DialogOK("details")'
      BY <1>a, <1>1, <1>2, <3>1, <3>2, <3>3, ActionBegins
    <3>5. QED
      BY <2>2, <3>4
  <2>3. CASE x # "details"
    <3>1. ASSUME NEW r, r.to = x PROVE r \in requests' <=> r \in requests
      BY <1>a, <1>1, <2>3, <3>1
    <3>2. QED
      BY <1>2, <2>1, <2>3, <3>1, Untouched
  <2>4. QED
    BY <2>2, <2>3
<1>7. AloneInv'
  BY <1>a, <1>2 DEF AloneInv, details
<1>8. TypeOK'
  BY <1>a, <1>2, <1>3 DEF TypeOK
<1>9. QED
  BY <1>3, <1>4, <1>5, <1>6, <1>7, <1>8 DEF PanelsInv, DialogsInv

\* A button of the container details: a removal asks for a confirmation.
LEMMA ContainerActionStep ==
    ASSUME TypeOK, PanelsInv, NEW action \in Actions, ContainerAction(action)
    PROVE  TypeOK' /\ PanelsInv'
<1>1. /\ UNCHANGED <<panelVars, worldVars, unseen, disconnected>>
      /\ happened' \in 0..MaxEvents /\ asking = NoId
      /\ ~locked /\ ~acting /\ ~details.busy /\ details.id # NoId
      /\ action \in ContainerActions
  BY EventCounts
    DEF ContainerAction, Top, Hidden, details, Offered, ContainerActions, Actions
<1>2. ~reload /\ details.id \in Ids
  BY <1>1, Typed DEF PanelsInv, AloneInv, details, Dialogs
<1>3. CASE action = "remove"
  <2>1. asking' = details.id /\ UNCHANGED <<dialog, requests, acting, locked>>
    BY <1>3 DEF ContainerAction, detailVars
  <2>2. UNCHANGED <<open, panel, busy, overview, reload, docker, late, unseen,
                    disconnected>>
    BY <1>1 DEF panelVars, worldVars
  <2>3. DialogsInv'
    BY <2>1, SameDialogs DEF PanelsInv
  <2>4. Addressed' /\ PanelInv'
    BY <2>1, <2>2 DEF PanelsInv, Addressed, PanelInv
  <2>5. AloneInv'
    BY <1>1, <1>2, <2>1, <2>2 DEF PanelsInv, AloneInv, details
  <2>6. TypeOK'
    BY <1>1, <1>2, <2>1, <2>2 DEF TypeOK
  <2>7. QED
    BY <2>3, <2>4, <2>5, <2>6 DEF PanelsInv
<1>4. CASE action # "remove"
  <2>1. Act(action) /\ asking' = NoId
    BY <1>1, <1>4 DEF ContainerAction
  <2>2. NoId \notin Containers
    BY NamesAssumption DEF Ids
  <2>3. QED
    BY <1>1, <1>2, <2>1, <2>2, Acts
<1>5. QED
  BY <1>3, <1>4

\* The removal of a container is confirmed.
LEMMA ConfirmContainerStep ==
    ASSUME TypeOK, PanelsInv, ConfirmContainer PROVE TypeOK' /\ PanelsInv'
<1>1. /\ UNCHANGED <<panelVars, worldVars, unseen, disconnected>>
      /\ asking \in Containers /\ asking' = NoId /\ Act("remove")
      /\ happened' \in 0..MaxEvents /\ NoId \notin Containers
  BY NamesAssumption DEF ConfirmContainer, TypeOK, Ids
<1>2. ~details.busy /\ ~reload /\ "remove" \in ContainerActions
  BY <1>1 DEF PanelsInv, AloneInv, details, ContainerActions, Actions
<1>3. QED
  BY <1>1, <1>2, Acts

\* The request of an action that is over, and what it says of the dialog if it is
\* the last one.
LEMMA ActionIs ==
    ASSUME TypeOK, PanelsInv, NEW r \in requests, r.what \in ContainerActions
    PROVE  /\ r.to = "details" /\ r.what # "load" /\ "details" \in Dialogs
           /\ DialogOK("details")
           /\ Current(r) =>
                /\ r.gen = dialog["details"].gen
                /\ acting /\ locked /\ ~dialog["details"].busy
                /\ ~reload /\ asking \notin Containers
                /\ r.what = "remove" \/ dialog["details"].id # NoId
<1>1. /\ r.to = "details" /\ r.what # "load" /\ "details" \in Dialogs
      /\ DialogOK("details")
  BY DEF PanelsInv, Addressed, DialogsInv, Dialogs, ContainerActions, Actions
<1>2. ASSUME Current(r)
      PROVE  /\ r.gen = dialog["details"].gen
             /\ acting /\ (r.what = "remove" \/ dialog["details"].id # NoId)
  BY <1>1, <1>2 DEF Current, DialogOK
<1>3. acting => /\ locked /\ ~dialog["details"].busy
                /\ ~reload /\ asking \notin Containers
  BY DEF PanelsInv, AloneInv
<1>4. QED
  BY <1>1, <1>2, <1>3

\* A failed action, or one that comes too late.
LEMMA ActionDroppedStep ==
    ASSUME TypeOK, PanelsInv, NEW r \in requests, ActionDropped(r)
    PROVE  TypeOK' /\ PanelsInv'
<1>1. /\ UNCHANGED <<open, panel, busy, overview, reload, dialog, asking, docker,
                     late, disconnected, happened>>
      /\ requests' = requests \ {r} /\ r.what \in ContainerActions
      /\ unseen' \in BOOLEAN
      /\ IF Current(r) THEN acting' = FALSE /\ locked' = FALSE
                       ELSE acting' = acting /\ locked' = locked
  BY DEF ActionDropped, panelVars, worldVars, ContainerActions, TypeOK
<1>2. /\ r.to = "details" /\ r.what # "load" /\ "details" \in Dialogs
      /\ DialogOK("details")
      /\ Current(r) =>
           /\ r.gen = dialog["details"].gen
           /\ acting /\ locked /\ ~dialog["details"].busy
           /\ ~reload /\ asking \notin Containers
  BY <1>1, ActionIs
<1>3. Addressed' /\ PanelInv'
  BY <1>1, <1>2 DEF PanelsInv, Addressed, PanelInv
<1>4. ASSUME NEW x \in Dialogs PROVE DialogOK(x)'
  <2>1. DialogOK(x)
    BY DEF PanelsInv, DialogsInv
  <2>2. CASE x # "details"
    <3>1. ASSUME NEW q, q.to = x PROVE q \in requests' <=> q \in requests
      BY <1>1, <1>2, <2>2, <3>1
    <3>2. QED
      BY <1>1, <2>1, <2>2, <3>1, Untouched
  <2>3. CASE x = "details" /\ Current(r)
    <3>1. \A q \in requests' : q.to = "details" => q \in requests \ {r}
      BY <1>1
    <3>2. DialogOK("details")'
      BY <1>1, <1>2, <2>3, <3>1, ActionEnds
    <3>3. QED
      BY <2>3, <3>2
  <2>4. CASE x = "details" /\ ~Current(r)
    <3>1. r.gen # dialog["details"].gen
      BY <1>2, <2>4 DEF Current
    <3>2. DialogOK("details")'
      BY <1>1, <1>2, <2>4, <3>1, IsDropped
    <3>3. QED
      BY <2>4, <3>2
  <2>5. QED
    BY <2>2, <2>3, <2>4
<1>5. AloneInv'
  BY <1>1, <1>2 DEF PanelsInv, AloneInv
<1>6. TypeOK'
  BY <1>1 DEF TypeOK
<1>7. QED
  BY <1>3, <1>4, <1>5, <1>6 DEF PanelsInv, DialogsInv

\* The panel is refreshed if it is free.
LEMMA RefreshIs ==
    ASSUME TypeOK, PanelsInv, NEW left \in SUBSET requests, Refresh(left),
           reload' => busy' /\ (reload \/ ~busy)
    PROVE  /\ requests' \subseteq Request /\ Addressed' /\ PanelInv'
           /\ \A r : r.to \in Dialogs => (r \in requests' <=> r \in left)
           /\ busy' = TRUE /\ unseen' \in BOOLEAN
           /\ panel' \in {"loading", panel}
<1>1. CASE busy
  <2>1. requests' = left /\ UNCHANGED <<busy, panel, unseen>>
    BY <1>1 DEF Refresh
  <2>2. QED
    BY <1>1, <2>1 DEF TypeOK, PanelsInv, Addressed, PanelInv
<1>2. CASE ~busy
  <2>1. /\ busy' = TRUE /\ panel' = "loading" /\ unseen' \in BOOLEAN
        /\ requests' = left \union {Question("panel", "overview", NoId, 0)}
    BY <1>2 DEF Refresh, AskPanel, OverviewQuestion, TypeOK
  <2>2. \A r \in left : r.to # "panel"
    BY <1>2, PanelFree
  <2>3. /\ requests' \subseteq Request /\ Addressed' /\ PanelInv'
        /\ \A r : r.to \in Dialogs => (r \in requests' <=> r \in left)
    BY <2>1, <2>2, PanelAsks DEF PanelQuestions
  <2>4. QED
    BY <2>1, <2>3
<1>3. QED
  BY <1>1, <1>2

\* A container was removed: its dialog is closed and the panel refreshed.
LEMMA RemovedStep ==
    ASSUME TypeOK, PanelsInv, NEW r \in requests, Removed(r)
    PROVE  TypeOK' /\ PanelsInv'
<1>1. /\ UNCHANGED <<open, overview, reload, asking, docker, late, disconnected,
                     happened>>
      /\ dialog' = Closed({"details"}) /\ acting' = FALSE /\ locked' = FALSE
      /\ Refresh(requests \ {r}) /\ r.what \in ContainerActions /\ Current(r)
  BY DEF Removed, CloseDetails, worldVars, ContainerActions, Actions
<1>2. r.to = "details" /\ "details" \in Dialogs /\ ~reload
  BY <1>1, ActionIs
<1>3. /\ requests' \subseteq Request /\ Addressed' /\ PanelInv'
      /\ \A q : q.to \in Dialogs => (q \in requests' <=> q \in requests \ {r})
      /\ busy' = TRUE /\ unseen' \in BOOLEAN /\ panel' \in {"loading", panel}
  <2>1. requests \ {r} \in SUBSET requests /\ ~reload'
    BY <1>1, <1>2
  <2>2. QED
    BY <1>1, <2>1, RefreshIs
<1>4. /\ DialogsInv' /\ dialog' \in [Dialogs -> Dialog]
      /\ \A x \in Dialogs : x # "details" => dialog'[x] = dialog[x]
      /\ dialog'["details"].id = NoId /\ ~dialog'["details"].busy
  <2>1. ASSUME NEW q, q.to \in Dialogs, q.to # "details"
        PROVE  q \in requests' <=> q \in requests
    BY <1>2, <1>3, <2>1
  <2>2. \A q \in requests' : q.to = "details" => q \in requests
    BY <1>2, <1>3
  <2>3. QED
    BY <1>1, <1>2, <2>1, <2>2, OneClosed
<1>5. AloneInv'
  BY <1>1, <1>4 DEF PanelsInv, AloneInv
<1>6. TypeOK'
  BY <1>1, <1>3, <1>4 DEF TypeOK
<1>7. QED
  BY <1>3, <1>4, <1>5, <1>6 DEF PanelsInv

\* A container was started, stopped or restarted: the details are loaded again,
\* after a refresh if the panel is free.
LEMMA ActionDoneStep ==
    ASSUME TypeOK, PanelsInv, NEW r \in requests, ActionDone(r)
    PROVE  TypeOK' /\ PanelsInv'
<1>1. /\ UNCHANGED <<open, overview, locked, asking, docker, late, disconnected,
                     happened>>
      /\ acting' = FALSE /\ r.what \in ContainerActions /\ r.what # "remove"
      /\ Current(r)
  BY DEF ActionDone, worldVars, ContainerActions, Actions
<1>2. /\ r.to = "details" /\ "details" \in Dialogs /\ DialogOK("details")
      /\ r.gen = dialog["details"].gen
      /\ acting /\ locked /\ ~dialog["details"].busy
      /\ ~reload /\ asking \notin Containers /\ dialog["details"].id # NoId
  BY <1>1, ActionIs
<1>3. CASE busy
  <2> DEFINE left == requests \ {r}
  <2>1. /\ dialog' = Loading("details", dialog["details"].id)
        /\ requests' = left \union {LoadQuestion("details", dialog["details"].id)}
        /\ UNCHANGED <<busy, panel, reload, unseen>>
    BY <1>3 DEF ActionDone, Refresh, details
  <2>2. /\ dialog \in [Dialogs -> Dialog] /\ dialog["details"].id \in Ids
        /\ dialog["details"].id \in Ids \union {NoId}
        /\ dialog["details"].shown \in {dialog["details"].id, NoId}
    BY <1>2, Typed DEF DialogOK
  <2>3. /\ dialog' \in [Dialogs -> Dialog]
        /\ \A x \in Dialogs : x # "details" => dialog'[x] = dialog[x]
        /\ dialog'["details"].id = dialog["details"].id
        /\ dialog'["details"].gen = dialog["details"].gen + 1
        /\ dialog'["details"].busy = TRUE
        /\ dialog'["details"].shown \in {dialog["details"].id, NoId}
    <3>1. /\ dialog' = Loading("details", dialog["details"].id)
          /\ "details" \in Dialogs
      BY <1>2, <2>1
    <3>2. QED
      BY <2>2, <3>1, LoadingIs, ZenonT(40)
  <2>4. /\ left \in SUBSET requests
        /\ \A q \in requests : q \notin left => q.to \in {"details", "panel"}
    BY <1>2
  <2> HIDE DEF left
  <2>5. /\ requests' \subseteq Request /\ Addressed' /\ DialogsInv'
        /\ \A q : q.to = "panel" => (q \in requests' <=> q \in left)
    BY <1>2, <2>1, <2>2, <2>3, <2>4, DialogLoads
  <2>6. PanelInv'
    BY <1>2, <2>1, <2>4, <2>5 DEF PanelsInv, PanelInv
  <2>7. AloneInv'
    BY <1>1, <1>2, <2>1 DEF AloneInv
  <2>8. TypeOK'
    BY <1>1, <2>1, <2>3, <2>5 DEF TypeOK
  <2>9. QED
    BY <2>5, <2>6, <2>7, <2>8 DEF PanelsInv
<1>4. CASE ~busy
  <2>1. reload' = TRUE /\ dialog' = dialog /\ Refresh(requests \ {r})
    BY <1>4 DEF ActionDone
  <2>2. /\ requests' \subseteq Request /\ Addressed' /\ PanelInv'
        /\ \A q : q.to \in Dialogs => (q \in requests' <=> q \in requests \ {r})
        /\ busy' = TRUE /\ unseen' \in BOOLEAN /\ panel' \in {"loading", panel}
    <3>1. requests \ {r} \in SUBSET requests /\ busy' = TRUE
      BY <1>4, <2>1 DEF Refresh, AskPanel
    <3>2. QED
      BY <1>4, <2>1, <3>1, RefreshIs
  <2>3. ASSUME NEW x \in Dialogs PROVE DialogOK(x)'
    <3>1. DialogOK(x)
      BY DEF PanelsInv, DialogsInv
    <3>2. CASE x = "details"
      <4>1. \A q \in requests' : q.to = "details" => q \in requests \ {r}
        BY <1>2, <2>2
      <4>2. DialogOK("details")'
        BY <1>1, <1>2, <2>1, <4>1, ActionEnds
      <4>3. QED
        BY <3>2, <4>2
    <3>3. CASE x # "details"
      <4>1. ASSUME NEW q, q.to = x PROVE q \in requests' <=> q \in requests
        BY <1>2, <2>2, <3>3, <4>1
      <4>2. QED
        BY <2>1, <3>1, <3>3, <4>1, Untouched
    <3>4. QED
      BY <3>2, <3>3
  <2>4. AloneInv'
    BY <1>1, <1>2, <2>1 DEF PanelsInv, AloneInv
  <2>5. TypeOK'
    BY <1>1, <2>1, <2>2 DEF TypeOK
  <2>6. QED
    BY <2>2, <2>3, <2>4, <2>5 DEF PanelsInv, DialogsInv
<1>5. QED
  BY <1>3, <1>4

-----------------------------------------------------------------------------
(* The theorems                                                            *)

\* The panel, its dialogs, their requests and Docker stay well typed, the requests
\* of each dialog are those it waits for, and nothing is begun next to an action
\* (toggleDockerPanel and the handlers after it, handleDockerContainerAction).
THEOREM InvHolds == Spec => [](TypeOK /\ PanelsInv)
<1>1. Init => TypeOK /\ PanelsInv
  <2> SUFFICES ASSUME Init PROVE TypeOK /\ PanelsInv
    OBVIOUS
  <2> DEFINE closed == [id |-> NoId, gen |-> 0, busy |-> FALSE, shown |-> NoId,
                        seen |-> "unknown"]
  <2>1. dialog = [d \in Dialogs |-> closed] /\ closed \in Dialog
    BY DEF Init, Dialog, States
  <2>2. docker \in [Ids -> States \ {"unknown"}]
    <3>1. \A x \in Ids : (CASE x \in Images -> "present"
                            [] x \in Running -> "running"
                            [] OTHER -> "exited") \in States \ {"unknown"}
      BY DEF States
    <3>2. QED
      BY <3>1 DEF Init
  <2>3. TypeOK
    <3>1. dialog \in [Dialogs -> Dialog] /\ overview \in [Ids -> States]
      BY <2>1 DEF Init, Unknown, States
    <3>2. /\ open = FALSE /\ panel = "idle" /\ busy = FALSE /\ reload = FALSE
          /\ acting = FALSE /\ locked = FALSE /\ asking = NoId /\ requests = {}
          /\ late = {} /\ unseen = FALSE /\ disconnected = FALSE /\ happened = 0
      BY DEF Init
    <3>3. /\ happened \in 0..MaxEvents /\ late \subseteq Actions \X Ids
          /\ requests \subseteq Request
      BY <3>2, BoundsAssumption
    <3>4. QED
      BY <2>2, <3>1, <3>2, <3>3 DEF TypeOK
  <2>4. /\ \A d \in Dialogs : /\ dialog[d].id = NoId /\ dialog[d].busy = FALSE
                              /\ dialog[d].shown = NoId
        /\ requests = {} /\ acting = FALSE /\ busy = FALSE /\ reload = FALSE
        /\ asking = NoId
    BY <2>1 DEF Init
  <2>5. DialogsInv
    BY <2>4 DEF DialogsInv, DialogOK, Working
  <2>6. Addressed /\ PanelInv /\ AloneInv
    BY <2>4, NamesAssumption DEF Addressed, PanelInv, AloneInv, Ids
  <2>7. QED
    BY <2>3, <2>5, <2>6 DEF PanelsInv
<1>2. TypeOK /\ PanelsInv /\ [Next]_vars => (TypeOK /\ PanelsInv)'
  <2> SUFFICES ASSUME TypeOK, PanelsInv, [Next]_vars PROVE TypeOK' /\ PanelsInv'
    OBVIOUS
  <2>1. CASE Toggle
    BY <2>1, ToggleStep
  <2>2. CASE RefreshPanel
    BY <2>2, RefreshPanelStep
  <2>3. CASE Decline \/ \E image \in Images : RemoveImage(image)
    BY <2>3, AskedStep
  <2>4. ASSUME NEW image \in Images, OpenImageDetails(image)
        PROVE  TypeOK' /\ PanelsInv'
    BY <2>4, OpenImageStep
  <2>5. CASE OpenLogs
    BY <2>5, OpenLogsStep
  <2>6. ASSUME NEW c \in Containers, OpenContainerDetails(c)
        PROVE  TypeOK' /\ PanelsInv'
    BY <2>6, OpenContainerStep
  <2>7. ASSUME NEW d \in Dialogs, LoadDialog(d) \/ CloseDialog(d)
        PROVE  TypeOK' /\ PanelsInv'
    BY <2>7, LoadDialogStep, CloseDialogStep
  <2>8. ASSUME NEW action \in Actions, ContainerAction(action)
        PROVE  TypeOK' /\ PanelsInv'
    BY <2>8, ContainerActionStep
  <2>9. CASE ConfirmContainer
    BY <2>9, ConfirmContainerStep
  <2>10. CASE ConfirmImage
    BY <2>10, ConfirmImageStep
  <2>11. CASE ShellClosed
    BY <2>11, ShellClosedStep
  <2>12. ASSUME NEW r \in requests, PageAnswer(r) PROVE TypeOK' /\ PanelsInv'
    <3>1. CASE DetectAnswered(r) \/ ImageRemoved(r)
      BY <3>1, PanelGoesOn
    <3>2. CASE OverviewAnswered(r)
      BY <3>2, OverviewStep
    <3>3. CASE LogsAnswered(r) \/ ImageAnswered(r)
      <4>1. PICK d \in {"logs", "image"} : LoadAnswer(d, r) /\ locked' = locked
        BY <3>3 DEF LogsAnswered, ImageAnswered
      <4>2. d \in Dialogs /\ d # "details"
        BY DEF Dialogs
      <4>3. QED
        BY <4>1, <4>2, LoadAnswerStep
    <3>4. CASE DetailsAnswered(r)
      <4>1. /\ LoadAnswer("details", r) /\ "details" \in Dialogs
            /\ locked' = IF Current(r) THEN acting ELSE locked
        BY <3>4 DEF DetailsAnswered, Dialogs
      <4>2. QED
        BY <4>1, LoadAnswerStep
    <3>5. CASE ActionDropped(r)
      BY <3>5, ActionDroppedStep
    <3>6. CASE Removed(r)
      BY <3>6, RemovedStep
    <3>7. CASE ActionDone(r)
      BY <3>7, ActionDoneStep
    <3>8. QED
      BY <2>12, <3>1, <3>2, <3>3, <3>4, <3>5, <3>6, <3>7 DEF PageAnswer
  <2>13. ASSUME NEW r \in requests, PluginStep(r) PROVE TypeOK' /\ PanelsInv'
    BY <2>13, HandlerStep
  <2>14. ASSUME NEW x \in Ids,
                Elsewhere(x) \/ \E action \in Actions : ActsLate(action, x)
         PROVE  TypeOK' /\ PanelsInv'
    BY <2>14, WorldStep
  <2>15. CASE UNCHANGED vars
    <3>1. UNCHANGED <<open, panel, busy, overview, reload, dialog, acting, locked,
                      asking, requests, docker, late, unseen, disconnected, happened>>
      BY <2>15 DEF vars, panelVars, detailVars, worldVars
    <3>2. QED
      BY <3>1, Outside DEF TypeOK
  <2>16. QED
    BY <2>1, <2>2, <2>3, <2>4, <2>5, <2>6, <2>7, <2>8, <2>9, <2>10, <2>11, <2>12,
       <2>13, <2>14, <2>15
      DEF Next
<1>3. QED
  BY <1>1, <1>2, PTL DEF Spec

\* The page's panel and dialogs, the requests and Docker are well formed.
THEOREM TypeCorrect == Spec => []TypeOK
  BY InvHolds, PTL

\* A dialog shows the answer for what it was opened for, or nothing
\* (loadDockerLogs, loadDockerImageDetails, loadDockerContainerDetails).
THEOREM ShownIsSubjectHolds == Spec => []ShownIsSubject
<1>1. PanelsInv => ShownIsSubject
  BY DEF PanelsInv, DialogsInv, DialogOK, ShownIsSubject
<1>2. QED
  BY <1>1, InvHolds, PTL

\* A dialog is busy, or its action under way, exactly as long as its last question
\* is: one question and no more (the busy flags and generations of the dialogs).
THEOREM BusyIsAskedHolds == Spec => []BusyIsAsked
<1>1. TypeOK /\ PanelsInv => BusyIsAsked
  <2> SUFFICES ASSUME TypeOK, PanelsInv, NEW d \in Dialogs
               PROVE  LET last == {r \in requests : r.to = d /\ Current(r)}
                          working == dialog[d].busy \/ (d = "details" /\ acting)
                      IN  Cardinality(last) = (IF working THEN 1 ELSE 0)
    BY DEF BusyIsAsked
  <2> DEFINE last == {r \in requests : r.to = d /\ Current(r)}
  <2>1. DialogOK(d)
    BY DEF PanelsInv, DialogsInv
  <2>2. \A r \in last : r.to = d /\ r.gen = dialog[d].gen
    BY DEF Current
  <2>3. CASE Working(d)
    <3>1. PICK r \in requests : r.to = d /\ r.gen = dialog[d].gen
      BY <2>1, <2>3 DEF DialogOK
    <3>2. last = {r}
      BY <2>1, <2>2, <3>1 DEF DialogOK, Current
    <3>3. Cardinality(last) = 1
      BY <3>2, FS_Singleton
    <3>4. QED
      BY <2>3, <3>3 DEF Working
  <2>4. CASE ~Working(d)
    <3>1. last = {}
      BY <2>1, <2>2, <2>4 DEF DialogOK, Working
    <3>2. Cardinality(last) = 0
      BY <3>1, FS_EmptySet
    <3>3. QED
      BY <2>4, <3>2 DEF Working
  <2>5. QED
    BY <2>3, <2>4
<1>2. QED
  BY <1>1, InvHolds, PTL

-----------------------------------------------------------------------------
(* What the panel lists                                                    *)

\* Docker changed by a command of the page, and the page has not been told; or the
\* panel was, and has not asked for an overview.
Untold == unseen \/ \E a \in requests : a.what \in Actions /\ a.state \in {"acted", "ok"}

\* The lists are those of Docker, or another overview is due or under way; and what
\* a handler has read for an overview is still so.
ListsInv ==
    /\ panel = "ready" /\ overview # Unknown =>
         Untold \/ overview = docker \/ \E r \in requests : r.what = "overview"
    /\ \A r \in requests : r.what = "overview" =>
         /\ r.state = "listed" => Untold \/ \A x \in Containers : r.data[x] = docker[x]
         /\ r.state = "ok" => Untold \/ r.data = docker

\* The panel is free while the container details are open, but for the refresh
\* after an action, so that an action on a container never ends next to an overview.
ActionInv ==
    /\ dialog["details"].id \in Containers \union {NoId}
    /\ asking \in Images => dialog["details"].id = NoId
    /\ dialog["details"].id # NoId /\ busy => reload
    /\ \A r \in requests : r.what \in ContainerActions /\ r.gen = dialog["details"].gen =>
         dialog["details"].id # NoId \/ r.id = NoId
    /\ \A r \in requests : r.what \in Actions /\ r.state \in {"acted", "ok"} => r.id # NoId

FreshInv == ListsInv /\ ActionInv

\* What a step has to do for the lists to stay right: change nothing of Docker and
\* of the lists, take no overview, and forget no command that had an effect ...
LEMMA ListsKept ==
    ASSUME ListsInv, UNCHANGED <<docker, overview>>, panel' = "ready" => panel = "ready",
           unseen => unseen',
           \A q \in requests' : q.what = "overview" => q \in requests \/ q.state = "sent",
           \A q \in requests \ requests' :
             /\ q.what # "overview"
             /\ q.what \in Actions /\ q.state \in {"acted", "ok"} => unseen'
    PROVE  ListsInv'
<1>1. Untold => Untold'
  BY DEF Untold
<1>2. panel' = "ready" /\ overview' # Unknown =>
        Untold' \/ overview' = docker' \/ \E r \in requests' : r.what = "overview"
  BY <1>1 DEF ListsInv, Unknown
<1>3. ASSUME NEW r \in requests', r.what = "overview"
      PROVE  /\ r.state = "listed" => Untold' \/ \A x \in Containers : r.data[x] = docker'[x]
             /\ r.state = "ok" => Untold' \/ r.data = docker'
  BY <1>1, <1>3 DEF ListsInv
<1>4. QED
  BY <1>2, <1>3 DEF ListsInv, Unknown

\* ... or leave Docker with a change that the panel has yet to read ...
LEMMA ListsLate == ASSUME Untold' PROVE ListsInv'
  BY DEF ListsInv

\* ... or ask for an overview when none is under way.
LEMMA ListsAsked ==
    ASSUME NEW left, requests' = left \union {OverviewQuestion},
           \A q \in left : q.what # "overview"
    PROVE  ListsInv'
<1>1. OverviewQuestion.what = "overview" /\ OverviewQuestion.state = "sent"
  BY DEF OverviewQuestion, Question
<1>2. /\ OverviewQuestion \in requests'
      /\ \A q \in requests' : q.what = "overview" => q.state = "sent"
  BY <1>1
<1>3. QED
  BY <1>1, <1>2 DEF ListsInv

\* What a step has to do for actions to stay apart from the panel's requests.
LEMMA ActionsKept ==
    ASSUME TypeOK, PanelsInv, ActionInv,
           dialog'["details"].id \in Containers \union {NoId},
           asking' \in Images => dialog'["details"].id = NoId,
           dialog'["details"].id # NoId /\ busy' => reload',
           \/ dialog'["details"].gen = dialog["details"].gen + 1
           \/ /\ dialog'["details"].gen = dialog["details"].gen
              /\ dialog["details"].id # NoId => dialog'["details"].id # NoId,
           \A q \in requests' : q \in requests \/
             /\ q.state = "sent"
             /\ q.what \in ContainerActions => dialog'["details"].id # NoId \/ q.id = NoId
    PROVE  ActionInv'
<1>0. dialog["details"].gen \in Nat /\ "details" \in Dialogs
  BY Typed DEF Dialogs
<1>1. ASSUME NEW r \in requests', r.what \in ContainerActions,
             r.gen = dialog'["details"].gen
      PROVE  dialog'["details"].id # NoId \/ r.id = NoId
  <2>1. CASE r \in requests
    <3>1. r.to = "details" /\ r.gen \in Nat
      BY <1>1, <2>1, Typed DEF PanelsInv, Addressed
    <3>2. r.gen <= dialog["details"].gen
      BY <1>0, <2>1, <3>1 DEF PanelsInv, DialogsInv, DialogOK
    <3>3. dialog'["details"].gen = dialog["details"].gen
      BY <1>0, <1>1, <3>1, <3>2
    <3>4. /\ r.gen = dialog["details"].gen
          /\ dialog["details"].id # NoId => dialog'["details"].id # NoId
      BY <1>0, <1>1, <3>3
    <3>5. QED
      BY <1>1, <2>1, <3>4 DEF ActionInv
  <2>2. CASE r \notin requests
    BY <1>1, <2>2
  <2>3. QED
    BY <2>1, <2>2
<1>2. ASSUME NEW r \in requests', r.what \in Actions, r.state \in {"acted", "ok"}
      PROVE  r.id # NoId
  BY <1>2 DEF ActionInv
<1>3. QED
  BY <1>1, <1>2 DEF ActionInv, Unknown

\* A click on what no dialog covers.
LEMMA Uncovered ==
    ASSUME ~Covered
    PROVE  asking = NoId /\ dialog["details"].id = NoId
  BY DEF Covered, Hidden, Dialogs

\* The panel asks next to nothing of its own.
LEMMA NoOverview ==
    ASSUME PanelsInv, ~busy
    PROVE  \A q \in requests : q.what # "overview"
  BY DEF PanelsInv, Addressed, PanelInv, PanelQuestions

LEMMA LastOfPanel ==
    ASSUME PanelsInv, NEW r \in requests, r.what \in PanelQuestions
    PROVE  /\ busy /\ r.to = "panel"
           /\ \A q \in requests \ {r} : q.what \notin PanelQuestions
  BY DEF PanelsInv, Addressed, PanelInv

\* What a question says.
LEMMA QuestionIs ==
    ASSUME NEW to, NEW what, NEW id, NEW gen
    PROVE  /\ Question(to, what, id, gen).what = what
           /\ Question(to, what, id, gen).state = "sent"
           /\ Question(to, what, id, gen).id = id
           /\ Question(to, what, id, gen).gen = gen
  BY DEF Question

-----------------------------------------------------------------------------
\* The panel is opened, closed or asks again.
LEMMA FreshToggle ==
    ASSUME TypeOK, PanelsInv, FreshInv, Toggle \/ RefreshPanel PROVE FreshInv'
<1>a. /\ dialog["details"].id = NoId /\ asking' = NoId
      /\ UNCHANGED <<overview, reload, docker>>
  BY Uncovered DEF Toggle, RefreshPanel, worldVars
<1>b. ListsInv /\ ActionInv
  BY DEF FreshInv
<1>1. ASSUME ~busy, AskPanel("detect"), dialog' = dialog,
             requests' = requests \union {Question("panel", "detect", NoId, 0)}
      PROVE  FreshInv'
  <2> DEFINE q == Question("panel", "detect", NoId, 0)
  <2>1. q.what = "detect" /\ q.state = "sent" /\ requests' = requests \union {q}
    BY <1>1, QuestionIs
  <2> HIDE DEF q
  <2>2. panel' # "ready" /\ (unseen => unseen')
    BY <1>1 DEF AskPanel
  <2>3. ListsInv'
    BY <1>a, <1>b, <2>1, <2>2, ListsKept
  <2>4. q.what \notin ContainerActions
    BY <2>1 DEF ContainerActions, Actions
  <2>5. ActionInv'
    BY <1>a, <1>b, <1>1, <2>1, <2>4, NamesAssumption, ActionsKept
  <2>6. QED
    BY <2>3, <2>5 DEF FreshInv
<1>2. CASE RefreshPanel /\ panel = "ready"
  <2>1. /\ ~busy /\ requests' = requests \union {OverviewQuestion} /\ dialog' = dialog
    BY <1>2 DEF RefreshPanel, OverviewQuestion
  <2>2. ListsInv'
    BY <2>1, NoOverview, ListsAsked
  <2>3. OverviewQuestion.state = "sent" /\ OverviewQuestion.what \notin ContainerActions
    BY DEF OverviewQuestion, Question, ContainerActions, Actions
  <2>4. ActionInv'
    BY <1>a, <1>b, <2>1, <2>3, NamesAssumption, ActionsKept
  <2>5. QED
    BY <2>2, <2>4 DEF FreshInv
<1>3. CASE RefreshPanel /\ panel # "ready"
  BY <1>1, <1>3 DEF RefreshPanel
<1>4. CASE Toggle /\ ~open /\ ~busy
  BY <1>1, <1>4 DEF Toggle
<1>5. CASE Toggle /\ (open \/ busy)
  <2>1. UNCHANGED <<busy, panel, unseen, requests>>
    BY <1>5 DEF Toggle
  <2>2. ListsInv'
    BY <1>a, <1>b, <2>1, ListsKept
  <2>3. /\ dialog'["details"].id = NoId
        /\ \/ dialog'["details"].gen = dialog["details"].gen + 1
           \/ dialog'["details"].gen = dialog["details"].gen
    <3>1. CASE open
      <4>1. dialog' = Closed(Dialogs)
        BY <1>5, <3>1 DEF Toggle
      <4>2. /\ dialog \in [Dialogs -> Dialog] /\ "details" \in Dialogs
            /\ Dialogs \in SUBSET Dialogs
        BY Typed DEF Dialogs
      <4>3. QED
        BY <4>1, <4>2, ClosedIs
    <3>2. CASE ~open
      BY <1>a, <1>5, <3>2 DEF Toggle
    <3>3. QED
      BY <3>1, <3>2
  <2>4. ActionInv'
    BY <1>a, <1>b, <2>1, <2>3, NamesAssumption, ActionsKept
  <2>5. QED
    BY <2>2, <2>4 DEF FreshInv
<1>6. QED
  BY <1>2, <1>3, <1>4, <1>5

\* A request of the panel is answered and another overview may follow; the lists
\* are dropped with a failure.
LEMMA FreshPanelGoesOn ==
    ASSUME TypeOK, PanelsInv, FreshInv, NEW r \in requests,
           DetectAnswered(r) \/ ImageRemoved(r)
    PROVE  FreshInv'
<1>a. UNCHANGED <<reload, dialog, asking, docker>>
  BY DEF DetectAnswered, ImageRemoved, worldVars
<1>b. ListsInv /\ ActionInv
  BY DEF FreshInv
<1>c. busy /\ \A q \in requests \ {r} : q.what # "overview"
  BY LastOfPanel DEF DetectAnswered, ImageRemoved, PanelQuestions
<1>d. ASSUME \A q \in requests' : q \in requests \/ q = OverviewQuestion
      PROVE  ActionInv'
  <2>1. OverviewQuestion.state = "sent" /\ OverviewQuestion.what \notin ContainerActions
    BY DEF OverviewQuestion, Question, ContainerActions, Actions
  <2>2. dialog["details"].id # NoId => reload
    BY <1>b, <1>c DEF ActionInv
  <2>3. /\ dialog["details"].id \in Containers \union {NoId}
        /\ asking \in Images => dialog["details"].id = NoId
    BY <1>b DEF ActionInv
  <2>4. QED
    BY <1>a, <1>b, <1>d, <2>1, <2>2, <2>3, ActionsKept
<1>1. CASE r.state = "ok"
  <2>1. requests' = (requests \ {r}) \union {OverviewQuestion}
    BY <1>1 DEF DetectAnswered, ImageRemoved
  <2>2. QED
    BY <1>c, <1>d, <2>1, ListsAsked DEF FreshInv
<1>2. CASE r.state # "ok"
  <2>1. requests' = requests \ {r}
    BY <1>2 DEF DetectAnswered, ImageRemoved
  <2>2. ListsInv'
    <3>1. CASE DetectAnswered(r)
      BY <1>2, <1>c, <2>1, <3>1 DEF DetectAnswered, ListsInv
    <3>2. CASE ImageRemoved(r)
      <4>1. UNCHANGED <<panel, unseen, overview>> /\ r.what = "remove image"
            /\ r.state = "failed"
        BY <1>2, <3>2 DEF ImageRemoved
      <4>2. QED
        BY <1>a, <1>b, <2>1, <4>1, ListsKept
    <3>3. QED
      BY <3>1, <3>2
  <2>3. QED
    BY <1>d, <2>1, <2>2 DEF FreshInv
<1>3. QED
  BY <1>1, <1>2

\* The overview is taken: what was read for it is still so.
LEMMA FreshOverview ==
    ASSUME TypeOK, PanelsInv, FreshInv, NEW r \in requests, OverviewAnswered(r)
    PROVE  FreshInv'
<1>a. /\ r.what = "overview" /\ busy' = FALSE /\ reload' = FALSE
      /\ UNCHANGED <<asking, docker, unseen>>
      /\ r.state # "ok" => panel' # "ready" \/ overview' = Unknown
      /\ r.state = "ok" => overview' = r.data
  BY DEF OverviewAnswered, worldVars
<1>b. ListsInv /\ ActionInv
  BY DEF FreshInv
<1>c. \A q \in requests \ {r} : q.what # "overview"
  BY <1>a, LastOfPanel DEF PanelQuestions
<1>d. LoadAgain(requests \ {r})
  BY DEF OverviewAnswered
<1> DEFINE id == dialog["details"].id
           q == LoadQuestion("details", id)
<1>1. q.what = "load" /\ q.state = "sent"
  BY QuestionIs DEF LoadQuestion
<1>2. /\ requests \ {r} \subseteq requests'
      /\ \A p \in requests' : p \in requests \ {r} \/ p = q
  BY <1>d DEF LoadAgain, details
<1>3. /\ dialog'["details"].id = dialog["details"].id
      /\ \/ dialog'["details"].gen = dialog["details"].gen + 1
         \/ dialog'["details"].gen = dialog["details"].gen
  <2>1. CASE dialog' = Loading("details", id)
    <3>1. /\ dialog \in [Dialogs -> Dialog] /\ "details" \in Dialogs
          /\ id \in Ids \union {NoId}
      BY Typed DEF Dialogs
    <3>2. QED
      BY <2>1, <3>1, LoadingIs
  <2>2. CASE dialog' = dialog
    BY <2>2
  <2>3. QED
    BY <1>d, <2>1, <2>2 DEF LoadAgain, details
<1> HIDE DEF q, id
<1>4. ListsInv'
  <2>1. Untold => Untold'
    <3>1. r.what \notin Actions
      BY <1>a DEF Actions
    <3>2. QED
      BY <1>a, <1>2, <3>1 DEF Untold
  <2>2. panel' = "ready" /\ overview' # Unknown => Untold' \/ overview' = docker'
    BY <1>a, <1>b, <2>1 DEF ListsInv
  <2>3. \A p \in requests' : p.what # "overview"
    BY <1>c, <1>1, <1>2
  <2>4. Unknown' = Unknown
    BY DEF Unknown
  <2>5. QED
    BY <2>2, <2>3, <2>4 DEF ListsInv
<1>5. ActionInv'
  <2>1. q.what \notin ContainerActions
    BY <1>1 DEF ContainerActions, Actions
  <2>2. /\ dialog["details"].id \in Containers \union {NoId}
        /\ asking \in Images => dialog["details"].id = NoId
    BY <1>b DEF ActionInv
  <2>3. \A p \in requests' : p \in requests \/ p = q
    BY <1>2
  <2>4. QED
    BY <1>a, <1>b, <1>1, <1>3, <2>1, <2>2, <2>3, ActionsKept
<1>6. QED
  BY <1>4, <1>5 DEF FreshInv

-----------------------------------------------------------------------------
\* A step of the dialogs: the panel, its lists and Docker stay, and no command or
\* overview is forgotten.
LEMMA FreshDialogs ==
    ASSUME TypeOK, PanelsInv, FreshInv,
           UNCHANGED <<panel, busy, reload, overview, docker, unseen>>,
           requests \subseteq requests',
           \A q \in requests' : q \in requests \/
             /\ q.state = "sent" /\ q.what # "overview"
             /\ q.what \in ContainerActions => dialog'["details"].id # NoId \/ q.id = NoId,
           \/ dialog'["details"].gen = dialog["details"].gen + 1
           \/ /\ dialog'["details"].gen = dialog["details"].gen
              /\ dialog["details"].id # NoId => dialog'["details"].id # NoId,
           \/ dialog'["details"].id \in {dialog["details"].id, NoId}
           \/ dialog'["details"].id \in Containers /\ ~busy /\ asking = NoId,
           asking' \in Images => asking' = asking \/ dialog'["details"].id = NoId
    PROVE  FreshInv'
<1>1. ListsInv /\ ActionInv
  BY DEF FreshInv
<1>2. ListsInv'
  BY <1>1, ListsKept
<1>3. /\ dialog'["details"].id \in Containers \union {NoId}
      /\ asking' \in Images => dialog'["details"].id = NoId
      /\ dialog'["details"].id # NoId /\ busy' => reload'
  BY <1>1, NamesAssumption DEF ActionInv, Ids
<1>4. \A q \in requests' : q \in requests \/
        /\ q.state = "sent"
        /\ q.what \in ContainerActions => dialog'["details"].id # NoId \/ q.id = NoId
  OBVIOUS
<1>5. ActionInv'
  BY <1>1, <1>3, <1>4, ActionsKept
<1>6. QED
  BY <1>2, <1>5 DEF FreshInv

\* A dialog is opened or loaded again.
LEMMA FreshLoads ==
    ASSUME TypeOK, PanelsInv, FreshInv, NEW d \in Dialogs, NEW id \in Ids,
           requests' = requests \union {LoadQuestion(d, id)},
           \A x \in Dialogs : x # d => dialog'[x] = dialog[x],
           dialog'[d].id = id, dialog'[d].gen = dialog[d].gen + 1,
           d = "details" => id = dialog[d].id \/ (id \in Containers /\ ~busy),
           UNCHANGED <<panelVars, worldVars, unseen>>, asking = NoId, asking' = NoId
    PROVE  FreshInv'
<1> DEFINE q == LoadQuestion(d, id)
<1>1. q.what = "load" /\ q.state = "sent" /\ requests' = requests \union {q}
  BY QuestionIs DEF LoadQuestion
<1>2. q.what # "overview" /\ q.what \notin ContainerActions
  BY <1>1 DEF ContainerActions, Actions
<1> HIDE DEF q
<1>3. UNCHANGED <<panel, busy, reload, overview, docker, unseen>>
  BY DEF panelVars, worldVars
<1>4. asking' \notin Images
  BY NamesAssumption DEF Ids
<1>5. requests \subseteq requests' /\ \A p \in requests' : p \in requests \/
        /\ p.state = "sent" /\ p.what # "overview"
        /\ p.what \in ContainerActions => dialog'["details"].id # NoId \/ p.id = NoId
  BY <1>1, <1>2
<1>6. "details" \in Dialogs
  BY DEF Dialogs
<1>7. /\ \/ dialog'["details"].gen = dialog["details"].gen + 1
         \/ dialog'["details"].gen = dialog["details"].gen
           /\ dialog'["details"].id = dialog["details"].id
      /\ \/ dialog'["details"].id = dialog["details"].id
         \/ dialog'["details"].id \in Containers /\ ~busy
  BY <1>6
<1>8. QED
  BY <1>3, <1>4, <1>5, <1>7, FreshDialogs

LEMMA FreshOpens ==
    ASSUME TypeOK, PanelsInv, FreshInv,
           \/ OpenLogs \/ \E image \in Images : OpenImageDetails(image)
           \/ \E c \in Containers : OpenContainerDetails(c)
           \/ \E d \in Dialogs : LoadDialog(d)
    PROVE  FreshInv'
<1>1. CASE OpenLogs
  <2>1. "details" \in Dialogs /\ "logs" \in Dialogs /\ dialog \in [Dialogs -> Dialog]
    BY Typed DEF Dialogs
  <2>2. details.shown \in Ids
    BY <1>1, <2>1, Typed DEF OpenLogs, details
  <2>3. /\ asking = NoId /\ asking' = asking /\ Open("logs", details.shown)
        /\ UNCHANGED <<panelVars, worldVars, unseen>>
    BY <1>1 DEF OpenLogs, Top
  <2>4. /\ requests' = requests \union {LoadQuestion("logs", details.shown)}
        /\ dialog' = [Loading("logs", details.shown) EXCEPT !["logs"].shown = NoId]
    BY <2>3 DEF Open
  <2>5. /\ \A x \in Dialogs : x # "logs" => dialog'[x] = dialog[x]
        /\ dialog'["logs"].id = details.shown
        /\ dialog'["logs"].gen = dialog["logs"].gen + 1
    BY <2>1, <2>2, <2>4, OpenIs
  <2>6. QED
    BY <2>1, <2>2, <2>3, <2>4, <2>5, FreshLoads
<1>2. ASSUME NEW image \in Images, OpenImageDetails(image) PROVE FreshInv'
  <2>1. "image" \in Dialogs /\ image \in Ids
    BY DEF Dialogs, Ids
  <2>2. /\ asking = NoId /\ asking' = asking /\ Open("image", image)
        /\ UNCHANGED <<panelVars, worldVars, unseen>>
    BY <1>2, Uncovered DEF OpenImageDetails
  <2>3. /\ requests' = requests \union {LoadQuestion("image", image)}
        /\ dialog' = [Loading("image", image) EXCEPT !["image"].shown = NoId]
    BY <2>2 DEF Open
  <2>4. /\ \A x \in Dialogs : x # "image" => dialog'[x] = dialog[x]
        /\ dialog'["image"].id = image
        /\ dialog'["image"].gen = dialog["image"].gen + 1
    BY <2>1, <2>3, OpenIs
  <2>5. QED
    BY <2>1, <2>2, <2>3, <2>4, FreshLoads
<1>3. ASSUME NEW c \in Containers, OpenContainerDetails(c) PROVE FreshInv'
  <2>1. "details" \in Dialogs /\ c \in Ids /\ dialog["details"] \in Dialog
    BY Typed DEF Dialogs, Ids
  <2>2. /\ asking = NoId /\ asking' = asking /\ ~busy /\ dialog["details"].id = NoId
        /\ UNCHANGED <<panelVars, worldVars, unseen>>
    BY <1>3, Uncovered DEF OpenContainerDetails
  <2>3. CASE acting \/ details.busy
    <3>1. dialog' = [dialog EXCEPT !["details"].id = c] /\ requests' = requests
      BY <1>3, <2>3 DEF OpenContainerDetails
    <3>2. /\ dialog'["details"].id = c
          /\ dialog'["details"].gen = dialog["details"].gen
      BY <2>1, <3>1, Typed DEF Dialog
    <3>3. UNCHANGED <<panel, busy, reload, overview, docker, unseen>>
      BY <2>2 DEF panelVars, worldVars
    <3>4. QED
      BY <2>2, <3>1, <3>2, <3>3, FreshDialogs
  <2>4. CASE ~(acting \/ details.busy)
    <3>1. /\ requests' = requests \union {LoadQuestion("details", c)}
          /\ dialog' = [Loading("details", c) EXCEPT !["details"].shown = NoId]
      BY <1>3, <2>4 DEF OpenContainerDetails, Open
    <3>2. /\ \A x \in Dialogs : x # "details" => dialog'[x] = dialog[x]
          /\ dialog'["details"].id = c
          /\ dialog'["details"].gen = dialog["details"].gen + 1
      BY <2>1, <3>1, OpenIs
    <3>3. QED
      BY <2>1, <2>2, <3>1, <3>2, FreshLoads
  <2>5. QED
    BY <2>3, <2>4
<1>4. ASSUME NEW d \in Dialogs, LoadDialog(d) PROVE FreshInv'
  <2>1. dialog \in [Dialogs -> Dialog] /\ dialog[d].id \in Ids
    BY <1>4, Typed DEF LoadDialog, Top, Hidden
  <2>2. /\ asking = NoId /\ asking' = asking /\ dialog' = Loading(d, dialog[d].id)
        /\ requests' = requests \union {LoadQuestion(d, dialog[d].id)}
        /\ UNCHANGED <<panelVars, worldVars, unseen>>
    BY <1>4 DEF LoadDialog, Top
  <2>3. /\ \A x \in Dialogs : x # d => dialog'[x] = dialog[x]
        /\ dialog'[d].id = dialog[d].id
        /\ dialog'[d].gen = dialog[d].gen + 1
    <3>1. PICK id \in Ids \union {NoId} : id = dialog[d].id
      BY <2>1
    <3>2. dialog' = Loading(d, id)
      BY <2>2, <3>1
    <3>3. /\ \A x \in Dialogs : x # d => Loading(d, id)[x] = dialog[x]
          /\ Loading(d, id)[d].id = id /\ Loading(d, id)[d].gen = dialog[d].gen + 1
      BY <2>1, LoadingIs
    <3>4. QED
      BY <3>1, <3>2, <3>3
  <2>4. QED
    BY <2>1, <2>2, <2>3, FreshLoads
<1>5. QED
  BY <1>1, <1>2, <1>3, <1>4

LEMMA FreshCloses ==
    ASSUME TypeOK, PanelsInv, FreshInv,
           ShellClosed \/ \E d \in Dialogs : CloseDialog(d)
    PROVE  FreshInv'
<1>1. /\ UNCHANGED <<panel, busy, reload, overview, docker, unseen, requests, asking>>
      /\ \E which \in SUBSET Dialogs : dialog' = Closed(which)
  BY DEF ShellClosed, CloseDialog, panelVars, worldVars
<1>2. PICK which \in SUBSET Dialogs : dialog' = Closed(which)
  BY <1>1
<1>3. dialog \in [Dialogs -> Dialog] /\ "details" \in Dialogs
  BY Typed DEF Dialogs
<1>4. IF "details" \notin which THEN dialog'["details"] = dialog["details"]
      ELSE /\ dialog'["details"].id = NoId
           /\ dialog'["details"].gen = dialog["details"].gen + 1
  BY <1>2, <1>3, ClosedIs
<1>5. QED
  BY <1>1, <1>4, FreshDialogs

\* The answer to a load brings nothing for the panel.
LEMMA FreshLoadAnswer ==
    ASSUME TypeOK, PanelsInv, FreshInv, NEW r \in requests, NEW d \in Dialogs,
           LoadAnswer(d, r)
    PROVE  FreshInv'
<1>1. /\ UNCHANGED <<panel, busy, reload, overview, docker, unseen, asking>>
      /\ r.what = "load" /\ requests' = requests \ {r}
      /\ dialog' \in {Answered(d, r), dialog}
  BY DEF LoadAnswer, panelVars, worldVars
<1>2. ListsInv /\ ActionInv
  BY DEF FreshInv
<1>3. r.what \notin Actions /\ r.what # "overview"
  BY <1>1 DEF Actions
<1>4. ListsInv'
  BY <1>1, <1>2, <1>3, ListsKept
<1>5. /\ dialog'["details"].id = dialog["details"].id
      /\ dialog'["details"].gen = dialog["details"].gen
  <2>1. dialog \in [Dialogs -> Dialog] /\ r \in Request /\ r.id \in Ids /\ "details" \in Dialogs
    BY <1>1, Typed DEF PanelsInv, Addressed, Dialogs
  <2>2. CASE dialog' = Answered(d, r) /\ d = "details"
    BY <2>1, <2>2, AnsweredIs
  <2>3. CASE dialog' = Answered(d, r) /\ d # "details"
    BY <2>1, <2>3, AnsweredIs
  <2>4. QED
    BY <1>1, <2>2, <2>3
<1>6. /\ dialog["details"].id \in Containers \union {NoId}
      /\ asking \in Images => dialog["details"].id = NoId
      /\ dialog["details"].id # NoId /\ busy => reload
  BY <1>2 DEF ActionInv
<1>7. ActionInv'
  BY <1>1, <1>2, <1>5, <1>6, ActionsKept
<1>8. QED
  BY <1>4, <1>7 DEF FreshInv

-----------------------------------------------------------------------------
\* An action on a container is begun.
LEMMA FreshActs ==
    ASSUME TypeOK, PanelsInv, FreshInv, NEW action \in ContainerActions, Act(action),
           UNCHANGED <<panelVars, worldVars, unseen>>, asking' = NoId
    PROVE  FreshInv'
<1> DEFINE q == Question("details", action, dialog["details"].id,
                         dialog["details"].gen + 1)
<1>1. /\ q.what = action /\ q.state = "sent" /\ q.id = dialog["details"].id
      /\ requests' = requests \union {q}
  BY QuestionIs DEF Act, details
<1>2. q.what # "overview"
  BY <1>1 DEF ContainerActions, Actions
<1> HIDE DEF q
<1>3. /\ dialog'["details"].id = dialog["details"].id
      /\ dialog'["details"].gen = dialog["details"].gen + 1
  <2>1. dialog \in [Dialogs -> Dialog] /\ "details" \in Dialogs
    BY Typed DEF Dialogs
  <2>2. dialog["details"] \in Dialog
    BY <2>1
  <2>3. QED
    BY <2>1, <2>2 DEF Act, Dialog
<1>4. UNCHANGED <<panel, busy, reload, overview, docker, unseen>>
  BY DEF panelVars, worldVars
<1>5. asking' \notin Images
  BY NamesAssumption DEF Ids
<1>6. requests \subseteq requests' /\ \A p \in requests' : p \in requests \/
        /\ p.state = "sent" /\ p.what # "overview"
        /\ p.what \in ContainerActions => dialog'["details"].id # NoId \/ p.id = NoId
  BY <1>1, <1>2, <1>3
<1>7. QED
  BY <1>3, <1>4, <1>5, <1>6, FreshDialogs

\* An action is asked for, a confirmation opened or answered.
LEMMA FreshConfirms ==
    ASSUME TypeOK, PanelsInv, FreshInv,
           \/ \E image \in Images : RemoveImage(image)
           \/ \E action \in Actions : ContainerAction(action)
           \/ Decline \/ ConfirmContainer
    PROVE  FreshInv'
<1>a. NoId \notin Images /\ ListsInv /\ ActionInv
  BY NamesAssumption DEF Ids, FreshInv
<1>1. CASE Decline \/ \E image \in Images : RemoveImage(image)
  <2>1. /\ UNCHANGED <<panel, busy, reload, overview, docker, unseen, requests, dialog>>
        /\ asking' = NoId \/ dialog["details"].id = NoId
    BY <1>1, Uncovered DEF Decline, RemoveImage, panelVars, worldVars
  <2>2. QED
    BY <1>a, <2>1, FreshDialogs
<1>2. ASSUME NEW action \in Actions, ContainerAction(action) PROVE FreshInv'
  <2>1. /\ action \in ContainerActions /\ asking = NoId /\ details.id # NoId
        /\ UNCHANGED <<panelVars, worldVars, unseen>>
    BY <1>2 DEF ContainerAction, Top, Hidden, details, Offered, ContainerActions,
                Actions
  <2>2. CASE action = "remove"
    <3>1. asking' = dialog["details"].id /\ UNCHANGED <<dialog, requests>>
      BY <1>2, <2>2 DEF ContainerAction, details
    <3>2. asking' \notin Images
      BY <1>a, <3>1, NamesAssumption DEF ActionInv
    <3>3. UNCHANGED <<panel, busy, reload, overview, docker, unseen>>
      BY <2>1 DEF panelVars, worldVars
    <3>4. QED
      BY <3>1, <3>2, <3>3, FreshDialogs
  <2>3. CASE action # "remove"
    BY <1>2, <2>1, <2>3, FreshActs DEF ContainerAction
  <2>4. QED
    BY <2>2, <2>3
<1>3. CASE ConfirmContainer
  <2>1. "remove" \in ContainerActions
    BY DEF ContainerActions, Actions
  <2>2. QED
    BY <1>3, <2>1, FreshActs DEF ConfirmContainer
<1>4. QED
  BY <1>1, <1>2, <1>3

\* The removal of an image is confirmed: no dialog is open.
LEMMA FreshConfirmImage ==
    ASSUME TypeOK, PanelsInv, FreshInv, ConfirmImage PROVE FreshInv'
<1>1. /\ UNCHANGED <<panel, overview, reload, dialog, docker, unseen>>
      /\ asking \in Images /\ asking' = NoId
      /\ requests' = requests \/ requests' = requests \union {Removal(asking)}
  BY DEF ConfirmImage, worldVars
<1>2. /\ Removal(asking).what = "remove image" /\ Removal(asking).state = "sent"
      /\ "remove image" \notin ContainerActions
  BY DEF Removal, Question, ContainerActions
<1>3. dialog["details"].id = NoId /\ ListsInv /\ ActionInv /\ NoId \notin Images
  BY <1>1, NamesAssumption DEF FreshInv, ActionInv, Ids
<1>4. /\ requests \subseteq requests'
      /\ \A q \in requests' : q \in requests \/ q = Removal(asking)
  BY <1>1
<1>5. ListsInv'
  BY <1>1, <1>2, <1>3, <1>4, ListsKept
<1>6. ActionInv'
  BY <1>1, <1>2, <1>3, <1>4, ActionsKept
<1>7. QED
  BY <1>5, <1>6 DEF FreshInv

\* A failed action, or one that comes too late: docker changed, and the panel is
\* not told.
LEMMA FreshDropped ==
    ASSUME TypeOK, PanelsInv, FreshInv, NEW r \in requests, ActionDropped(r)
    PROVE  FreshInv'
<1>1. /\ UNCHANGED <<panel, busy, overview, reload, dialog, asking, docker>>
      /\ requests' = requests \ {r} /\ r.what \in ContainerActions
      /\ r.state \in {"ok", "failed"} /\ unseen' = (unseen \/ r.state = "ok")
  BY DEF ActionDropped, panelVars, worldVars, ContainerActions
<1>2. ListsInv /\ ActionInv /\ r.what # "overview"
  BY <1>1 DEF FreshInv, ContainerActions, Actions
<1>3. ListsInv'
  BY <1>1, <1>2, ListsKept
<1>4. /\ dialog["details"].id \in Containers \union {NoId}
      /\ asking \in Images => dialog["details"].id = NoId
      /\ dialog["details"].id # NoId /\ busy => reload
  BY <1>2 DEF ActionInv
<1>5. ActionInv'
  BY <1>1, <1>2, <1>4, ActionsKept
<1>6. QED
  BY <1>3, <1>5 DEF FreshInv

\* An action that succeeded for the open dialog finds the panel free.
LEMMA PanelIsFree ==
    ASSUME TypeOK, PanelsInv, FreshInv, NEW r \in requests,
           r.what \in ContainerActions, r.state = "ok", Current(r)
    PROVE  ~busy /\ dialog["details"].id # NoId
<1>1. r.what \in Actions
  BY DEF ContainerActions
<1>2. r.id # NoId /\ ActionInv
  BY <1>1 DEF FreshInv, ActionInv
<1>3. r.gen = dialog["details"].gen /\ ~reload
  BY ActionIs
<1>4. QED
  BY <1>2, <1>3 DEF ActionInv

\* A removal or another action of the open dialog succeeded: the panel asks for a
\* new overview.
LEMMA FreshDone ==
    ASSUME TypeOK, PanelsInv, FreshInv, NEW r \in requests,
           Removed(r) \/ ActionDone(r)
    PROVE  FreshInv'
<1>1. /\ r.what \in ContainerActions /\ r.state = "ok" /\ Current(r)
      /\ asking' = asking
  BY DEF Removed, ActionDone, ContainerActions, Actions
<1>2. ~busy /\ dialog["details"].id # NoId
  BY <1>1, PanelIsFree
<1>3. requests' = (requests \ {r}) \union {OverviewQuestion}
  BY <1>2 DEF Removed, ActionDone, Refresh
<1>4. \A q \in requests : q.what # "overview"
  BY <1>2, NoOverview
<1>5. \A q \in requests \ {r} : q.what # "overview"
  BY <1>4
<1>6. ListsInv'
  BY <1>3, <1>5, ListsAsked
<1>7. /\ \A q \in requests' : q \in requests \/ q = OverviewQuestion
      /\ OverviewQuestion.state = "sent" /\ OverviewQuestion.what \notin ContainerActions
  <2>1. OverviewQuestion.state = "sent" /\ OverviewQuestion.what \notin ContainerActions
    BY DEF OverviewQuestion, Question, ContainerActions, Actions
  <2>2. QED
    BY <1>3, <2>1
<1>8. ActionInv
  BY DEF FreshInv
<1>9. ActionInv'
  <2>1. CASE Removed(r)
    <3>1. /\ dialog'["details"].id = NoId
          /\ dialog'["details"].gen = dialog["details"].gen + 1
      <4>1. dialog' = Closed({"details"})
        BY <2>1 DEF Removed
      <4>2. /\ dialog \in [Dialogs -> Dialog] /\ "details" \in Dialogs
            /\ {"details"} \in SUBSET Dialogs
        BY Typed DEF Dialogs
      <4>3. QED
        BY <4>1, <4>2, ClosedIs
    <3>2. QED
      BY <1>7, <1>8, <3>1, ActionsKept
  <2>2. CASE ActionDone(r)
    <3>1. reload' = TRUE /\ dialog' = dialog
      BY <1>2, <2>2 DEF ActionDone
    <3>2. /\ dialog["details"].id \in Containers \union {NoId}
          /\ asking \in Images => dialog["details"].id = NoId
      BY <1>8 DEF ActionInv
    <3>3. QED
      BY <1>1, <1>7, <1>8, <3>1, <3>2, ActionsKept
  <2>3. QED
    BY <2>1, <2>2
<1>10. QED
  BY <1>6, <1>9 DEF FreshInv

-----------------------------------------------------------------------------
(* Nor do the handlers of the plugin, Docker and its other users           *)

\* A request that goes on, and has an effect only on what it names.
LEMMA FreshTurned ==
    ASSUME TypeOK, ActionInv, UNCHANGED pageVars, NEW r \in requests,
           NEW state, NEW data, Turns(r, state, data),
           r.what \in Actions /\ state \in {"acted", "ok"} => r.id # NoId
    PROVE  /\ ActionInv'
           /\ \E q \in requests' :
                /\ q.what = r.what /\ q.state = state /\ q.data = data
                /\ requests' = (requests \ {r}) \union {q}
<1> DEFINE q == [r EXCEPT !.state = state, !.data = data]
<1>1. /\ q.what = r.what /\ q.state = state /\ q.data = data
      /\ q.id = r.id /\ q.gen = r.gen
      /\ requests' = (requests \ {r}) \union {q}
  <2>1. r \in Request
    BY Typed
  <2>2. QED
    BY <2>1 DEF Turns, Request
<1> HIDE DEF q
<1>2. UNCHANGED <<dialog, asking, busy, reload>>
  BY DEF pageVars, panelVars
<1>3. \A p \in requests' : p.what \in ContainerActions /\ p.gen = dialog["details"].gen =>
        dialog["details"].id # NoId \/ p.id = NoId
  BY <1>1 DEF ActionInv
<1>4. \A p \in requests' : p.what \in Actions /\ p.state \in {"acted", "ok"} => p.id # NoId
  BY <1>1 DEF ActionInv
<1>5. ActionInv'
  BY <1>2, <1>3, <1>4 DEF ActionInv
<1>6. QED
  BY <1>1, <1>5

\* What an overview reads is so, or Docker changed.
LEMMA FreshReads ==
    ASSUME TypeOK, PanelsInv, FreshInv, UNCHANGED <<pageVars, docker, unseen>>,
           NEW r \in requests, r.what = "overview",
           NEW state, NEW data, Turns(r, state, data),
           state = "listed" => Untold \/ \A x \in Containers : data[x] = docker[x],
           state = "ok" => Untold \/ data = docker
    PROVE  FreshInv'
<1>1. r.what \notin Actions /\ r.what \in PanelQuestions
  BY DEF Actions, PanelQuestions
<1>2. ActionInv /\ UNCHANGED pageVars
  BY DEF FreshInv
<1>3. /\ ActionInv'
      /\ \E q \in requests' :
           /\ q.what = r.what /\ q.state = state /\ q.data = data
           /\ requests' = (requests \ {r}) \union {q}
  BY <1>1, <1>2, FreshTurned
<1>4. PICK q \in requests' :
        /\ q.what = r.what /\ q.state = state /\ q.data = data
        /\ requests' = (requests \ {r}) \union {q}
  BY <1>3
<1>5. Untold => Untold'
  BY <1>1, <1>4 DEF Untold
<1>6. \A p \in requests \ {r} : p.what # "overview"
  BY <1>1, LastOfPanel DEF PanelQuestions
<1>7. \A p \in requests' : p.what = "overview" => p = q
  BY <1>4, <1>6
<1>8. /\ state = "listed" => Untold' \/ \A x \in Containers : q.data[x] = docker'[x]
      /\ state = "ok" => Untold' \/ q.data = docker'
  BY <1>4, <1>5
<1>9. ListsInv'
  BY <1>4, <1>7, <1>8 DEF ListsInv
<1>10. QED
  BY <1>3, <1>9 DEF FreshInv

\* A handler that neither reads an overview nor acts.
LEMMA FreshOther ==
    ASSUME TypeOK, PanelsInv, FreshInv, UNCHANGED <<pageVars, docker, unseen>>,
           NEW r \in requests, r.what \in {"detect", "load"},
           NEW state, NEW data, Turns(r, state, data)
    PROVE  FreshInv'
<1>1. r.what \notin Actions /\ r.what # "overview"
  BY DEF Actions
<1>2. ListsInv /\ ActionInv /\ UNCHANGED pageVars
  BY DEF FreshInv
<1>3. /\ ActionInv'
      /\ \E q \in requests' :
           /\ q.what = r.what /\ q.state = state /\ q.data = data
           /\ requests' = (requests \ {r}) \union {q}
  BY <1>1, <1>2, FreshTurned
<1>4. PICK q \in requests' :
        /\ q.what = r.what /\ requests' = (requests \ {r}) \union {q}
  BY <1>3
<1>5. UNCHANGED <<panel, overview, docker, unseen>>
  BY DEF pageVars, panelVars
<1>6. ListsInv'
  BY <1>1, <1>2, <1>4, <1>5, ListsKept
<1>7. QED
  BY <1>3, <1>6 DEF FreshInv

LEMMA FreshHandlers ==
    ASSUME TypeOK, PanelsInv, FreshInv, NEW r \in requests, PluginStep(r)
    PROVE  FreshInv'
<1>a. ListsInv /\ ActionInv
  BY DEF FreshInv
<1>1. CASE Detect(r)
  <2>1. r.what = "detect" /\ UNCHANGED <<pageVars, docker, unseen>>
    BY <1>1 DEF Detect, worldVars
  <2>2. QED
    BY <1>1, <2>1, FreshOther DEF Detect
<1>2. CASE Load(r) \/ ImageDetails(r) \/ ImageContainers(r)
  <2>1. UNCHANGED <<pageVars, docker, unseen>>
    BY <1>2 DEF Load, ImageDetails, ImageContainers, worldVars
  <2>2. \E state, data : Turns(r, state, data)
    BY <1>2 DEF Load, ImageDetails, ImageContainers
  <2>3. r.what = "load"
    <3>1. CASE ImageContainers(r)
      <4>1. r.to = "image" /\ r.what \in {"detect", "overview", "load"} \union Actions
        BY <3>1, Typed DEF ImageContainers
      <4>2. r.what \notin PanelQuestions /\ r.what \notin ContainerActions
        BY <4>1 DEF PanelsInv, Addressed
      <4>3. QED
        BY <4>1, <4>2 DEF PanelQuestions, ContainerActions
    <3>2. QED
      BY <1>2, <3>1 DEF Load, ImageDetails
  <2>4. PICK state, data : Turns(r, state, data)
    BY <2>2
  <2>5. QED
    BY <2>1, <2>3, <2>4, FreshOther
<1>3. CASE Overview(r)
  <2>1. r.what = "overview" /\ UNCHANGED <<pageVars, docker, unseen>>
    BY <1>3 DEF Overview, worldVars
  <2>2. CASE \E state \in {"missing", "down", "failed"} : Turns(r, state, Unknown)
    <3>1. PICK state \in {"missing", "down", "failed"} : Turns(r, state, Unknown)
      BY <2>2
    <3>2. QED
      BY <2>1, <3>1, FreshReads
  <2>3. ASSUME NEW data,
               data = [x \in Ids |-> IF x \in Containers THEN docker[x] ELSE "unknown"],
               Turns(r, "listed", data)
        PROVE  FreshInv'
    <3>1. \A x \in Containers : data[x] = docker[x]
      BY <2>3 DEF Ids
    <3>2. QED
      BY <2>1, <2>3, <3>1, FreshReads
  <2>4. QED
    BY <1>3, <2>2, <2>3 DEF Overview
<1>4. CASE OverviewImages(r)
  <2>1. /\ r.what = "overview" /\ r.state = "listed"
        /\ UNCHANGED <<pageVars, docker, unseen>>
    BY <1>4 DEF OverviewImages, worldVars
  <2>2. CASE Turns(r, "failed", Unknown)
    BY <2>1, <2>2, FreshReads
  <2>3. ASSUME NEW data,
               data = [x \in Ids |-> IF x \in Images THEN docker[x] ELSE r.data[x]],
               Turns(r, "ok", data)
        PROVE  FreshInv'
    <3>1. CASE Untold
      BY <2>1, <2>3, <3>1, FreshReads
    <3>2. CASE ~Untold
      <4>1. \A x \in Containers : r.data[x] = docker[x]
        BY <1>a, <2>1, <3>2 DEF ListsInv
      <4>2. \A x \in Ids : data[x] = docker[x]
        BY <2>3, <4>1 DEF Ids
      <4>3. data = docker
        BY <2>3, <4>2 DEF TypeOK
      <4>4. QED
        BY <2>1, <2>3, <4>3, FreshReads
    <3>3. QED
      BY <3>1, <3>2
  <2>4. QED
    BY <1>4, <2>2, <2>3 DEF OverviewImages
<1>5. CASE RunAction(r) \/ ActionSucceeds(r)
  <2>1. PICK state \in {"acted", "ok"} : Turns(r, state, Unknown)
    BY <1>5 DEF RunAction, ActionSucceeds
  <2>2. r.what \in Actions /\ UNCHANGED pageVars
    BY <1>5 DEF RunAction, ActionSucceeds
  <2>3. r.id # NoId
    BY <1>a, <1>5, <2>2 DEF RunAction, ActionSucceeds, ActionInv
  <2>4. /\ ActionInv'
        /\ \E q \in requests' :
             /\ q.what = r.what /\ q.state = state /\ q.data = Unknown
             /\ requests' = (requests \ {r}) \union {q}
    BY <1>a, <2>1, <2>2, <2>3, FreshTurned
  <2>5. Untold'
    BY <2>1, <2>2, <2>4 DEF Untold
  <2>6. QED
    BY <2>4, <2>5, ListsLate DEF FreshInv
<1>6. CASE ActionFails(r)
  <2>1. /\ r.what \in Actions /\ r.state \in {"sent", "acted"}
        /\ Turns(r, "failed", Unknown) /\ UNCHANGED <<pageVars, docker>>
        /\ unseen' = (unseen \/ r.state = "acted")
    BY <1>6 DEF ActionFails
  <2>2. /\ ActionInv'
        /\ \E q \in requests' :
             /\ q.what = r.what /\ q.state = "failed" /\ q.data = Unknown
             /\ requests' = (requests \ {r}) \union {q}
    BY <1>a, <2>1, FreshTurned
  <2>3. PICK q \in requests' :
          q.what = r.what /\ requests' = (requests \ {r}) \union {q}
    BY <2>2
  <2>4. /\ UNCHANGED <<panel, overview, docker>>
        /\ unseen => unseen'
        /\ r.what # "overview"
    BY <2>1 DEF pageVars, panelVars, Actions
  <2>5. r.state \in {"acted", "ok"} => unseen'
    BY <2>1
  <2>6. /\ \A p \in requests' : p.what = "overview" => p \in requests \/ p.state = "sent"
        /\ \A p \in requests \ requests' : p = r
    BY <2>3, <2>4
  <2>7. ListsInv'
    <3>1. panel' = "ready" => panel = "ready"
      BY <2>4
    <3>2. \A p \in requests \ requests' :
            /\ p.what # "overview"
            /\ p.what \in Actions /\ p.state \in {"acted", "ok"} => unseen'
      BY <2>4, <2>5, <2>6
    <3>3. QED
      BY <1>a, <2>4, <2>6, <3>1, <3>2, ListsKept
  <2>8. QED
    BY <2>2, <2>7 DEF FreshInv
<1>7. QED
  BY <1>1, <1>2, <1>3, <1>4, <1>5, <1>6 DEF PluginStep

\* Docker changes, and the panel is not told.
LEMMA FreshWorld ==
    ASSUME TypeOK, PanelsInv, FreshInv, NEW x \in Ids,
           Elsewhere(x) \/ \E action \in Actions : ActsLate(action, x)
    PROVE  FreshInv'
<1>1. /\ UNCHANGED <<panel, busy, overview, reload, dialog, asking, requests>>
      /\ unseen' = TRUE \/ UNCHANGED <<docker, unseen>>
  BY DEF Elsewhere, ActsLate, pageVars, panelVars
<1>2. ActionInv'
  BY <1>1 DEF FreshInv, ActionInv
<1>3. CASE unseen' = TRUE
  <2>1. Untold'
    BY <1>3 DEF Untold
  <2>2. QED
    BY <1>2, <2>1, ListsLate DEF FreshInv
<1>4. CASE UNCHANGED <<docker, unseen>>
  <2>1. ListsInv
    BY DEF FreshInv
  <2>2. ListsInv'
    BY <1>1, <1>4, <2>1, ListsKept
  <2>3. QED
    BY <1>2, <2>2 DEF FreshInv
<1>5. QED
  BY <1>1, <1>3, <1>4

-----------------------------------------------------------------------------
(* The theorems on the lists                                                *)

\* The lists of the panel are those of Docker, or it is known why not: the panel
\* has been told of every command that had an effect, or is about to be, and the
\* panel is free when an action of the open container details ends (refreshDocker,
\* runDockerContainerDetailsAction, dockerOverview).
THEOREM FreshInvHolds == Spec => []FreshInv
<1>1. Init => FreshInv
  <2> SUFFICES ASSUME Init PROVE FreshInv
    OBVIOUS
  <2>1. /\ requests = {} /\ asking = NoId /\ panel = "idle"
        /\ dialog["details"].id = NoId /\ NoId \notin Images
    BY NamesAssumption DEF Init, Dialogs, Ids
  <2>2. QED
    BY <2>1 DEF FreshInv, ListsInv, ActionInv
<1>2. TypeOK /\ PanelsInv /\ FreshInv /\ [Next]_vars => FreshInv'
  <2> SUFFICES ASSUME TypeOK, PanelsInv, FreshInv, [Next]_vars PROVE FreshInv'
    OBVIOUS
  <2>1. CASE Toggle \/ RefreshPanel
    BY <2>1, FreshToggle
  <2>2. CASE \/ OpenLogs \/ \E image \in Images : OpenImageDetails(image)
             \/ \E c \in Containers : OpenContainerDetails(c)
             \/ \E d \in Dialogs : LoadDialog(d)
    BY <2>2, FreshOpens
  <2>3. CASE ShellClosed \/ \E d \in Dialogs : CloseDialog(d)
    BY <2>3, FreshCloses
  <2>4. CASE \/ \E image \in Images : RemoveImage(image)
             \/ \E action \in Actions : ContainerAction(action)
             \/ Decline \/ ConfirmContainer
    BY <2>4, FreshConfirms
  <2>5. CASE ConfirmImage
    BY <2>5, FreshConfirmImage
  <2>6. ASSUME NEW r \in requests, PageAnswer(r) PROVE FreshInv'
    <3>1. CASE DetectAnswered(r) \/ ImageRemoved(r)
      BY <3>1, FreshPanelGoesOn
    <3>2. CASE OverviewAnswered(r)
      BY <3>2, FreshOverview
    <3>3. CASE LogsAnswered(r) \/ ImageAnswered(r) \/ DetailsAnswered(r)
      <4>1. PICK d \in Dialogs : LoadAnswer(d, r)
        BY <3>3 DEF LogsAnswered, ImageAnswered, DetailsAnswered, Dialogs
      <4>2. QED
        BY <4>1, FreshLoadAnswer
    <3>4. CASE ActionDropped(r)
      BY <3>4, FreshDropped
    <3>5. CASE Removed(r) \/ ActionDone(r)
      BY <3>5, FreshDone
    <3>6. QED
      BY <2>6, <3>1, <3>2, <3>3, <3>4, <3>5 DEF PageAnswer
  <2>7. ASSUME NEW r \in requests, PluginStep(r) PROVE FreshInv'
    BY <2>7, FreshHandlers
  <2>8. ASSUME NEW x \in Ids,
               Elsewhere(x) \/ \E action \in Actions : ActsLate(action, x)
        PROVE  FreshInv'
    BY <2>8, FreshWorld
  <2>9. CASE UNCHANGED vars
    <3>1. UNCHANGED <<panel, busy, overview, reload, dialog, asking, requests, docker,
                      unseen>>
      BY <2>9 DEF vars, panelVars, worldVars
    <3>2. ListsInv /\ ActionInv
      BY DEF FreshInv
    <3>3. ListsInv'
      BY <3>1, <3>2, ListsKept
    <3>4. ActionInv'
      BY <3>1, <3>2 DEF ActionInv
    <3>5. QED
      BY <3>3, <3>4 DEF FreshInv
  <2>10. QED
    BY <2>1, <2>2, <2>3, <2>4, <2>5, <2>6, <2>7, <2>8, <2>9 DEF Next
<1>3. QED
  BY <1>1, <1>2, InvHolds, PTL DEF Spec

\* When no action and no overview is under way, the lists of the panel are those
\* of Docker, but for changes the panel was not told of (refreshDocker after
\* runDockerAction and runDockerContainerDetailsAction).
THEOREM OverviewIsFreshHolds == Spec => []OverviewIsFresh
<1>1. FreshInv => OverviewIsFresh
  BY DEF FreshInv, ListsInv, Untold, OverviewIsFresh
<1>2. QED
  BY <1>1, FreshInvHolds, PTL
=============================================================================
