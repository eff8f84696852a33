--------------------------- MODULE DesktopSession ---------------------------
(***************************************************************************)
(* One desktop UI, the core and whoever else is connected to it: a         *)
(* connection that can be lost, a channel of events that overtakes a slow  *)
(* receiver, and a core that restarts.                                     *)
(*                                                                         *)
(* The UI (ui/scripts/approval/approval_card.gd, ui/scripts/main.gd,       *)
(* ui/scripts/presence/presence_controller.gd, ui/autoload/ipc_client.gd)  *)
(* asks for demo approvals and demo plans and shows the questions it gets  *)
(* back twice, on the approval card and on the banner of the main scene;   *)
(* another client asks for interactions and may answer any approval.  The  *)
(* core (app.rs, ipc/server.rs) answers a command on its connection only   *)
(* and broadcasts what happens later to every connection.                  *)
(*                                                                         *)
(* ApprovalFlow has the steps of one gate in detail; here each of them is  *)
(* taken at once, and what is looked at is what the UI makes of the        *)
(* frames: of an action's frame its handlers read no more than the type,   *)
(* of an approval's the id.  Error frames are only logged by the UI.       *)
(***************************************************************************)
EXTENDS Accessibility

CONSTANTS
  Policy,          \* the policy and the backend the core is configured with
  BackendConfig,
  OtherRequests,   \* interactions the other client asks for
  Presses,         \* who may give which answer: pairs of "card", "banner" or
                   \* "other" and a decision
  Capacity,        \* EVENTS_CHANNEL_CAPACITY, 256
  MaxJobs,         \* bound: commands that start a job
  MaxRestarts,     \* bound: restarts of the core
  MaxLosses,       \* bound: connections lost, with a restart or without
  MaxInFlight      \* bound: frames sent and not handled when one more is sent

ASSUME CapacityAssumption == Capacity \in Nat \ {0}

ASSUME BoundsAssumption ==
  MaxJobs \in Nat /\ MaxRestarts \in Nat /\ MaxLosses \in Nat /\ MaxInFlight \in Nat \ {0}

VARIABLES
  up,         \* the core is running
  restarts,   \* how often it has come back
  losses,     \* how often the connection was lost
  earlier,    \* jobs of the lives before this one
  jobs,       \* commands that got a task or a gate, in order of arrival
  approvals,  \* App.approval_counter
  toCore,     \* commands of the UI on their way
  old,        \* commands of a lost connection the core may still read
  backlog,    \* broadcast events its connection has yet to receive (events_rx)
  lagged,     \* the channel has overwritten some of them, not noticed yet
  toUi,       \* frames sent to the UI and not handled
  link,       \* the UI's connection: "down", "up", or "broken" (not noticed yet)
  card,       \* ApprovalCard: _approval_id, _resolving
  banner,     \* main.gd: _current_approval_id, whether its buttons are enabled
  presence,   \* PresenceController: _action_active, _current_mode, _hold_timer
  astray,     \* history: views whose answer decided another question
  missed,     \* history: of the questions the UI shows or is asked, those
              \* whose resolution it will not get
  endLost     \* history: the channel has overwritten the end of an action on
              \* the connection the UI has

core == <<up, restarts, earlier, jobs, approvals>>
net  == <<losses, toCore, old, backlog, lagged, toUi, link>>
ui   == <<card, banner, presence>>
gone == <<missed, endLost>>
vars == <<core, net, ui, astray, gone>>

(* A question is known by its approval id; which life of the core asked it *)
(* is history.                                                             *)
NoQuestion == [id |-> 0, life |-> 0]

Blanked == [question |-> NoQuestion, resolving |-> FALSE]
Idle(mode) == [active |-> FALSE, mode |-> mode, hold |-> FALSE]

Init ==
  /\ up = TRUE /\ restarts = 0 /\ losses = 0 /\ earlier = 0
  /\ jobs = << >> /\ approvals = 0
  /\ toCore = << >> /\ old = << >> /\ backlog = << >> /\ toUi = << >>
  /\ link = "down" /\ lagged = FALSE
  /\ card = Blanked
  /\ banner = [question |-> NoQuestion, enabled |-> FALSE]
  /\ presence = Idle("disconnected")
  /\ astray = {} /\ missed = {} /\ endLost = FALSE

-----------------------------------------------------------------------------
(* Frames, as far as the UI reads them.                                    *)
Frame(type, q) == [type |-> type, question |-> q]
requested(q)   == Frame("approval_requested", q)
resolved(q)    == Frame("approval_resolved", q)
Seen(frames)   == [n \in DOMAIN frames |-> Frame(frames[n].type, NoQuestion)]
Of(type)       == << Frame(type, NoQuestion) >>

(* Only the UI gets the answers to its own commands, unless it is gone.    *)
Reply(by, frames) == toUi' = IF by = "ui" THEN toUi \o frames ELSE toUi

(* Mutant: a completed action starts no hold.                              *)
Ended_Refused == {"action_failed", "action_cancelled"}

Ended == {"action_completed", "action_failed", "action_cancelled"}

HasEnd(frames) == \E n \in DOMAIN frames : frames[n].type \in Ended
Resolutions(frames) ==
  {frames[n].question : n \in {m \in DOMAIN frames : frames[m].type = "approval_resolved"}}

(* Questions the UI shows, or is asked by a frame on its way.              *)
Heeded == {card.question, banner.question} \cup {toUi[n].question : n \in DOMAIN toUi}
Misses(questions) == missed' = (missed \cup questions) \cap Heeded'

(* An event goes to every connection that is up.  The channel holds the    *)
(* last Capacity events: a receiver further behind has lost the oldest.    *)
Broadcast(frames) ==
  LET queue == backlog \o frames
      over  == IF Len(queue) > Capacity THEN Len(queue) - Capacity ELSE 0
      lost  == SubSeq(queue, 1, over)
  IN IF link = "up"
     THEN /\ backlog' = SubSeq(queue, over + 1, Len(queue))
          /\ lagged' = (lagged \/ over > 0)
          /\ endLost' = (endLost \/ HasEnd(lost))
          /\ Misses(Resolutions(lost))
     ELSE /\ UNCHANGED <<backlog, lagged, endLost>>
          /\ Misses(Resolutions(frames))

-----------------------------------------------------------------------------
(* Commands, as the core handles them: by is the UI, or "old" for what is  *)
(* left of a connection it has lost.                                       *)

Room == earlier + Len(jobs) + Len(toCore) + Len(old) < MaxJobs

Job(kind, action, q, phase) ==
  [ kind |-> kind, action |-> action, question |-> q, phase |-> phase, verdict |-> "none",
    frames |-> << >> ]

(* What a task no longer needs once its question is announced, or it ends. *)
Finished == Job("none", None, NoQuestion, "done")
Approved(job) == [job EXCEPT !.verdict = "approved"]

NextQuestion == [id |-> approvals + 1, life |-> restarts]
Asks(kind, action) ==
  /\ approvals' = approvals + 1
  /\ jobs' = Append(jobs, Job(kind, action, NextQuestion, "asked"))

(* request_approval_demo: a question with no action behind it.             *)
RequestApprovalDemo(by) ==
  /\ Asks("approval_demo", None)
  /\ Reply(by, << requested(NextQuestion) >>)
  /\ UNCHANGED astray

PlanDemo(by, gated) ==
  /\ IF gated
     THEN /\ Asks("plan", None)
          /\ Reply(by, Append(Of("action_planned"), requested(NextQuestion)))
     ELSE /\ jobs' = Append(jobs, Approved(Job("plan", None, NoQuestion, "announced")))
          /\ Reply(by, Of("action_planned"))
          /\ UNCHANGED approvals
  /\ UNCHANGED astray

(* handle_approval_response: the pending entry of that id, if there is one.*)
Pending(answer) ==
  {j \in DOMAIN jobs : jobs[j].phase = "asked" /\ jobs[j].question.id = answer.question.id}

ApprovalResponse(by, answer) ==
  /\ IF Pending(answer) = {} THEN UNCHANGED <<jobs, astray>>
     ELSE \E j \in Pending(answer) :
            /\ jobs' = [jobs EXCEPT ![j].phase = "answered", ![j].verdict = answer.decision]
            /\ astray' = IF jobs[j].question # answer.question
                         THEN astray \cup {answer.view} ELSE astray
  /\ Reply(by, << >>)
  /\ UNCHANGED approvals

Handle(by, command) ==
  CASE command.type = "request_approval_demo" -> RequestApprovalDemo(by)
    [] command.type = "plan_demo_action" -> PlanDemo(by, command.requires_approval)
    [] command.type = "approval_response" -> ApprovalResponse(by, command)

(* dispatch on the UI's connection, and on one the UI has lost.            *)
Dispatch ==
  /\ up /\ link = "up" /\ toCore # << >>
  /\ Handle("ui", Head(toCore))
  /\ toCore' = Tail(toCore)
  /\ UNCHANGED <<up, restarts, earlier, losses, old, backlog, lagged, link, ui, gone>>

DispatchOld ==
  /\ up /\ old # << >>
  /\ Handle("old", Head(old))
  /\ old' = Tail(old)
  /\ UNCHANGED <<up, restarts, earlier, losses, toCore, backlog, lagged, link, ui, gone>>

(* The other client's interaction: dispatch_interaction up to the gate.    *)
(* Refusals and runs without confirmation are reported to it alone.        *)
RequestedAction(request) ==
  IF request.type = "open" THEN execute_open_application(1, request.name)
  ELSE execute_focus_window(1, request)

OtherInteraction(request) ==
  /\ up /\ Room
  /\ Admission(Policy, RequestedAction(request)) = "ask"
  /\ Asks("interaction", RequestedAction(request))
  /\ UNCHANGED <<up, restarts, earlier, net, ui, astray, gone>>

(* A client answers what it is asked: each question is sent to one client. *)
OtherAnswers(j, decision) ==
  /\ <<"other", decision>> \in Presses
  /\ up /\ jobs[j].phase = "asked" /\ jobs[j].kind = "interaction"
  /\ jobs' = [jobs EXCEPT ![j].phase = "answered", ![j].verdict = decision]
  /\ UNCHANGED <<up, restarts, earlier, approvals, net, ui, astray, gone>>

-----------------------------------------------------------------------------
(* The gate and what follows it.                                           *)

Deadline(j) ==
  /\ up /\ jobs[j].phase = "asked"
  /\ jobs' = [jobs EXCEPT ![j].phase = "answered", ![j].verdict = "timed_out"]
  /\ UNCHANGED <<up, restarts, earlier, approvals, net, ui, astray, gone>>

(* One step of a job's task, with what it broadcasts.                      *)
JobStep(j, from, job, frames) ==
  /\ up /\ jobs[j].phase = from
  /\ jobs' = [jobs EXCEPT ![j] = job]
  /\ UNCHANGED <<up, restarts, earlier, approvals, losses, toCore, old, toUi, link, ui, astray>>
  /\ Broadcast(frames)

To(j, phase) == [jobs[j] EXCEPT !.phase = phase]

(* The demo approval is over with its announcement.                        *)
Announced(j) ==
  IF jobs[j].kind = "approval_demo" THEN Finished
  ELSE [To(j, "announced") EXCEPT !.question = NoQuestion]

(* Mutant: a question that expires is not announced.                       *)
Announce_Answered(j) ==
  JobStep(j, "answered", Announced(j),
          IF jobs[j].verdict = "timed_out" THEN << >> ELSE << resolved(jobs[j].question) >>)

Announce(j) == JobStep(j, "answered", Announced(j), << resolved(jobs[j].question) >>)

Refused(j) ==
  /\ jobs[j].verdict # "approved"
  /\ JobStep(j, "announced", Finished, Of("action_cancelled"))

PlanStarts(j) ==
  /\ jobs[j].kind = "plan" /\ jobs[j].verdict = "approved"
  /\ JobStep(j, "announced", To(j, "started"), Of("action_started"))
PlanSteps(j) == JobStep(j, "started", To(j, "stepped"), Of("action_step"))

PlanCompletes(j) == JobStep(j, "stepped", Finished, Of("action_completed"))

(* The frames of an interaction are made together, after the backend, and  *)
(* sent one by one: that of a window waits for its helper, however long it *)
(* takes.                                                                  *)
Reporting(frames) ==
  IF frames = << >> THEN Finished ELSE [Finished EXCEPT !.phase = "reporting", !.frames = frames]

Sends(j, from, frames) ==
  /\ frames # << >>
  /\ JobStep(j, from, Reporting(Tail(frames)), << Head(frames) >>)

InteractionRuns(j, helper) ==
  /\ jobs[j].kind = "interaction" /\ jobs[j].verdict = "approved"
  /\ Sends(j, "announced", Seen(run_approved(BackendConfig, jobs[j].action, helper)))
Reports(j) == Sends(j, "reporting", jobs[j].frames)

Decisions == {"approved", "denied"}
Task(j) ==
  \/ Announce(j) \/ Refused(j) \/ PlanStarts(j) \/ PlanSteps(j) \/ PlanCompletes(j)
  \/ Reports(j)

-----------------------------------------------------------------------------
(* The connection and the two processes at its ends.                       *)

ForwardEvent ==
  /\ up /\ link = "up" /\ ~ lagged /\ backlog # << >> /\ Len(toUi) < MaxInFlight
  /\ toUi' = Append(toUi, Head(backlog))
  /\ backlog' = Tail(backlog)
  /\ UNCHANGED <<core, losses, toCore, old, lagged, link, ui, astray, gone>>

(* RecvError::Lagged: logged; the connection goes on with the oldest event *)
(* that is left, and tells the UI nothing.                                 *)
NoticeLag ==
  /\ up /\ link = "up" /\ lagged
  /\ lagged' = FALSE
  /\ UNCHANGED <<core, losses, toCore, old, backlog, toUi, link, ui, astray, gone>>

(* Jobs whose resolution is not announced yet.                             *)
Undecided == {j \in DOMAIN jobs : jobs[j].phase \in {"asked", "answered"}}

(* Everything the core holds is in memory; ids start again from one.       *)
CoreDies ==
  /\ up /\ restarts < MaxRestarts /\ losses < MaxLosses
  /\ up' = FALSE
  /\ losses' = losses + 1
  /\ earlier' = earlier + Len(jobs)
  /\ jobs' = << >> /\ approvals' = 0
  /\ toCore' = << >> /\ old' = << >> /\ backlog' = << >> /\ lagged' = FALSE
  /\ link' = IF link = "up" THEN "broken" ELSE link
  /\ UNCHANGED <<restarts, toUi, ui, astray, endLost>>
  /\ Misses(Resolutions(backlog) \cup {jobs[j].question : j \in Undecided})

CoreStarts ==
  /\ ~ up
  /\ up' = TRUE /\ restarts' = restarts + 1
  /\ UNCHANGED <<earlier, jobs, approvals, net, ui, astray, gone>>

(* What the core has already received of the commands it will still read.  *)
LinkDrops ==
  /\ up /\ link = "up" /\ losses < MaxLosses
  /\ losses' = losses + 1
  /\ \E n \in 0 .. Len(toCore) : old' = old \o SubSeq(toCore, 1, n)
  /\ toCore' = << >> /\ backlog' = << >> /\ lagged' = FALSE
  /\ link' = "broken"
  /\ UNCHANGED <<core, toUi, ui, astray, endLost>>
  /\ Misses(Resolutions(backlog))

(* Mutants: the card keeps its question, or its wait, when offline.        *)
card_offline_KeepsQuestion(c) == [c EXCEPT !.resolving = FALSE]
card_offline_KeepsWaiting(c)  == [c EXCEPT !.question = NoQuestion]

(* _on_ipc_disconnected of the three views: the banner has none.           *)
card_offline(c) == [c EXCEPT !.resolving = FALSE, !.question = NoQuestion]

UiNotices ==
  /\ link = "broken"
  /\ link' = "down"
  /\ toUi' = << >>
  /\ card' = card_offline(card)
  /\ presence' = Idle("disconnected")
  /\ endLost' = FALSE
  /\ UNCHANGED <<core, losses, toCore, old, backlog, lagged, banner, astray>>
  /\ Misses(Resolutions(toUi))

UiConnects ==
  /\ up /\ link = "down"
  /\ link' = "up"
  /\ presence' = [presence EXCEPT !.hold = FALSE, !.mode = IF presence.active THEN @ ELSE "base"]
  /\ UNCHANGED <<core, losses, toCore, old, backlog, lagged, toUi, card, banner, astray, gone>>

-----------------------------------------------------------------------------
(* The user.  What is sent on a connection that is gone is lost.           *)

Send(command) == toCore' = IF link = "up" THEN Append(toCore, command) ELSE toCore

Asking == { [type |-> "request_approval_demo"] }
          \cup { [type |-> "plan_demo_action", requires_approval |-> g] : g \in BOOLEAN }
UserAsks(command) ==
  /\ link # "down" /\ Room
  /\ Send(command)
  /\ UNCHANGED <<core, losses, old, backlog, lagged, toUi, link, ui, astray, gone>>

Answer(view, q, decision) ==
  [type |-> "approval_response", question |-> q, decision |-> decision, view |-> view]

CardPress(decision) ==
  /\ <<"card", decision>> \in Presses
  /\ card.question # NoQuestion /\ ~ card.resolving
  /\ card' = [card EXCEPT !.resolving = TRUE]
  /\ Send(Answer("card", card.question, decision))
  /\ UNCHANGED <<core, losses, old, backlog, lagged, toUi, link, banner, presence, astray, gone>>

BannerPress(decision) ==
  /\ <<"banner", decision>> \in Presses
  /\ banner.question # NoQuestion /\ banner.enabled
  /\ banner' = [banner EXCEPT !.enabled = FALSE]
  /\ Send(Answer("banner", banner.question, decision))
  /\ UNCHANGED <<core, losses, old, backlog, lagged, toUi, link, card, presence, astray, gone>>

-----------------------------------------------------------------------------
(* Frames the UI handles.                                                  *)

CardOn(frame) ==
  CASE frame.type = "approval_requested" -> [question |-> frame.question, resolving |-> FALSE]
    [] frame.type = "approval_resolved" /\ frame.question.id = card.question.id -> Blanked
    [] OTHER -> card

(* Mutant: only a question answered here is taken away.                    *)
BannerOn_Own(frame) ==
  CASE frame.type = "approval_requested" -> [question |-> frame.question, enabled |-> TRUE]
    [] frame.type = "approval_resolved" /\ frame.question.id = banner.question.id
         /\ ~ banner.enabled -> [banner EXCEPT !.question = NoQuestion]
    [] OTHER -> banner

BannerOn(frame) ==
  CASE frame.type = "approval_requested" -> [question |-> frame.question, enabled |-> TRUE]
    [] frame.type = "approval_resolved" /\ frame.question.id = banner.question.id ->
         [banner EXCEPT !.question = NoQuestion]
    [] OTHER -> banner

(* A plan does not stop the timer of the action before it; a start does.   *)
PresenceOn(frame) ==
  CASE frame.type = "action_started" -> [active |-> TRUE, mode |-> "action", hold |-> FALSE]
    [] frame.type = "action_step" -> [presence EXCEPT !.active = TRUE, !.mode = "action"]
    [] frame.type \in {"action_planned", "action_verification"} ->
         [presence EXCEPT !.active = TRUE]
    [] frame.type \in Ended -> [presence EXCEPT !.hold = TRUE]
    [] OTHER -> presence

HandleFrame ==
  /\ link # "down" /\ toUi # << >>
  /\ card' = CardOn(Head(toUi))
  /\ banner' = BannerOn(Head(toUi))
  /\ presence' = PresenceOn(Head(toUi))
  /\ toUi' = Tail(toUi)
  /\ UNCHANGED <<core, losses, toCore, old, backlog, lagged, link, astray, endLost>>
  /\ Misses({})

HoldTimeout ==
  /\ presence.hold
  /\ presence' = Idle(IF link = "down" THEN "disconnected" ELSE "base")
  /\ UNCHANGED <<core, net, card, banner, astray, gone>>

-----------------------------------------------------------------------------
CoreNext ==
  \/ Dispatch \/ DispatchOld \/ ForwardEvent \/ NoticeLag
  \/ \E request \in OtherRequests : OtherInteraction(request)
  \/ \E j \in DOMAIN jobs :
       \/ Deadline(j) \/ Task(j)
       \/ \E decision \in Decisions : OtherAnswers(j, decision)
       \/ \E helper \in Helpers : InteractionRuns(j, helper)

UiNext ==
  \/ \E command \in Asking : UserAsks(command)
  \/ \E decision \in Decisions : CardPress(decision) \/ BannerPress(decision)
  \/ HandleFrame \/ HoldTimeout \/ UiNotices \/ UiConnects

Next == CoreNext \/ UiNext \/ CoreDies \/ CoreStarts \/ LinkDrops

(* Of each process only that it does not stand still while it has work:    *)
(* the core with its commands, tasks, deadlines and events, the UI with    *)
(* its frames, its timer and its socket.  Nobody has to press, to ask, to  *)
(* answer or to reconnect, and no helper has to return.                    *)
CoreWorks ==
  \/ Dispatch \/ DispatchOld \/ ForwardEvent \/ NoticeLag
  \/ \E j \in DOMAIN jobs : Deadline(j) \/ Task(j)
UiPolls == HandleFrame \/ HoldTimeout \/ UiNotices

Fairness == WF_vars(CoreWorks) /\ WF_vars(UiPolls)

Spec == Init /\ [][Next]_vars /\ Fairness

-----------------------------------------------------------------------------
(* Properties.                                                             *)

(* An answer pressed on the approval card decides the question the card    *)
(* shows or none: never one that a restarted core has given the same id,   *)
(* however the press, the loss of the connection, the restart and the next *)
(* question interleave (approval_card.gd loses its id when offline).       *)
CardAnswersWhatItShows == "card" \notin astray

(* What a view shows is still to be decided, or its resolution is on the   *)
(* way.                                                                    *)
Current(q) ==
  \/ q = NoQuestion
  \/ \E j \in DOMAIN jobs : jobs[j].question = q /\ jobs[j].phase \in {"asked", "answered"}
  \/ \E n \in DOMAIN backlog : backlog[n] = resolved(q)
  \/ \E n \in DOMAIN toUi : toUi[n] = resolved(q)

(* The card offers a choice about a question that is gone only if the UI   *)
(* will not get the resolution: the channel has overwritten it before the  *)
(* UI's connection received it, or that connection is lost and this not    *)
(* noticed yet.  Otherwise its one slot, replaced by each question and     *)
(* emptied by the matching resolution or the loss of the connection, keeps *)
(* up with deadlines, answers of others, reconnects and restarts.          *)
CardOnlyWhileOpen == Current(card.question) \/ card.question \in missed

(* The banner of the main scene has no handler for a lost connection: it   *)
(* offers a choice that is gone exactly until the resolution comes, over   *)
(* whatever connection, and for good only if the resolution was lost, on   *)
(* the way, while the UI was away, or with the core.  (It is shown         *)
(* "solange eine Approval-ID offen ist", docs/ui_architecture.md.)         *)
BannerOnlyWhileOpen == Current(banner.question) \/ banner.question \in missed

(***************************************************************************)
(* The inductive invariant behind the three: TypeOK, LifeInv and ViewInv.  *)
(***************************************************************************)
Questions  == [id : Nat, life : Nat]
FrameTypes == Ended \cup
  {"approval_requested", "approval_resolved", "action_planned", "action_started",
   "action_step", "action_verification"}
Frames     == [type : FrameTypes, question : Questions]
Commands   == Asking \cup
  [type : {"approval_response"}, question : Questions, decision : Decisions,
   view : {"card", "banner"}]
ActionFrames == {frame \in Frames : frame.type # "approval_requested"}
Jobs       ==
  [ kind     : {"none", "approval_demo", "plan", "interaction"},
    action   : {None} \cup {RequestedAction(request) : request \in OtherRequests},
    question : Questions,
    phase    : {"asked", "answered", "announced", "started", "stepped", "reporting", "done"},
    verdict  : Decisions \cup {"none", "timed_out"},
    frames   : Seq(ActionFrames) ]

TypeOK ==
  /\ up \in BOOLEAN /\ link \in {"down", "up", "broken"}
  /\ restarts \in Nat /\ losses \in Nat /\ earlier \in Nat /\ approvals \in Nat
  /\ jobs \in Seq(Jobs) /\ toCore \in Seq(Commands) /\ old \in Seq(Commands)
  /\ backlog \in Seq(Frames) /\ toUi \in Seq(Frames)
  /\ card \in [question : Questions, resolving : BOOLEAN]
  /\ banner \in [question : Questions, enabled : BOOLEAN]
  /\ astray \subseteq {"card", "banner"} /\ lagged \in BOOLEAN
  /\ missed \subseteq Questions /\ endLost \in BOOLEAN

(* Nothing outlives the process or the connection it belongs to, so that   *)
(* what the card shows, and what it has sent, is of the life of the core   *)
(* that will read it.                                                      *)
OfThisLife(q) == q # NoQuestion => q.life = restarts
CardsOwn(commands) ==
  \A n \in DOMAIN commands :
    commands[n].type = "approval_response" /\ commands[n].view = "card" =>
      commands[n].question.life = restarts

LifeInv ==
  /\ ~ up => jobs = << >> /\ old = << >> /\ link # "up"
  /\ link # "up" => toCore = << >> /\ backlog = << >> /\ ~ lagged
  /\ link = "down" => toUi = << >> /\ card.question = NoQuestion
  /\ \A j \in DOMAIN jobs : jobs[j].phase = "asked" => jobs[j].question.life = restarts
  /\ CardsOwn(toCore) /\ CardsOwn(old)
  /\ link = "up" =>
       /\ OfThisLife(card.question)
       /\ \A n \in DOMAIN toUi :
            toUi[n].type = "approval_requested" => OfThisLife(toUi[n].question)

(* A question on its way to the views, or shown by one, is open, or its    *)
(* resolution is behind it or lost.                                        *)
Open(q) ==
  \/ \E j \in DOMAIN jobs : jobs[j].question = q /\ jobs[j].phase \in {"asked", "answered"}
  \/ \E n \in DOMAIN backlog : backlog[n] = resolved(q)
Covered(q, k) == Open(q) \/ \E m \in DOMAIN toUi : m > k /\ toUi[m] = resolved(q)
Viewed(q) == q # NoQuestion => Covered(q, 0) \/ q \in missed

ViewInv ==
  /\ \A n \in DOMAIN backlog : backlog[n].type # "approval_requested"
  /\ \A n \in DOMAIN toUi :
       toUi[n].type = "approval_requested" =>
         Covered(toUi[n].question, n) \/ toUi[n].question \in missed
  /\ Viewed(card.question) /\ Viewed(banner.question)

SessionInv == TypeOK /\ LifeInv /\ ViewInv /\ CardAnswersWhatItShows

(* A pressed card does not wait forever, whoever was faster and whatever   *)
(* a lost connection takes with it: it is resolved, replaced or offline,   *)
(* unless the channel overwrote the very resolution it waits for, on a     *)
(* connection that is still up: nobody sends that again.                   *)
CardIsReleased ==
  card.resolving ~> (~ card.resolving \/ (link = "up" /\ card.question \in missed))

(* The action mode of the UI always ends, however two actions interleave   *)
(* and whatever a lost connection takes with it, unless the channel        *)
(* overwrote the end of an action on a connection that is still up.        *)
ActionModeEnds == presence.mode = "action" ~> (presence.mode # "action" \/ endLost)
=============================================================================
