----------------------------- MODULE Interaction -----------------------------
(***************************************************************************)
(* core/src/interaction: what an interaction is, whether it may run, what  *)
(* the command backend does with it, and the frames the executor reports;  *)
(* with the constructors of app.rs that turn a client's request into an    *)
(* action and an action into a question.  Operators without state.         *)
(*                                                                         *)
(* A name is a word, "" or " " (nothing but blanks); an optional one is    *)
(* << >> or <<name>>.  "Calendar" stands for a name with capital letters.  *)
(***************************************************************************)
EXTENDS Config, Capabilities

trim(name) == IF name = " " THEN "" ELSE name
to_lowercase(name) == IF name = "Calendar" THEN "calendar" ELSE name

(* Option::map(str::trim).filter(not empty).                               *)
Trimmed(opt) == IF opt = None \/ trim(opt[1]) = "" THEN None ELSE <<trim(opt[1])>>

-----------------------------------------------------------------------------
(* Policy and backend, as App::new takes them from the configuration.      *)

PolicyFlags == {"enabled", "allow_open_application", "allow_focus_window",
                "allow_type_text", "allow_shortcuts", "require_confirmation"}
PolicyOf(config) == [f \in PolicyFlags |-> config[f]]

BackendTemplates == {"open_app_cmd_template", "focus_window_cmd_template"}
BackendOf(config) == [f \in BackendTemplates |-> config[f]]

(* The flag an interaction kind needs besides the layer's own.             *)
FlagFor == [ open_application |-> "allow_open_application",
             focus_window |-> "allow_focus_window",
             type_text |-> "allow_type_text",
             send_shortcut |-> "allow_shortcuts" ]

Allowed == "allowed"
allows(policy, kind) ==
  IF ~ policy["enabled"] THEN "LayerDisabled"
  ELSE IF kind \in DOMAIN FlagFor /\ ~ policy[FlagFor[kind]] THEN "ActionKindDisallowed"
  ELSE Allowed

recovery_hint_for(error) ==
  CASE error \in {"LayerDisabled", "ActionKindDisallowed", "BackendUnsupported"} ->
         "fallback_unavailable"
    [] error = "ConfirmationRequired" -> "ask_user"
    [] error = "Preconditions" -> "abort"
    [] error = "BackendFailed" -> "retry"

-----------------------------------------------------------------------------
(* Targets and actions.                                                    *)

UnknownTarget == [type |-> "unknown"]
application(name) == [type |-> "application", name |-> name, hint |-> None]
window(title, app) == [type |-> "window", title |-> title, app |-> app]

Action(id, verb, label, target, payload) ==
  [ action_id |-> id, verb |-> verb, label |-> label, target |-> target,
    payload |-> payload, requires_confirmation |-> FALSE ]

open_application_action(id, name) ==
  Action(id, "Open", name, application(name), [kind |-> "open_application", name |-> name])

focus_window_action(id, title, app) ==
  Action(id, "Focus", OrElse(OrElse(title, app), <<"window">>)[1], window(title, app),
         [kind |-> "focus_window", title |-> title, app |-> app])

(* What a client may ask for (InteractionFocusTarget and a name), and the  *)
(* action App makes of it; real interactions ask for confirmation.         *)
execute_open_application(id, name) ==
  [open_application_action(id, name) EXCEPT !.requires_confirmation = TRUE]

FocusTitle(target) == OrElse(target.title, target.name)

execute_focus_window(id, target) ==
  [ (IF target.type = "window"
     THEN focus_window_action(id, FocusTitle(target), target.app)
     ELSE focus_window_action(id, None, <<target.name>>))
    EXCEPT !.requires_confirmation = TRUE ]

(* The question the user reads: the title is put in lower case for opening *)
(* and loses its verb for focusing.                                        *)
approval_message(action, selected) ==
  [ asks |-> action.payload.kind,
    label |-> IF action.payload.kind = "open_application"
              THEN to_lowercase(action.label) ELSE action.label,
    selected |-> selected ]

-----------------------------------------------------------------------------
(* The command backend.  A template is << >> when not configured, "cmd" as *)
(* long as something of it remains whatever is substituted, or the single  *)
(* placeholder it consists of.                                             *)

Uncertain == [ok |-> TRUE, confidence |-> "uncertain"]
Verified  == [ok |-> TRUE, confidence |-> "verified"]
Fails(error) == [ok |-> FALSE, error |-> error]

RenderedBlank(template, value) ==
  /\ template[1] \in DOMAIN value
  /\ trim(value[template[1]]) = ""

(* How the helper program fares: "runs" (exit 0), "fails", "missing".      *)
Helpers == {"runs", "fails", "missing"}

(* The application is spawned and let go: whether it fails is not seen.    *)
open_application(backend, name, helper) ==
  LET template == backend["open_app_cmd_template"] IN
  IF template = Unset \/ name = "" \/ RenderedBlank(template, [name |-> name])
  THEN Fails("Preconditions")
  ELSE IF helper = "missing" THEN Fails("BackendFailed")
  ELSE Uncertain

FocusName(title, app) == OrElse(Trimmed(title), Trimmed(app))

FocusValues(title, app) ==
  [ name |-> FocusName(title, app)[1],
    title |-> OrElse(Trimmed(title), <<"">>)[1],
    app |-> OrElse(Trimmed(app), <<"">>)[1] ]

focus_window(backend, title, app, helper) ==
  LET template == backend["focus_window_cmd_template"] IN
  IF template = Unset THEN Fails("BackendUnsupported")
  ELSE IF FocusName(title, app) = None THEN Fails("Preconditions")
  ELSE IF RenderedBlank(template, FocusValues(title, app)) THEN Fails("Preconditions")
  ELSE IF helper # "runs" THEN Fails("BackendFailed")
  ELSE Uncertain

(* Whether the backend gets as far as starting its helper.                 *)
NeedsHelper(backend, action) ==
  LET p == action.payload IN
  \/ p.kind = "open_application" /\ open_application(backend, p.name, "runs").ok
  \/ p.kind = "focus_window" /\ focus_window(backend, p.title, p.app, "runs").ok

(* The match of run_approved and execute.                                  *)
CallBackendFor(backend, action, helper) ==
  LET p == action.payload IN
  CASE p.kind = "open_application" -> open_application(backend, p.name, helper)
    [] p.kind = "focus_window" -> focus_window(backend, p.title, p.app, helper)
    [] p.kind \in {"type_text", "send_shortcut"} -> Fails("BackendUnsupported")
    [] p.kind = "noop" -> Verified

(* The name the helper is run for.                                         *)
ActsOn(action) ==
  IF action.payload.kind = "open_application" THEN action.payload.name
  ELSE FocusName(action.payload.title, action.payload.app)[1]

-----------------------------------------------------------------------------
(* Frames.                                                                 *)

planned(action) ==
  [ type |-> "action_planned", action_id |-> action.action_id,
    label |-> action.label, target |-> action.target ]
started(id) == [type |-> "action_started", action_id |-> id]
step(id, title) == [type |-> "action_step", action_id |-> id, title |-> title]

step_title_for_kind(kind) ==
  [ open_application |-> "Opening application", focus_window |-> "Focusing window",
    type_text |-> "Typing text", send_shortcut |-> "Sending shortcut",
    noop |-> "No-op", unknown |-> "Unknown operation" ][kind]

verification_event(id, result) ==
  [ type |-> "action_verification", action_id |-> id,
    title |-> IF result.confidence = "verified" THEN "Verified" ELSE "Best-effort" ]

completed(id) == [type |-> "action_completed", action_id |-> id]
failed(id, error) ==
  [ type |-> "action_failed", action_id |-> id, error |-> error,
    hint |-> recovery_hint_for(error) ]

plan_event(action) == planned(action)
refusal_events(id, error) == << started(id), failed(id, error) >>

Outcome(id, result) ==
  IF result.ok THEN << verification_event(id, result), completed(id) >>
  ELSE << failed(id, result.error) >>

Steps(action) ==
  << step(action.action_id, "Resolving target"),
     step(action.action_id, step_title_for_kind(action.payload.kind)) >>

run_approved(backend, action, helper) ==
  << started(action.action_id) >> \o Steps(action)
  \o Outcome(action.action_id, CallBackendFor(backend, action, helper))

(* The executor's own entry point, without a gate: it refuses what it      *)
(* would have to ask about.                                                *)
execute(policy, backend, action, helper) ==
  LET verdict == allows(policy, action.payload.kind)
      opening == << planned(action), started(action.action_id) >>
  IN IF verdict # Allowed
     THEN Append(opening, failed(action.action_id, verdict))
     ELSE IF action.requires_confirmation /\ policy["require_confirmation"]
     THEN Append(opening, failed(action.action_id, "ConfirmationRequired"))
     ELSE opening \o Steps(action)
          \o Outcome(action.action_id, CallBackendFor(backend, action, helper))

(* dispatch_interaction up to the point where it asks or runs: the guard,  *)
(* then the policy, then whether confirmation is wanted.                   *)
guard_denied(id) == << started(id), [type |-> "action_failed", action_id |-> id,
                       error |-> "capability_guard_denied", hint |-> "fallback_unavailable"] >>

Admission(policy, action) ==
  IF guard_interaction_kind(action.payload.kind) # "allow" THEN "guard"
  ELSE IF allows(policy, action.payload.kind) # Allowed THEN "policy"
  ELSE IF action.requires_confirmation /\ policy["require_confirmation"] THEN "ask"
  ELSE "run"

Refusal(policy, action) ==
  IF Admission(policy, action) = "guard" THEN guard_denied(action.action_id)
  ELSE refusal_events(action.action_id, allows(policy, action.payload.kind))

(* Of an interaction's frames, exactly the last one is its end.            *)
EndTypes == {"action_completed", "action_failed"}
OneEnd(frames) ==
  \A n \in 1 .. Len(frames) : frames[n].type \in EndTypes <=> n = Len(frames)
=============================================================================
