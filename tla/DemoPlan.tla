------------------------------ MODULE DemoPlan ------------------------------
(***************************************************************************)
(* core/src/actions/plan.rs: the demo plan and its status, as operators.   *)
(* Words and texts are those of AuditEvent.                                *)
(***************************************************************************)
EXTENDS AuditEvent

DEFAULT_DEMO_KIND == "noop"
sanitize_kind(raw) == IF raw \in KNOWN_DEMO_KINDS THEN raw ELSE DEFAULT_DEMO_KIND

DemoPlanStatus ==
  {"planned", "waiting_approval", "approved", "running",
   "completed", "failed", "denied", "expired"}
is_terminal(status) == status \in {"completed", "failed", "denied", "expired"}

(* A plan that has ended stays as it ended.                                *)
set_status(status, next) == IF is_terminal(status) THEN status ELSE next

MAX_TITLE_CHARS == 80
MAX_PLAN_SUMMARY_CHARS == 140
DefaultTitle   == [chars |-> 11, cut |-> FALSE]
DefaultSummary == [chars |-> 40, cut |-> FALSE]

Defaulted(text, default) == IF text.chars = 0 THEN default ELSE text

new(action_id, title, summary, kind, risk, requires_approval) ==
  [ action_id |-> action_id,
    title |-> Defaulted(trim_to(title, MAX_TITLE_CHARS), DefaultTitle),
    summary |-> Defaulted(trim_to(summary, MAX_PLAN_SUMMARY_CHARS), DefaultSummary),
    kind |-> sanitize_kind(kind),
    risk |-> Leveled(risk),
    requires_approval |-> requires_approval,
    status |-> "planned" ]

step_label(plan) ==
  CASE plan.kind = "demo_echo" -> "Echo" [] plan.kind = "demo_wait" -> "Wait (demo)"
    [] OTHER -> "No operation"
=============================================================================
