---------------------------- MODULE Capabilities ----------------------------
(***************************************************************************)
(* core/src/capabilities.rs and core/src/capability_guard.rs: the closed   *)
(* vocabulary of capabilities and the guard that refuses, before policy    *)
(* and approval, what no code can run today.  An id is the sequence of its *)
(* segments between the dots; None is an absent one.                       *)
(***************************************************************************)
EXTENDS Integers, Sequences

None == << >>

InteractionKind ==
  {"open_application", "focus_window", "type_text", "send_shortcut", "noop", "unknown"}
KNOWN_DEMO_KINDS == {"demo_echo", "demo_wait", "noop"}

OpenApplication == <<"interaction", "open_application">>
FocusWindow     == <<"interaction", "focus_window">>
TypeText        == <<"interaction", "type_text">>
SendShortcut    == <<"interaction", "send_shortcut">>
PlanDemoAction  == <<"assistant", "plan_demo_action">>
DemoEcho        == <<"assistant", "demo", "echo">>
DemoWait        == <<"assistant", "demo", "wait">>
AuditReadRecent == <<"audit", "read_recent">>

Interactions == {OpenApplication, FocusWindow, TypeText, SendShortcut}
AdminReads   == {<<"admin", "status", "read">>, <<"admin", "capability", "describe">>}
DryRun       == <<"admin", "action", "dry_run">>
Execute      == <<"admin", "action", "execute">>
DataIds      == {<<"data", "context", "query">>, <<"data", "context", "summary">>,
                 <<"data", "decide_access">>}
ProviderIds  == {<<"provider", "text", "generate">>, <<"provider", "stt", "transcribe">>,
                 <<"provider", "tts", "speak">>}
AdminIds     == AdminReads \cup {DryRun, Execute}
DemoIds      == {DemoEcho, DemoWait}

KNOWN_CAPABILITY_IDS ==
  Interactions \cup {PlanDemoAction} \cup DemoIds \cup AdminIds \cup DataIds
  \cup ProviderIds \cup {AuditReadRecent}

EXECUTABLE_TODAY ==
  {OpenApplication, FocusWindow, PlanDemoAction, AuditReadRecent} \cup DemoIds \cup ProviderIds

is_known_capability_id(id) == id \in KNOWN_CAPABILITY_IDS
is_executable_today(id)    == id \in EXECUTABLE_TODAY

-----------------------------------------------------------------------------
(* From the kinds of action to capabilities.                               *)

capability_id_for_interaction(kind) ==
  IF kind \in {"noop", "unknown"} THEN None ELSE <<"interaction", kind>>

capability_id_for_demo_kind(kind) ==
  CASE kind = "demo_echo" -> DemoEcho
    [] kind = "demo_wait" -> DemoWait
    [] kind = "noop" -> PlanDemoAction
    [] OTHER -> None

capability_id_for_plan(kind) ==
  LET id == capability_id_for_demo_kind(kind) IN IF id = None THEN PlanDemoAction ELSE id

-----------------------------------------------------------------------------
(* Descriptive metadata; "none" for an id outside the vocabulary.          *)

risk_for_capability(id) ==
  CASE id \in {OpenApplication, FocusWindow, PlanDemoAction, DryRun} -> "medium"
    [] id \in {TypeText, SendShortcut, Execute} -> "high"
    [] id \in DemoIds \cup AdminReads \cup DataIds \cup ProviderIds \cup {AuditReadRecent} -> "low"
    [] OTHER -> "none"

YesNo(id, yes) ==
  IF ~ is_known_capability_id(id) THEN "none" ELSE IF id \in yes THEN "yes" ELSE "no"

requires_approval_by_default(id) ==
  YesNo(id, Interactions \cup {PlanDemoAction, DryRun, Execute})

audit_required_by_default(id) ==
  YesNo(id, KNOWN_CAPABILITY_IDS \ (ProviderIds \cup {AuditReadRecent}))

correlation_required_by_default(id) ==
  YesNo(id, {Execute, DryRun, TypeText, SendShortcut})

(* A token of a caller: two to four segments, each of them a-z, 0-9 and _  *)
(* ("*" stands for a segment with anything else in it).                    *)
WellFormed(id) ==
  /\ Len(id) \in 2 .. 4
  /\ \A i \in 1 .. Len(id) : id[i] \notin {"", "*"}

sanitize_capability_id(id) ==
  IF WellFormed(id) /\ is_known_capability_id(id) THEN id ELSE None

-----------------------------------------------------------------------------
(* The guard.  Its answer is "allow" or the reason of its refusal; every   *)
(* refusal carries the recovery hint fallback_unavailable.                 *)

KNOWN_GUARD_REASONS ==
  {"unknown_capability_id", "capability_not_executable_today",
   "future_capability_not_implemented", "interaction_type_text_not_supported",
   "interaction_send_shortcut_not_supported"}

guard_capability(id) ==
  IF ~ is_known_capability_id(id) THEN "unknown_capability_id"
  ELSE IF id = TypeText THEN "interaction_type_text_not_supported"
  ELSE IF id = SendShortcut THEN "interaction_send_shortcut_not_supported"
  ELSE IF id[1] \in {"admin", "data"} THEN "future_capability_not_implemented"
  ELSE IF ~ is_executable_today(id) THEN "capability_not_executable_today"
  ELSE "allow"

guard_interaction_kind(kind) == guard_capability(capability_id_for_interaction(kind))
guard_demo_kind(kind) == guard_capability(capability_id_for_plan(kind))
=============================================================================
