----------------------------- MODULE AuditEvent -----------------------------
(***************************************************************************)
(* core/src/audit/event.rs, audit/correlation.rs and approvals/request.rs: *)
(* what of the fields a caller gives survives in an audit entry.           *)
(*                                                                         *)
(* A word of a closed vocabulary is itself, trimmed and in lower case as   *)
(* the sanitisers compare it; "none" is an absent one.  A free text is     *)
(* [chars, cut]: its length once trimmed, and whether an ellipsis stands   *)
(* for its end; a token is [prefix, length, clean, value].                 *)
(***************************************************************************)
EXTENDS Capabilities

AuditKind ==
  {"ipc_command_received", "ipc_command_rejected", "action_planned",
   "approval_requested", "approval_resolved", "action_started",
   "action_completed", "action_cancelled", "action_failed"}

KNOWN_SOURCES == {"user", "timeout", "system", "ui", "core"}
KNOWN_RESULTS == {"approved", "denied", "expired", "completed", "failed",
                  "cancelled", "rejected", "capability_guard_denied"}
KNOWN_RISKS   == {"low", "medium", "high"}

MAX_SUMMARY_CHARS == 80

Absent == [chars |-> 0, cut |-> FALSE]
trim_to(text, limit) ==
  IF text.chars <= limit THEN text ELSE [chars |-> limit, cut |-> TRUE]

(* An empty text is an absent one; the ellipsis counts.                    *)
sanitize_summary(raw) == trim_to(raw, MAX_SUMMARY_CHARS)

(* A word nobody knows is dropped, not kept and not reported ...           *)
sanitize_source(raw) == IF raw \in KNOWN_SOURCES THEN raw ELSE "none"
sanitize_result(raw) == IF raw \in KNOWN_RESULTS THEN raw ELSE "none"

(* ... but for a risk, which is then taken for medium; an absent one stays *)
(* absent (approvals/request.rs).                                          *)
Leveled(raw) == IF raw \in KNOWN_RISKS THEN raw ELSE "medium"
sanitize_risk(raw) == IF raw = "none" THEN "none" ELSE Leveled(raw)

-----------------------------------------------------------------------------
(* Correlation ids: "corr_", the hexadecimal digits of the clock (at least *)
(* twelve, at most sixteen of a u64) and sixteen of a counter.             *)
MIN_CORRELATION_ID_LEN == 24
MAX_CORRELATION_ID_LEN == 80
PrefixLen  == 5
CounterLen == 16
StampLens  == 12 .. 16

NoToken == [prefix |-> FALSE, length |-> 0, clean |-> TRUE, value |-> None]

generate_correlation_id(stamp, digits, counter) ==
  [ prefix |-> TRUE, length |-> PrefixLen + digits + CounterLen, clean |-> TRUE,
    value |-> <<stamp, counter + 1>> ]

sanitize_correlation_id(token) ==
  IF /\ token.length \in MIN_CORRELATION_ID_LEN .. MAX_CORRELATION_ID_LEN
     /\ token.prefix /\ token.clean
  THEN token ELSE NoToken

-----------------------------------------------------------------------------
(* AuditFields::sanitized; ids are kept unless empty.                      *)
sanitized(fields) ==
  [ action_id |-> fields.action_id,
    approval_id |-> fields.approval_id,
    risk |-> sanitize_risk(fields.risk),
    result |-> sanitize_result(fields.result),
    source |-> sanitize_source(fields.source),
    summary |-> sanitize_summary(fields.summary),
    correlation_id |-> sanitize_correlation_id(fields.correlation_id),
    capability_id |-> sanitize_capability_id(fields.capability_id) ]
=============================================================================
