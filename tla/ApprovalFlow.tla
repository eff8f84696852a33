---------------------------- MODULE ApprovalFlow ----------------------------
(***************************************************************************)
(* The approval-gated action lifecycle of the core: the command handlers   *)
(* of core/src/app.rs (dispatch_interaction, plan_demo_action,             *)
(* request_approval_demo), the tokio task each gated command spawns, the   *)
(* pending-approval registry of core/src/approvals/state.rs, and the       *)
(* connection tasks that deliver the user's answers                        *)
(* (core/src/ipc/server.rs, handle_approval_response).                     *)
(*                                                                         *)
(* A step is what runs between two points at which another thread of the   *)
(* multi-threaded tokio runtime can interfere: a lock, an atomic, a send   *)
(* on a channel or an .await.                                              *)
(***************************************************************************)
EXTENDS Naturals, Sequences

CONSTANTS
  Task,                  \* dispatched commands, each with the task it spawns
  Client,                \* connection tasks that may answer an approval
  NoOne,                 \* no task / no sender
  Kinds,                 \* the kinds of command this instance dispatches
  MaxApprovals,          \* bound: approval ids drawn in one run of the core
  Policies               \* the policies the configuration may ask for

InteractionKinds == {"open_application", "focus_window"}
PlanKinds        == {"demo_echo", "demo_wait", "noop"}
AllKinds         == InteractionKinds \cup PlanKinds \cup {"approval_demo"}

Id            == 1 .. MaxApprovals
UserDecisions == {"approved", "denied", "cancelled"}
Decisions     == UserDecisions \cup {"timed_out"}
Sources       == {"user", "system", "timeout"}
Senders       == [task : Task, decision : UserDecisions]

(* What the configuration allows; fixed when the core starts.              *)
InteractionPolicy ==
  [enabled : BOOLEAN, allow_open_application : BOOLEAN,
   allow_focus_window : BOOLEAN, require_confirmation : BOOLEAN]

ASSUME ConstantsAssumption ==
  /\ NoOne \notin Task \cup Senders
  /\ Kinds \subseteq AllKinds
  /\ MaxApprovals \in Nat
  /\ Policies \subseteq InteractionPolicy

VARIABLES
  policy,           \* InteractionExecutor.policy
  approvalCounter,  \* AppState.approval_counter
  registry,         \* PendingApprovalRegistry.inner: id -> waiter it sends to
  hand,             \* a sender a connection took from the registry, unsent
  rejected,         \* ids with an IpcCommandRejected entry in the audit store
  pc, kind, apr,    \* per command: program counter, kind, approval_id
  slot,             \* the value in the oneshot channel
  due,              \* the approval deadline has passed
  decision, source, \* what the waiter resolved to
  accepted,         \* history: decisions for which the client got no error
  effects,          \* history: how often the executor was entered
  outcome,          \* result the interaction backend returned
  audit,            \* audit entries with the command's correlation_id
  inline,           \* frames returned to the requesting connection
  wire              \* frames sent on the broadcast channel

client_vars == <<hand, rejected, accepted>>
gate_vars   == <<approvalCounter, registry, apr, slot, due>>
task_vars   == <<pc, kind, decision, source, effects, outcome>>
out_vars    == <<audit, inline, wire>>
vars == <<policy, client_vars, gate_vars, task_vars, out_vars>>

Init ==
  /\ policy \in Policies
  /\ approvalCounter = 0
  /\ registry = [i \in Id |-> NoOne]
  /\ hand     = [c \in Client |-> NoOne]
  /\ rejected = {}
  /\ pc       = [t \in Task |-> "idle"]
  /\ kind     = [t \in Task |-> "none"]
  /\ apr      = [t \in Task |-> 0]
  /\ slot     = [t \in Task |-> "none"]
  /\ due      = [t \in Task |-> FALSE]
  /\ decision = [t \in Task |-> "none"]
  /\ source   = [t \in Task |-> "none"]
  /\ accepted = [t \in Task |-> {}]
  /\ effects  = [t \in Task |-> 0]
  /\ outcome  = [t \in Task |-> "none"]
  /\ audit    = [t \in Task |-> <<>>]
  /\ inline   = [t \in Task |-> <<>>]
  /\ wire     = [t \in Task |-> <<>>]

-----------------------------------------------------------------------------
(* The audit entry of an event: a result outside the vocabulary is dropped.*)
Fields == INSTANCE AuditEvent
Entry(event, result) == [event |-> event, result |-> Fields!sanitize_result(result)]

(* The policy of the interaction layer (InteractionPolicy::allows).        *)
PolicyAllows(k) ==
  /\ policy.enabled
  /\ k = "open_application" => policy.allow_open_application
  /\ k = "focus_window" => policy.allow_focus_window

Goto(t, from, to) ==
  /\ pc[t] = from
  /\ pc' = [pc EXCEPT ![t] = to]

Audit(t, entries) == audit' = [audit EXCEPT ![t] = @ \o entries]
Inline(t, frames) == inline' = [inline EXCEPT ![t] = @ \o frames]
Broadcast(t, frames) == wire' = [wire EXCEPT ![t] = @ \o frames]

Received == <<Entry("ipc_command_received", "none"), Entry("action_planned", "none")>>
Terminal(result) == IF result = "completed" THEN "action_completed" ELSE "action_failed"
Lifecycle(result) == <<Entry("action_started", "none"), Entry(Terminal(result), result)>>
RunFrames(result) ==
  IF result = "completed"
  THEN <<"action_started", "action_step", "action_step", "action_verification", "action_completed">>
  ELSE <<"action_started", "action_step", "action_step", "action_failed">>

-----------------------------------------------------------------------------
(* Dispatch, on the connection's task.                                     *)

(* Mutant: the refusal returns without its action_failed frame.            *)
RefuseInteraction_NoFailedFrame(t, k) ==
  /\ k \in InteractionKinds
  /\ ~ PolicyAllows(k)
  /\ Goto(t, "idle", "done")
  /\ kind' = [kind EXCEPT ![t] = k]
  /\ Audit(t, Received \o <<Entry("action_failed", "failed")>>)
  /\ Inline(t, <<"action_planned", "action_started">>)
  /\ UNCHANGED <<policy, client_vars, gate_vars, decision, source, effects, outcome, wire>>

(* dispatch_interaction: a command the policy refuses fails at once.       *)
RefuseInteraction(t, k) ==
  /\ k \in InteractionKinds
  /\ ~ PolicyAllows(k)
  /\ Goto(t, "idle", "done")
  /\ kind' = [kind EXCEPT ![t] = k]
  /\ Audit(t, Received \o <<Entry("action_failed", "failed")>>)
  /\ Inline(t, <<"action_planned", "action_started", "action_failed">>)
  /\ UNCHANGED <<policy, client_vars, gate_vars, decision, source, effects, outcome, wire>>

(* Otherwise it goes to the gate, or, when no confirmation is required,    *)
(* straight to the backend on the connection's own task.                   *)
DispatchInteraction(t, k) ==
  /\ k \in InteractionKinds
  /\ PolicyAllows(k)
  /\ Goto(t, "idle", IF policy.require_confirmation THEN "gated" ELSE "direct")
  /\ kind' = [kind EXCEPT ![t] = k]
  /\ Audit(t, Received)
  /\ Inline(t, <<"action_planned">>)
  /\ UNCHANGED <<policy, client_vars, gate_vars, decision, source, effects, outcome, wire>>

(* plan_demo_action: the caller decides whether the plan is gated.         *)
DispatchPlan(t, k, requiresApproval) ==
  /\ k \in PlanKinds
  /\ Goto(t, "idle", IF requiresApproval THEN "gated" ELSE "starting")
  /\ kind' = [kind EXCEPT ![t] = k]
  /\ Audit(t, Received)
  /\ Inline(t, <<"action_planned">>)
  /\ UNCHANGED <<policy, client_vars, gate_vars, decision, source, effects, outcome, wire>>

(* request_approval_demo: an approval with no action behind it, and with   *)
(* no audit entry.                                                         *)
DispatchApprovalDemo(t, k) ==
  /\ k = "approval_demo"
  /\ Goto(t, "idle", "gated")
  /\ kind' = [kind EXCEPT ![t] = k]
  /\ UNCHANGED <<policy, client_vars, gate_vars, decision, source, effects, outcome, out_vars>>

(* next_approval_id: an atomic fetch_add.                                  *)
DrawApprovalId(t) ==
  /\ approvalCounter < MaxApprovals
  /\ Goto(t, "gated", "numbered")
  /\ approvalCounter' = approvalCounter + 1
  /\ apr' = [apr EXCEPT ![t] = approvalCounter + 1]
  /\ UNCHANGED <<policy, client_vars, registry, slot, due, kind, decision, source,
                 effects, outcome, out_vars>>

(* PendingApprovalRegistry::register: a fresh channel; an entry under the  *)
(* same id would be overwritten and its sender dropped.                    *)
Register(t) ==
  /\ Goto(t, "numbered", "registered")
  /\ registry' = [registry EXCEPT ![apr[t]] = t]
  /\ UNCHANGED <<policy, client_vars, approvalCounter, apr, slot, due, kind, decision,
                 source, effects, outcome, out_vars>>

(* Audit ApprovalRequested, spawn the waiter, return the inline frames.    *)
SpawnWaiter(t) ==
  /\ Goto(t, "registered", "waiting")
  /\ Inline(t, <<"approval_requested">>)
  /\ IF kind[t] = "approval_demo"
     THEN UNCHANGED audit
     ELSE Audit(t, <<Entry("approval_requested", "none")>>)
  /\ UNCHANGED <<policy, client_vars, gate_vars, kind, decision, source, effects,
                 outcome, wire>>

-----------------------------------------------------------------------------
(* The waiter: timeout(Duration::from_secs(timeout_seconds), rx).await.    *)
(* Timeout polls the receiver first and the timer only when the receiver   *)
(* is pending; when it completes, the receiver is dropped.                 *)

RxAlive(t) == pc[t] \in {"registered", "waiting", "polled"}
SenderAlive(t) ==
  \/ apr[t] \in Id /\ registry[apr[t]] = t
  \/ \E c \in Client : hand[c] # NoOne /\ hand[c].task = t

(* The clock passes the deadline.                                          *)
Deadline(t) ==
  /\ pc[t] \in {"waiting", "polled"}
  /\ ~ due[t]
  /\ due' = [due EXCEPT ![t] = TRUE]
  /\ UNCHANGED <<policy, client_vars, task_vars, out_vars, approvalCounter, registry, apr, slot>>

Resolve(t, d, s) ==
  /\ decision' = [decision EXCEPT ![t] = d]
  /\ source'   = [source EXCEPT ![t] = s]

(* The receiver holds a value, the user's decision; or its sender is gone  *)
(* without one, which the code takes for a core-internal cancellation.     *)
PollReady(t) ==
  /\ slot[t] # "none" \/ ~ SenderAlive(t)
  /\ Goto(t, "waiting", "resolved")
  /\ IF slot[t] # "none" THEN Resolve(t, slot[t], "user")
                         ELSE Resolve(t, "cancelled", "system")
  /\ slot' = [slot EXCEPT ![t] = "none"]
  /\ UNCHANGED <<policy, client_vars, approvalCounter, registry, apr, due, kind, effects,
                 outcome, out_vars>>

PollPending(t) ==
  /\ slot[t] = "none"
  /\ SenderAlive(t)
  /\ Goto(t, "waiting", "polled")
  /\ UNCHANGED <<policy, client_vars, gate_vars, kind, decision, source, effects,
                 outcome, out_vars>>

PollTimerPending(t) ==
  /\ ~ due[t]
  /\ Goto(t, "polled", "waiting")
  /\ UNCHANGED <<policy, client_vars, gate_vars, kind, decision, source, effects,
                 outcome, out_vars>>

(* Elapsed: the receiver, with whatever was sent since it was polled, is   *)
(* dropped.                                                                *)
PollTimerElapsed(t) ==
  /\ due[t]
  /\ Goto(t, "polled", "elapsed")
  /\ slot' = [slot EXCEPT ![t] = "none"]
  /\ UNCHANGED <<policy, client_vars, approvalCounter, registry, apr, due, kind, decision,
                 source, effects, outcome, out_vars>>

(* Mutants: a timeout that approves; a timeout that leaves its entry.      *)
TakeOwnEntry_Approves(t) ==
  /\ Goto(t, "elapsed", "resolved")
  /\ registry' = [registry EXCEPT ![apr[t]] = NoOne]
  /\ Resolve(t, "approved", "timeout")
  /\ UNCHANGED <<policy, client_vars, approvalCounter, apr, slot, due, kind, effects,
                 outcome, out_vars>>

TakeOwnEntry_Leaks(t) ==
  /\ Goto(t, "elapsed", "resolved")
  /\ Resolve(t, "timed_out", "timeout")
  /\ UNCHANGED <<policy, client_vars, gate_vars, kind, effects, outcome, out_vars>>

(* pending_approvals.take(&approval_id), then TimedOut / timeout.          *)
TakeOwnEntry(t) ==
  /\ Goto(t, "elapsed", "resolved")
  /\ registry' = [registry EXCEPT ![apr[t]] = NoOne]
  /\ Resolve(t, "timed_out", "timeout")
  /\ UNCHANGED <<policy, client_vars, approvalCounter, apr, slot, due, kind, effects,
                 outcome, out_vars>>

-----------------------------------------------------------------------------
(* A connection delivers an answer: take the sender under the lock, then   *)
(* send. Every id a client can name is tried, pending or not.              *)
RejectUnknown(c, i) ==
  /\ hand[c] = NoOne
  /\ registry[i] = NoOne
  /\ rejected' = rejected \cup {i}
  /\ UNCHANGED <<policy, hand, accepted, gate_vars, task_vars, out_vars>>

(* Mutant: the entry is read, not removed.                                 *)
TakeSender_Keeps(c, i, d) ==
  /\ hand[c] = NoOne
  /\ registry[i] # NoOne
  /\ hand' = [hand EXCEPT ![c] = [task |-> registry[i], decision |-> d]]
  /\ UNCHANGED <<policy, rejected, accepted, gate_vars, task_vars, out_vars>>

TakeSender(c, i, d) ==
  /\ hand[c] = NoOne
  /\ registry[i] # NoOne
  /\ hand' = [hand EXCEPT ![c] = [task |-> registry[i], decision |-> d]]
  /\ registry' = [registry EXCEPT ![i] = NoOne]
  /\ UNCHANGED <<policy, rejected, accepted, approvalCounter, apr, slot, due, task_vars, out_vars>>

(* Mutant: a closed channel is not reported to the client.                 *)
SendDecision_IgnoresClosed(c) ==
  /\ hand[c] # NoOne
  /\ hand' = [hand EXCEPT ![c] = NoOne]
  /\ LET t == hand[c].task
         d == hand[c].decision
     IN /\ slot' = [slot EXCEPT ![t] = IF RxAlive(t) THEN d ELSE @]
        /\ accepted' = [accepted EXCEPT ![t] = @ \cup {d}]
  /\ UNCHANGED <<policy, rejected, approvalCounter, registry, apr, due, task_vars, out_vars>>

SendDecision(c) ==
  /\ hand[c] # NoOne
  /\ hand' = [hand EXCEPT ![c] = NoOne]
  /\ LET t == hand[c].task
         d == hand[c].decision
     IN IF RxAlive(t)
        THEN /\ slot' = [slot EXCEPT ![t] = d]
             /\ accepted' = [accepted EXCEPT ![t] = @ \cup {d}]
             /\ UNCHANGED rejected
        ELSE /\ rejected' = rejected \cup {apr[t]}
             /\ UNCHANGED <<slot, accepted>>
  /\ UNCHANGED <<policy, approvalCounter, registry, apr, due, task_vars, out_vars>>

-----------------------------------------------------------------------------
(* After the resolution.                                                   *)

AnnounceResolution(t) ==
  /\ Goto(t, "resolved", IF kind[t] = "approval_demo" THEN "done" ELSE "announced")
  /\ Broadcast(t, <<"approval_resolved">>)
  /\ UNCHANGED <<policy, client_vars, gate_vars, kind, decision, source, effects,
                 outcome, audit, inline>>

(* Mutant: the interaction path passes the verdict's own word, too.        *)
ResolutionResult_Verbatim(t) == decision[t]

(* The interaction path maps TimedOut to RESULT_EXPIRED, the demo plan     *)
(* passes decision.as_str().                                               *)
ResolutionResult(t) ==
  IF decision[t] = "timed_out" /\ kind[t] \in InteractionKinds
  THEN "expired" ELSE decision[t]

(* Mutants: a cancelled command runs; a timed-out one is not cancelled.    *)
RecordResolution_CancelledRuns(t) ==
  /\ Goto(t, "announced",
          IF decision[t] \in {"denied", "timed_out"} THEN "cancelling"
          ELSE IF kind[t] \in InteractionKinds THEN "running" ELSE "starting")
  /\ Audit(t, <<Entry("approval_resolved", ResolutionResult(t))>>)
  /\ UNCHANGED <<policy, client_vars, gate_vars, kind, decision, source, effects,
                 outcome, inline, wire>>

RecordResolution_TimeoutStuck(t) ==
  /\ decision[t] # "timed_out"
  /\ Goto(t, "announced",
          IF decision[t] # "approved" THEN "cancelling"
          ELSE IF kind[t] \in InteractionKinds THEN "running" ELSE "starting")
  /\ Audit(t, <<Entry("approval_resolved", ResolutionResult(t))>>)
  /\ UNCHANGED <<policy, client_vars, gate_vars, kind, decision, source, effects,
                 outcome, inline, wire>>

RecordResolution(t) ==
  /\ Goto(t, "announced",
          IF decision[t] # "approved" THEN "cancelling"
          ELSE IF kind[t] \in InteractionKinds THEN "running" ELSE "starting")
  /\ Audit(t, <<Entry("approval_resolved", ResolutionResult(t))>>)
  /\ UNCHANGED <<policy, client_vars, gate_vars, kind, decision, source, effects,
                 outcome, inline, wire>>

(* Denied, cancelled or expired: action_cancelled, then its audit entry.   *)
BroadcastCancelled(t) ==
  /\ Goto(t, "cancelling", "cancelled")
  /\ Broadcast(t, <<"action_cancelled">>)
  /\ UNCHANGED <<policy, client_vars, gate_vars, kind, decision, source, effects,
                 outcome, audit, inline>>

RecordCancelled(t) ==
  /\ Goto(t, "cancelled", "done")
  /\ Audit(t, <<Entry("action_cancelled",
                      IF decision[t] = "timed_out" THEN "expired" ELSE decision[t])>>)
  /\ UNCHANGED <<policy, client_vars, gate_vars, kind, decision, source, effects,
                 outcome, inline, wire>>

(* InteractionExecutor::run_approved awaits the backend, behind the gate   *)
(* ("running") or on the connection's task ("direct").                     *)
Gated(t) == apr[t] # 0

CallBackend(t) ==
  /\ \/ Goto(t, "running", "backend")
     \/ Goto(t, "direct", "backend")
  /\ effects' = [effects EXCEPT ![t] = @ + 1]
  /\ UNCHANGED <<policy, client_vars, gate_vars, kind, decision, source, outcome, out_vars>>

BackendReturns(t, result) ==
  /\ Goto(t, "backend", "returned")
  /\ outcome' = [outcome EXCEPT ![t] = result]
  /\ UNCHANGED <<policy, client_vars, gate_vars, kind, decision, source, effects, out_vars>>

(* Mutant: the lifecycle of the run is not recorded.                       *)
RecordLifecycle_Skipped(t) ==
  /\ Goto(t, "returned", IF Gated(t) THEN "recorded" ELSE "done")
  /\ IF Gated(t) THEN UNCHANGED inline ELSE Inline(t, RunFrames(outcome[t]))
  /\ UNCHANGED <<policy, client_vars, gate_vars, kind, decision, source, effects, outcome,
                 audit, wire>>

(* record_interaction_lifecycle_audit, before anything is sent; an ungated *)
(* run returns its frames inline.                                          *)
RecordLifecycle(t) ==
  /\ Goto(t, "returned", IF Gated(t) THEN "recorded" ELSE "done")
  /\ Audit(t, Lifecycle(outcome[t]))
  /\ IF Gated(t) THEN UNCHANGED inline ELSE Inline(t, RunFrames(outcome[t]))
  /\ UNCHANGED <<policy, client_vars, gate_vars, kind, decision, source, effects, outcome, wire>>

BroadcastLifecycle(t) ==
  /\ Goto(t, "recorded", "done")
  /\ Broadcast(t, RunFrames(outcome[t]))
  /\ UNCHANGED <<policy, client_vars, gate_vars, kind, decision, source, effects,
                 outcome, audit, inline>>

(* execute_demo_plan: each frame is broadcast before its audit entry.      *)
StartPlan(t) ==
  /\ Goto(t, "starting", "started")
  /\ effects' = [effects EXCEPT ![t] = @ + 1]
  /\ Broadcast(t, <<"action_started">>)
  /\ UNCHANGED <<policy, client_vars, gate_vars, kind, decision, source, outcome, audit, inline>>

RecordPlanStarted(t) ==
  /\ Goto(t, "started", "stepping")
  /\ Audit(t, <<Entry("action_started", "none")>>)
  /\ UNCHANGED <<policy, client_vars, gate_vars, kind, decision, source, effects,
                 outcome, inline, wire>>

StepPlan(t) ==
  /\ Goto(t, "stepping", "completing")
  /\ Broadcast(t, <<"action_step">>)
  /\ UNCHANGED <<policy, client_vars, gate_vars, kind, decision, source, effects,
                 outcome, audit, inline>>

(* After the pause of demo_wait.                                           *)
CompletePlan(t) ==
  /\ Goto(t, "completing", "completed")
  /\ Broadcast(t, <<"action_completed">>)
  /\ UNCHANGED <<policy, client_vars, gate_vars, kind, decision, source, effects,
                 outcome, audit, inline>>

RecordPlanCompleted(t) ==
  /\ Goto(t, "completed", "done")
  /\ Audit(t, <<Entry("action_completed", "completed")>>)
  /\ UNCHANGED <<policy, client_vars, gate_vars, kind, decision, source, effects,
                 outcome, inline, wire>>

-----------------------------------------------------------------------------
Dispatch(t) ==
  \E k \in Kinds :
    \/ RefuseInteraction(t, k)
    \/ DispatchInteraction(t, k)
    \/ \E requiresApproval \in BOOLEAN : DispatchPlan(t, k, requiresApproval)
    \/ DispatchApprovalDemo(t, k)

Gate(t) == DrawApprovalId(t) \/ Register(t) \/ SpawnWaiter(t)

Waiter(t) ==
  \/ PollReady(t) \/ PollPending(t) \/ PollTimerPending(t)
  \/ PollTimerElapsed(t) \/ TakeOwnEntry(t)

Continuation(t) ==
  \/ AnnounceResolution(t) \/ RecordResolution(t)
  \/ BroadcastCancelled(t) \/ RecordCancelled(t)
  \/ CallBackend(t) \/ RecordLifecycle(t) \/ BroadcastLifecycle(t)
  \/ StartPlan(t) \/ RecordPlanStarted(t) \/ StepPlan(t)
  \/ CompletePlan(t) \/ RecordPlanCompleted(t)

Backend(t) == \E result \in {"completed", "failed"} : BackendReturns(t, result)

Answer(c) ==
  \/ \E i \in Id : RejectUnknown(c, i)
  \/ \E i \in Id, d \in UserDecisions : TakeSender(c, i, d)
  \/ SendDecision(c)

Next ==
  \/ \E t \in Task :
       Dispatch(t) \/ Gate(t) \/ Deadline(t) \/ Waiter(t) \/ Continuation(t) \/ Backend(t)
  \/ \E c \in Client : Answer(c)

Spec == Init /\ [][Next]_vars

(* Tokio polls a woken task again and the deadline comes; synchronous code *)
(* runs on to its next suspension point. Nothing obliges a user to answer, *)
(* a client to send a command, or the focus-window helper to exit (its     *)
(* output is awaited without a timeout); open_application only spawns.     *)
Fairness ==
  /\ \A t \in Task :
       /\ WF_vars(Gate(t)) /\ WF_vars(Deadline(t)) /\ WF_vars(Waiter(t))
       /\ WF_vars(Continuation(t))
       /\ WF_vars(kind[t] = "open_application" /\ Backend(t))
  /\ \A c \in Client : WF_vars(SendDecision(c))

FairSpec == Spec /\ Fairness

-----------------------------------------------------------------------------
(* Properties.                                                             *)

AwaitingAnswer == {"registered", "waiting", "polled", "elapsed"}
PCs == AwaitingAnswer \cup
  {"idle", "gated", "numbered", "resolved", "announced", "cancelling",
   "cancelled", "running", "direct", "backend", "returned", "recorded",
   "starting", "started", "stepping", "completing", "completed", "done"}

(* Every variable holds a value the code's types admit.                    *)
TypeOK ==
  /\ policy \in Policies
  /\ approvalCounter \in 0 .. MaxApprovals
  /\ registry \in [Id -> Task \cup {NoOne}]
  /\ hand \in [Client -> Senders \cup {NoOne}]
  /\ rejected \subseteq Nat
  /\ pc \in [Task -> PCs]
  /\ kind \in [Task -> AllKinds \cup {"none"}]
  /\ apr \in [Task -> 0 .. MaxApprovals]
  /\ slot \in [Task -> UserDecisions \cup {"none"}]
  /\ due \in [Task -> BOOLEAN]
  /\ decision \in [Task -> Decisions \cup {"none"}]
  /\ source \in [Task -> Sources \cup {"none"}]
  /\ accepted \in [Task -> SUBSET UserDecisions]
  /\ effects \in [Task -> Nat]
  /\ outcome \in [Task -> {"none", "completed", "failed"}]

(* Control over autonomy: a gated command enters its executor only when a  *)
(* user's answer was acknowledged and is "approved", the approval demo     *)
(* never does, an interaction skips the gate only where the policy asks    *)
(* for no confirmation, and no command enters the executor twice.          *)
ExecutionNeedsConsent ==
  \A t \in Task : effects[t] > 0 =>
    /\ effects[t] = 1
    /\ kind[t] # "approval_demo"
    /\ \/ decision[t] = "approved" /\ source[t] = "user" /\ accepted[t] = {"approved"}
       \/ ~ Gated(t) /\ (kind[t] \in InteractionKinds => ~ policy.require_confirmation)

(* However many connections answer the same approval, at most one of them  *)
(* gets its answer acknowledged (no error frame).                          *)
OneAnswerAcknowledged ==
  \A t \in Task : \A d, e \in accepted[t] : d = e

(* A verdict attributed to the user is the acknowledged one; "timed_out"   *)
(* and only "timed_out" is attributed to the timeout; and the branch for a *)
(* dropped sender (source system) is never taken, because approval ids are *)
(* unique and every removed sender is used while the receiver lives.       *)
VerdictHasItsSource ==
  \A t \in Task :
    /\ source[t] = "user" => accepted[t] = {decision[t]}
    /\ source[t] = "timeout" <=> decision[t] = "timed_out"
    /\ source[t] # "system"

(* Who reads only the audit trail of a command learns what was decided and *)
(* that it was decided first: the resolution is recorded once, before any  *)
(* start or cancellation, a start follows an approval, and both it and the *)
(* cancellation carry the verdict in the vocabulary of audit/event.rs.     *)
(* One case is excepted: a demo plan that timed out is recorded with a     *)
(* word the vocabulary does not have, and so without its verdict.          *)
Named(t) == IF decision[t] = "timed_out" THEN "expired" ELSE decision[t]
Unnamed(t) == decision[t] = "timed_out" /\ kind[t] \notin InteractionKinds

Verdict(t) ==
  [event |-> "approval_resolved", result |-> IF Unnamed(t) THEN "none" ELSE Named(t)]

VerdictNamed(t) ==
  \A n \in DOMAIN audit[t] :
    LET entry == audit[t][n]
        Before(verdict) == \E m \in 1 .. n - 1 : audit[t][m] = verdict
    IN /\ entry.event = "approval_resolved" =>
            /\ entry = Verdict(t)
            /\ \A m \in 1 .. n - 1 : audit[t][m].event # "approval_resolved"
       /\ entry.event = "action_cancelled" => entry.result = Named(t) /\ Before(Verdict(t))
       /\ entry.event = "action_started" => decision[t] = "approved" /\ Before(Verdict(t))

AuditNamesTheVerdict == \A t \in Task : Gated(t) => VerdictNamed(t)

(* The registry holds exactly the approvals an answer can still reach: no  *)
(* entry outlives its waiter, and a waiter with no answer yet has a live   *)
(* sender.                                                                 *)
RegistryTracksWaiters ==
  /\ \A i \in Id : registry[i] # NoOne =>
        apr[registry[i]] = i /\ pc[registry[i]] \in AwaitingAnswer
  /\ \A t \in Task : RxAlive(t) => slot[t] # "none" \/ SenderAlive(t)

(* When a command is finished, the connection that asked and the broadcast *)
(* listeners have seen exactly one terminal frame between them, and it is  *)
(* the one the audit trail ends with.                                      *)
TerminalFrames == {"action_completed", "action_failed", "action_cancelled"}
ReportsAgree ==
  \A t \in Task : pc[t] = "done" /\ kind[t] # "approval_demo" =>
    LET frames == inline[t] \o wire[t]
    IN \E n \in DOMAIN frames :
         /\ \A m \in DOMAIN frames : frames[m] \in TerminalFrames <=> m = n
         /\ audit[t][Len(audit[t])].event = frames[n]
         /\ frames[n] = "action_cancelled" <=>
               Gated(t) /\ decision[t] # "approved"

(* An interaction's result is in the audit trail before any listener sees  *)
(* it ("a crash in broadcast never leaves audit blind on actions that      *)
(* already ran").                                                          *)
AuditedFirst(t) ==
  \A n \in DOMAIN wire[t] : wire[t][n] \in {"action_completed", "action_failed"} =>
    \E m \in DOMAIN audit[t] : audit[t][m].event = wire[t][n]

AuditedBeforeBroadcast ==
  \A t \in Task : kind[t] \in InteractionKinds => AuditedFirst(t)

(* Once an approval has a verdict, no further answer to it is acknowledged.*)
NoAnswerAfterVerdict ==
  [][\A t \in Task : decision[t] # "none" => accepted'[t] = accepted[t]]_vars

(***************************************************************************)
(* The inductive invariant behind the safety properties.                   *)
(***************************************************************************)
BeforeGate   == {"idle", "gated", "numbered"}
AfterVerdict == {"resolved", "announced", "cancelling", "cancelled", "running", "recorded"}
Entering     == {"running", "direct", "starting"}
Inside       == {"backend", "returned", "recorded", "started", "stepping",
                 "completing", "completed"}

(* Ids are handed out once, and before the registry is used.               *)
IdsInv ==
  /\ \A t \in Task : apr[t] <= approvalCounter
  /\ \A t, u \in Task : t # u /\ apr[t] # 0 => apr[t] # apr[u]
  /\ \A t \in Task :
       /\ pc[t] \in {"numbered"} \cup AwaitingAnswer \cup AfterVerdict => apr[t] # 0
       /\ pc[t] \in {"idle", "gated", "direct"} => apr[t] = 0

(* A registered sender belongs to a waiter that has no answer yet.         *)
RegistryInv ==
  \A i \in Id : registry[i] # NoOne =>
    /\ apr[registry[i]] = i
    /\ pc[registry[i]] \in AwaitingAnswer
    /\ slot[registry[i]] = "none"
    /\ accepted[registry[i]] = {}

(* A sender in a connection's hand left the registry, is in one hand only, *)
(* and its channel is unused.                                              *)
HandInv ==
  \A c \in Client : hand[c] # NoOne =>
    LET t == hand[c].task
    IN /\ apr[t] # 0
       /\ registry[apr[t]] # t
       /\ pc[t] \notin BeforeGate
       /\ slot[t] = "none"
       /\ accepted[t] = {}
       /\ \A e \in Client : e # c /\ hand[e] # NoOne => hand[e].task # t

(* A waiting receiver has its value or a sender that can still deliver it. *)
SenderInv ==
  \A t \in Task : RxAlive(t) => slot[t] # "none" \/ SenderAlive(t)

(* At most one answer is acknowledged; while it lies in the channel it is  *)
(* the one.                                                                *)
SlotInv ==
  \A t \in Task :
    /\ slot[t] # "none" => RxAlive(t) /\ accepted[t] = {slot[t]}
    /\ pc[t] \in BeforeGate => accepted[t] = {}
    /\ \A d, e \in accepted[t] : d = e

VerdictInv ==
  \A t \in Task :
    /\ pc[t] \in BeforeGate \cup AwaitingAnswer => decision[t] = "none"
    /\ pc[t] \in AfterVerdict => decision[t] # "none"
    /\ source[t] = "none" <=> decision[t] = "none"
    /\ source[t] = "user" => accepted[t] = {decision[t]}
    /\ source[t] = "timeout" <=> decision[t] = "timed_out"
    /\ source[t] # "system"

EffectInv ==
  \A t \in Task :
    /\ effects[t] \in 0 .. 1
    /\ pc[t] \notin Inside \cup {"done"} => effects[t] = 0
    /\ pc[t] \in Inside => effects[t] = 1
    /\ pc[t] = "announced" => kind[t] # "approval_demo"
    /\ pc[t] \in Entering \cup Inside \/ effects[t] > 0 =>
         /\ kind[t] # "approval_demo"
         /\ \/ decision[t] = "approved"
            \/ /\ apr[t] = 0
               /\ decision[t] = "none"
               /\ kind[t] \in InteractionKinds => ~ policy.require_confirmation

(* The conjunction, inductive (ApprovalFlowProofs).                        *)
IInv ==
  /\ TypeOK /\ IdsInv /\ RegistryInv /\ HandInv /\ SenderInv
  /\ SlotInv /\ VerdictInv /\ EffectInv

(* What a command has told the audit store, its connection and the others, *)
(* by where it is: the invariant behind AuditNamesTheVerdict, ReportsAgree *)
(* and AuditedBeforeBroadcast, inductive together with IInv.               *)
Entries    == [event : Fields!AuditKind, result : Fields!KNOWN_RESULTS \cup {"none"}]
Frames     == TerminalFrames \cup
  {"action_planned", "action_started", "action_step", "action_verification",
   "approval_requested", "approval_resolved"}
Unrecorded == BeforeGate \cup AwaitingAnswer \cup {"resolved", "announced"}
Enacting   == {"cancelling", "cancelled", "running", "starting"} \cup Inside
Reported   == {"cancelled", "completed", "done"}
Opening    == {"ipc_command_received", "action_planned", "approval_requested"}

Quiet(frames) == \A n \in DOMAIN frames : frames[n] \notin TerminalFrames
ClosesWith(frames, last) ==
  /\ frames # <<>> /\ frames[Len(frames)] = last
  /\ \A n \in 1 .. Len(frames) - 1 : frames[n] \notin TerminalFrames
AuditCloses(t, last) == audit[t] # <<>> /\ audit[t][Len(audit[t])].event = last

(* The two executors are reached by their own kinds of command, and a      *)
(* cancellation only behind the gate.                                      *)
PathInv(t) ==
  /\ pc[t] # "idle" => kind[t] \in AllKinds
  /\ pc[t] \in {"direct", "running", "backend", "returned", "recorded"} =>
       kind[t] \in InteractionKinds
  /\ pc[t] \in {"starting", "started", "stepping", "completing", "completed"} =>
       kind[t] \in PlanKinds
  /\ pc[t] \in {"cancelling", "cancelled"} =>
       Gated(t) /\ decision[t] # "approved" /\ kind[t] # "approval_demo"
  /\ pc[t] \in {"returned", "recorded"} => outcome[t] \in {"completed", "failed"}

TrailInv(t) ==
  /\ pc[t] \in Unrecorded => \A n \in DOMAIN audit[t] : audit[t][n].event \in Opening
  /\ Gated(t) /\ pc[t] \in Enacting => \E n \in DOMAIN audit[t] : audit[t][n] = Verdict(t)
  /\ pc[t] = "recorded" => AuditCloses(t, Terminal(outcome[t]))

ReportInv(t) ==
  /\ pc[t] \notin Reported => Quiet(inline[t]) /\ Quiet(wire[t])
  /\ pc[t] = "cancelled" => Quiet(inline[t]) /\ ClosesWith(wire[t], "action_cancelled")
  /\ pc[t] = "completed" => Quiet(inline[t]) /\ ClosesWith(wire[t], "action_completed")
  /\ pc[t] = "done" /\ kind[t] # "approval_demo" =>
       \E last \in TerminalFrames :
         /\ \/ ClosesWith(inline[t], last) /\ Quiet(wire[t])
            \/ Quiet(inline[t]) /\ ClosesWith(wire[t], last)
         /\ AuditCloses(t, last)
         /\ last = "action_cancelled" <=> Gated(t) /\ decision[t] # "approved"

Told(t) ==
  /\ audit[t] \in Seq(Entries) /\ inline[t] \in Seq(Frames) /\ wire[t] \in Seq(Frames)
  /\ PathInv(t) /\ TrailInv(t) /\ ReportInv(t)
  /\ Gated(t) => VerdictNamed(t)
  /\ kind[t] \in InteractionKinds => AuditedFirst(t)

ReportsInv ==
  /\ DOMAIN audit = Task /\ DOMAIN inline = Task /\ DOMAIN wire = Task
  /\ \A t \in Task : Told(t)

(* Every approval that is shown to a user gets a verdict, answered or not, *)
(* and every verdict is carried to its end (but a focus-window helper may  *)
(* hang).                                                                  *)
EveryGateIsReported ==
  \A t \in Task :
    pc[t] = "waiting" \/ decision[t] # "none" ~>
      IF kind[t] = "focus_window" THEN decision[t] # "none" ELSE pc[t] = "done"

-----------------------------------------------------------------------------
(* The flow implements ApprovalGate: a gate is open from the registration  *)
(* of its id to the verdict; an ungated command is free once dispatched.   *)
GatePhase(t) ==
  CASE decision[t] # "none" -> "settled"
    [] decision[t] = "none" /\ pc[t] \in AwaitingAnswer -> "open"
    [] decision[t] = "none" /\ ~ Gated(t)
         /\ (pc[t] \in {"direct", "starting"} \/ effects[t] > 0) -> "free"
    [] OTHER -> "idle"

AG == INSTANCE ApprovalGate WITH
        phase    <- [t \in Task |-> GatePhase(t)],
        consent  <- accepted,
        verdict  <- decision,
        executed <- effects

(* Every step of the flow is a step of the abstract gate or invisible.     *)
ImplementsGate == AG!Spec

=============================================================================
