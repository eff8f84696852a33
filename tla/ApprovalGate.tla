---------------------------- MODULE ApprovalGate ----------------------------
(***************************************************************************)
(* What the approval gate promises, independently of registries, channels  *)
(* and timers: a gated task is opened, collects at most one consent, is    *)
(* settled once, and runs only if it was settled as approved.              *)
(* ApprovalFlow is shown to implement this specification.                  *)
(***************************************************************************)
CONSTANT Task          \* dispatched commands

UserDecisions == {"approved", "denied", "cancelled"}
Verdicts      == UserDecisions \cup {"timed_out"}

VARIABLES
  phase,      \* [Task -> {"idle", "open", "settled", "free"}]
  consent,    \* [Task -> SUBSET UserDecisions]: answers the core acknowledged
  verdict,    \* [Task -> Verdicts or "none"]
  executed    \* [Task -> Nat]: how often the executor was entered

vars == <<phase, consent, verdict, executed>>

Init ==
  /\ phase    = [t \in Task |-> "idle"]
  /\ consent  = [t \in Task |-> {}]
  /\ verdict  = [t \in Task |-> "none"]
  /\ executed = [t \in Task |-> 0]

(* A gated task asks for approval; an ungated one is free to run.          *)
Open(t) ==
  /\ phase[t] = "idle"
  /\ phase' = [phase EXCEPT ![t] = "open"]
  /\ UNCHANGED <<consent, verdict, executed>>

Bypass(t) ==
  /\ phase[t] = "idle"
  /\ phase' = [phase EXCEPT ![t] = "free"]
  /\ UNCHANGED <<consent, verdict, executed>>

(* The first answer to an open gate is acknowledged, every later one is    *)
(* not.                                                                    *)
Answer(t) ==
  /\ phase[t] = "open"
  /\ consent[t] = {}
  /\ \E d \in UserDecisions : consent' = [consent EXCEPT ![t] = {d}]
  /\ UNCHANGED <<phase, verdict, executed>>

(* The gate settles once: with the acknowledged answer or by timeout.      *)
Settle(t) ==
  /\ phase[t] = "open"
  /\ \E v \in consent[t] \cup {"timed_out"} :
        verdict' = [verdict EXCEPT ![t] = v]
  /\ phase' = [phase EXCEPT ![t] = "settled"]
  /\ UNCHANGED <<consent, executed>>

(* Execution, once, behind an approving verdict or without a gate.         *)
Execute(t) ==
  /\ executed[t] = 0
  /\ \/ phase[t] = "free"
     \/ phase[t] = "settled" /\ verdict[t] = "approved"
  /\ executed' = [executed EXCEPT ![t] = 1]
  /\ UNCHANGED <<phase, consent, verdict>>

Next == \E t \in Task :
  Open(t) \/ Bypass(t) \/ Answer(t) \/ Settle(t) \/ Execute(t)

Spec == Init /\ [][Next]_vars
=============================================================================
