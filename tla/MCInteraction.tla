---------------------------- MODULE MCInteraction ----------------------------
(***************************************************************************)
(* What the operators of Capabilities, Interaction, Accessibility,         *)
(* AuditEvent and DemoPlan compute, evaluated over small sets of inputs.   *)
(* DesktopProofs proves the first two for every input; the other two are   *)
(* about what is left of a sequence, which takes an induction over it.     *)
(***************************************************************************)
EXTENDS Accessibility, DemoPlan

Names    == {"", " ", "Calendar"}
OptNames == {None} \cup {<<n>> : n \in Names}
Targets  ==
  [type : {"window"}, title : OptNames, name : OptNames, app : OptNames]
  \cup [type : {"application"}, name : Names]
Backends == [BackendTemplates -> {Unset, <<"cmd">>, <<"name">>, <<"title">>}]
AllPolicies == [PolicyFlags -> BOOLEAN]

AnyAction ==
  {execute_focus_window("id", t) : t \in Targets}
  \cup {execute_open_application("id", n) : n \in Names}
  \cup {Action("id", "Type", "text", UnknownTarget, [kind |-> k]) :
          k \in {"type_text", "send_shortcut", "noop"}}

(* Between asking and running nothing is left out: an interaction that the *)
(* gate lets through reports what the executor's own entry point would.    *)
GateAndExecutorAgree ==
  \A policy \in AllPolicies, backend \in Backends, action \in AnyAction, helper \in Helpers :
    Admission(policy, action) = "run" =>
      << plan_event(action) >> \o run_approved(backend, action, helper)
        = execute(policy, backend, action, helper)

(* Whatever happens to an interaction, its last frame is its end, and it   *)
(* has exactly one.                                                        *)
EveryInteractionEnds ==
  \A policy \in AllPolicies, backend \in Backends, action \in AnyAction, helper \in Helpers :
    /\ OneEnd(run_approved(backend, action, helper))
    /\ OneEnd(execute(policy, backend, action, helper))
    /\ Admission(policy, action) \in {"guard", "policy"} => OneEnd(Refusal(policy, action))

-----------------------------------------------------------------------------
Children ==
  [name : {" ", "Calendar"}, role : {"frame", "application"}, app_name : {None},
   is_password : BOOLEAN, is_invisible : BOOLEAN]
SomeChildren == {<< >>} \cup {<<a>> : a \in Children} \cup (Children \X Children)
Sessions ==
  [linux : BOOLEAN, wayland : BOOLEAN, x11 : {FALSE},
   bus : {<< >>, <<[transport |-> "unix", path |-> ""]>>,
          <<[transport |-> "tcp", path |-> ""], [transport |-> "unix", path |-> "/run/bus"]>>},
   sockets : {{}, {"/run/bus"}}]

(* A password field or an invisible element is never an item, and every    *)
(* item has a name.                                                        *)
NothingHiddenIsShown ==
  \A children \in SomeChildren :
    LET result == apply_registry_children(children) IN
    /\ result.status = "ok" <=> result.items # << >>
    /\ \A n \in 1 .. Len(result.items) :
         \E m \in 1 .. Len(children) :
           /\ Shown(children[m])
           /\ result.items[n] = into_verified_item(children[m])
           /\ result.items[n].name # ""

(* A probe of an address with a path finds a desktop only where its socket *)
(* exists; the abstract socket of the second address cannot be looked for. *)
ProbeNeedsABus ==
  \A s \in Sessions :
    is_plausible(s) <=>
      /\ s.linux /\ s.wayland /\ s.bus # << >>
      /\ (\E n \in 1 .. Len(s.bus) : s.bus[n].path # "") => s.sockets = {"/run/bus"}

ASSUME GateAndExecutorAgree
ASSUME EveryInteractionEnds
ASSUME NothingHiddenIsShown
ASSUME ProbeNeedsABus
=============================================================================
