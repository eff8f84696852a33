---------------------------- MODULE Accessibility ----------------------------
(***************************************************************************)
(* core/src/interaction/accessibility.rs and selection.rs: what the core   *)
(* can say about the targets of the desktop, how sure it is of them, and   *)
(* what becomes of the one a client selects.  Operators without state.     *)
(*                                                                         *)
(* A session is what the process finds around it:                          *)
(*   linux, wayland, x11 : BOOLEAN                                         *)
(*   bus : a sequence of the addresses of DBUS_SESSION_BUS_ADDRESS, each   *)
(*         [transport, path]; << >> when it is unset or blank              *)
(*   sockets : the paths that exist                                        *)
(***************************************************************************)
EXTENDS Interaction

Verdict(status) == [status |-> status, items |-> << >>]
WithItems(status, items) == [status |-> status, items |-> items]

(* parse_unix_socket_path: the path of the first unix address that has     *)
(* one; "" where it names an abstract socket.                              *)
HasPath(address) == address.transport = "unix" /\ address.path # ""

parse_unix_socket_path(bus) ==
  LET paths == SelectSeq(bus, HasPath) IN
  IF paths = << >> THEN None ELSE << paths[1].path >>

(* AccessibilityProbe::detect: never more than "uncertain", for nothing is *)
(* asked over the bus.                                                     *)
detect(session) ==
  LET path == parse_unix_socket_path(session.bus) IN
  IF \/ ~ session.linux
     \/ ~ session.wayland /\ ~ session.x11
     \/ session.bus = << >>
     \/ path # None /\ path[1] \notin session.sockets
  THEN "unavailable" ELSE "uncertain"

is_plausible(session) == detect(session) = "uncertain"

-----------------------------------------------------------------------------
(* Discovery.                                                              *)

hint_echo(hint) ==
  [ kind |-> "application", name |-> hint, confidence |-> "discovered",
    source |-> "accessibility_hint_echo", role |-> "application",
    matched_hint |-> << hint >>, app_name |-> << hint >> ]

discover_top_level(session) == Verdict(detect(session))

inspect_target(session, hint) ==
  IF trim(hint) = "" \/ ~ is_plausible(session) THEN Verdict("unavailable")
  ELSE WithItems("ok", << hint_echo(trim(hint)) >>)

(* A child of the registry's root: [name, role, app_name, is_password,     *)
(* is_invisible].  What must not be shown is dropped without a word.       *)
Shown(child) == ~ child.is_password /\ ~ child.is_invisible /\ trim(child.name) # ""

into_verified_item(child) ==
  [ kind |-> IF child.role \in {"frame", "window", "dialog"} THEN "window" ELSE "application",
    name |-> trim(child.name), confidence |-> "verified",
    source |-> "accessibility_registry_root", role |-> child.role,
    matched_hint |-> None, app_name |-> child.app_name ]

apply_registry_children(children) ==
  LET shown == SelectSeq(children, Shown)
      items == [n \in 1 .. Len(shown) |-> into_verified_item(shown[n])]
  IN WithItems(IF items = << >> THEN "uncertain" ELSE "ok", items)

(* A registry client, or << >>: production wires none.                     *)
NoClient == << >>

(* The orchestrator: the flag, the Cargo feature, the probe, the client;   *)
(* client[1] is the children it reads, or its error.                       *)
discover_top_level_with_config(session, enabled, feature, client) ==
  IF ~ enabled THEN discover_top_level(session)
  ELSE IF ~ feature \/ ~ is_plausible(session) \/ client = NoClient \/ ~ client[1].ok
  THEN Verdict("unavailable")
  ELSE apply_registry_children(client[1].children)

inspect_target_with_config(session, hint) == inspect_target(session, hint)

(* App::discover_accessibility: what the client gets, with its frames.     *)
Discovery(session, enabled, feature, hint) ==
  IF Trimmed(hint) = None
  THEN discover_top_level_with_config(session, enabled, feature, NoClient)
  ELSE inspect_target_with_config(session, Trimmed(hint)[1])

DiscoveryTarget(hint) ==
  IF Trimmed(hint) = None THEN UnknownTarget ELSE application(Trimmed(hint)[1])

ReadOnlyFrames(id, target, steps, result) ==
  << [type |-> "action_planned", action_id |-> id, label |-> "probe", target |-> target],
     started(id) >>
  \o steps
  \o << [type |-> "action_verification", action_id |-> id, title |-> result.status],
        [type |-> "result", action_id |-> id, result |-> result] >>

discover_accessibility(session, enabled, feature, id, hint) ==
  LET result == Discovery(session, enabled, feature, hint) IN
  ReadOnlyFrames(id, DiscoveryTarget(hint),
                 << step(id, "Probing accessibility backend"), step(id, "Discovering") >>, result)
  \o << IF result.status \in {"ok", "uncertain"} THEN completed(id)
        ELSE [type |-> "action_failed", action_id |-> id, error |-> result.status,
              hint |-> "fallback_unavailable"] >>

(* App::probe_accessibility completes whatever the probe finds.            *)
probe_accessibility(session, id) ==
  ReadOnlyFrames(id, UnknownTarget, << step(id, "Checking session environment") >>,
                 Verdict(detect(session)))
  \o << completed(id) >>

-----------------------------------------------------------------------------
(* Selection: a client hands back an item as a target.                     *)

Confidences == {"verified", "discovered"}

(* SelectedTarget::normalize_with_fallback_id, or "invalid".               *)
normalize_with_fallback_id(target, fallback) ==
  IF trim(target.name) = "" \/ trim(target.role) = "" \/ trim(target.confidence) \notin Confidences
  THEN "invalid"
  ELSE [ target EXCEPT
           !.id = IF trim(@) = "" THEN fallback ELSE trim(@),
           !.name = trim(@), !.role = trim(@), !.confidence = trim(@),
           !.source = IF trim(@) = "" THEN "accessibility" ELSE trim(@),
           !.matched_hint = Trimmed(@),
           !.app_name = Trimmed(@) ]

to_action_target(target) ==
  CASE target.role = "application" ->
         [type |-> "application", name |-> target.name, hint |-> target.matched_hint]
    [] target.role = "window" ->
         window(<< target.name >>, OrElse(target.app_name, target.matched_hint))
    [] target.role \in {"ui_element", "region"} ->
         [type |-> target.role, name |-> target.name, hint |-> target.matched_hint]
    [] OTHER -> UnknownTarget

short_label(target) == << target.name, target.role, target.confidence >>
=============================================================================
