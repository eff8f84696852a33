--------------------------- MODULE DesktopProofs ---------------------------
(***************************************************************************)
(* Part one: facts about the vocabulary of capabilities, the guard, the    *)
(* interaction layer, discovery, audit entries and demo plans, for every   *)
(* input.                                                                  *)
(*                                                                         *)
(* Part two: the session of a desktop UI.  Its inductive invariant has a   *)
(* lemma per kind of step; the three properties of what the UI shows and   *)
(* answers follow from it, for any capacity of the channel, bounds, other  *)
(* clients, policies and presses.                                          *)
(***************************************************************************)
EXTENDS DesktopSession, DemoPlan, TLAPS

(***************************************************************************)
(* capability_guard.rs: the guard decides by prefixes and by name, the     *)
(* list of what can be executed today is written down separately in        *)
(* capabilities.rs.  The two agree: what is admitted is what is listed.    *)
(***************************************************************************)
THEOREM GuardAdmitsTheExecutable ==
  \A id : guard_capability(id) = "allow" <=> id \in EXECUTABLE_TODAY
<1>1. ASSUME NEW id, guard_capability(id) = "allow"
      PROVE  id \in EXECUTABLE_TODAY
  BY <1>1 DEF guard_capability, is_executable_today
<1>2. ASSUME NEW id, id \in EXECUTABLE_TODAY
      PROVE  guard_capability(id) = "allow"
  <2>1. is_known_capability_id(id)
    BY <1>2 DEF EXECUTABLE_TODAY, is_known_capability_id, KNOWN_CAPABILITY_IDS, Interactions
  <2>2. id[1] \in {"interaction", "assistant", "audit", "provider"}
    BY <1>2 DEF EXECUTABLE_TODAY, OpenApplication, FocusWindow, PlanDemoAction,
                AuditReadRecent, DemoIds, DemoEcho, DemoWait, ProviderIds
  <2>3. id # TypeText /\ id # SendShortcut
    BY <1>2 DEF EXECUTABLE_TODAY, OpenApplication, FocusWindow, PlanDemoAction,
                AuditReadRecent, DemoIds, DemoEcho, DemoWait, ProviderIds, TypeText, SendShortcut
  <2> QED BY <1>2, <2>1, <2>2, <2>3 DEF guard_capability, is_executable_today
<1> QED BY <1>1, <1>2

(* Typing and shortcuts: no policy, not even one with every flag on, and   *)
(* no confirmation setting lets such an action reach the question or the   *)
(* backend; the same of the kinds that are no interaction at all.          *)
THEOREM NothingIsTyped ==
  ASSUME NEW policy, NEW action,
         action.payload.kind \in {"type_text", "send_shortcut", "noop", "unknown"}
  PROVE  Admission(policy, action) = "guard"
<1> DEFINE k == action.payload.kind
<1>1. CASE k \in {"noop", "unknown"}
  <2>1. capability_id_for_interaction(k) = None
    BY <1>1 DEF capability_id_for_interaction
  <2>2. None \notin KNOWN_CAPABILITY_IDS
    BY DEF None, KNOWN_CAPABILITY_IDS, Interactions, OpenApplication, FocusWindow, TypeText,
           SendShortcut, PlanDemoAction, DemoIds, DemoEcho, DemoWait, AdminIds, AdminReads,
           DryRun, Execute, DataIds, ProviderIds, AuditReadRecent
  <2> QED BY <2>1, <2>2 DEF Admission, guard_interaction_kind, guard_capability, is_known_capability_id
<1>2. CASE k = "type_text"
  <2>1. capability_id_for_interaction(k) = TypeText
    BY <1>2 DEF capability_id_for_interaction, TypeText
  <2> QED BY <2>1 DEF Admission, guard_interaction_kind, guard_capability
<1>3. CASE k = "send_shortcut"
  <2>1. capability_id_for_interaction(k) = SendShortcut
    BY <1>3 DEF capability_id_for_interaction, SendShortcut
  <2> QED BY <2>1 DEF Admission, guard_interaction_kind, guard_capability
<1> QED BY <1>1, <1>2, <1>3

(* actions/plan.rs and capability_guard.rs: whatever kind a client writes, *)
(* the plan that is made of it passes the guard, so the refusal in         *)
(* request_demo_plan is unreachable; a plan is of a known kind.            *)
THEOREM DemoPlansPassTheGuard ==
  \A raw : /\ sanitize_kind(raw) \in KNOWN_DEMO_KINDS
           /\ guard_demo_kind(sanitize_kind(raw)) = "allow"
<1>1. TAKE raw
<1>2. sanitize_kind(raw) \in KNOWN_DEMO_KINDS
  BY DEF sanitize_kind, KNOWN_DEMO_KINDS, DEFAULT_DEMO_KIND
<1>3. ASSUME NEW kind \in KNOWN_DEMO_KINDS
      PROVE  capability_id_for_plan(kind) \in {DemoEcho, DemoWait, PlanDemoAction}
  BY DEF KNOWN_DEMO_KINDS, capability_id_for_plan, capability_id_for_demo_kind
<1>4. {DemoEcho, DemoWait, PlanDemoAction} \subseteq EXECUTABLE_TODAY
  BY DEF EXECUTABLE_TODAY, DemoIds
<1> QED BY <1>2, <1>3, <1>4, GuardAdmitsTheExecutable DEF guard_demo_kind

-----------------------------------------------------------------------------
(* Some(x) is not None, and holds x.                                       *)
LEMMA OneIsSome == \A x : << x >> # << >> /\ << x >>[1] = x
<1>1. TAKE x
<1>2. Len(<< x >>) = 1 /\ Len(<< >>) = 0
  OBVIOUS
<1>3. << x >>[1] = x
  OBVIOUS
<1> QED BY <1>2, <1>3

(* app.rs and interaction/backend.rs: the label of a focus action, which   *)
(* is what the user is asked about, and the window the helper is run for   *)
(* are computed by different code from the client's target.  For a target  *)
(* whose title, or else name, is not blank they are the same, up to        *)
(* blanks around it.                                                       *)
LEMMA FocusLabelIsFocusName ==
  ASSUME NEW id, NEW title, NEW app,
         title # None => trim(title[1]) # "",
         title = None => (app # None /\ trim(app[1]) # "")
  PROVE  ActsOn(focus_window_action(id, title, app))
           = trim(focus_window_action(id, title, app).label)
<1> DEFINE action == focus_window_action(id, title, app)
<1>1. /\ action.payload.kind = "focus_window"
      /\ action.payload.title = title
      /\ action.payload.app = app
      /\ action.label = OrElse(OrElse(title, app), <<"window">>)[1]
  BY DEF focus_window_action, Action
<1>2. ActsOn(action) = OrElse(Trimmed(title), Trimmed(app))[1]
  BY <1>1 DEF ActsOn, FocusName
<1>3. CASE title # None
  <2>1. Trimmed(title) = << trim(title[1]) >>
    BY <1>3 DEF Trimmed
  <2>2. OrElse(Trimmed(title), Trimmed(app))[1] = trim(title[1])
    BY <2>1, OneIsSome DEF OrElse, Unset
  <2>3. OrElse(OrElse(title, app), <<"window">>) = title
    BY <1>3 DEF OrElse, Unset, None
  <2> QED BY <1>1, <1>2, <2>2, <2>3
<1>4. CASE title = None
  <2>1. Trimmed(title) = None
    BY <1>4 DEF Trimmed
  <2>2. Trimmed(app) = << trim(app[1]) >>
    BY <1>4 DEF Trimmed
  <2>3. OrElse(Trimmed(title), Trimmed(app))[1] = trim(app[1])
    BY <2>1, <2>2, OneIsSome DEF OrElse, Unset, None
  <2>4. OrElse(OrElse(title, app), <<"window">>) = app
    BY <1>4 DEF OrElse, Unset, None
  <2> QED BY <1>1, <1>2, <2>3, <2>4
<1> QED BY <1>3, <1>4

(* The same of the action App makes of a client's target, and of the       *)
(* question the user reads: what is asked about is what is focused.        *)
THEOREM AskedAboutWhatIsFocused ==
  ASSUME NEW id, NEW target,
         target.type = "window" =>
           /\ FocusTitle(target) # None => trim(FocusTitle(target)[1]) # ""
           /\ FocusTitle(target) = None => (target.app # None /\ trim(target.app[1]) # ""),
         target.type # "window" => trim(target.name) # ""
  PROVE  ActsOn(execute_focus_window(id, target))
           = trim(approval_message(execute_focus_window(id, target), None).label)
<1> DEFINE title == IF target.type = "window" THEN FocusTitle(target) ELSE None
           app   == IF target.type = "window" THEN target.app ELSE << target.name >>
           base  == focus_window_action(id, title, app)
           action == execute_focus_window(id, target)
<1>1. action = [base EXCEPT !.requires_confirmation = TRUE]
  BY DEF execute_focus_window
<1>2. action.payload = base.payload /\ action.label = base.label
  BY <1>1 DEF focus_window_action, Action
<1>3. ActsOn(action) = ActsOn(base)
  BY <1>2 DEF ActsOn
<1>4. ActsOn(base) = trim(base.label)
  <2>1. CASE target.type = "window"
    BY <2>1, FocusLabelIsFocusName
  <2>2. CASE target.type # "window"
    <3>1. title = None /\ app # None /\ trim(app[1]) # ""
      BY <2>2 DEF None
    <3> QED BY <3>1, FocusLabelIsFocusName
  <2> QED BY <2>1, <2>2
<1>5. base.payload.kind = "focus_window"
  BY DEF focus_window_action, Action
<1>6. approval_message(action, None).label = action.label
  BY <1>2, <1>5 DEF approval_message
<1> QED BY <1>2, <1>3, <1>4, <1>6

-----------------------------------------------------------------------------
(* accessibility.rs: without a registry client, and App wires none, no     *)
(* item a client is given claims to be verified, whatever the session, the *)
(* configuration and the hint; with the flag on there is none at all       *)
(* unless the client itself named it.                                      *)
THEOREM ProductionVerifiesNothing ==
  ASSUME NEW session, NEW enabled \in BOOLEAN, NEW feature \in BOOLEAN, NEW hint
  PROVE  LET result == Discovery(session, enabled, feature, hint) IN
         /\ \A n \in 1 .. Len(result.items) : result.items[n].confidence = "discovered"
         /\ Trimmed(hint) = None => result.items = << >>
<1> DEFINE result == Discovery(session, enabled, feature, hint)
<1>1. ASSUME NEW status
      PROVE  Verdict(status).items = << >>
  BY DEF Verdict
<1>2. CASE Trimmed(hint) = None
  <2>1. result.items = << >>
    BY <1>1, <1>2 DEF Discovery, discover_top_level_with_config, discover_top_level, NoClient
  <2> QED BY <1>2, <2>1
<1>3. CASE Trimmed(hint) # None
  <2> DEFINE name == Trimmed(hint)[1]
  <2>1. result = inspect_target(session, name)
    BY <1>3 DEF Discovery, inspect_target_with_config
  <2>2. CASE result = Verdict("unavailable")
    BY <1>1, <1>3, <2>2
  <2>3. CASE result = WithItems("ok", << hint_echo(trim(name)) >>)
    <3>1. result.items = << hint_echo(trim(name)) >>
      BY <2>3 DEF WithItems
    <3>2. Len(result.items) = 1 /\ result.items[1] = hint_echo(trim(name))
      BY <3>1
    <3>3. hint_echo(trim(name)).confidence = "discovered"
      BY DEF hint_echo
    <3> QED BY <1>3, <3>2, <3>3
  <2> QED BY <2>1, <2>2, <2>3 DEF inspect_target
<1> QED BY <1>2, <1>3

-----------------------------------------------------------------------------
(* audit/correlation.rs: every id the core generates has the form its own  *)
(* sanitiser accepts, however few digits the clock has at the time: no     *)
(* entry loses the id that ties it to its action.                          *)
THEOREM GeneratedIdsSurvive ==
  ASSUME NEW stamp, NEW digits \in StampLens, NEW counter
  PROVE  sanitize_correlation_id(generate_correlation_id(stamp, digits, counter))
           = generate_correlation_id(stamp, digits, counter)
<1> DEFINE token == generate_correlation_id(stamp, digits, counter)
<1>1. token.prefix /\ token.clean
  BY DEF generate_correlation_id
<1>2. token.length = 5 + digits + 16
  BY DEF generate_correlation_id, PrefixLen, CounterLen
<1>3. token.length \in MIN_CORRELATION_ID_LEN .. MAX_CORRELATION_ID_LEN
  BY <1>2 DEF StampLens, MIN_CORRELATION_ID_LEN, MAX_CORRELATION_ID_LEN
<1> QED BY <1>1, <1>3 DEF sanitize_correlation_id

(* audit/event.rs: what an entry keeps of a word is a word its readers     *)
(* know, or nothing: entries hold no free words in these fields.           *)
THEOREM EntriesHoldKnownWords ==
  ASSUME NEW fields
  PROVE  /\ sanitized(fields).result \in KNOWN_RESULTS \cup {"none"}
         /\ sanitized(fields).source \in KNOWN_SOURCES \cup {"none"}
         /\ sanitized(fields).risk \in KNOWN_RISKS \cup {"none"}
         /\ sanitized(fields).capability_id \in KNOWN_CAPABILITY_IDS \cup {None}
<1>1. sanitized(fields).result = sanitize_result(fields.result)
  BY DEF sanitized
<1>2. sanitized(fields).source = sanitize_source(fields.source)
  BY DEF sanitized
<1>3. sanitized(fields).risk = sanitize_risk(fields.risk)
  BY DEF sanitized
<1>4. sanitized(fields).capability_id = sanitize_capability_id(fields.capability_id)
  BY DEF sanitized
<1>5. sanitize_result(fields.result) \in KNOWN_RESULTS \cup {"none"}
  BY DEF sanitize_result
<1>6. sanitize_source(fields.source) \in KNOWN_SOURCES \cup {"none"}
  BY DEF sanitize_source
<1>7. sanitize_risk(fields.risk) \in KNOWN_RISKS \cup {"none"}
  BY DEF sanitize_risk, Leveled, KNOWN_RISKS
<1>8. sanitize_capability_id(fields.capability_id) \in KNOWN_CAPABILITY_IDS \cup {None}
  BY DEF sanitize_capability_id, is_known_capability_id
<1> QED BY <1>1, <1>2, <1>3, <1>4, <1>5, <1>6, <1>7, <1>8

(* Segments that are words make an id that is well formed.                 *)
LEMMA PairsAreWellFormed ==
  \A a, b : a \notin {"", "*"} /\ b \notin {"", "*"} => WellFormed(<<a, b>>)
<1>1. TAKE a, b
<1>2. HAVE a \notin {"", "*"} /\ b \notin {"", "*"}
<1> DEFINE id == <<a, b>>
<1>3. Len(id) \in 2 .. 4 /\ Len(id) = 2
  OBVIOUS
<1>4. \A i \in 1 .. 2 : id[i] = a \/ id[i] = b
  OBVIOUS
<1> HIDE DEF id
<1>5. \A i \in 1 .. Len(id) : id[i] \notin {"", "*"}
  BY <1>2, <1>3, <1>4
<1>6. WellFormed(id)
  BY <1>3, <1>5 DEF WellFormed
<1> QED BY <1>6 DEF id

(* The same of three.                                                      *)
LEMMA TriplesAreWellFormed ==
  \A a, b, c : a \notin {"", "*"} /\ b \notin {"", "*"} /\ c \notin {"", "*"}
    => WellFormed(<<a, b, c>>)
<1>1. TAKE a, b, c
<1>2. HAVE a \notin {"", "*"} /\ b \notin {"", "*"} /\ c \notin {"", "*"}
<1> DEFINE id == <<a, b, c>>
<1>3. Len(id) \in 2 .. 4 /\ Len(id) = 3
  OBVIOUS
<1>4. \A i \in 1 .. 3 : id[i] = a \/ id[i] = b \/ id[i] = c
  OBVIOUS
<1> HIDE DEF id
<1>5. \A i \in 1 .. Len(id) : id[i] \notin {"", "*"}
  BY <1>2, <1>3, <1>4
<1>6. WellFormed(id)
  BY <1>3, <1>5 DEF WellFormed
<1> QED BY <1>6 DEF id

(* Every id of the vocabulary is made of such segments.                    *)
LEMMA VocabularyIsWellFormed ==
  \A id \in KNOWN_CAPABILITY_IDS : WellFormed(id)
<1>1. WellFormed(OpenApplication) /\ WellFormed(FocusWindow)
  BY PairsAreWellFormed DEF OpenApplication, FocusWindow
<1>2. WellFormed(TypeText) /\ WellFormed(SendShortcut)
  BY PairsAreWellFormed DEF TypeText, SendShortcut
<1>3. WellFormed(PlanDemoAction) /\ WellFormed(AuditReadRecent)
  BY PairsAreWellFormed DEF PlanDemoAction, AuditReadRecent
<1>4. WellFormed(DemoEcho) /\ WellFormed(DemoWait)
  BY TriplesAreWellFormed DEF DemoEcho, DemoWait
<1>5. WellFormed(DryRun) /\ WellFormed(Execute)
  BY TriplesAreWellFormed DEF DryRun, Execute
<1>6. \A id \in AdminReads : WellFormed(id)
  BY TriplesAreWellFormed DEF AdminReads
<1>7. \A id \in DataIds : WellFormed(id)
  BY PairsAreWellFormed, TriplesAreWellFormed DEF DataIds
<1>8. \A id \in ProviderIds : WellFormed(id)
  BY TriplesAreWellFormed DEF ProviderIds
<1> QED BY <1>1, <1>2, <1>3, <1>4, <1>5, <1>6, <1>7, <1>8
        DEF KNOWN_CAPABILITY_IDS, Interactions, DemoIds, AdminIds

(* capabilities.rs: no id of the vocabulary is lost by the sanitiser that  *)
(* audit entries and frames go through.                                    *)
THEOREM VocabularySurvives ==
  \A id \in KNOWN_CAPABILITY_IDS : sanitize_capability_id(id) = id
BY VocabularyIsWellFormed DEF sanitize_capability_id, is_known_capability_id

-----------------------------------------------------------------------------
(* A sequence after another.                                               *)
LEMMA Longer ==
  ASSUME NEW S, NEW s \in Seq(S), NEW e \in Seq(S)
  PROVE  /\ s \o e \in Seq(S)
         /\ DOMAIN (s \o e) = 1 .. Len(s) + Len(e)
         /\ Len(s \o e) = Len(s) + Len(e)
         /\ \A n \in 1 .. Len(s) : (s \o e)[n] = s[n]
         /\ \A n \in 1 .. Len(e) : (s \o e)[Len(s) + n] = e[n]
  OBVIOUS

(* Frames that end nothing before frames that end once.                    *)
LEMMA EndComesLast ==
  ASSUME NEW S, NEW s \in Seq(S), NEW e \in Seq(S), e # << >>,
         \A n \in 1 .. Len(s) : s[n].type \notin EndTypes,
         OneEnd(e)
  PROVE  OneEnd(s \o e)
<1>1. Len(s) \in Nat /\ Len(e) \in Nat /\ Len(e) > 0 /\ Len(s \o e) = Len(s) + Len(e)
  BY Longer
<1>2. ASSUME NEW n \in 1 .. Len(s \o e)
      PROVE  (s \o e)[n].type \in EndTypes <=> n = Len(s \o e)
  <2>1. CASE n <= Len(s)
    <3>1. n \in 1 .. Len(s) /\ n # Len(s \o e)
      BY <1>1, <2>1
    <3>2. (s \o e)[n] = s[n]
      BY <3>1, Longer
    <3> QED BY <3>1, <3>2
  <2>2. CASE n > Len(s)
    <3> DEFINE m == n - Len(s)
    <3>1. m \in 1 .. Len(e) /\ n = Len(s) + m /\ (m = Len(e) <=> n = Len(s \o e))
      BY <1>1, <2>2
    <3> HIDE DEF m
    <3>2. (s \o e)[n] = e[m]
      BY <3>1, Longer
    <3>3. e[m].type \in EndTypes <=> m = Len(e)
      BY <3>1 DEF OneEnd
    <3> QED BY <3>1, <3>2, <3>3
  <2> QED BY <1>1, <2>1, <2>2
<1> QED BY <1>2 DEF OneEnd

(* What an action's frames are made of, and that its outcome ends it.      *)
LEMMA FramesOf ==
  ASSUME NEW backend, NEW action, NEW helper
  PROVE  LET id == action.action_id
             o == Outcome(id, CallBackendFor(backend, action, helper))
             opened == {planned(action), started(id)} \cup {Steps(action)[n] : n \in 1 .. 2}
         IN \E S : /\ o \in Seq(S) /\ o # << >> /\ OneEnd(o)
                   /\ Steps(action) \in Seq(S) /\ Len(Steps(action)) = 2
                   /\ planned(action) \in S /\ started(id) \in S
                   /\ \A x \in opened : x.type \notin EndTypes
<1> DEFINE result == CallBackendFor(backend, action, helper)
           id == action.action_id
           p == planned(action)
           a == started(id)
           b == step(id, "Resolving target")
           c == step(id, step_title_for_kind(action.payload.kind))
           d == verification_event(id, result)
           e == completed(id)
           f == failed(id, result.error)
           S == {p, a, b, c, d, e, f}
           o == Outcome(id, result)
<1>1. /\ p.type \notin EndTypes /\ a.type \notin EndTypes /\ b.type \notin EndTypes
      /\ c.type \notin EndTypes /\ d.type \notin EndTypes
      /\ e.type \in EndTypes /\ f.type \in EndTypes
  BY DEF planned, started, step, verification_event, completed, failed, EndTypes
<1>2. o = IF result.ok THEN << d, e >> ELSE << f >>
  BY DEF Outcome
<1>3. Steps(action) = << b, c >>
  BY DEF Steps
<1> HIDE DEF p, a, b, c, d, e, f, result, o
<1>4. o \in Seq(S) /\ o # << >> /\ OneEnd(o)
  <2>1. CASE result.ok
    <3>1. o = << d, e >>
      BY <1>2, <2>1
    <3>2. Len(o) = 2 /\ o[1] = d /\ o[2] = e /\ o \in Seq(S)
      BY <3>1
    <3> QED BY <1>1, <3>2 DEF OneEnd
  <2>2. CASE ~ result.ok
    <3>1. o = << f >>
      BY <1>2, <2>2
    <3>2. Len(o) = 1 /\ o[1] = f /\ o \in Seq(S)
      BY <3>1
    <3> QED BY <1>1, <3>2 DEF OneEnd
  <2> QED BY <2>1, <2>2
<1>5. /\ Steps(action) \in Seq(S) /\ Len(Steps(action)) = 2
      /\ \A n \in 1 .. 2 : Steps(action)[n] \in {b, c}
  BY <1>3
<1>6. p \in S /\ a \in S
  OBVIOUS
<1>7. \A x \in {p, a} \cup {Steps(action)[n] : n \in 1 .. 2} : x.type \notin EndTypes
  BY <1>1, <1>5
<1> HIDE DEF S
<1>8. \E T : /\ o \in Seq(T) /\ o # << >> /\ OneEnd(o)
             /\ Steps(action) \in Seq(T) /\ Len(Steps(action)) = 2
             /\ p \in T /\ a \in T
  BY <1>4, <1>5, <1>6
<1> QED BY <1>7, <1>8 DEF p, a, o, result

(* Opened frames, then the steps, end nothing.                             *)
LEMMA OpeningEndsNothing ==
  ASSUME NEW S, NEW s \in Seq(S), NEW t \in Seq(S),
         \A n \in 1 .. Len(s) : s[n].type \notin EndTypes,
         \A n \in 1 .. Len(t) : t[n].type \notin EndTypes
  PROVE  \A n \in 1 .. Len(s \o t) : (s \o t)[n].type \notin EndTypes
<1>1. Len(s) \in Nat /\ Len(t) \in Nat /\ Len(s \o t) = Len(s) + Len(t)
  BY Longer
<1>2. TAKE n \in 1 .. Len(s \o t)
<1>3. CASE n <= Len(s)
  <2>1. n \in 1 .. Len(s)
    BY <1>1, <1>3
  <2> QED BY <2>1, Longer
<1>4. CASE n > Len(s)
  <2>1. n - Len(s) \in 1 .. Len(t) /\ n = Len(s) + (n - Len(s))
    BY <1>1, <1>4
  <2>2. (s \o t)[Len(s) + (n - Len(s))] = t[n - Len(s)]
    BY <2>1, Longer
  <2> QED BY <2>1, <2>2
<1> QED BY <1>1, <1>3, <1>4

(* interaction/executor.rs: an action that is run after its approval, and  *)
(* one given to the executor's own entry point, end exactly once, with     *)
(* their last frame, whatever the policy, the templates, the action and    *)
(* the helper; so does the refusal of one that is not let through.         *)
THEOREM EveryInteractionEndsOnce ==
  ASSUME NEW policy, NEW backend, NEW action, NEW helper
  PROVE  /\ OneEnd(run_approved(backend, action, helper))
         /\ OneEnd(execute(policy, backend, action, helper))
         /\ Admission(policy, action) \in {"guard", "policy"} => OneEnd(Refusal(policy, action))
<1> DEFINE id == action.action_id
           p == planned(action)
           a == started(id)
           t == Steps(action)
           o == Outcome(id, CallBackendFor(backend, action, helper))
<1>1. PICK S : /\ o \in Seq(S) /\ o # << >> /\ OneEnd(o)
               /\ t \in Seq(S) /\ Len(t) = 2
               /\ p \in S /\ a \in S
               /\ \A x \in {p, a} \cup {t[n] : n \in 1 .. 2} : x.type \notin EndTypes
  BY FramesOf
<1>2. /\ run_approved(backend, action, helper) = (<< a >> \o t) \o o
      /\ OneEnd(<< a >> \o t \o o)
  <2>1. run_approved(backend, action, helper) = (<< a >> \o t) \o o
    BY DEF run_approved
  <2> HIDE DEF a, t, o
  <2>2. << a >> \in Seq(S) /\ \A n \in 1 .. Len(<< a >>) : << a >>[n].type \notin EndTypes
    BY <1>1
  <2>3. \A n \in 1 .. Len(t) : t[n].type \notin EndTypes
    BY <1>1
  <2>4. << a >> \o t \in Seq(S)
    BY <1>1, <2>2, Longer
  <2>5. \A n \in 1 .. Len(<< a >> \o t) : (<< a >> \o t)[n].type \notin EndTypes
    BY <1>1, <2>2, <2>3, OpeningEndsNothing
  <2> QED BY <1>1, <2>1, <2>4, <2>5, EndComesLast
<1>3. ASSUME NEW x, x.type \in EndTypes
      PROVE  OneEnd(Append(<< p, a >>, x)) /\ OneEnd(<< a, x >>)
  <2> HIDE DEF p, a
  <2>1. DEFINE u == Append(<< p, a >>, x)
  <2>2. Len(u) = 3 /\ u[1] = p /\ u[2] = a /\ u[3] = x
    OBVIOUS
  <2>3. OneEnd(u)
    <3> HIDE DEF u
    <3>1. \A n \in 1 .. 3 : n = 1 \/ n = 2 \/ n = 3
      OBVIOUS
    <3> QED BY <1>1, <1>3, <2>2, <3>1 DEF OneEnd
  <2>4. OneEnd(<< a, x >>)
    BY <1>1, <1>3 DEF OneEnd
  <2> QED BY <2>3, <2>4
<1>4. \A error : failed(id, error).type \in EndTypes
  BY DEF failed, EndTypes
<1>5. OneEnd((<< p, a >> \o t) \o o)
  <2> HIDE DEF p, a, t, o
  <2>2. << p, a >> \in Seq(S) /\ \A n \in 1 .. Len(<< p, a >>) : << p, a >>[n].type \notin EndTypes
    BY <1>1
  <2>3. \A n \in 1 .. Len(t) : t[n].type \notin EndTypes
    BY <1>1
  <2>4. << p, a >> \o t \in Seq(S)
    BY <1>1, <2>2, Longer
  <2>5. \A n \in 1 .. Len(<< p, a >> \o t) : (<< p, a >> \o t)[n].type \notin EndTypes
    BY <1>1, <2>2, <2>3, OpeningEndsNothing
  <2> QED BY <1>1, <2>4, <2>5, EndComesLast
<1>6. OneEnd(execute(policy, backend, action, helper))
  <2>1. execute(policy, backend, action, helper)
          \in {Append(<< p, a >>, failed(id, error)) :
                 error \in {allows(policy, action.payload.kind), "ConfirmationRequired"}}
              \cup {(<< p, a >> \o t) \o o}
    BY DEF execute
  <2> HIDE DEF p, a, t, o
  <2> QED BY <1>3, <1>4, <1>5, <2>1
<1>7. OneEnd(Refusal(policy, action))
  <2>1. CASE Admission(policy, action) = "guard"
    <3> DEFINE x == [type |-> "action_failed", action_id |-> id,
                     error |-> "capability_guard_denied", hint |-> "fallback_unavailable"]
    <3>1. x.type \in EndTypes
      BY DEF EndTypes
    <3>2. Refusal(policy, action) = << a, x >>
      BY <2>1 DEF Refusal, guard_denied
    <3> QED BY <1>3, <3>1, <3>2
  <2>2. CASE Admission(policy, action) # "guard"
    <3>1. Refusal(policy, action) = << a, failed(id, allows(policy, action.payload.kind)) >>
      BY <2>2 DEF Refusal, refusal_events
    <3> QED BY <1>3, <1>4, <3>1
  <2> QED BY <2>1, <2>2
<1> QED BY <1>2, <1>6, <1>7

(* Sequences put together, and the frames before an action starts.         *)
LEMMA Joined ==
  ASSUME NEW S, NEW q \in Seq(S), NEW s \in Seq(S), NEW t \in Seq(S), NEW o \in Seq(S)
  PROVE  q \o ((s \o t) \o o) = ((q \o s) \o t) \o o
<1>1. q \o ((s \o t) \o o) = (q \o (s \o t)) \o o
  BY Longer
<1>2. q \o (s \o t) = (q \o s) \o t
  OBVIOUS
<1> QED BY <1>1, <1>2

LEMMA Pair ==
  ASSUME NEW p, NEW a
  PROVE  << p >> \o << a >> = << p, a >>
<1> DEFINE S == {p, a}
           u == << p >> \o << a >>
           v == << p, a >>
<1>1. << p >> \in Seq(S) /\ << a >> \in Seq(S)
  OBVIOUS
<1>2. u \in Seq(S) /\ v \in Seq(S) /\ Len(u) = 2 /\ Len(v) = 2
  BY <1>1, Longer
<1>3. u[1] = p /\ u[2] = a /\ v[1] = p /\ v[2] = a
  OBVIOUS
<1> HIDE DEF u, v, S
<1>4. \A n \in 1 .. Len(u) : u[n] = v[n]
  BY <1>2, <1>3
<1>5. u = v
  BY <1>2, <1>4
<1> QED BY <1>5 DEF u, v

(* app.rs (dispatch_interaction) and interaction/executor.rs: an action    *)
(* the gate runs at once reports what the executor's own entry point would *)
(* report, with the same policy checks repeated there: nothing is left out *)
(* or said twice on the way round the approval.                            *)
THEOREM GateRunsAsTheExecutor ==
  ASSUME NEW policy, NEW backend, NEW action, NEW helper,
         Admission(policy, action) = "run"
  PROVE  << plan_event(action) >> \o run_approved(backend, action, helper)
           = execute(policy, backend, action, helper)
<1> DEFINE id == action.action_id
           p == planned(action)
           a == started(id)
           t == Steps(action)
           o == Outcome(id, CallBackendFor(backend, action, helper))
<1>1. /\ allows(policy, action.payload.kind) = Allowed
      /\ ~ (action.requires_confirmation /\ policy["require_confirmation"])
  BY DEF Admission
<1>2. execute(policy, backend, action, helper) = (<< p, a >> \o t) \o o
  BY <1>1 DEF execute
<1>3. run_approved(backend, action, helper) = (<< a >> \o t) \o o
  BY DEF run_approved
<1>4. PICK S : o \in Seq(S) /\ t \in Seq(S) /\ p \in S /\ a \in S
  BY FramesOf
<1> HIDE DEF p, a, t, o
<1>5. << p >> \in Seq(S) /\ << a >> \in Seq(S)
  BY <1>4
<1>6. << p >> \o ((<< a >> \o t) \o o) = ((<< p >> \o << a >>) \o t) \o o
  BY <1>4, <1>5, Joined
<1> QED BY <1>2, <1>3, <1>6, Pair DEF plan_event, p

-----------------------------------------------------------------------------
(* Part two.  Sequences, as the queues of the session use them: an         *)
(* element of a longer sequence is an old one or an added one.             *)
LEMMA OldOrAdded ==
  ASSUME NEW S, NEW s \in Seq(S), NEW e \in Seq(S), NEW n \in DOMAIN (s \o e)
  PROVE  \/ n \in DOMAIN s /\ n <= Len(s) /\ (s \o e)[n] = s[n]
         \/ /\ n \notin DOMAIN s /\ n > Len(s)
            /\ n - Len(s) \in DOMAIN e /\ (s \o e)[n] = e[n - Len(s)]
  <1>1. /\ n \in Int /\ 1 <= n /\ n <= Len(s) + Len(e)
        /\ Len(s) \in Nat /\ Len(e) \in Nat
        /\ DOMAIN s = 1 .. Len(s) /\ DOMAIN e = 1 .. Len(e)
    BY Longer
  <1>2. CASE n <= Len(s)
    BY <1>1, <1>2, Longer
  <1>3. CASE n > Len(s)
    <2>1. n - Len(s) \in 1 .. Len(e) /\ Len(s) + (n - Len(s)) = n
      BY <1>1, <1>3
    <2>2. (s \o e)[Len(s) + (n - Len(s))] = e[n - Len(s)]
      BY <2>1, Longer
    <2> QED BY <1>1, <1>3, <2>1, <2>2
  <1> QED BY <1>1, <1>2, <1>3

LEMMA OneMore ==
  ASSUME NEW S, NEW s \in Seq(S), NEW x \in S
  PROVE  /\ Append(s, x) \in Seq(S)
         /\ DOMAIN Append(s, x) = 1 .. Len(s) + 1 /\ DOMAIN s = 1 .. Len(s)
         /\ Len(s) \in Nat
         /\ \A n \in 1 .. Len(s) : Append(s, x)[n] = s[n]
         /\ Append(s, x)[Len(s) + 1] = x
  OBVIOUS

LEMMA OneLess ==
  ASSUME NEW S, NEW s \in Seq(S), s # << >>
  PROVE  /\ Head(s) \in S /\ Head(s) = s[1] /\ 1 \in DOMAIN s
         /\ Tail(s) \in Seq(S)
         /\ DOMAIN s = 1 .. Len(s) /\ Len(s) \in Nat /\ Len(s) > 0
         /\ DOMAIN Tail(s) = 1 .. Len(s) - 1
         /\ \A n \in DOMAIN Tail(s) : Tail(s)[n] = s[n + 1]
  OBVIOUS

LEMMA Written ==
  ASSUME NEW S, NEW s \in Seq(S), NEW j \in DOMAIN s, NEW x \in S
  PROVE  /\ [s EXCEPT ![j] = x] \in Seq(S)
         /\ DOMAIN [s EXCEPT ![j] = x] = DOMAIN s
         /\ [s EXCEPT ![j] = x][j] = x
         /\ \A n \in DOMAIN s : n # j => [s EXCEPT ![j] = x][n] = s[n]
  OBVIOUS

(* What the UI sees of a run, whatever the backend makes of it.            *)
LEMMA FrameIs ==
  ASSUME NEW type \in FrameTypes, NEW q \in Questions
  PROVE  /\ Frame(type, q) \in Frames
         /\ Frame(type, q).type = type /\ Frame(type, q).question = q
  BY DEF Frame, Frames

LEMMA NoQuestionIs == NoQuestion \in Questions
  BY DEF NoQuestion, Questions

LEMMA RunFrames ==
  ASSUME NEW action, NEW helper
  PROVE  Seen(run_approved(BackendConfig, action, helper))
           \in Seq(ActionFrames)
  <1> DEFINE result == CallBackendFor(BackendConfig, action, helper)
             id == action.action_id
             kinds == step_title_for_kind(action.payload.kind)
             a == started(id)
             b == step(id, "Resolving target")
             c == step(id, kinds)
             d == verification_event(id, result)
             e == completed(id)
             f == failed(id, result.error)
             S == {a, b, c, d, e, f}
             run == run_approved(BackendConfig, action, helper)
  <1>1. /\ a.type = "action_started" /\ b.type = "action_step" /\ c.type = "action_step"
        /\ d.type = "action_verification" /\ e.type = "action_completed" /\ f.type = "action_failed"
    BY DEF started, step, verification_event, completed, failed
  <1>2. run = << a >> \o << b, c >> \o (IF result.ok THEN << d, e >> ELSE << f >>)
    BY DEF run_approved, Steps, Outcome
  <1> HIDE DEF a, b, c, d, e, f, result, run
  <1>3. << a >> \in Seq(S) /\ << b, c >> \in Seq(S) /\ << d, e >> \in Seq(S) /\ << f >> \in Seq(S)
    OBVIOUS
  <1>4. run \in Seq(S)
    <2>1. << a >> \o << b, c >> \in Seq(S)
      BY <1>3, Longer
    <2>2. (IF result.ok THEN << d, e >> ELSE << f >>) \in Seq(S)
      BY <1>3
    <2> HIDE DEF S
    <2> QED BY <1>2, <2>1, <2>2, Longer
  <1>5. \A n \in DOMAIN run : run[n].type \in FrameTypes \ {"approval_requested"}
    <2>1. \A x \in S : x.type \in FrameTypes \ {"approval_requested"}
      BY <1>1 DEF FrameTypes, Ended
    <2> HIDE DEF S
    <2> QED BY <1>4, <2>1
  <1> DEFINE s == Seen(run)
  <1>6. /\ Len(run) \in Nat /\ DOMAIN run = 1 .. Len(run)
        /\ s = [n \in 1 .. Len(run) |-> Frame(run[n].type, NoQuestion)]
    BY <1>4 DEF Seen
  <1>7. \A n \in 1 .. Len(run) : Frame(run[n].type, NoQuestion) \in ActionFrames
    BY <1>5, <1>6, FrameIs, NoQuestionIs DEF ActionFrames
  <1> HIDE DEF s
  <1>8. s \in Seq(ActionFrames)
    BY <1>6, <1>7
  <1> QED
    BY <1>8 DEF s, run
-----------------------------------------------------------------------------
(* A question some gate still waits for, or has not announced the end of.  *)
Asked(q) ==
  \E j \in DOMAIN jobs : jobs[j].question = q /\ jobs[j].phase \in {"asked", "answered"}

(* What is asked is asked by this life of the core.                        *)
AskedNow == \A j \in DOMAIN jobs : jobs[j].phase = "asked" => jobs[j].question.life = restarts

(* A handled command adds a job or answers one, and returns frames: each   *)
(* request among them is a new question's.                                 *)
Returns(f) ==
  /\ f \in Seq(Frames)
  /\ \A n \in DOMAIN f : f[n].type = "approval_requested" =>
       Asked(f[n].question)' /\ f[n].question.life = restarts

JobsKept ==
  /\ jobs' \in Seq(Jobs)
  /\ \A q : Asked(q) => Asked(q)'
  /\ \A j \in DOMAIN jobs' : jobs'[j].phase = "asked" => jobs'[j].question.life = restarts

LEMMA JobAdded ==
  ASSUME TypeOK, AskedNow, NEW x \in Jobs, jobs' = Append(jobs, x),
         x.phase = "asked" => x.question.life = restarts
  PROVE  /\ JobsKept
         /\ x.phase = "asked" => Asked(x.question)'
  <1>1. /\ Append(jobs, x) \in Seq(Jobs)
        /\ DOMAIN Append(jobs, x) = 1 .. Len(jobs) + 1 /\ DOMAIN jobs = 1 .. Len(jobs)
        /\ Len(jobs) \in Nat
        /\ \A n \in 1 .. Len(jobs) : Append(jobs, x)[n] = jobs[n]
        /\ Append(jobs, x)[Len(jobs) + 1] = x
    BY OneMore DEF TypeOK
  <1> DEFINE r == Append(jobs, x)
  <1>2. jobs' = r
    OBVIOUS
  <1> HIDE DEF r
  <1>3. ASSUME NEW n \in DOMAIN r
        PROVE  (n \in DOMAIN jobs /\ r[n] = jobs[n]) \/ (n = Len(jobs) + 1 /\ r[n] = x)
    <2>1. n \in 1 .. Len(jobs) \/ n = Len(jobs) + 1
      BY <1>1 DEF r
    <2> QED BY <1>1, <2>1 DEF r
  <1>4. \A n \in DOMAIN jobs : n \in DOMAIN r /\ r[n] = jobs[n]
    BY <1>1 DEF r
  <1>5. Len(jobs) + 1 \in DOMAIN r /\ r[Len(jobs) + 1] = x /\ r \in Seq(Jobs)
    BY <1>1 DEF r
  <1> QED
    BY <1>2, <1>3, <1>4, <1>5 DEF JobsKept, Asked, AskedNow

LEMMA JobAnswered ==
  ASSUME TypeOK, AskedNow, NEW j \in DOMAIN jobs, NEW d \in Decisions \cup {"timed_out"},
         jobs[j].phase = "asked",
         jobs' = [jobs EXCEPT ![j].phase = "answered", ![j].verdict = d]
  PROVE  JobsKept
  <1> DEFINE x == [jobs[j] EXCEPT !.phase = "answered", !.verdict = d]
             r == [jobs EXCEPT ![j] = x]
  <1>1. jobs[j] \in Jobs /\ jobs \in Seq(Jobs)
    BY DEF TypeOK
  <1>2. x \in Jobs /\ x.phase = "answered" /\ x.question = jobs[j].question
    BY <1>1 DEF Jobs
  <1>3. jobs' = r
    BY <1>1
  <1> HIDE DEF x
  <1>4. /\ r \in Seq(Jobs) /\ DOMAIN r = DOMAIN jobs /\ r[j] = x
        /\ \A n \in DOMAIN jobs : n # j => r[n] = jobs[n]
    BY <1>1, <1>2, Written
  <1> HIDE DEF r
  <1>5. jobs' \in Seq(Jobs)
    BY <1>3, <1>4
  <1>6. ASSUME NEW q, Asked(q)
        PROVE  Asked(q)'
    <2>1. PICK n \in DOMAIN jobs : jobs[n].question = q /\ jobs[n].phase \in {"asked", "answered"}
      BY <1>6 DEF Asked
    <2>2. n \in DOMAIN r /\ r[n].question = q /\ r[n].phase \in {"asked", "answered"}
      BY <1>2, <1>4, <2>1
    <2> QED BY <1>3, <2>2 DEF Asked
  <1>7. \A n \in DOMAIN jobs' : jobs'[n].phase = "asked" => jobs'[n].question.life = restarts
    BY <1>2, <1>3, <1>4 DEF AskedNow
  <1> QED
    BY <1>5, <1>6, <1>7 DEF JobsKept

LEMMA NextQuestionIs ==
  ASSUME TypeOK
  PROVE  NextQuestion \in Questions /\ NextQuestion.life = restarts
  BY DEF TypeOK, NextQuestion, Questions

LEMMA JobIs ==
  ASSUME NEW kind \in {"approval_demo", "plan", "interaction"}, NEW q \in Questions,
         NEW action \in {None} \cup {RequestedAction(request) : request \in OtherRequests},
         NEW phase \in {"asked", "announced"}
  PROVE  /\ Job(kind, action, q, phase) \in Jobs
         /\ Job(kind, action, q, phase).phase = phase
         /\ Job(kind, action, q, phase).question = q
  <1>1. << >> \in Seq(ActionFrames)
    OBVIOUS
  <1> QED BY <1>1 DEF Job, Jobs

LEMMA AskingKept ==
  ASSUME TypeOK, AskedNow, NEW kind \in {"approval_demo", "plan", "interaction"},
         NEW action \in {None} \cup {RequestedAction(request) : request \in OtherRequests},
         Asks(kind, action), NEW q, q = NextQuestion
  PROVE  /\ JobsKept /\ approvals' \in Nat
         /\ q \in Questions /\ q.life = restarts /\ Asked(q)'
  <1> DEFINE x == Job(kind, action, q, "asked")
  <1>1. q \in Questions /\ q.life = restarts
    BY NextQuestionIs
  <1>2. x \in Jobs /\ x.phase = "asked" /\ x.question = q
    BY <1>1, JobIs
  <1>3. jobs' = Append(jobs, x) /\ approvals' \in Nat
    BY DEF Asks, TypeOK
  <1> HIDE DEF x
  <1>4. JobsKept /\ Asked(x.question)'
    BY <1>1, <1>2, <1>3, JobAdded
  <1>5. Asked(q)'
    <2>1. \A p : p = q => (Asked(p)' <=> Asked(q)')
      OBVIOUS
    <2> QED BY <1>2, <1>4, <2>1
  <1> QED
    BY <1>1, <1>3, <1>4, <1>5

(* The commands of the UI, on its connection and on one it has lost.       *)
LEMMA HandleIs ==
  ASSUME TypeOK, AskedNow, NEW by \in {"ui", "old"}, NEW command \in Commands,
         command.type = "approval_response" /\ command.view = "card" =>
           command.question.life = restarts,
         Handle(by, command)
  PROVE  /\ JobsKept /\ approvals' \in Nat /\ astray' \subseteq {"card", "banner"}
         /\ "card" \notin astray => "card" \notin astray'
         /\ \E f : Returns(f) /\ toUi' = IF by = "ui" THEN toUi \o f ELSE toUi
  <1>1. CASE command.type = "request_approval_demo"
    <2>1. RequestApprovalDemo(by)
      BY <1>1 DEF Handle
    <2>2. PICK q : q = NextQuestion
      OBVIOUS
    <2>3. /\ JobsKept /\ approvals' \in Nat
          /\ q \in Questions /\ q.life = restarts /\ Asked(q)'
      BY <2>1, <2>2, AskingKept DEF RequestApprovalDemo
    <2> DEFINE x == requested(q)
               f == << x >>
    <2>4. x \in Frames /\ x.type = "approval_requested" /\ x.question = q
      BY <2>3, FrameIs DEF requested, FrameTypes
    <2>5. toUi' = (IF by = "ui" THEN toUi \o f ELSE toUi) /\ UNCHANGED astray
      BY <2>1, <2>2 DEF RequestApprovalDemo, Reply
    <2>6. Returns(f)
      <3>1. f \in Seq(Frames) /\ \A n \in DOMAIN f : f[n] = x
        BY <2>4
      <3>2. \A n \in DOMAIN f : f[n].question = q
        BY <2>4, <3>1
      <3> HIDE DEF f
      <3> QED BY <2>3, <3>1, <3>2 DEF Returns
    <2> QED BY <2>3, <2>5, <2>6 DEF TypeOK
  <1>2. CASE command.type = "plan_demo_action"
    <2>1. PlanDemo(by, command.requires_approval) /\ UNCHANGED astray
      BY <1>2 DEF Handle, PlanDemo
    <2>2. /\ Of("action_planned") \in Seq(Frames)
          /\ Len(Of("action_planned")) = 1 /\ Of("action_planned")[1].type = "action_planned"
      BY FrameIs, NoQuestionIs DEF Of, FrameTypes
    <2>3. CASE command.requires_approval
      <3>1. PICK q : q = NextQuestion
        OBVIOUS
      <3>2. Asks("plan", None)
        BY <2>1, <2>3 DEF PlanDemo
      <3>3. /\ JobsKept /\ approvals' \in Nat
            /\ q \in Questions /\ q.life = restarts /\ Asked(q)'
        BY <3>1, <3>2, AskingKept
      <3> DEFINE x == requested(q)
                 f == Append(Of("action_planned"), x)
      <3>4. x \in Frames /\ x.type = "approval_requested" /\ x.question = q
        BY <3>3, FrameIs DEF requested, FrameTypes
      <3>5. toUi' = IF by = "ui" THEN toUi \o f ELSE toUi
        BY <2>1, <2>3, <3>1 DEF PlanDemo, Reply
      <3>6. Returns(f)
        <4>1. f \in Seq(Frames) /\ DOMAIN f = 1 .. 2 /\ f[1] = Of("action_planned")[1] /\ f[2] = x
          BY <2>2, <3>4, OneMore
        <4>2. f[2].question = q /\ f[1].type # "approval_requested"
          BY <2>2, <3>4, <4>1
        <4>3. \A n \in DOMAIN f : n = 1 \/ n = 2
          BY <4>1
        <4> HIDE DEF f
        <4> QED BY <3>3, <4>1, <4>2, <4>3 DEF Returns
      <3> QED BY <2>1, <3>3, <3>5, <3>6 DEF TypeOK
    <2>4. CASE ~ command.requires_approval
      <3> DEFINE x == Approved(Job("plan", None, NoQuestion, "announced"))
                 f == Of("action_planned")
      <3>1. jobs' = Append(jobs, x) /\ UNCHANGED approvals
            /\ toUi' = IF by = "ui" THEN toUi \o f ELSE toUi
        BY <2>1, <2>4 DEF PlanDemo, Reply
      <3>2. x \in Jobs /\ x.phase = "announced"
        <4>1. \A y \in Jobs : Approved(y) \in Jobs /\ Approved(y).phase = y.phase
          BY DEF Approved, Jobs, Decisions
        <4>2. /\ Job("plan", None, NoQuestion, "announced") \in Jobs
              /\ Job("plan", None, NoQuestion, "announced").phase = "announced"
          BY JobIs, NoQuestionIs
        <4> QED BY <4>1, <4>2
      <3> HIDE DEF x
      <3>3. JobsKept
        BY <3>1, <3>2, JobAdded
      <3>4. Returns(f)
        BY <2>2 DEF Returns
      <3> QED BY <2>1, <3>1, <3>3, <3>4 DEF TypeOK
    <2> QED BY <2>3, <2>4
  <1>3. CASE command.type = "approval_response"
    <2>1. ApprovalResponse(by, command)
      BY <1>3 DEF Handle
    <2>2. command.question \in Questions /\ command.decision \in Decisions
          /\ command.view \in {"card", "banner"}
      BY <1>3 DEF Commands, Asking
    <2>3. \E f : Returns(f) /\ toUi' = IF by = "ui" THEN toUi \o f ELSE toUi
      <3>1. Returns(<< >>)
        BY DEF Returns
      <3>2. toUi' = IF by = "ui" THEN toUi \o << >> ELSE toUi
        BY <2>1 DEF ApprovalResponse, Reply
      <3> QED BY <3>1, <3>2
    <2>4. approvals' \in Nat
      BY <2>1 DEF ApprovalResponse, TypeOK
    <2>5. CASE Pending(command) = {}
      <3>1. UNCHANGED <<jobs, astray>>
        BY <2>1, <2>5 DEF ApprovalResponse
      <3>2. JobsKept
        BY <3>1 DEF JobsKept, Asked, TypeOK, AskedNow
      <3> QED BY <2>3, <2>4, <3>1, <3>2 DEF TypeOK
    <2>6. CASE Pending(command) # {}
      <3>1. PICK j \in Pending(command) :
              /\ jobs' = [jobs EXCEPT ![j].phase = "answered", ![j].verdict = command.decision]
              /\ astray' = IF jobs[j].question # command.question
                           THEN astray \cup {command.view} ELSE astray
        BY <2>1, <2>6 DEF ApprovalResponse
      <3>2. j \in DOMAIN jobs /\ jobs[j].phase = "asked" /\ jobs[j].question.id = command.question.id
        BY DEF Pending
      <3>3. JobsKept
        BY <2>2, <3>1, <3>2, JobAnswered
      <3>4. command.view = "card" => jobs[j].question = command.question
        <4>1. jobs[j].question \in Questions /\ jobs[j].question.life = restarts
          <5>1. jobs[j] \in Jobs
            BY <3>2 DEF TypeOK
          <5> QED BY <3>2, <5>1 DEF Jobs, AskedNow
        <4> QED BY <1>3, <2>2, <3>2, <4>1 DEF Questions
      <3>5. /\ astray' \subseteq {"card", "banner"}
            /\ "card" \notin astray => "card" \notin astray'
        BY <2>2, <3>1, <3>4 DEF TypeOK
      <3> QED BY <2>3, <2>4, <3>3, <3>5
    <2> QED BY <2>5, <2>6
  <1>4. command.type \in {"request_approval_demo", "plan_demo_action", "approval_response"}
    BY DEF Commands, Asking
  <1> QED
    BY <1>1, <1>2, <1>3, <1>4

-----------------------------------------------------------------------------
(* Frames and jobs name questions.                                         *)
LEMMA QuestionOf ==
  /\ \A frame \in Frames : frame.question \in Questions
  /\ \A job \in Jobs : job.question \in Questions
  BY DEF Frames, Jobs

(* What closes a question is in the summary of the frames it is in.        *)
LEMMA SumsUp ==
  ASSUME NEW s \in Seq(Frames)
  PROVE  /\ Resolutions(s) \subseteq Questions
         /\ \A q \in Questions : \A n \in DOMAIN s : s[n] = resolved(q) => q \in Resolutions(s)
  <1>1. \A n \in DOMAIN s : s[n] \in Frames /\ s[n].question \in Questions
    <2>1. \A n \in DOMAIN s : s[n] \in Frames
      OBVIOUS
    <2> QED BY <2>1, QuestionOf
  <1>2. \A q \in Questions : resolved(q).type = "approval_resolved" /\ resolved(q).question = q
    BY DEF resolved, Frame
  <1> QED BY <1>1, <1>2 DEF Resolutions

(* What is known of a question the views heed is not forgotten: if it was  *)
(* open, or its resolution missed, it still is, or that has happened now.  *)
Known(q) == Open(q) \/ q \in missed
Remembered == \A q \in Questions : q \in Heeded' /\ Known(q) => Known(q)'

(* The views stay covered when what they show does not change, what is     *)
(* added asks what is asked, and no question is dropped without its        *)
(* resolution being sent, or missed.                                       *)
LEMMA ViewsGrow ==
  ASSUME TypeOK, ViewInv, Remembered,
         card'.question = card.question, banner'.question = banner.question,
         NEW f \in Seq(Frames), toUi' \in {toUi, toUi \o f},
         \A n \in DOMAIN backlog' : backlog'[n].type # "approval_requested",
         \A n \in DOMAIN f : f[n].type = "approval_requested" => Asked(f[n].question)'
  PROVE  ViewInv'
  <1>0. toUi \in Seq(Frames)
    BY DEF TypeOK
  <1>1. \A n \in DOMAIN toUi : /\ n \in DOMAIN toUi' /\ toUi'[n] = toUi[n]
                               /\ toUi[n].question \in Questions
    <2>1. \A n \in DOMAIN toUi : n \in DOMAIN (toUi \o f) /\ (toUi \o f)[n] = toUi[n]
      BY <1>0, Longer
    <2>2. \A n \in DOMAIN toUi : toUi[n] \in Frames
      BY <1>0
    <2> QED BY <2>1, <2>2, QuestionOf
  <1>2. ASSUME NEW q \in Questions, q \in Heeded', NEW k, Covered(q, k) \/ q \in missed
        PROVE  Covered(q, k)' \/ q \in missed'
    <2>1. CASE Known(q)
      BY <1>2, <2>1 DEF Covered, Known, Remembered
    <2>2. CASE \E m \in DOMAIN toUi : m > k /\ toUi[m] = resolved(q)
      BY <1>1, <2>2 DEF Covered
    <2> QED BY <1>2, <2>1, <2>2 DEF Covered, Known
  <1>3. ASSUME NEW n \in DOMAIN toUi', toUi'[n].type = "approval_requested",
               NEW q, q = toUi'[n].question
        PROVE  Covered(q, n)' \/ q \in missed'
    <2>1. CASE n \in DOMAIN toUi
      <3>1. toUi[n].type = "approval_requested" /\ toUi[n].question = q /\ q \in Questions
        BY <1>1, <1>3, <2>1
      <3>2. Covered(q, n) \/ q \in missed
        BY <2>1, <3>1 DEF ViewInv
      <3>3. q \in Heeded'
        BY <1>3 DEF Heeded
      <3> QED BY <1>2, <3>1, <3>2, <3>3
    <2>2. CASE n \notin DOMAIN toUi
      <3>1. n \in DOMAIN (toUi \o f) /\ toUi' = toUi \o f
        BY <2>2
      <3>2. n - Len(toUi) \in DOMAIN f /\ toUi'[n] = f[n - Len(toUi)]
        BY <1>0, <2>2, <3>1, OldOrAdded
      <3>3. \A m \in DOMAIN f : f[m].type = "approval_requested" /\ f[m].question = q => Asked(q)'
        <4> TAKE m \in DOMAIN f
        <4>1. \A p : p = q => (Asked(p)' <=> Asked(q)')
          OBVIOUS
        <4> QED BY <4>1
      <3>4. Asked(q)'
        BY <1>3, <3>2, <3>3
      <3> QED BY <3>4 DEF Covered, Open, Asked
    <2> QED BY <2>1, <2>2
  <1>4. ASSUME NEW q \in {card.question, banner.question}, q # NoQuestion
        PROVE  Covered(q, 0)' \/ q \in missed'
    <2>1. q \in Questions /\ (Covered(q, 0) \/ q \in missed)
      BY <1>4 DEF ViewInv, Viewed, TypeOK
    <2>2. q \in Heeded'
      BY <1>4 DEF Heeded
    <2> QED BY <1>2, <2>1, <2>2
  <1>5. \A n \in DOMAIN toUi' : toUi'[n].type = "approval_requested" =>
           (Covered(toUi[n].question, n) \/ toUi[n].question \in missed)'
    BY <1>3
  <1>6. Viewed(card.question)' /\ Viewed(banner.question)'
    BY <1>4 DEF Viewed
  <1> QED
    BY <1>5, <1>6 DEF ViewInv

(* The same where the queue of events and the history stay as they are.    *)
LEMMA ViewsKept ==
  ASSUME TypeOK, ViewInv,
         card'.question = card.question, banner'.question = banner.question,
         UNCHANGED <<backlog, missed>>,
         NEW f \in Seq(Frames), toUi' \in {toUi, toUi \o f},
         \A n \in DOMAIN f : f[n].type = "approval_requested" => Asked(f[n].question)',
         \A q : Asked(q) => Asked(q)'
  PROVE  ViewInv'
  <1>1. Remembered
    BY DEF Open, Known, Asked, Remembered
  <1>2. \A n \in DOMAIN backlog' : backlog'[n].type # "approval_requested"
    BY DEF ViewInv
  <1> QED BY <1>1, <1>2, ViewsGrow
-----------------------------------------------------------------------------
(* One lemma per kind of step.                                             *)

LEMMA CommandsLess ==
  ASSUME NEW s \in Seq(Commands), s # << >>, CardsOwn(s)
  PROVE  /\ Head(s) \in Commands /\ Tail(s) \in Seq(Commands) /\ CardsOwn(Tail(s))
         /\ Head(s).type = "approval_response" /\ Head(s).view = "card" =>
              Head(s).question.life = restarts
  <1>1. /\ Head(s) \in Commands /\ Head(s) = s[1] /\ 1 \in DOMAIN s
        /\ Tail(s) \in Seq(Commands)
        /\ \A n \in DOMAIN Tail(s) : n + 1 \in DOMAIN s /\ Tail(s)[n] = s[n + 1]
    BY OneLess
  <1> QED BY <1>1 DEF CardsOwn

(* A command handled on the UI's connection or for one that is lost.       *)
LEMMA HandlerStep ==
  ASSUME SessionInv, Dispatch \/ DispatchOld
  PROVE  SessionInv'
  <1>0. TypeOK /\ LifeInv /\ ViewInv /\ AskedNow /\ "card" \notin astray
    BY DEF SessionInv, LifeInv, AskedNow, CardAnswersWhatItShows
  <1>1. PICK by \in {"ui", "old"}, command \in Commands :
          /\ command.type = "approval_response" /\ command.view = "card" =>
               command.question.life = restarts
          /\ Handle(by, command)
          /\ up /\ (by = "ui" => link = "up")
          /\ toCore' \in Seq(Commands) /\ old' \in Seq(Commands)
          /\ CardsOwn(toCore)' /\ CardsOwn(old)'
          /\ link # "up" => toCore' = << >>
          /\ UNCHANGED <<up, restarts, earlier, losses, backlog, lagged, link, ui, gone>>
    <2>1. CASE Dispatch
      <3>1. /\ Head(toCore) \in Commands /\ Tail(toCore) \in Seq(Commands)
            /\ CardsOwn(Tail(toCore))
            /\ Head(toCore).type = "approval_response" /\ Head(toCore).view = "card" =>
                 Head(toCore).question.life = restarts
        BY <1>0, <2>1, CommandsLess DEF Dispatch, TypeOK, LifeInv
      <3>2. /\ Handle("ui", Head(toCore)) /\ up /\ link = "up" /\ toCore' = Tail(toCore)
            /\ UNCHANGED <<up, restarts, earlier, losses, old, backlog, lagged, link, ui, gone>>
        BY <2>1 DEF Dispatch
      <3>3. CardsOwn(toCore)' /\ CardsOwn(old)' /\ old' \in Seq(Commands)
        BY <1>0, <3>1, <3>2 DEF CardsOwn, LifeInv, TypeOK
      <3> QED BY <3>1, <3>2, <3>3
    <2>2. CASE DispatchOld
      <3>1. /\ Head(old) \in Commands /\ Tail(old) \in Seq(Commands)
            /\ CardsOwn(Tail(old))
            /\ Head(old).type = "approval_response" /\ Head(old).view = "card" =>
                 Head(old).question.life = restarts
        BY <1>0, <2>2, CommandsLess DEF DispatchOld, TypeOK, LifeInv
      <3>2. /\ Handle("old", Head(old)) /\ up /\ old' = Tail(old)
            /\ UNCHANGED <<up, restarts, earlier, losses, toCore, backlog, lagged, link, ui, gone>>
        BY <2>2 DEF DispatchOld
      <3>3. CardsOwn(toCore)' /\ CardsOwn(old)' /\ toCore' \in Seq(Commands)
            /\ (link # "up" => toCore' = << >>)
        BY <1>0, <3>1, <3>2 DEF CardsOwn, LifeInv, TypeOK
      <3> QED BY <3>1, <3>2, <3>3
    <2> QED BY <2>1, <2>2
  <1>2. /\ JobsKept /\ approvals' \in Nat /\ astray' \subseteq {"card", "banner"}
        /\ "card" \notin astray'
        /\ \E f : Returns(f) /\ toUi' = IF by = "ui" THEN toUi \o f ELSE toUi
    BY <1>0, <1>1, HandleIs
  <1>3. PICK f : Returns(f) /\ toUi' = IF by = "ui" THEN toUi \o f ELSE toUi
    BY <1>2
  <1>4. f \in Seq(Frames) /\ toUi' \in Seq(Frames)
    BY <1>0, <1>3, Longer DEF Returns, TypeOK
  <1>5. TypeOK'
    BY <1>0, <1>1, <1>2, <1>4 DEF TypeOK, JobsKept, ui, gone
  <1>6. LifeInv'
    <2>1. ASSUME link = "up", NEW n \in DOMAIN toUi', toUi'[n].type = "approval_requested"
          PROVE  OfThisLife(toUi'[n].question)
      <3>1. CASE n \in DOMAIN toUi /\ toUi'[n] = toUi[n]
        BY <1>0, <2>1, <3>1 DEF LifeInv
      <3>2. CASE n - Len(toUi) \in DOMAIN f /\ toUi'[n] = f[n - Len(toUi)]
        BY <1>3, <2>1, <3>2 DEF Returns, OfThisLife
      <3>3. \/ n \in DOMAIN toUi /\ toUi'[n] = toUi[n]
            \/ n - Len(toUi) \in DOMAIN f /\ toUi'[n] = f[n - Len(toUi)]
        BY <1>0, <1>3, <1>4, OldOrAdded DEF TypeOK
      <3> QED BY <3>1, <3>2, <3>3
    <2>2. link # "up" => toUi' = toUi
      BY <1>1, <1>3
    <2>3. UNCHANGED <<up, restarts, losses, backlog, lagged, link, card, banner>> /\ up
      BY <1>1 DEF ui
    <2>4. \A n \in DOMAIN jobs' : jobs'[n].phase = "asked" => jobs'[n].question.life = restarts'
      BY <1>2, <2>3 DEF JobsKept
    <2>5. link' = "up" => \A n \in DOMAIN toUi' :
            toUi'[n].type = "approval_requested" => OfThisLife(toUi[n].question)'
      BY <2>1, <2>3 DEF OfThisLife
    <2> QED BY <1>0, <1>1, <2>2, <2>3, <2>4, <2>5 DEF LifeInv, OfThisLife
  <1>7. ViewInv'
    <2>1. /\ card' = card /\ banner' = banner /\ toUi' \in {toUi, toUi \o f}
          /\ UNCHANGED <<backlog, missed>>
      BY <1>1, <1>3 DEF ui, gone
    <2>2. /\ \A n \in DOMAIN f : f[n].type = "approval_requested" => Asked(f[n].question)'
          /\ \A q : Asked(q) => Asked(q)'
      BY <1>2, <1>3 DEF Returns, JobsKept
    <2> QED BY <1>0, <1>4, <2>1, <2>2, ViewsKept
  <1> QED
    BY <1>2, <1>5, <1>6, <1>7 DEF SessionInv, CardAnswersWhatItShows

(* The other client, and the clock.                                        *)
LEMMA GateStep ==
  ASSUME SessionInv,
         \/ \E request \in OtherRequests : OtherInteraction(request)
         \/ \E j \in DOMAIN jobs : \/ Deadline(j)
                                   \/ \E decision \in Decisions : OtherAnswers(j, decision)
  PROVE  SessionInv'
  <1>0. TypeOK /\ LifeInv /\ ViewInv /\ AskedNow /\ "card" \notin astray
    BY DEF SessionInv, LifeInv, AskedNow, CardAnswersWhatItShows
  <1>1. /\ JobsKept /\ approvals' \in Nat /\ up
        /\ UNCHANGED <<up, restarts, earlier, net, ui, astray, gone>>
    <2>1. CASE \E request \in OtherRequests : OtherInteraction(request)
      <3>1. PICK request \in OtherRequests : OtherInteraction(request)
        BY <2>1
      <3>2. PICK q : q = NextQuestion
        OBVIOUS
      <3>3. JobsKept /\ approvals' \in Nat
        BY <1>0, <3>1, <3>2, AskingKept DEF OtherInteraction
      <3> QED BY <3>1, <3>3 DEF OtherInteraction
    <2>2. ASSUME NEW j \in DOMAIN jobs,
                 Deadline(j) \/ \E decision \in Decisions : OtherAnswers(j, decision)
          PROVE  /\ JobsKept /\ approvals' \in Nat /\ up
                 /\ UNCHANGED <<up, restarts, earlier, net, ui, astray, gone>>
      <3>1. PICK d \in Decisions \cup {"timed_out"} :
              /\ up /\ jobs[j].phase = "asked"
              /\ jobs' = [jobs EXCEPT ![j].phase = "answered", ![j].verdict = d]
              /\ UNCHANGED <<up, restarts, earlier, approvals, net, ui, astray, gone>>
        BY <2>2 DEF Deadline, OtherAnswers
      <3>2. JobsKept
        BY <1>0, <3>1, JobAnswered
      <3> QED BY <1>0, <3>1, <3>2 DEF TypeOK
    <2> QED BY <2>1, <2>2
  <1>2. UNCHANGED <<up, restarts, losses, earlier, toCore, old, backlog, lagged, toUi, link,
                    card, banner, astray, missed, endLost>>
    BY <1>1 DEF net, ui, gone
  <1>3. TypeOK'
    BY <1>0, <1>1, <1>2 DEF TypeOK, JobsKept
  <1>4. LifeInv'
    BY <1>0, <1>1, <1>2 DEF LifeInv, JobsKept, OfThisLife, CardsOwn
  <1>5. ViewInv'
    <2>1. << >> \in Seq(Frames) /\ DOMAIN << >> = {}
      OBVIOUS
    <2>2. \A q : Asked(q) => Asked(q)'
      BY <1>1 DEF JobsKept
    <2> QED BY <1>0, <1>2, <2>1, <2>2, ViewsKept
  <1> QED
    BY <1>0, <1>2, <1>3, <1>4, <1>5 DEF SessionInv, CardAnswersWhatItShows

(* What a broadcast makes of the queue and the histories: no resolution    *)
(* the views wait for, queued or new, gets lost unrecorded.                *)
Sent(q, frames) ==
  \/ \E n \in DOMAIN backlog : backlog[n] = resolved(q)
  \/ \E n \in DOMAIN frames : frames[n] = resolved(q)
StillSent(q) == (\E n \in DOMAIN backlog' : backlog'[n] = resolved(q)) \/ q \in missed'

LEMMA BroadcastIs ==
  ASSUME TypeOK, ViewInv, NEW frames \in Seq(Frames),
         \A n \in DOMAIN frames : frames[n].type # "approval_requested",
         Broadcast(frames)
  PROVE  /\ backlog' \in Seq(Frames) /\ lagged' \in BOOLEAN
         /\ missed' \subseteq Questions /\ endLost' \in BOOLEAN
         /\ link # "up" => UNCHANGED <<backlog, lagged>>
         /\ \A n \in DOMAIN backlog' : backlog'[n].type # "approval_requested"
         /\ \A q \in Questions : q \in Heeded' =>
              /\ q \in missed => q \in missed'
              /\ Sent(q, frames) => StillSent(q)
  <1> DEFINE queue == backlog \o frames
             over  == IF Len(queue) > Capacity THEN Len(queue) - Capacity ELSE 0
             lost  == SubSeq(queue, 1, over)
             kept  == SubSeq(queue, over + 1, Len(queue))
  <1>0. backlog \in Seq(Frames) /\ missed \subseteq Questions /\ endLost \in BOOLEAN
        /\ lagged \in BOOLEAN
    BY DEF TypeOK
  <1>1. /\ queue \in Seq(Frames) /\ Len(queue) \in Nat /\ DOMAIN queue = 1 .. Len(queue)
        /\ over \in 0 .. Len(queue)
    <2>1. queue \in Seq(Frames)
      BY <1>0, Longer
    <2> HIDE DEF queue
    <2> QED BY <2>1, CapacityAssumption
  <1>2. \A n \in DOMAIN queue : queue[n].type # "approval_requested"
    BY <1>0, OldOrAdded DEF ViewInv
  <1>3. CASE link # "up"
    <2>1. UNCHANGED <<backlog, lagged, endLost>> /\ Misses(Resolutions(frames))
      BY <1>3 DEF Broadcast
    <2>2. missed' = (missed \cup Resolutions(frames)) \cap Heeded'
      BY <2>1 DEF Misses
    <2>3. /\ Resolutions(frames) \subseteq Questions
          /\ \A q \in Questions : \A n \in DOMAIN frames :
               frames[n] = resolved(q) => q \in Resolutions(frames)
      BY SumsUp
    <2> QED BY <1>0, <1>3, <2>1, <2>2, <2>3 DEF ViewInv, Sent, StillSent
  <1>4. CASE link = "up"
    <2>1. /\ backlog' = kept /\ lagged' = (lagged \/ over > 0)
          /\ endLost' = (endLost \/ HasEnd(lost)) /\ Misses(Resolutions(lost))
      BY <1>4 DEF Broadcast
    <2> HIDE DEF queue, over
    <2>2. /\ lost \in Seq(Frames) /\ DOMAIN lost = 1 .. over
          /\ \A n \in 1 .. over : lost[n] = queue[n]
      BY <1>1
    <2>3. /\ kept \in Seq(Frames) /\ DOMAIN kept = 1 .. Len(queue) - over
          /\ \A n \in 1 .. Len(queue) - over : n + over \in DOMAIN queue /\ kept[n] = queue[n + over]
      BY <1>1
    <2> HIDE DEF lost, kept
    <2>4. /\ Resolutions(lost) \subseteq Questions
          /\ \A q \in Questions : \A n \in DOMAIN lost : lost[n] = resolved(q) =>
               q \in Resolutions(lost)
      BY <2>2, SumsUp
    <2>5. missed' = (missed \cup Resolutions(lost)) \cap Heeded'
      BY <2>1 DEF Misses
    <2>6. ASSUME NEW q \in Questions, q \in Heeded', NEW n \in DOMAIN queue, queue[n] = resolved(q)
          PROVE  StillSent(q)
      <3>1. CASE n <= over
        <4>1. n \in DOMAIN lost /\ lost[n] = resolved(q)
          BY <1>1, <2>2, <2>6, <3>1
        <4> QED BY <2>4, <2>5, <2>6, <4>1 DEF StillSent
      <3>2. CASE ~ (n <= over)
        <4>1. n - over \in 1 .. Len(queue) - over /\ (n - over) + over = n
          BY <1>1, <3>2
        <4>2. n - over \in DOMAIN kept /\ kept[n - over] = resolved(q)
          BY <2>3, <2>6, <4>1
        <4> QED BY <2>1, <4>2 DEF StillSent
      <3> QED BY <3>1, <3>2
    <2>7. ASSUME NEW q \in Questions, Sent(q, frames)
          PROVE  \E n \in DOMAIN queue : queue[n] = resolved(q)
      <3>1. /\ \A n \in DOMAIN backlog : n \in DOMAIN queue /\ queue[n] = backlog[n]
            /\ \A n \in DOMAIN frames :
                 Len(backlog) + n \in DOMAIN queue /\ queue[Len(backlog) + n] = frames[n]
        BY <1>0, Longer DEF queue
      <3> QED BY <2>7, <3>1 DEF Sent
    <2>8. \A n \in DOMAIN backlog' : backlog'[n].type # "approval_requested"
      BY <1>2, <2>1, <2>3
    <2>9. backlog' \in Seq(Frames) /\ missed' \subseteq Questions
      BY <1>0, <2>1, <2>3, <2>4, <2>5
    <2>10. lagged' \in BOOLEAN /\ endLost' \in BOOLEAN
      BY <2>1
    <2> QED BY <1>4, <2>5, <2>6, <2>7, <2>8, <2>9, <2>10
  <1> QED BY <1>3, <1>4

(* A task past its gate; the one that closes it sends the resolution.      *)
LEMMA TaskKeeps ==
  ASSUME SessionInv, NEW j \in DOMAIN jobs,
         NEW from \in {"answered", "announced", "started", "stepped", "reporting"},
         NEW job \in Jobs, job.phase \notin {"asked", "answered"},
         NEW frames \in Seq(Frames),
         \A n \in DOMAIN frames : frames[n].type # "approval_requested",
         from = "answered" => \E n \in DOMAIN frames : frames[n] = resolved(jobs[j].question),
         JobStep(j, from, job, frames)
  PROVE  SessionInv'
  <1>0. TypeOK /\ LifeInv /\ ViewInv /\ AskedNow /\ "card" \notin astray
    BY DEF SessionInv, LifeInv, AskedNow, CardAnswersWhatItShows
  <1>1. /\ up /\ jobs[j].phase = from /\ jobs' = [jobs EXCEPT ![j] = job]
        /\ Broadcast(frames)
        /\ UNCHANGED <<up, restarts, earlier, approvals, losses, toCore, old, toUi, link,
                       card, banner, astray>>
    BY DEF JobStep, ui
  <1>2. /\ jobs' \in Seq(Jobs) /\ DOMAIN jobs' = DOMAIN jobs /\ jobs'[j] = job
        /\ \A n \in DOMAIN jobs : n # j => jobs'[n] = jobs[n]
    BY <1>0, <1>1, Written DEF TypeOK
  <1>3. /\ backlog' \in Seq(Frames) /\ lagged' \in BOOLEAN
        /\ missed' \subseteq Questions /\ endLost' \in BOOLEAN
        /\ link # "up" => UNCHANGED <<backlog, lagged>>
        /\ \A n \in DOMAIN backlog' : backlog'[n].type # "approval_requested"
        /\ \A q \in Questions : q \in Heeded' =>
             /\ q \in missed => q \in missed'
             /\ Sent(q, frames) => StillSent(q)
    BY <1>0, <1>1, BroadcastIs
  <1>4. TypeOK'
    BY <1>0, <1>1, <1>2, <1>3 DEF TypeOK
  <1>5. LifeInv'
    <2>1. \A n \in DOMAIN jobs' : jobs'[n].phase = "asked" => jobs'[n].question.life = restarts
      BY <1>0, <1>2 DEF AskedNow
    <2>2. link # "up" => backlog' = backlog /\ lagged' = lagged
      BY <1>3
    <2> QED BY <1>0, <1>1, <2>1, <2>2 DEF LifeInv, OfThisLife, CardsOwn
  <1>6. ASSUME NEW q \in Questions, q \in Heeded', Open(q)
        PROVE  Known(q)'
    <2>1. Sent(q, frames) => Known(q)'
      BY <1>3, <1>6 DEF StillSent, Known, Open
    <2>2. CASE Asked(q)
      <3>1. PICK i \in DOMAIN jobs : jobs[i].question = q /\ jobs[i].phase \in {"asked", "answered"}
        BY <2>2 DEF Asked
      <3>2. CASE i # j
        BY <1>2, <3>1, <3>2 DEF Known, Open
      <3>3. CASE i = j
        <4>1. from = "answered" /\ jobs[j].question = q
          BY <1>1, <3>1, <3>3
        <4> QED BY <2>1, <4>1 DEF Sent
      <3> QED BY <3>2, <3>3
    <2> QED BY <1>6, <2>1, <2>2 DEF Open, Asked, Sent
  <1>7. ViewInv'
    <2>1. << >> \in Seq(Frames) /\ DOMAIN << >> = {}
      OBVIOUS
    <2>2. Remembered
      BY <1>3, <1>6 DEF Remembered, Known
    <2> QED BY <1>0, <1>1, <1>3, <2>1, <2>2, ViewsGrow
  <1> QED
    BY <1>0, <1>1, <1>4, <1>5, <1>7 DEF SessionInv, CardAnswersWhatItShows

LEMMA OneFrame ==
  ASSUME NEW x \in Frames, x.type # "approval_requested"
  PROVE  /\ << x >> \in Seq(Frames) /\ 1 \in DOMAIN << x >> /\ << x >>[1] = x
         /\ \A n \in DOMAIN << x >> : << x >>[n].type # "approval_requested"
  <1>1. /\ << x >> \in Seq(Frames) /\ DOMAIN << x >> = {1} /\ << x >>[1] = x
    OBVIOUS
  <1> QED BY <1>1

LEMMA TaskStep ==
  ASSUME SessionInv, NEW j \in DOMAIN jobs,
         Task(j) \/ \E helper \in Helpers : InteractionRuns(j, helper)
  PROVE  SessionInv'
  <1>0. TypeOK /\ jobs[j] \in Jobs
    BY DEF SessionInv, TypeOK
  <1>1. Finished \in Jobs /\ Finished.phase = "done"
    <2>1. << >> \in Seq(ActionFrames)
      OBVIOUS
    <2> QED BY <2>1, NoQuestionIs DEF Finished, Job, Jobs
  <1>2. ASSUME NEW phase \in {"announced", "started", "stepped"}
        PROVE  /\ To(j, phase) \in Jobs /\ To(j, phase).phase = phase
               /\ [To(j, phase) EXCEPT !.question = NoQuestion] \in Jobs
               /\ [To(j, phase) EXCEPT !.question = NoQuestion].phase = phase
    BY <1>0, NoQuestionIs DEF To, Jobs
  <1>3. ASSUME NEW type \in {"action_cancelled", "action_started", "action_step", "action_completed"}
        PROVE  /\ Of(type) \in Seq(Frames)
               /\ \A n \in DOMAIN Of(type) : Of(type)[n].type # "approval_requested"
    BY FrameIs, NoQuestionIs, OneFrame DEF Of, FrameTypes, Ended
  <1>4. CASE Announce(j)
    <2> DEFINE x == resolved(jobs[j].question)
    <2>1. x \in Frames /\ x.type = "approval_resolved"
      BY <1>0, FrameIs DEF resolved, FrameTypes, Jobs
    <2>2. Announced(j) \in Jobs /\ Announced(j).phase \notin {"asked", "answered"}
      BY <1>1, <1>2 DEF Announced
    <2>3. JobStep(j, "answered", Announced(j), << x >>)
      BY <1>4 DEF Announce
    <2> HIDE DEF x
    <2>4. /\ << x >> \in Seq(Frames) /\ 1 \in DOMAIN << x >> /\ << x >>[1] = x
          /\ \A n \in DOMAIN << x >> : << x >>[n].type # "approval_requested"
      BY <2>1, OneFrame
    <2>5. \E n \in DOMAIN << x >> : << x >>[n] = resolved(jobs[j].question)
      BY <2>4 DEF x
    <2> QED BY <2>2, <2>3, <2>4, <2>5, TaskKeeps
  <1>5. CASE Refused(j)
    <2>1. JobStep(j, "announced", Finished, Of("action_cancelled"))
      BY <1>5 DEF Refused
    <2> QED BY <1>1, <1>3, <2>1, TaskKeeps
  <1>6. CASE PlanStarts(j)
    <2>1. JobStep(j, "announced", To(j, "started"), Of("action_started"))
      BY <1>6 DEF PlanStarts
    <2> QED BY <1>2, <1>3, <2>1, TaskKeeps
  <1>7. CASE PlanSteps(j)
    <2>1. JobStep(j, "started", To(j, "stepped"), Of("action_step"))
      BY <1>7 DEF PlanSteps
    <2> QED BY <1>2, <1>3, <2>1, TaskKeeps
  <1>8. CASE PlanCompletes(j)
    <2>1. JobStep(j, "stepped", Finished, Of("action_completed"))
      BY <1>8 DEF PlanCompletes
    <2> QED BY <1>1, <1>3, <2>1, TaskKeeps
  <1>9. ASSUME NEW from \in {"announced", "reporting"},
               NEW frames \in Seq(ActionFrames),
               Sends(j, from, frames)
        PROVE  SessionInv'
    <2> DEFINE x == Head(frames)
               rest == Tail(frames)
    <2>1. frames # << >> /\ JobStep(j, from, Reporting(rest), << x >>)
      BY <1>9 DEF Sends
    <2>2. x \in ActionFrames /\ rest \in Seq(ActionFrames)
      BY <2>1
    <2> HIDE DEF x, rest
    <2>3. Reporting(rest) \in Jobs /\ Reporting(rest).phase \in {"done", "reporting"}
      <3>1. CASE rest = << >>
        BY <1>1, <3>1 DEF Reporting
      <3>2. CASE rest # << >>
        BY <1>1, <2>2, <3>2 DEF Reporting, Jobs
      <3> QED BY <3>1, <3>2
    <2>4. /\ << x >> \in Seq(Frames)
          /\ \A n \in DOMAIN << x >> : << x >>[n].type # "approval_requested"
      BY <2>2, OneFrame DEF ActionFrames
    <2> QED BY <2>1, <2>3, <2>4, TaskKeeps
  <1>10. CASE \E helper \in Helpers : InteractionRuns(j, helper)
    <2>1. PICK helper \in Helpers : InteractionRuns(j, helper)
      BY <1>10
    <2> DEFINE frames == Seen(run_approved(BackendConfig, jobs[j].action, helper))
    <2>2. Sends(j, "announced", frames)
      BY <2>1 DEF InteractionRuns
    <2>3. frames \in Seq(ActionFrames)
      BY RunFrames
    <2> HIDE DEF frames
    <2> QED BY <1>9, <2>2, <2>3
  <1>11. CASE Reports(j)
    <2>1. jobs[j].frames \in Seq(ActionFrames)
      BY <1>0 DEF Jobs
    <2> QED BY <1>9, <1>11, <2>1 DEF Reports
  <1> QED
    BY <1>4, <1>5, <1>6, <1>7, <1>8, <1>10, <1>11 DEF Task

(* A lag that is noticed changes nothing the UI could see.                 *)
LEMMA LagStep ==
  ASSUME SessionInv, NoticeLag
  PROVE  SessionInv'
  <1>0. TypeOK /\ LifeInv /\ ViewInv /\ "card" \notin astray
    BY DEF SessionInv, CardAnswersWhatItShows
  <1>1. /\ lagged' = FALSE
        /\ UNCHANGED <<up, restarts, earlier, jobs, approvals, losses, toCore, old, backlog, toUi,
                       link, card, banner, astray, missed, endLost>>
    BY DEF NoticeLag, core, ui, gone
  <1>2. TypeOK'
    BY <1>0, <1>1 DEF TypeOK
  <1>3. LifeInv'
    BY <1>0, <1>1 DEF LifeInv, OfThisLife, CardsOwn
  <1>4. ViewInv'
    BY <1>0, <1>1 DEF ViewInv, Viewed, Covered, Open
  <1> QED
    BY <1>0, <1>1, <1>2, <1>3, <1>4 DEF SessionInv, CardAnswersWhatItShows

(* An event moves from one queue to the end of the next.                   *)
LEMMA ForwardStep ==
  ASSUME SessionInv, ForwardEvent
  PROVE  SessionInv'
  <1>0. TypeOK /\ LifeInv /\ ViewInv /\ "card" \notin astray
    BY DEF SessionInv, CardAnswersWhatItShows
  <1> DEFINE x == Head(backlog)
  <1>1. /\ up /\ link = "up" /\ backlog # << >>
        /\ toUi' = Append(toUi, x) /\ backlog' = Tail(backlog)
        /\ UNCHANGED <<up, restarts, earlier, jobs, approvals, losses, toCore, old, lagged, link,
                       card, banner, astray, missed, endLost>>
    BY DEF ForwardEvent, core, ui, gone
  <1>2. /\ x \in Frames /\ x = backlog[1] /\ 1 \in DOMAIN backlog
        /\ Tail(backlog) \in Seq(Frames)
        /\ DOMAIN backlog = 1 .. Len(backlog) /\ Len(backlog) \in Nat
        /\ DOMAIN Tail(backlog) = 1 .. Len(backlog) - 1
        /\ \A n \in DOMAIN Tail(backlog) : Tail(backlog)[n] = backlog[n + 1]
    BY <1>0, <1>1, OneLess DEF TypeOK
  <1> HIDE DEF x
  <1>3. /\ toUi' \in Seq(Frames) /\ DOMAIN toUi = 1 .. Len(toUi) /\ Len(toUi) \in Nat
        /\ DOMAIN toUi' = 1 .. Len(toUi) + 1
        /\ \A n \in DOMAIN toUi : toUi'[n] = toUi[n]
        /\ toUi'[Len(toUi) + 1] = x
    BY <1>0, <1>1, <1>2, OneMore DEF TypeOK
  <1>4. x.type # "approval_requested"
    BY <1>0, <1>2 DEF ViewInv
  <1>5. \A n \in DOMAIN toUi' : (n \in DOMAIN toUi /\ n <= Len(toUi)) \/ n = Len(toUi) + 1
    BY <1>3
  <1>6. TypeOK'
    BY <1>0, <1>1, <1>2, <1>3 DEF TypeOK
  <1>7. LifeInv'
    <2>1. \A n \in DOMAIN toUi' : toUi'[n].type = "approval_requested" => OfThisLife(toUi'[n].question)
      BY <1>0, <1>1, <1>3, <1>4, <1>5 DEF LifeInv
    <2> QED BY <1>0, <1>1, <2>1 DEF LifeInv, OfThisLife, CardsOwn
  <1>8. ASSUME NEW q, NEW k \in 0 .. Len(toUi), Covered(q, k)
        PROVE  Covered(q, k)'
    <2>1. CASE \E j \in DOMAIN jobs : jobs[j].question = q /\ jobs[j].phase \in {"asked", "answered"}
      BY <1>1, <2>1 DEF Covered, Open
    <2>2. CASE \E n \in DOMAIN backlog : backlog[n] = resolved(q)
      <3>1. PICK n \in DOMAIN backlog : backlog[n] = resolved(q)
        BY <2>2
      <3>2. CASE n = 1
        <4>1. Len(toUi) + 1 \in DOMAIN toUi' /\ Len(toUi) + 1 > k /\ toUi'[Len(toUi) + 1] = resolved(q)
          BY <1>2, <1>3, <3>1, <3>2
        <4> QED BY <4>1 DEF Covered
      <3>3. CASE n # 1
        <4>1. n - 1 \in DOMAIN Tail(backlog) /\ n - 1 + 1 = n
          BY <1>2, <3>1, <3>3
        <4>2. Tail(backlog)[n - 1] = resolved(q)
          BY <1>2, <3>1, <4>1
        <4> QED BY <1>1, <4>1, <4>2 DEF Covered, Open
      <3> QED BY <3>2, <3>3
    <2>3. CASE \E m \in DOMAIN toUi : m > k /\ toUi[m] = resolved(q)
      <3>1. PICK m \in DOMAIN toUi : m > k /\ toUi[m] = resolved(q)
        BY <2>3
      <3>2. m \in DOMAIN toUi' /\ toUi'[m] = resolved(q)
        BY <1>3, <3>1
      <3> QED BY <3>1, <3>2 DEF Covered
    <2> QED BY <1>8, <2>1, <2>2, <2>3 DEF Covered, Open
  <1>9. ViewInv'
    <2>1. \A n \in DOMAIN backlog' : backlog'[n].type # "approval_requested"
      BY <1>0, <1>1, <1>2 DEF ViewInv
    <2>2. ASSUME NEW n \in DOMAIN toUi', toUi'[n].type = "approval_requested",
                 NEW q, q = toUi'[n].question
          PROVE  Covered(q, n)' \/ q \in missed
      <3>1. n \in DOMAIN toUi /\ n \in 0 .. Len(toUi) /\ toUi[n] = toUi'[n]
        BY <1>3, <1>4, <1>5, <2>2
      <3>2. Covered(q, n) \/ q \in missed
        BY <1>0, <2>2, <3>1 DEF ViewInv
      <3> QED BY <1>8, <3>1, <3>2
    <2>3. 0 \in 0 .. Len(toUi)
      BY <1>3
    <2>4. ASSUME NEW q \in {card.question, banner.question}, q # NoQuestion
          PROVE  Covered(q, 0)' \/ q \in missed
      BY <1>0, <1>8, <2>3, <2>4 DEF ViewInv, Viewed
    <2>5. Viewed(card.question)' /\ Viewed(banner.question)'
      BY <1>1, <2>4 DEF Viewed
    <2>6. \A n \in DOMAIN toUi' : toUi'[n].type = "approval_requested" =>
            (Covered(toUi[n].question, n) \/ toUi[n].question \in missed)'
      BY <1>1, <2>2
    <2> QED BY <2>1, <2>5, <2>6 DEF ViewInv
  <1> QED
    BY <1>0, <1>1, <1>6, <1>7, <1>9 DEF SessionInv, CardAnswersWhatItShows

-----------------------------------------------------------------------------
(* The connection comes and goes, and so does the core.                    *)
LEMMA ConnectionStep ==
  ASSUME SessionInv, CoreDies \/ CoreStarts \/ LinkDrops \/ UiNotices \/ UiConnects
  PROVE  SessionInv'
  <1>0. TypeOK /\ LifeInv /\ ViewInv /\ "card" \notin astray
    BY DEF SessionInv, CardAnswersWhatItShows
  <1>1. NoQuestion \in Questions
    BY NoQuestionIs
  <1>2. << >> \in Seq(Commands) /\ << >> \in Seq(Frames) /\ << >> \in Seq(Jobs) /\ DOMAIN << >> = {}
    OBVIOUS
  <1>3. /\ Resolutions(backlog) \subseteq Questions /\ Resolutions(toUi) \subseteq Questions
        /\ \A q \in Questions : \A n \in DOMAIN backlog :
             backlog[n] = resolved(q) => q \in Resolutions(backlog)
        /\ \A q \in Questions : \A n \in DOMAIN toUi :
             toUi[n] = resolved(q) => q \in Resolutions(toUi)
    BY <1>0, SumsUp DEF TypeOK
  <1>4. ASSUME UNCHANGED <<toUi, card, banner>>, backlog' \in {<< >>, backlog},
               \A q \in Questions : q \in Heeded' /\ Known(q) => Known(q)'
        PROVE  ViewInv'
    <2>1. \A n \in DOMAIN backlog' : backlog'[n].type # "approval_requested"
      BY <1>0, <1>2, <1>4 DEF ViewInv
    <2> QED BY <1>0, <1>2, <1>4, <2>1, ViewsGrow DEF Remembered
  <1>5. CASE CoreDies
    <2>1. /\ up /\ up' = FALSE /\ losses' = losses + 1 /\ earlier' = earlier + Len(jobs)
          /\ jobs' = << >> /\ approvals' = 0 /\ toCore' = << >> /\ old' = << >> /\ backlog' = << >>
          /\ lagged' = FALSE /\ link' = (IF link = "up" THEN "broken" ELSE link)
          /\ missed' = (missed \cup Resolutions(backlog) \cup {jobs[j].question : j \in Undecided})
                       \cap Heeded'
          /\ UNCHANGED <<restarts, toUi, card, banner, astray, endLost>>
      BY <1>5 DEF CoreDies, ui, Misses
    <2>2. losses' \in Nat /\ earlier' \in Nat /\ Len(jobs) \in Nat
      BY <1>0, <2>1 DEF TypeOK
    <2>3. missed' \subseteq Questions
      <3>1. \A j \in Undecided : jobs[j].question \in Questions
        <4>1. \A j \in Undecided : jobs[j] \in Jobs
          BY <1>0 DEF TypeOK, Undecided
        <4> QED BY <4>1, QuestionOf
      <3> QED BY <1>0, <1>3, <2>1, <3>1 DEF TypeOK
    <2>4. TypeOK'
      BY <1>0, <1>2, <2>1, <2>2, <2>3 DEF TypeOK
    <2>5. link' # "up" /\ (link' = "down" => link = "down")
      BY <2>1
    <2>6. LifeInv'
      BY <1>0, <1>2, <2>1, <2>2, <2>5 DEF LifeInv, CardsOwn
    <2>7. \A q \in Questions : q \in Heeded' /\ Known(q) => q \in missed'
      BY <1>3, <2>1 DEF Known, Open, Undecided
    <2>8. ViewInv'
      BY <1>4, <2>1, <2>7 DEF Known
    <2> QED BY <1>0, <2>1, <2>4, <2>6, <2>8 DEF SessionInv, CardAnswersWhatItShows
  <1>6. CASE CoreStarts
    <2>1. /\ ~ up /\ up' = TRUE /\ restarts' = restarts + 1
          /\ UNCHANGED <<earlier, jobs, approvals, losses, toCore, old, backlog, lagged, toUi, link,
                         card, banner, astray, missed, endLost>>
      BY <1>6 DEF CoreStarts, net, ui, gone
    <2>2. link # "up" /\ jobs = << >> /\ old = << >> /\ toCore = << >> /\ backlog = << >>
      BY <1>0, <2>1 DEF LifeInv
    <2>3. TypeOK'
      BY <1>0, <2>1 DEF TypeOK
    <2>4. LifeInv'
      BY <1>0, <1>2, <2>1, <2>2 DEF LifeInv, CardsOwn
    <2>5. \A q \in Questions : Known(q) => Known(q)'
      BY <2>1 DEF Known, Open
    <2>6. ViewInv'
      BY <1>4, <2>1, <2>5
    <2> QED BY <1>0, <2>1, <2>3, <2>4, <2>6 DEF SessionInv, CardAnswersWhatItShows
  <1>7. CASE LinkDrops
    <2>1. PICK n \in 0 .. Len(toCore) : old' = old \o SubSeq(toCore, 1, n)
      BY <1>7 DEF LinkDrops
    <2>2. /\ up /\ link = "up" /\ losses' = losses + 1
          /\ toCore' = << >> /\ backlog' = << >> /\ lagged' = FALSE /\ link' = "broken"
          /\ missed' = (missed \cup Resolutions(backlog)) \cap Heeded'
          /\ UNCHANGED <<up, restarts, earlier, jobs, approvals, toUi, card, banner, astray, endLost>>
      BY <1>7 DEF LinkDrops, core, ui, Misses
    <2>3. losses' \in Nat
      BY <1>0, <2>2 DEF TypeOK
    <2> DEFINE read == SubSeq(toCore, 1, n)
    <2>4. read \in Seq(Commands) /\ \A m \in DOMAIN read : m \in DOMAIN toCore /\ read[m] = toCore[m]
      BY <1>0 DEF TypeOK
    <2> HIDE DEF read
    <2>5. old' = old \o read
      BY <2>1 DEF read
    <2>6. old' \in Seq(Commands)
      BY <1>0, <2>4, <2>5, Longer DEF TypeOK
    <2>7. CardsOwn(old)'
      <3>1. \A m \in DOMAIN old' : \/ m \in DOMAIN old /\ old'[m] = old[m]
                                   \/ m - Len(old) \in DOMAIN read /\ old'[m] = read[m - Len(old)]
        BY <1>0, <2>4, <2>5, OldOrAdded DEF TypeOK
      <3> QED BY <1>0, <2>2, <2>4, <3>1 DEF CardsOwn, LifeInv
    <2>8. TypeOK'
      BY <1>0, <1>2, <1>3, <2>2, <2>3, <2>6 DEF TypeOK
    <2>9. LifeInv'
      BY <1>0, <1>2, <2>2, <2>7 DEF LifeInv, CardsOwn
    <2>10. \A q \in Questions : q \in Heeded' /\ Known(q) => Known(q)'
      BY <1>3, <2>2 DEF Known, Open
    <2>11. ViewInv'
      BY <1>4, <2>2, <2>10
    <2> QED BY <1>0, <2>2, <2>8, <2>9, <2>11 DEF SessionInv, CardAnswersWhatItShows
  <1>8. CASE UiNotices
    <2>1. /\ link = "broken" /\ link' = "down" /\ toUi' = << >>
          /\ card' = card_offline(card)
          /\ endLost' = FALSE /\ missed' = (missed \cup Resolutions(toUi)) \cap Heeded'
          /\ UNCHANGED <<up, restarts, earlier, jobs, approvals, losses, toCore, old, backlog,
                         lagged, banner, astray>>
      BY <1>8 DEF UiNotices, core, Misses
    <2>2. card' \in [question : Questions, resolving : BOOLEAN] /\ card'.question = NoQuestion
      BY <1>0, <1>1, <2>1 DEF card_offline, TypeOK
    <2>3. TypeOK'
      BY <1>0, <1>2, <1>3, <2>1, <2>2 DEF TypeOK
    <2>4. LifeInv'
      BY <1>0, <2>1, <2>2 DEF LifeInv, CardsOwn
    <2>5. ASSUME NEW q, q = banner.question, q # NoQuestion
          PROVE  Covered(q, 0)' \/ q \in missed'
      <3>1. q \in Questions /\ (Covered(q, 0) \/ q \in missed)
        BY <1>0, <2>5 DEF ViewInv, Viewed, TypeOK
      <3>2. Open(q) => Open(q)'
        BY <2>1 DEF Open
      <3>3. q \in Heeded'
        BY <2>1, <2>5 DEF Heeded
      <3> QED BY <1>3, <2>1, <3>1, <3>2, <3>3 DEF Covered
    <2>6. Viewed(banner.question)'
      BY <2>1, <2>5 DEF Viewed
    <2>7. Viewed(card.question)'
      BY <2>2 DEF Viewed
    <2>8. ViewInv'
      BY <1>0, <1>2, <2>1, <2>6, <2>7 DEF ViewInv
    <2> QED BY <1>0, <2>1, <2>3, <2>4, <2>8 DEF SessionInv, CardAnswersWhatItShows
  <1>9. CASE UiConnects
    <2>1. /\ up /\ link = "down" /\ link' = "up"
          /\ UNCHANGED <<up, restarts, earlier, jobs, approvals, losses, toCore, old, backlog, lagged,
                         toUi, card, banner, astray, missed, endLost>>
      BY <1>9 DEF UiConnects, core, gone
    <2>2. toUi = << >> /\ card.question = NoQuestion
      BY <1>0, <2>1 DEF LifeInv
    <2>3. TypeOK'
      BY <1>0, <2>1 DEF TypeOK
    <2>4. LifeInv'
      BY <1>0, <1>2, <2>1, <2>2 DEF LifeInv, CardsOwn, OfThisLife
    <2>5. Viewed(banner.question)'
      BY <1>0, <2>1 DEF ViewInv, Viewed, Covered, Open
    <2>6. Viewed(card.question)'
      BY <2>1, <2>2 DEF Viewed
    <2>7. ViewInv'
      BY <1>0, <1>2, <2>1, <2>2, <2>5, <2>6 DEF ViewInv
    <2> QED BY <1>0, <2>1, <2>3, <2>4, <2>7 DEF SessionInv, CardAnswersWhatItShows
  <1> QED
    BY <1>5, <1>6, <1>7, <1>8, <1>9

(* What the user sends leaves every question as it is.                     *)
LEMMA Sending ==
  ASSUME SessionInv, NEW command \in Commands, Send(command),
         command.type = "approval_response" /\ command.view = "card" =>
           (link = "up" => command.question.life = restarts),
         UNCHANGED <<core, losses, old, backlog, lagged, toUi, link, astray, gone>>,
         card' \in [question : Questions, resolving : BOOLEAN], card'.question = card.question,
         banner' \in [question : Questions, enabled : BOOLEAN], banner'.question = banner.question
  PROVE  SessionInv'
  <1>0. TypeOK /\ LifeInv /\ ViewInv /\ "card" \notin astray
    BY DEF SessionInv, CardAnswersWhatItShows
  <1>1. UNCHANGED <<up, restarts, earlier, jobs, approvals, losses, old, backlog, lagged, toUi, link,
                    astray, missed, endLost>>
    BY DEF core, gone
  <1>2. toCore' \in Seq(Commands) /\ CardsOwn(toCore)'
    <2>1. CASE link = "up"
      <3>1. toCore' = Append(toCore, command)
        BY <2>1 DEF Send
      <3>2. /\ toCore' \in Seq(Commands) /\ Len(toCore) \in Nat
            /\ DOMAIN toCore' = 1 .. Len(toCore) + 1 /\ DOMAIN toCore = 1 .. Len(toCore)
            /\ \A n \in 1 .. Len(toCore) : toCore'[n] = toCore[n]
            /\ toCore'[Len(toCore) + 1] = command
        BY <1>0, <3>1, OneMore DEF TypeOK
      <3>3. \A n \in DOMAIN toCore' : n \in DOMAIN toCore \/ n = Len(toCore) + 1
        BY <3>2
      <3> QED BY <1>0, <1>1, <2>1, <3>2, <3>3 DEF CardsOwn, LifeInv
    <2>2. CASE link # "up"
      <3>1. toCore' = toCore
        BY <2>2 DEF Send
      <3> QED BY <1>0, <1>1, <3>1 DEF CardsOwn, LifeInv, TypeOK
    <2> QED BY <2>1, <2>2
  <1>3. TypeOK'
    BY <1>0, <1>1, <1>2 DEF TypeOK
  <1>4. LifeInv'
    <2>1. link # "up" => toCore' = toCore
      BY DEF Send
    <2> QED BY <1>0, <1>1, <1>2, <2>1 DEF LifeInv, CardsOwn, OfThisLife
  <1>5. ViewInv'
    <2>1. << >> \in Seq(Frames) /\ DOMAIN << >> = {}
      OBVIOUS
    <2>2. \A q : Asked(q) => Asked(q)'
      BY <1>1 DEF Asked
    <2> QED BY <1>0, <1>1, <2>1, <2>2, ViewsKept
  <1> QED
    BY <1>0, <1>1, <1>3, <1>4, <1>5 DEF SessionInv, CardAnswersWhatItShows

LEMMA UserStep ==
  ASSUME SessionInv,
         \/ \E command \in Asking : UserAsks(command)
         \/ \E decision \in Decisions : CardPress(decision) \/ BannerPress(decision)
  PROVE  SessionInv'
  <1>0. /\ LifeInv
        /\ card \in [question : Questions, resolving : BOOLEAN]
        /\ banner \in [question : Questions, enabled : BOOLEAN]
    BY DEF SessionInv, TypeOK
  <1>1. ASSUME NEW command \in Asking, UserAsks(command)
        PROVE  SessionInv'
    <2>1. command \in Commands /\ command.type # "approval_response"
      BY DEF Commands, Asking
    <2>2. /\ Send(command) /\ card' = card /\ banner' = banner
          /\ UNCHANGED <<core, losses, old, backlog, lagged, toUi, link, astray, gone>>
      BY <1>1 DEF UserAsks, ui
    <2> QED BY <1>0, <2>1, <2>2, Sending
  <1>2. ASSUME NEW view \in {"card", "banner"}, NEW q \in Questions, NEW decision \in Decisions
        PROVE  /\ Answer(view, q, decision) \in Commands
               /\ Answer(view, q, decision).view = view
               /\ Answer(view, q, decision).question = q
    BY DEF Answer, Commands
  <1>3. ASSUME NEW decision \in Decisions, CardPress(decision)
        PROVE  SessionInv'
    <2> DEFINE command == Answer("card", card.question, decision)
    <2>1. /\ card.question # NoQuestion /\ card' = [card EXCEPT !.resolving = TRUE]
          /\ Send(command) /\ banner' = banner
          /\ UNCHANGED <<core, losses, old, backlog, lagged, toUi, link, astray, gone>>
      BY <1>3 DEF CardPress
    <2>2. command \in Commands /\ command.question = card.question
      BY <1>0, <1>2
    <2>3. /\ card' \in [question : Questions, resolving : BOOLEAN]
          /\ card'.question = card.question
      BY <1>0, <2>1
    <2>4. link = "up" => command.question.life = restarts
      BY <1>0, <2>1, <2>2 DEF LifeInv, OfThisLife
    <2> HIDE DEF command
    <2> QED BY <1>0, <2>1, <2>2, <2>3, <2>4, Sending
  <1>4. ASSUME NEW decision \in Decisions, BannerPress(decision)
        PROVE  SessionInv'
    <2> DEFINE command == Answer("banner", banner.question, decision)
    <2>1. /\ banner' = [banner EXCEPT !.enabled = FALSE]
          /\ Send(command) /\ card' = card
          /\ UNCHANGED <<core, losses, old, backlog, lagged, toUi, link, astray, gone>>
      BY <1>4 DEF BannerPress
    <2>2. command \in Commands /\ command.view = "banner"
      BY <1>0, <1>2
    <2>3. /\ banner' \in [question : Questions, enabled : BOOLEAN]
          /\ banner'.question = banner.question
      BY <1>0, <2>1
    <2> HIDE DEF command
    <2> QED BY <1>0, <2>1, <2>2, <2>3, Sending
  <1> QED
    BY <1>1, <1>3, <1>4

-----------------------------------------------------------------------------
(* The UI takes a frame.  What it shows afterwards came with it and is     *)
(* covered behind it, or was shown before and was not what it resolved.    *)
LEMMA HandleFrameStep ==
  ASSUME SessionInv, HandleFrame
  PROVE  SessionInv'
  <1>0. TypeOK /\ LifeInv /\ ViewInv /\ "card" \notin astray
    BY DEF SessionInv, CardAnswersWhatItShows
  <1> DEFINE x == Head(toUi)
  <1>1. /\ link # "down" /\ toUi # << >>
        /\ card' = CardOn(x) /\ banner' = BannerOn(x) /\ toUi' = Tail(toUi)
        /\ UNCHANGED <<up, restarts, earlier, jobs, approvals, losses, toCore, old, backlog, lagged,
                       link, astray, endLost>>
        /\ missed' = missed \cap Heeded'
    BY DEF HandleFrame, core, Misses
  <1>2. /\ x \in Frames /\ x = toUi[1] /\ 1 \in DOMAIN toUi
        /\ toUi' \in Seq(Frames)
        /\ DOMAIN toUi = 1 .. Len(toUi) /\ Len(toUi) \in Nat
        /\ DOMAIN toUi' = 1 .. Len(toUi) - 1
        /\ \A n \in DOMAIN toUi' : toUi'[n] = toUi[n + 1]
    BY <1>0, <1>1, OneLess DEF TypeOK
  <1> HIDE DEF x
  <1>3. x.question \in Questions
    BY <1>2 DEF Frames
  <1>4. /\ card' \in [question : Questions, resolving : BOOLEAN]
        /\ \/ x.type = "approval_requested" /\ card'.question = x.question
           \/ card'.question = NoQuestion
           \/ /\ card'.question = card.question
              /\ ~ (x.type = "approval_resolved" /\ x.question.id = card.question.id)
    BY <1>0, <1>1, <1>3, NoQuestionIs DEF CardOn, Blanked, TypeOK
  <1>5. /\ banner' \in [question : Questions, enabled : BOOLEAN]
        /\ \/ x.type = "approval_requested" /\ banner'.question = x.question
           \/ banner'.question = NoQuestion
           \/ /\ banner'.question = banner.question
              /\ ~ (x.type = "approval_resolved" /\ x.question.id = banner.question.id)
    <2>1. CASE x.type = "approval_requested"
      BY <1>1, <1>3, <2>1 DEF BannerOn
    <2>2. CASE x.type = "approval_resolved" /\ x.question.id = banner.question.id
      <3>1. banner' = [banner EXCEPT !.question = NoQuestion]
        BY <1>1, <2>2 DEF BannerOn
      <3> QED BY <1>0, <3>1, NoQuestionIs DEF TypeOK
    <2>3. CASE x.type # "approval_requested" /\
               ~ (x.type = "approval_resolved" /\ x.question.id = banner.question.id)
      <3>1. banner' = banner
        BY <1>1, <2>3 DEF BannerOn
      <3> QED BY <1>0, <2>3, <3>1 DEF TypeOK
    <2> QED BY <2>1, <2>2, <2>3
  <1>6. \A n \in DOMAIN toUi' : n + 1 \in DOMAIN toUi /\ n + 1 > 0 /\ toUi'[n] = toUi[n + 1]
    BY <1>2
  <1>7. TypeOK'
    BY <1>0, <1>1, <1>2, <1>4, <1>5 DEF TypeOK
  <1>8. LifeInv'
    <2>2. link = "up" => OfThisLife(card.question)'
      <3>1. x.type = "approval_requested" /\ link = "up" => OfThisLife(x.question)
        BY <1>0, <1>2 DEF LifeInv
      <3> QED BY <1>0, <1>1, <1>4, <3>1 DEF LifeInv, OfThisLife
    <2>3. link = "up" => \A n \in DOMAIN toUi' :
             toUi'[n].type = "approval_requested" => OfThisLife(toUi[n].question)'
      BY <1>0, <1>1, <1>6 DEF LifeInv, OfThisLife
    <2> QED BY <1>0, <1>1, <2>2, <2>3 DEF LifeInv, CardsOwn
  <1>9. ASSUME NEW q, NEW k \in Nat, NEW n \in Nat,
               \/ n = k + 1 /\ Covered(q, n)
               \/ n = k /\ k = 0 /\ Covered(q, 0) /\ x # resolved(q)
        PROVE  Covered(q, k)'
    <2>1. CASE Open(q)
      BY <1>1, <2>1 DEF Covered, Open
    <2>2. CASE \E m \in DOMAIN toUi : m > n /\ toUi[m] = resolved(q)
      <3>1. PICK m \in DOMAIN toUi : m > n /\ toUi[m] = resolved(q)
        BY <2>2
      <3>2. m \in 1 .. Len(toUi) /\ m # 1
        BY <1>2, <1>9, <3>1
      <3>3. m - 1 \in DOMAIN toUi' /\ m - 1 + 1 = m /\ m - 1 > k
        BY <1>2, <1>9, <3>1, <3>2
      <3>4. toUi'[m - 1] = resolved(q)
        BY <1>2, <3>1, <3>3
      <3> QED BY <3>3, <3>4 DEF Covered
    <2> QED BY <1>9, <2>1, <2>2 DEF Covered
  <1>10. \A n \in DOMAIN toUi : toUi[n].question \in Questions
    <2>1. \A n \in DOMAIN toUi : toUi[n] \in Frames
      BY <1>0 DEF TypeOK
    <2> QED BY <2>1, QuestionOf
  <1>11. /\ card'.question \in Heeded' /\ banner'.question \in Heeded'
         /\ \A n \in DOMAIN toUi' : toUi'[n].question \in Heeded'
    BY DEF Heeded
  <1>12. ASSUME NEW q, NEW k \in Nat, NEW n \in DOMAIN toUi, n = k + 1,
                toUi[n].type = "approval_requested", q = toUi[n].question
         PROVE  Covered(q, k)' \/ q \in missed
    <2>1. n \in Nat
      BY <1>2
    <2>2. Covered(q, n) \/ q \in missed
      BY <1>0, <1>12 DEF ViewInv
    <2> QED BY <1>9, <1>12, <2>1, <2>2
  <1>13. ASSUME x.type = "approval_requested", NEW q, q = x.question
         PROVE  Covered(q, 0)' \/ q \in missed
    <2>1. 0 \in Nat /\ 1 = 0 + 1
      OBVIOUS
    <2> QED BY <1>2, <1>12, <1>13, <2>1
  <1>14. ASSUME NEW q, ~ (x.type = "approval_resolved" /\ x.question.id = q.id), Covered(q, 0)
         PROVE  Covered(q, 0)'
    <2>1. x # resolved(q)
      BY <1>14 DEF resolved, Frame
    <2> QED BY <1>9, <1>14, <2>1
  <1>15. ASSUME NEW v, v # NoQuestion => Covered(v, 0) \/ v \in missed,
                NEW q, q # NoQuestion, q \in Heeded',
                \/ x.type = "approval_requested" /\ q = x.question
                \/ q = v /\ ~ (x.type = "approval_resolved" /\ x.question.id = v.id)
         PROVE  Covered(q, 0)' \/ q \in missed'
    <2>1. CASE x.type = "approval_requested" /\ q = x.question
      BY <1>1, <1>13, <1>15, <2>1
    <2>2. CASE q = v /\ ~ (x.type = "approval_resolved" /\ x.question.id = q.id)
      BY <1>1, <1>14, <1>15, <2>2
    <2> QED BY <1>15, <2>1, <2>2
  <1>16. ViewInv'
    <2>1. ASSUME NEW n \in DOMAIN toUi', toUi'[n].type = "approval_requested",
                 NEW q, q = toUi'[n].question
          PROVE  Covered(q, n)' \/ q \in missed'
      <3>1. n \in Nat /\ n + 1 \in DOMAIN toUi /\ toUi'[n] = toUi[n + 1]
        BY <1>2, <1>6
      <3>2. PICK m \in DOMAIN toUi : m = n + 1 /\ toUi[m] = toUi'[n]
        BY <3>1
      <3> QED BY <1>1, <1>11, <1>12, <2>1, <3>1, <3>2
    <2>2. ASSUME NEW q, q = card'.question, q # NoQuestion
          PROVE  Covered(q, 0)' \/ q \in missed'
      <3>1. \/ x.type = "approval_requested" /\ q = x.question
            \/ /\ q = card.question
               /\ ~ (x.type = "approval_resolved" /\ x.question.id = card.question.id)
        BY <1>4, <2>2
      <3>2. card.question # NoQuestion => Covered(card.question, 0) \/ card.question \in missed
        BY <1>0 DEF ViewInv, Viewed
      <3> QED BY <1>11, <1>15, <2>2, <3>1, <3>2
    <2>3. ASSUME NEW q, q = banner'.question, q # NoQuestion
          PROVE  Covered(q, 0)' \/ q \in missed'
      <3>1. \/ x.type = "approval_requested" /\ q = x.question
            \/ /\ q = banner.question
               /\ ~ (x.type = "approval_resolved" /\ x.question.id = banner.question.id)
        BY <1>5, <2>3
      <3>2. banner.question # NoQuestion => Covered(banner.question, 0) \/ banner.question \in missed
        BY <1>0 DEF ViewInv, Viewed
      <3> QED BY <1>11, <1>15, <2>3, <3>1, <3>2
    <2>4. Viewed(card.question)' /\ Viewed(banner.question)'
      BY <2>2, <2>3 DEF Viewed
    <2>5. \A n \in DOMAIN toUi' : toUi'[n].type = "approval_requested" =>
            (Covered(toUi[n].question, n) \/ toUi[n].question \in missed)'
      BY <2>1
    <2>6. \A n \in DOMAIN backlog' : backlog'[n].type # "approval_requested"
      BY <1>0, <1>1 DEF ViewInv
    <2> QED BY <2>4, <2>5, <2>6 DEF ViewInv
  <1> QED
    BY <1>0, <1>1, <1>7, <1>8, <1>16 DEF SessionInv, CardAnswersWhatItShows

(* The hold ends, or nothing happens.                                      *)
LEMMA RestStep ==
  ASSUME SessionInv, HoldTimeout \/ UNCHANGED vars
  PROVE  SessionInv'
  <1>0. TypeOK /\ LifeInv /\ ViewInv /\ "card" \notin astray
    BY DEF SessionInv, CardAnswersWhatItShows
  <1>1. UNCHANGED <<up, restarts, earlier, jobs, approvals, losses, toCore, old, backlog, lagged,
                    toUi, link, card, banner, astray, missed, endLost>>
    BY DEF HoldTimeout, vars, core, net, ui, gone
  <1>2. TypeOK'
    BY <1>0, <1>1 DEF TypeOK
  <1>3. LifeInv'
    BY <1>0, <1>1 DEF LifeInv, OfThisLife, CardsOwn
  <1>4. ViewInv'
    BY <1>0, <1>1 DEF ViewInv, Viewed, Covered, Open
  <1> QED
    BY <1>0, <1>1, <1>2, <1>3, <1>4 DEF SessionInv, CardAnswersWhatItShows

-----------------------------------------------------------------------------
LEMMA InitSession == Init => SessionInv
  <1> SUFFICES ASSUME Init PROVE SessionInv
    OBVIOUS
  <1>1. << >> \in Seq(Commands) /\ << >> \in Seq(Frames) /\ << >> \in Seq(Jobs) /\ DOMAIN << >> = {}
    OBVIOUS
  <1>2. TypeOK
    BY <1>1, NoQuestionIs DEF Init, TypeOK, Blanked
  <1>3. LifeInv
    BY <1>1 DEF Init, LifeInv, CardsOwn, Blanked
  <1>4. ViewInv
    BY <1>1 DEF Init, ViewInv, Viewed, Blanked
  <1> QED
    BY <1>2, <1>3, <1>4 DEF SessionInv, CardAnswersWhatItShows, Init

LEMMA NextSession == SessionInv /\ [Next]_vars => SessionInv'
  <1> SUFFICES ASSUME SessionInv, [Next]_vars PROVE SessionInv'
    OBVIOUS
  <1>1. CASE CoreNext
    <2>1. CASE Dispatch \/ DispatchOld
      BY <2>1, HandlerStep
    <2>2. CASE ForwardEvent \/ NoticeLag
      BY <2>2, ForwardStep, LagStep
    <2>3. CASE \E request \in OtherRequests : OtherInteraction(request)
      BY <2>3, GateStep
    <2>4. ASSUME NEW j \in DOMAIN jobs,
                 Deadline(j) \/ \E decision \in Decisions : OtherAnswers(j, decision)
          PROVE  SessionInv'
      BY <2>4, GateStep
    <2>5. ASSUME NEW j \in DOMAIN jobs,
                 Task(j) \/ \E helper \in Helpers : InteractionRuns(j, helper)
          PROVE  SessionInv'
      BY <2>5, TaskStep
    <2> QED BY <1>1, <2>1, <2>2, <2>3, <2>4, <2>5 DEF CoreNext
  <1>2. CASE UiNext
    BY <1>2, UserStep, HandleFrameStep, RestStep, ConnectionStep DEF UiNext
  <1>3. CASE CoreDies \/ CoreStarts \/ LinkDrops
    BY <1>3, ConnectionStep
  <1>4. CASE UNCHANGED vars
    BY <1>4, RestStep
  <1> QED
    BY <1>1, <1>2, <1>3, <1>4 DEF Next

(* The inductive invariant: what the UI shows and has sent belongs to the  *)
(* life of the core that will read it, and every question on its way to a  *)
(* view is open or followed by its resolution.                             *)
THEOREM SessionInvariant == Spec => []SessionInv
  <1>1. Init => SessionInv
    BY InitSession
  <1>2. SessionInv /\ [Next]_vars => SessionInv'
    BY NextSession
  <1> QED
    BY <1>1, <1>2, PTL DEF Spec

(* An answer pressed on the approval card decides the question the card    *)
(* shows, or none, whatever restarts and lost connections come between     *)
(* (approval_card.gd, handle_approval_response).                           *)
THEOREM CardAnswers == Spec => []CardAnswersWhatItShows
  <1>1. SessionInv => CardAnswersWhatItShows
    BY DEF SessionInv
  <1> QED
    BY <1>1, SessionInvariant, PTL

LEMMA CoveredIsCurrent ==
  ASSUME NEW q, Covered(q, 0)
  PROVE  Current(q)
  BY DEF Covered, Open, Current

(* The approval card offers a choice about a question that is gone only if *)
(* the UI will not get the resolution: the channel overwrote it unread, or *)
(* it went with a connection that is lost (approval_card.gd against        *)
(* await_and_continue and the receiver's loop of handle_ws).               *)
THEOREM CardIsCurrent == Spec => []CardOnlyWhileOpen
  <1>1. SessionInv => CardOnlyWhileOpen
    <2> SUFFICES ASSUME SessionInv PROVE Current(card.question) \/ card.question \in missed
      BY DEF CardOnlyWhileOpen
    <2>1. Viewed(card.question)
      BY DEF SessionInv, ViewInv
    <2>2. CASE card.question = NoQuestion
      BY <2>2 DEF Current
    <2>3. CASE card.question # NoQuestion
      BY <2>1, <2>3, CoveredIsCurrent DEF Viewed
    <2> QED BY <2>2, <2>3
  <1> QED
    BY <1>1, SessionInvariant, PTL

(* Whatever the banner of the main scene still offers is open, or will be  *)
(* cleared by a resolution on its way, or the UI will never get that       *)
(* (main.gd keeps its question when offline): no reconnect, restart or     *)
(* order of frames makes it miss a resolution that reaches the UI.         *)
THEOREM BannerIsCurrent == Spec => []BannerOnlyWhileOpen
  <1>1. SessionInv => BannerOnlyWhileOpen
    <2> SUFFICES ASSUME SessionInv
                 PROVE  Current(banner.question) \/ banner.question \in missed
      BY DEF BannerOnlyWhileOpen
    <2>1. CASE banner.question = NoQuestion
      BY <2>1 DEF Current
    <2>2. CASE banner.question # NoQuestion
      BY <2>2, CoveredIsCurrent DEF SessionInv, ViewInv, Viewed
    <2> QED BY <2>1, <2>2
  <1> QED
    BY <1>1, SessionInvariant, PTL
=============================================================================
