--------------------------- MODULE ProviderCalls ---------------------------
(***************************************************************************)
(* One call of a provider chain, step by step: core/src/providers/text.rs, *)
(* stt.rs and tts.rs under the handlers of core/src/app.rs.  Calls of      *)
(* several connections share a resolver and its status; a settings handler *)
(* replaces the resolver while calls are running on the old one.           *)
(*                                                                         *)
(* A program is spawned, given its input (speech output only) and waited   *)
(* for under a timeout; nothing kills it when the timeout wins.  An HTTP   *)
(* provider connects, for https shakes hands, and exchanges one request.   *)
(* llamafile_local is one step here: LlamafileRuntime has its own.         *)
(***************************************************************************)
EXTENDS Config, ProviderErrors, FiniteSets

CONSTANTS
  Call,       \* requests in flight, one per connection
  Axes,       \* the axes of this instance
  Starts,     \* Axis -> what its configurations are made of: [process, dotenv, key]
  Echoes,     \* what a failing program may write to stderr: sets of phrases
  Resolvers,  \* bound: how often the resolver is built
  Asks        \* bound: how many calls are made
ASSUME AxesAssumption == Axes \subseteq Axis
ASSUME BoundsAssumption == Resolvers \in Nat \ {0} /\ Asks \in Nat

(* What a start finds are variables of words, and a key or none. *)
ASSUME StartsAssumption ==
  \A axis \in Axes : \A start \in Starts[axis] :
    /\ start.key \in BOOLEAN
    /\ \A k \in DOMAIN start.process : start.process[k] \in Seq(STRING)
    /\ \A k \in DOMAIN start.dotenv : start.dotenv[k] \in Seq(STRING)

None == "none"

VARIABLES
  resolvers,  \* the resolvers built so far; the last one is installed
  on,         \* Call -> the resolver its handler has cloned, 0 if none
  at,         \* Call -> the place in the chain it tries
  pc,         \* Call -> its step
  error,      \* Call -> what it failed with: [kind, cause, class, echo]
  running,    \* external programs: {[call, at]}
  egress,     \* calls whose text has left the machine (history)
  asked       \* the number of calls so far

vars == <<resolvers, on, at, pc, error, running, egress, asked>>

DefaultKind == [text |-> "abrain", stt |-> "command", tts |-> "command"]

(* Mutant: a chain without a known kind falls back to every known kind. *)
from_chain_All(axis, chain) ==
  LET known == Only(chain, KnownKinds[axis]) IN
  IF known = << >> THEN SetToSeq(KnownKinds[axis]) ELSE known

(* Unknown kinds are skipped, repeated ones kept; a chain without a known  *)
(* kind becomes the default kind alone.                                    *)
from_chain(axis, chain) ==
  LET known == Only(chain, KnownKinds[axis]) IN
  IF known = << >> THEN <<DefaultKind[axis]>> ELSE known

(* What the chain handlers of the settings accept. *)
Accepted(raw, kinds) ==
  /\ raw # << >>
  /\ \A i \in DOMAIN raw : raw[i] \in kinds
  /\ \A i, j \in DOMAIN raw : raw[i] = raw[j] => i = j
validate_text_chain(raw) == Accepted(raw, KnownKinds["text"])
validate_stt_chain(raw) == Accepted(raw, KnownKinds["stt"])
validate_tts_chain(raw) == Accepted(raw, KnownKinds["tts"])

(* The configuration of a start, of the axis only. *)
Load(axis, start) ==
  IF axis = "text" THEN LoadTextProvider(start) ELSE LoadAudio(start)

ChainOf(axis, cfg) ==
  CASE axis = "text" -> cfg.chain
    [] axis = "stt" -> cfg.stt_provider_chain
    [] OTHER -> cfg.tts_provider_chain

(* What a speech provider is built from: each kind has a command of its    *)
(* own, the flag is the axis's.                                            *)
SttProvider(kind, cfg) ==
  [ enabled |-> cfg.stt_enabled,
    cmd |-> IF kind = "whisper_cpp" THEN cfg.stt_whisper_cpp_cmd ELSE cfg.stt_cmd ]
TtsProvider(kind, cfg) ==
  [ enabled |-> cfg.tts_enabled,
    cmd |-> IF kind = "piper" THEN cfg.tts_piper_cmd ELSE cfg.tts_cmd ]
Speech(axis, kind, cfg) ==
  IF axis = "stt" THEN SttProvider(kind, cfg) ELSE TtsProvider(kind, cfg)

(* split_command: quoting a command that is nothing but quotes leaves no   *)
(* program.                                                                *)
Program(cmd) == IF cmd \in {<<"''">>, Blank} THEN None ELSE cmd[1]

(* is_ready does not look inside the command. *)
IsReady(p) == p.enabled /\ p.cmd # Unset

Status(configured, active, availability, last_error) ==
  [ configured |-> configured, active |-> active, availability |-> availability,
    last_error |-> last_error, cloud |-> active = "cloud_http" ]

(* *ProviderRuntimeStatus::initial: nothing has spoken yet. *)
InitialText(kinds) == Status(kinds[1], "", "available", None)
InitialSpeech(kinds, ready) ==
  Status(kinds[1], "", IF ready THEN "available" ELSE "unavailable", None)

(* The resolver of an axis; each of its providers keeps its own copy of    *)
(* the configuration.                                                      *)
Resolver(axis, start, cfg, kinds, status) ==
  [axis |-> axis, start |-> start, cfg |-> cfg, kinds |-> kinds, status |-> status]

TextResolver(start) ==
  LET cfg == LoadTextProvider(start)
      kinds == from_chain("text", cfg.chain)
  IN Resolver("text", start, cfg, kinds, InitialText(kinds))

SttResolver(start) ==
  LET cfg == LoadAudio(start)
      kinds == from_chain("stt", cfg.stt_provider_chain)
  IN Resolver("stt", start, cfg, kinds, InitialSpeech(kinds, IsReady(SttProvider(kinds[1], cfg))))

TtsResolver(start) ==
  LET cfg == LoadAudio(start)
      kinds == from_chain("tts", cfg.tts_provider_chain)
  IN Resolver("tts", start, cfg, kinds, InitialSpeech(kinds, IsReady(TtsProvider(kinds[1], cfg))))

Build(axis, start) ==
  CASE axis = "text" -> TextResolver(start)
    [] axis = "stt" -> SttResolver(start)
    [] OTHER -> TtsResolver(start)

-----------------------------------------------------------------------------
(* Endpoints: the scheme, and whether the rest parses (no user info, a     *)
(* host, a port).                                                          *)
Scheme == [e \in {"http://h", "https://h", "ftp://h", "http://u@h", "https://:1", "http://h:x"} |->
             IF e = "ftp://h" THEN "other"
             ELSE IF e \in {"https://h", "https://:1"} THEN "https" ELSE "http"]
Malformed == {"http://u@h", "https://:1", "http://h:x"}

(* LocalHttpProvider::parse_endpoint; the prefix is looked at first. *)
LocalEndpointFault(e) ==
  IF Scheme[e] = "https" THEN "https_refused"
  ELSE IF Scheme[e] = "other" THEN "bad_scheme"
  ELSE IF e \in Malformed THEN "unparseable"
  ELSE None

(* CloudHttpProvider::parse_endpoint. *)
CloudEndpointFault(e) ==
  IF Scheme[e] = "other" THEN "bad_scheme"
  ELSE IF e \in Malformed THEN "unparseable"
  ELSE None

(* validate_auth_header_name: a name with a colon or a line break. *)
BadHeader(name) == name = <<"a:b">>

(* What a provider refuses before it does anything, in the order of its    *)
(* checks.                                                                 *)
SpeechRefusal(axis, kind, cfg) ==
  LET p == Speech(axis, kind, cfg) IN
  IF ~p.enabled THEN "disabled"
  ELSE IF p.cmd = Unset THEN "not_configured"
  ELSE IF Program(p.cmd) = None THEN "unparseable"
  ELSE None

LocalHttpRefusal(c) ==
  IF ~c.enabled THEN "disabled"
  ELSE IF c.endpoint = Unset THEN "not_configured"
  ELSE LocalEndpointFault(c.endpoint[1])

CloudHttpRefusal(c, key) ==
  IF ~c.enabled THEN "disabled"
  ELSE IF c.endpoint = Unset THEN "not_configured"
  ELSE IF ~key THEN "secret_missing"
  ELSE IF BadHeader(c.auth_header) THEN "bad_header"
  ELSE CloudEndpointFault(c.endpoint[1])

LlamafileRefusal(c) ==
  IF ~c.enabled THEN "disabled"
  ELSE IF c.path = Unset THEN "not_configured"
  ELSE None

Refusal(axis, kind, cfg, key) ==
  CASE axis # "text" -> SpeechRefusal(axis, kind, cfg)
    [] kind = "local_http" -> LocalHttpRefusal(cfg.local_http)
    [] kind = "cloud_http" -> CloudHttpRefusal(cfg.cloud_http, key)
    [] kind = "llamafile_local" -> LlamafileRefusal(cfg.llamafile)
    [] OTHER -> None

-----------------------------------------------------------------------------
(* The call at hand. *)
Res(r) == resolvers[on[r]]
Ax(r) == Res(r).axis
Cfg(r) == Res(r).cfg
Kind(r) == Res(r).kinds[at[r]]
IsProgram(r) == Ax(r) # "text" \/ Kind(r) = "abrain"
ByTls(r) == Kind(r) = "cloud_http" /\ Scheme[Cfg(r).cloud_http.endpoint[1]] = "https"
Installed == Len(resolvers)

NoError == [kind |-> None, cause |-> None, class |-> None, echo |-> {}]

Init ==
  /\ \E axis \in Axes : \E start \in Starts[axis] : resolvers = <<Build(axis, start)>>
  /\ on = [r \in Call |-> 0]
  /\ at = [r \in Call |-> 0]
  /\ pc = [r \in Call |-> "idle"]
  /\ error = [r \in Call |-> NoError]
  /\ running = {}
  /\ egress = {}
  /\ asked = 0

(* handle_text_query, handle_voice_once, handle_speak: the resolver is     *)
(* cloned once and kept to the end of the call.                            *)
Start(r) ==
  /\ pc[r] = "idle"
  /\ asked < Asks
  /\ asked' = asked + 1
  /\ on' = [on EXCEPT ![r] = Installed]
  /\ at' = [at EXCEPT ![r] = 1]
  /\ pc' = [pc EXCEPT ![r] = "attempt"]
  /\ UNCHANGED <<resolvers, error, running, egress>>

(* Mutant: the status goes to the resolver that is installed now. *)
SetStatus_Installed(g, status) ==
  resolvers' = [resolvers EXCEPT ![Len(resolvers)].status = status]

(* The status of the resolver the call runs on, written under its mutex. *)
SetStatus(g, status) == resolvers' = [resolvers EXCEPT ![g].status = status]

(* The classes of errors that hold the core's own words only.              *)
OwnClass ==
  [axis \in Axis |-> [kind \in KnownKinds[axis] |-> [cause \in Causes(axis, kind) |->
     classify_error(axis, ErrorText(axis, kind)[cause])]]]
Class(axis, kind, cause, echo) ==
  IF echo = {} THEN OwnClass[axis][kind][cause]
  ELSE classify_error(axis, ErrorText(axis, kind)[cause] \cup echo)

(* After a failed attempt the next provider of the chain is tried, and its *)
(* outcome replaces the error; after the last one the class of its error   *)
(* is the call's answer.                                                   *)
Fails(r, cause, echo) ==
  LET class == Class(Ax(r), Kind(r), cause, echo) IN
  /\ IF at[r] < Len(Res(r).kinds)
       THEN /\ at' = [at EXCEPT ![r] = @ + 1]
            /\ pc' = [pc EXCEPT ![r] = "attempt"]
            /\ UNCHANGED <<resolvers, error>>
       ELSE /\ pc' = [pc EXCEPT ![r] = "failed"]
            /\ error' = [error EXCEPT ![r] =
                 [kind |-> Kind(r), cause |-> cause, class |-> class, echo |-> echo]]
            /\ SetStatus(on[r], Status(Res(r).kinds[1], "", "unavailable", class))
            /\ UNCHANGED at
  /\ UNCHANGED on

Succeeds(r) ==
  /\ SetStatus(on[r],
       Status(Res(r).kinds[1], Kind(r),
              IF at[r] = 1 THEN "available" ELSE "fallback_active", None))
  /\ pc' = [pc EXCEPT ![r] = "answered"]
  /\ UNCHANGED <<on, at, error>>

Goes(r, step) ==
  /\ pc' = [pc EXCEPT ![r] = step]
  /\ UNCHANGED <<resolvers, on, at, error>>

Attempting(r) == pc[r] = "attempt"
Refused(r) == Refusal(Ax(r), Kind(r), Cfg(r), Res(r).start.key)

Refuse(r) ==
  /\ Attempting(r)
  /\ Refused(r) # None
  /\ Fails(r, Refused(r), {})
  /\ UNCHANGED <<running, egress, asked>>

Spawn(r) ==
  /\ Attempting(r)
  /\ IsProgram(r)
  /\ Refused(r) = None
  /\ \/ /\ Goes(r, IF Ax(r) = "tts" THEN "write" ELSE "wait")
        /\ running' = running \cup {[call |-> r, at |-> at[r]]}
     \/ /\ Fails(r, "spawn_failed", {})
        /\ UNCHANGED running
  /\ UNCHANGED <<egress, asked>>

Child(r) == [call |-> r, at |-> at[r]]

(* run_external_tts_command writes the whole text and closes the pipe      *)
(* before it waits; neither has a timeout, and a program that does not     *)
(* read holds the call as long as it likes.                                *)
WriteStdin(r) ==
  /\ pc[r] = "write"
  /\ \/ Goes(r, "wait")
     \/ Fails(r, "stdin_failed", {})
  /\ UNCHANGED <<running, egress, asked>>

(* The program ends in time; its exit status is looked at before its       *)
(* output, by ABrain after the output's encoding.                          *)
Exits(r) ==
  /\ pc[r] = "wait"
  /\ running' = running \ {Child(r)}
  /\ \/ Succeeds(r)
     \/ \E echo \in Echoes : Fails(r, "exit_nonzero", echo)
     \/ \E cause \in {"not_utf8", "no_output", "wait_failed"} \cap Causes(Ax(r), Kind(r)) :
          Fails(r, cause, {})
  /\ UNCHANGED <<egress, asked>>

(* Mutant: the wait for the program has no timeout. *)
TimesOut_Never(r) ==
  /\ pc[r] = "wait"
  /\ Goes(r, "wait")
  /\ UNCHANGED <<running, egress, asked>>

(* The timeout drops the handle of the program, which goes on. *)
TimesOut(r) ==
  /\ pc[r] = "wait"
  /\ Fails(r, "timeout", {})
  /\ UNCHANGED <<running, egress, asked>>

(* A program nobody waits for ends on its own. *)
Abandoned(p) == ~(pc[p.call] \in {"write", "wait"} /\ at[p.call] = p.at)
AbandonedExits(p) ==
  /\ p \in running
  /\ Abandoned(p)
  /\ running' = running \ {p}
  /\ UNCHANGED <<resolvers, on, at, pc, error, egress, asked>>

RunLlamafile(r) ==
  /\ Attempting(r)
  /\ Ax(r) = "text" /\ Kind(r) = "llamafile_local"
  /\ Refused(r) = None
  /\ \/ Succeeds(r)
     \/ \E cause \in Causes("text", "llamafile_local") \ {"disabled", "not_configured"} :
          Fails(r, cause, {})
  /\ UNCHANGED <<running, egress, asked>>

Connect(r) ==
  /\ Attempting(r)
  /\ Ax(r) = "text" /\ Kind(r) \in {"local_http", "cloud_http"}
  /\ Refused(r) = None
  /\ \/ Goes(r, IF ByTls(r) THEN "tls" ELSE "exchange")
     \/ \E cause \in {"connect_timeout", "connect_failed"} : Fails(r, cause, {})
  /\ UNCHANGED <<running, egress, asked>>

(* The certificate is checked before the first byte of the request leaves. *)
Handshake(r) ==
  /\ pc[r] = "tls"
  /\ \/ Goes(r, "exchange")
     \/ \E cause \in DOMAIN TlsText : Fails(r, cause, {})
  /\ UNCHANGED <<running, egress, asked>>

(* One request, one answer; the key and the text leave with the request.   *)
Exchange(r) ==
  /\ pc[r] = "exchange"
  /\ egress' = IF Kind(r) = "cloud_http" THEN egress \cup {r} ELSE egress
  /\ \/ Succeeds(r)
     \/ \E cause \in {"io_timeout", "io_failed", "not_utf8", "malformed"} \cup DOMAIN AnswerText :
          Fails(r, cause, {})
  /\ UNCHANGED <<running, asked>>

(* The handler returns; the connection may call again. *)
Return(r) ==
  /\ pc[r] \in {"answered", "failed"}
  /\ pc' = [pc EXCEPT ![r] = "idle"]
  /\ on' = [on EXCEPT ![r] = 0]
  /\ at' = [at EXCEPT ![r] = 0]
  /\ error' = [error EXCEPT ![r] = NoError]
  /\ egress' = egress \ {r}
  /\ UNCHANGED <<resolvers, running, asked>>

(* A settings handler installs a resolver of another configuration: with   *)
(* the chain as it is, which the environment may have given, or with one   *)
(* it has validated.                                                       *)
Validated(axis, chain) ==
  CASE axis = "text" -> validate_text_chain(chain)
    [] axis = "stt" -> validate_stt_chain(chain)
    [] OTHER -> validate_tts_chain(chain)

Rebuild ==
  LET old == resolvers[Installed] IN
  /\ Installed < Resolvers
  /\ \E start \in Starts[old.axis] :
       LET chain == ChainOf(old.axis, Load(old.axis, start)) IN
       /\ chain = ChainOf(old.axis, old.cfg) \/ Validated(old.axis, chain)
       /\ resolvers' = Append(resolvers, Build(old.axis, start))
  /\ UNCHANGED <<on, at, pc, error, running, egress, asked>>

(* What the core or one of its timers does next for a call. *)
Step(r) ==
  \/ Refuse(r) \/ Spawn(r) \/ TimesOut(r)
  \/ RunLlamafile(r) \/ Connect(r) \/ Handshake(r) \/ Exchange(r)

Next ==
  \/ \E r \in Call : Start(r) \/ Step(r) \/ WriteStdin(r) \/ Exits(r) \/ Return(r)
  \/ \E p \in running : AbandonedExits(p)
  \/ Rebuild

Spec == Init /\ [][Next]_vars

(* Every wait but the write to a program's stdin is under a timeout; calls,*)
(* settings and programs owe nothing.                                      *)
FairSpec == Spec /\ \A r \in Call : WF_vars(Step(r))

-----------------------------------------------------------------------------
(* The class the documents give each failure, whatever the code says:      *)
(* docs/provider_fallback_and_settings_architecture.md 286-291 and 353-357 *)
(* (llamafile_local, local_http), 1047-1058 (cloud_http), docs/api.md      *)
(* 427-433 (speech) and 1890-1912 (cloud_http); "unknown" is what none of  *)
(* them names.                                                             *)
Vocabulary ==
  [ disabled |-> "disabled", not_configured |-> "not_configured",
    secret_missing |-> "secret_missing", bad_header |-> "unknown",
    https_refused |-> "endpoint_scheme_unsupported",
    bad_scheme |-> "endpoint_scheme_unsupported",
    tls_timeout |-> "tls_handshake_failed", tls_failed |-> "tls_handshake_failed",
    untrusted |-> "cert_untrusted", bad_signature |-> "cert_invalid",
    revoked |-> "cert_invalid", expired |-> "cert_invalid", not_yet_valid |-> "cert_invalid",
    wrong_host |-> "cert_invalid", bad_name |-> "unknown",
    connect_timeout |-> "timeout", io_timeout |-> "timeout", timeout |-> "timeout",
    connect_failed |-> "http_connect_failed", io_failed |-> "unknown",
    malformed |-> "unknown", not_utf8 |-> "invalid_response", bad_json |-> "invalid_response",
    bad_status |-> "http_error", no_content |-> "empty_response", no_output |-> "empty_response",
    startup_timeout |-> "startup_timeout", exited_early |-> "process_exit_early",
    spawn_failed |-> "process_missing", exit_nonzero |-> "exit_nonzero",
    stdin_failed |-> "stdin_write_failed", wait_failed |-> "unknown" ]

(* Three causes mean different things to different providers. *)
Documented(axis, kind, cause) ==
  CASE cause \in {"unauthorized", "forbidden"} ->
         IF kind = "cloud_http" THEN "unauthorized" ELSE "http_error"
    [] cause = "unparseable" -> IF axis = "text" THEN "endpoint_unparseable" ELSE "not_configured"
    [] OTHER -> Vocabulary[cause]

(* Where the code says something else than the documents: the endpoint of  *)
(* an HTTP provider with a scheme that is neither http nor https is shown  *)
(* as endpoint_unparseable, since no error text of parse_endpoint (text.rs *)
(* 988, 1226) holds the phrase of the rule for it; a certificate that is   *)
(* not valid yet, or not for this host, as tls_handshake_failed, since     *)
(* rustls words these two as no rule expects (text.rs 274, 278).           *)
Misnamed == {"bad_scheme", "not_yet_valid", "wrong_host"}

(* The class the user is shown is the documented one of what really went   *)
(* wrong in the last attempt, but for the three causes of Misnamed, of     *)
(* which it never is, although it is read off the joined text of all       *)
(* contexts and the providers' phrases overlap.  A failing program that    *)
(* wrote a classifier's phrase to stderr may have any class.               *)
ClassNamesTheFailure ==
  \A r \in Call :
    error[r].cause # None /\ error[r].echo = {} =>
      (error[r].class = Documented(Ax(r), error[r].kind, error[r].cause)
         <=> error[r].cause \notin Misnamed)

(* A text leaves the machine only where the configuration names cloud_http *)
(* in the chain, switches it on and a key is stored: no default, unknown   *)
(* word or failure of another provider brings it in.                       *)
CloudOnlyWhenAsked ==
  \A r \in egress :
    LET start == Res(r).start IN
    /\ \E i \in DOMAIN Lookup(start, "SMOLIT_TEXT_PROVIDER_CHAIN") :
         Lookup(start, "SMOLIT_TEXT_PROVIDER_CHAIN")[i] = "cloud_http"
    /\ Lookup(start, "SMOLIT_CLOUD_HTTP_ENABLED")[1] \in {"true", "1", "yes", "on"}
    /\ start.key

(* Whatever a call that outlives its resolver writes, the status of every  *)
(* resolver speaks of that resolver's own chain: who is active is one of   *)
(* its kinds, a fallback is not its only kind, and cloud means cloud.      *)
StatusIsOwn ==
  \A i \in DOMAIN resolvers :
    LET res == resolvers[i]  st == res.status  n == Len(res.kinds) IN
    /\ st.configured = res.kinds[1]
    /\ st.active # "" =>
         \E k \in 1 .. n : /\ res.kinds[k] = st.active
                           /\ (st.availability = "fallback_active") <=> (k > 1)
    /\ st.last_error # None =>
         /\ st.active = "" /\ st.availability = "unavailable"
         /\ \E c \in Causes(res.axis, res.kinds[n]), echo \in Echoes \cup {{}} :
              st.last_error = Class(res.axis, res.kinds[n], c, echo)
    /\ st.cloud => st.active = "cloud_http"

(***************************************************************************)
(* The inductive invariant behind the three: TypeOK, BuiltInv, CallInv and *)
(* what a status says.                                                     *)
(***************************************************************************)
FailuresOf(axis) ==
  UNION {UNION {{[kind |-> kind, cause |-> cause, class |-> Class(axis, kind, cause, echo),
                  echo |-> echo]
                   : echo \in Echoes \cup {{}}}
                   : cause \in Causes(axis, kind)}
                   : kind \in KnownKinds[axis]}

TypeOK ==
  /\ resolvers \in Seq(Range(resolvers)) /\ resolvers # << >>
  /\ on \in [Call -> Nat] /\ at \in [Call -> Nat]
  /\ pc \in [Call -> {"idle", "attempt", "write", "wait", "tls", "exchange", "answered", "failed"}]
  /\ error \in [Call -> {NoError} \cup UNION {FailuresOf(axis) : axis \in Axes}]
  /\ egress \subseteq Call

(* A resolver is what its start gives, but for the status.                 *)
BuiltFrom(axis, start, status) ==
  LET cfg == Load(axis, start)
  IN Resolver(axis, start, cfg, from_chain(axis, ChainOf(axis, cfg)), status)
BuiltInv ==
  \A i \in DOMAIN resolvers :
    \E axis \in Axes : \E start \in Starts[axis] :
      resolvers[i] = BuiltFrom(axis, start, resolvers[i].status)

(* Where a call is says what it is calling, and that this has not refused. *)
CallInv(r) ==
  /\ pc[r] = "idle" => r \notin egress
  /\ pc[r] # "idle" => on[r] \in DOMAIN resolvers /\ at[r] \in DOMAIN Res(r).kinds
  /\ pc[r] \in {"write", "wait", "tls", "exchange"} => Refused(r) = None
  /\ pc[r] = "write" => Ax(r) = "tts"
  /\ pc[r] = "wait" => IsProgram(r)
  /\ pc[r] = "tls" => Ax(r) = "text" /\ Kind(r) = "cloud_http"
  /\ pc[r] = "exchange" => Ax(r) = "text" /\ Kind(r) \in {"local_http", "cloud_http"}
  /\ error[r] \in IF pc[r] = "failed" THEN FailuresOf(Ax(r)) ELSE {NoError}
  /\ r \in egress =>
       /\ Ax(r) = "text" /\ \E i \in DOMAIN Res(r).kinds : Res(r).kinds[i] = "cloud_http"
       /\ Refusal("text", "cloud_http", Cfg(r), Res(r).start.key) = None

(* Who a status says is active has not refused.                            *)
ActiveIsUsable ==
  \A i \in DOMAIN resolvers :
    LET res == resolvers[i] IN
    res.status.active # "" =>
      Refusal(res.axis, res.status.active, res.cfg, res.start.key) = None

CallsInv ==
  TypeOK /\ BuiltInv /\ (\A r \in Call : CallInv(r)) /\ StatusIsOwn /\ ActiveIsUsable

(* A call that has been taken up ends, with an answer or with the class of *)
(* its last failure, unless a program does not read the text it is given.  *)
EveryCallEnds ==
  \A r \in Call :
    pc[r] \in {"attempt", "wait", "tls", "exchange"}
      ~> pc[r] \in {"answered", "failed", "write"}
=============================================================================
