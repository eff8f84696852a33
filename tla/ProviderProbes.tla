--------------------------- MODULE ProviderProbes ---------------------------
(***************************************************************************)
(* The probes of core/src/app.rs: what the settings pages ask a provider   *)
(* without running it.  A probe repeats the checks of the provider's run   *)
(* in code of its own, on the live configuration instead of the copy the   *)
(* installed resolver was built from.                                      *)
(***************************************************************************)
EXTENDS ProviderCalls

Result(ok, class, in_chain, enabled, configured) ==
  [ ok |-> ok, class |-> class, in_chain |-> in_chain, enabled |-> enabled,
    configured |-> configured ]

(* The metadata of the program a command or a path names: the command is   *)
(* looked up as a path, never on PATH.                                     *)
FileKinds == {"absent", "not_file", "not_executable", "executable"}
FileClass ==
  [ absent |-> "path_missing", not_file |-> "path_not_file",
    not_executable |-> "path_not_executable", executable |-> "ok" ]

probe_audio_command(enabled, command, chain, file) ==
  LET in_chain == Contains(chain, "command")
      class ==
        IF ~in_chain THEN "not_in_chain"
        ELSE IF ~enabled THEN "disabled"
        ELSE IF command = Unset THEN "not_configured"
        ELSE IF Program(command) = None THEN "command_unparseable"
        ELSE FileClass[file]
  IN Result(class = "ok", class, in_chain, enabled, enabled /\ command # Unset)

probe_stt(audio, chain, file) ==
  probe_audio_command(audio.stt_enabled, audio.stt_cmd, chain, file)
probe_tts(audio, chain, file) ==
  probe_audio_command(audio.tts_enabled, audio.tts_cmd, chain, file)

probe_llamafile(c, chain, file) ==
  LET in_chain == Contains(chain, "llamafile_local")
      class ==
        IF ~in_chain THEN "not_in_chain"
        ELSE IF ~c.enabled THEN "disabled"
        ELSE IF c.path = Unset THEN "not_configured"
        ELSE FileClass[file]
  IN Result(class = "ok", class, in_chain, c.enabled, c.enabled /\ c.path # Unset)

(* One TCP connect, nothing is sent. *)
Net == {"ok", "connect_timeout", "connect_failed"}
NetClass ==
  [ok |-> "ok", connect_timeout |-> "timeout", connect_failed |-> "http_connect_failed"]

probe_local_http(c, chain, net) ==
  LET in_chain == Contains(chain, "local_http")
      class ==
        IF ~in_chain THEN "not_in_chain"
        ELSE IF ~c.enabled THEN "disabled"
        ELSE IF c.endpoint = Unset THEN "not_configured"
        ELSE IF LocalEndpointFault(c.endpoint[1]) = "https_refused"
             THEN "endpoint_scheme_unsupported"
        ELSE IF LocalEndpointFault(c.endpoint[1]) # None THEN "endpoint_unparseable"
        ELSE NetClass[net]
  IN Result(class = "ok", class, in_chain, c.enabled, c.enabled /\ c.endpoint # Unset)

(* An authenticated HEAD request over the transport of the run: 2xx is ok, *)
(* 401 and 403 reject the key, every other status and every error the      *)
(* probe has no text for is one class.                                     *)
HeadStatus == {"s2xx", "s401", "s403", "other"}
HeadFaults == DOMAIN TransportText \cup DOMAIN TlsText
HeadClass(outcome) ==
  IF outcome \in HeadStatus THEN
    CASE outcome = "s2xx" -> "ok"
      [] outcome \in {"s401", "s403"} -> "unauthorized"
      [] OTHER -> "http_error"
  ELSE LET class == classify_error("text", CloudHttpText[outcome]) IN
       IF class \in {"timeout", "http_connect_failed", "tls_handshake_failed",
                     "cert_untrusted", "cert_invalid"}
         THEN class ELSE "http_error"

(* Mutant: a probe does not miss the key. *)
probe_cloud_static_NoKey(c, key, chain) ==
  IF ~Contains(chain, "cloud_http") THEN "not_in_chain"
  ELSE IF ~c.enabled THEN "disabled"
  ELSE IF c.endpoint = Unset THEN "not_configured"
  ELSE IF CloudEndpointFault(c.endpoint[1]) = "bad_scheme" THEN "endpoint_scheme_unsupported"
  ELSE IF CloudEndpointFault(c.endpoint[1]) = "unparseable" THEN "endpoint_unparseable"
  ELSE IF BadHeader(c.auth_header) THEN "not_configured"
  ELSE "ok"

(* The endpoint is parsed before the header is looked at, in the run it is *)
(* the other way round.                                                    *)
probe_cloud_static(c, key, chain) ==
  IF ~Contains(chain, "cloud_http") THEN "not_in_chain"
  ELSE IF ~c.enabled THEN "disabled"
  ELSE IF c.endpoint = Unset THEN "not_configured"
  ELSE IF ~key THEN "secret_missing"
  ELSE IF CloudEndpointFault(c.endpoint[1]) = "bad_scheme" THEN "endpoint_scheme_unsupported"
  ELSE IF CloudEndpointFault(c.endpoint[1]) = "unparseable" THEN "endpoint_unparseable"
  ELSE IF BadHeader(c.auth_header) THEN "not_configured"
  ELSE "ok"

probe_cloud_http(c, key, chain, outcome) ==
  LET static == probe_cloud_static(c, key, chain)
      class == IF static = "ok" THEN HeadClass(outcome) ELSE static
  IN Result(class = "ok", class, Contains(chain, "cloud_http"), c.enabled,
            c.enabled /\ c.endpoint # Unset /\ key)

-----------------------------------------------------------------------------
(* Mutant: an enabled endpoint without a key counts as configured.         *)
TextStatus_NoKey(cfg, key, chain) ==
  [ llamafile_in_chain |-> Contains(chain, "llamafile_local"),
    llamafile_configured |-> cfg.llamafile.enabled /\ cfg.llamafile.path # Unset,
    local_http_in_chain |-> Contains(chain, "local_http"),
    local_http_configured |-> cfg.local_http.enabled /\ cfg.local_http.endpoint # Unset,
    cloud_http_in_chain |-> Contains(chain, "cloud_http"),
    cloud_http_configured |-> cfg.cloud_http.enabled /\ cfg.cloud_http.endpoint # Unset ]

(* build_status_payload: the providers as get_status shows them.  A chain  *)
(* is that of the resolver, the configuration is the live one; no endpoint,*)
(* path, command or key is shown.                                          *)
TextStatus(cfg, key, chain) ==
  [ llamafile_in_chain |-> Contains(chain, "llamafile_local"),
    llamafile_configured |-> cfg.llamafile.enabled /\ cfg.llamafile.path # Unset,
    local_http_in_chain |-> Contains(chain, "local_http"),
    local_http_configured |-> cfg.local_http.enabled /\ cfg.local_http.endpoint # Unset,
    cloud_http_in_chain |-> Contains(chain, "cloud_http"),
    cloud_http_configured |-> cfg.cloud_http.enabled /\ cfg.cloud_http.endpoint # Unset /\ key ]

(* feature_state of the first provider, and the extra kinds: both count    *)
(* a command as available even where the axis is off.                      *)
SpeechStatus(axis, cfg, chain) ==
  LET primary == Speech(axis, chain[1], cfg) IN
  [ enabled |-> primary.enabled, available |-> primary.cmd # Unset,
    extra_in_chain |-> Contains(chain, IF axis = "stt" THEN "whisper_cpp" ELSE "piper"),
    extra_configured |->
      (IF axis = "stt" THEN cfg.stt_whisper_cpp_cmd ELSE cfg.tts_piper_cmd) # Unset ]

-----------------------------------------------------------------------------
(* The probe of a kind in the best of worlds: every file there and         *)
(* executable, every server answering.                                     *)
Probe(axis, kind, cfg, key, chain) ==
  CASE axis = "stt" -> probe_stt(cfg, chain, "executable")
    [] axis = "tts" -> probe_tts(cfg, chain, "executable")
    [] kind = "llamafile_local" -> probe_llamafile(cfg.llamafile, chain, "executable")
    [] kind = "local_http" -> probe_local_http(cfg.local_http, chain, "ok")
    [] OTHER -> probe_cloud_http(cfg.cloud_http, key, chain, "s2xx")
Probed(axis) ==
  IF axis = "text" THEN {"llamafile_local", "local_http", "cloud_http"} ELSE {"command"}

(* The faults the settings page and the status after a call show under     *)
(* different names: a speech command without a program (docs/api.md 1682   *)
(* has a class for it, the call says not_configured), a scheme of the      *)
(* cloud endpoint that is refused (the probe names it as docs/api.md 1894  *)
(* does, the call as unparseable), and a header name that is refused,      *)
(* which the call checks before the endpoint and finds no class for.       *)
TwoNames(axis, kind, cause) ==
  \/ axis # "text" /\ cause = "unparseable"
  \/ kind = "cloud_http" /\ cause \in {"bad_scheme", "bad_header"}

(* A probe finds a provider out of the chain, or refuses it, exactly when  *)
(* a call on that configuration would not reach it or would refuse it:     *)
(* the page never shows "ok" for a provider the resolver cannot use as it  *)
(* is configured.  And it shows the very class the call would leave in the *)
(* status, but for the three faults of TwoNames, of which it never does.   *)
ProbeAgreesWithRun ==
  \A i \in DOMAIN resolvers :
    LET axis == resolvers[i].axis
        cfg == resolvers[i].cfg
        key == resolvers[i].start.key
        chain == resolvers[i].kinds
    IN \A kind \in Probed(axis) :
         LET probe == Probe(axis, kind, cfg, key, chain)
             refused == Refusal(axis, kind, cfg, key) IN
         /\ probe.in_chain <=> Contains(chain, kind)
         /\ probe.in_chain => (probe.ok <=> refused = None)
         /\ probe.in_chain /\ refused # None =>
              (probe.class = Class(axis, kind, refused, {}) <=> ~ TwoNames(axis, kind, refused))

(* get_status says of a provider of the chain what its probe and a call    *)
(* say: "configured" is neither more nor less than what the run asks for   *)
(* before it looks at the values, and an axis is shown as enabled and      *)
(* available exactly when its first provider would not refuse for want of  *)
(* a switch or a command.                                                  *)
StatusAgreesWithRun ==
  \A i \in DOMAIN resolvers :
    LET axis == resolvers[i].axis
        cfg == resolvers[i].cfg
        key == resolvers[i].start.key
        chain == resolvers[i].kinds
        Lacks(kind) ==
          Refusal(axis, kind, cfg, key) \in {"disabled", "not_configured", "secret_missing"}
    IN IF axis = "text" THEN
         LET status == TextStatus(cfg, key, chain) IN
         /\ status.llamafile_configured <=> ~Lacks("llamafile_local")
         /\ status.local_http_configured <=> ~Lacks("local_http")
         /\ status.cloud_http_configured <=> ~Lacks("cloud_http")
         /\ resolvers[i].status.cloud => status.cloud_http_in_chain /\ status.cloud_http_configured
       ELSE LET status == SpeechStatus(axis, cfg, chain) IN
            status.enabled /\ status.available <=> ~Lacks(chain[1])
=============================================================================
