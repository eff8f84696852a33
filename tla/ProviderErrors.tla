--------------------------- MODULE ProviderErrors ---------------------------
(***************************************************************************)
(* What can go wrong in one call of a provider, the text of the error it   *)
(* leaves, and the class that classify_error of providers/text.rs, stt.rs  *)
(* and tts.rs reads off that text.                                         *)
(*                                                                         *)
(* classify_error joins the whole chain of an error's contexts and looks   *)
(* for phrases in it, in a fixed order; a text is therefore the set of the *)
(* phrases it holds.  A command that fails leaves what it wrote to stderr  *)
(* in the text (echo), so that a program can speak in any phrase.          *)
(***************************************************************************)
EXTENDS Integers, Sequences

Axis == {"text", "stt", "tts"}
KnownKinds ==
  [text |-> {"abrain", "llamafile_local", "local_http", "cloud_http"},
   stt  |-> {"command", "whisper_cpp"},
   tts  |-> {"command", "piper"}]

(* Where http_request and http_request_with_header can fail, and the       *)
(* phrase each context adds.                                               *)
TransportText ==
  [ connect_timeout |-> {"http connect", "timed out"},
    connect_failed  |-> {"http connect"},
    io_timeout      |-> {"timed out"},
    io_failed       |-> {},
    not_utf8        |-> {"not valid utf-8"},
    malformed       |-> {} ]

(* What rustls 0.23.39 (core/Cargo.lock) writes of a certificate it does   *)
(* not accept, as far as classify_error could make out: a fault without    *)
(* details in one word, the dates and the host name in a sentence.         *)
CertificateText ==
  [ untrusted     |-> {"unknownissuer"},
    bad_signature |-> {"badsignature"},
    revoked       |-> {"revoked"},
    expired       |-> {"expired"},
    not_yet_valid |-> {"not valid yet"},
    wrong_host    |-> {"not valid for name"} ]

Merged(f, g) ==
  [c \in DOMAIN f \cup DOMAIN g |-> IF c \in DOMAIN f THEN f[c] ELSE g[c]]
Under(names, texts) == [c \in DOMAIN texts |-> names \cup texts[c]]

(* The TLS layer of http_request_with_header.  Its contexts speak of the   *)
(* "tls handshake", which is both of the words classify_error looks for.   *)
TlsText ==
  Merged([bad_name |-> {"tls"}],
         Under({"tls", "handshake"},
               Merged(CertificateText, [tls_timeout |-> {"timed out"}, tls_failed |-> {}])))

(* The answer as post_completion and the run of the HTTP providers read it. *)
AnswerText ==
  [ unauthorized |-> {"http returned status", "http returned status 401"},
    forbidden    |-> {"http returned status", "http returned status 403"},
    bad_status   |-> {"http returned status"},
    bad_json     |-> {"is not valid json"},
    no_content   |-> {"returned no content"} ]

(* http_request writes "llamafile" into its contexts, for whom it was      *)
(* written; LocalHttpProvider::run puts a context of its own around them.  *)
LocalHttpText ==
  Merged(Under({"local_http", "llamafile"}, TransportText),
         Under({"local_http"}, Merged(AnswerText,
           [ disabled       |-> {"is disabled"},
             not_configured |-> {"not configured"},
             https_refused  |-> {"endpoint must start with http://"},
             bad_scheme     |-> {"endpoint url is not parseable"},
             unparseable    |-> {"endpoint url is not parseable"} ])))

CloudHttpText ==
  Under({"cloud_http"}, Merged(Merged(TransportText, TlsText), Merged(AnswerText,
    [ disabled       |-> {"is disabled"},
      not_configured |-> {"not configured"},
      secret_missing |-> {"secret is not set"},
      bad_header     |-> {},
      bad_scheme     |-> {"endpoint url is not parseable"},
      unparseable    |-> {"endpoint url is not parseable"} ])))

LlamafileText ==
  Under({"llamafile"}, Merged(Merged(TransportText, AnswerText),
    [ disabled        |-> {"is disabled"},
      not_configured  |-> {"not configured"},
      spawn_failed    |-> {"process spawn failed"},
      exited_early    |-> {"exited during startup"},
      startup_timeout |-> {"readiness check timed out", "timed out"} ]))

AbrainText ==
  [ timeout      |-> {"timed out"},
    spawn_failed |-> {"failed to spawn"},
    not_utf8     |-> {"not valid utf-8"},
    exit_nonzero |-> {"failed with status"},
    no_output    |-> {"returned no output"} ]

SttText ==
  [ disabled       |-> {"stt is disabled"},
    not_configured |-> {"stt command is not configured"},
    unparseable    |-> {"stt command is empty after parsing"},
    timeout        |-> {"timed out"},
    spawn_failed   |-> {"failed to spawn"},
    exit_nonzero   |-> {"failed with status"},
    not_utf8       |-> {"not valid utf-8"},
    no_output      |-> {"returned no recognized text"} ]

TtsText ==
  [ disabled       |-> {"tts is disabled"},
    not_configured |-> {"tts command is not configured"},
    unparseable    |-> {"tts command is empty after parsing"},
    spawn_failed   |-> {"failed to spawn"},
    stdin_failed   |-> {"failed to write text to tts stdin"},
    timeout        |-> {"timed out"},
    wait_failed    |-> {},
    exit_nonzero   |-> {"failed with status"} ]

(* The errors of each kind of provider, by their cause. *)
ErrorText(axis, kind) ==
  CASE axis = "stt" -> SttText
    [] axis = "tts" -> TtsText
    [] kind = "abrain" -> AbrainText
    [] kind = "llamafile_local" -> LlamafileText
    [] kind = "local_http" -> LocalHttpText
    [] OTHER -> CloudHttpText
Causes(axis, kind) == DOMAIN ErrorText(axis, kind)

-----------------------------------------------------------------------------
(* The classifiers: the first rule whose phrases the text holds, one of    *)
(* any of a rule's alternatives being enough.                              *)
Rule(all, any, class) == [all |-> all, any |-> any, class |-> class]
Holds(rule, text) == rule.all \subseteq text /\ rule.any \cap text # {}
FirstMatch(rules, text) ==
  LET hits == {i \in 1 .. Len(rules) : Holds(rules[i], text)} IN
  IF hits = {} THEN "unknown"
  ELSE rules[CHOOSE i \in hits : \A j \in hits : i <= j].class

For(tag, any, class) == Rule({tag}, any, class)

CloudRules ==
  << For("cloud_http", {"is disabled"}, "disabled"),
     For("cloud_http", {"not configured"}, "not_configured"),
     For("cloud_http", {"secret is not set"}, "secret_missing"),
     Rule({"cloud_http", "tls", "handshake"}, {"unknownissuer", "unknown issuer"},
          "cert_untrusted"),
     Rule({"cloud_http", "tls", "handshake"},
          {"notvalidyet", "expired", "badsignature", "invalidcertificate", "notvaliddns",
           "revoked"},
          "cert_invalid"),
     Rule({"cloud_http", "tls"}, {"handshake"}, "tls_handshake_failed"),
     For("cloud_http", {"endpoint must start with http://"}, "endpoint_scheme_unsupported"),
     For("cloud_http", {"endpoint url is not parseable"}, "endpoint_unparseable"),
     For("cloud_http", {"timed out"}, "timeout"),
     For("cloud_http", {"http connect"}, "http_connect_failed"),
     For("cloud_http", {"http returned status 401", "http returned status 403"}, "unauthorized"),
     For("cloud_http", {"http returned status"}, "http_error"),
     For("cloud_http", {"returned no content"}, "empty_response"),
     For("cloud_http", {"is not valid json", "not valid utf-8"}, "invalid_response") >>

LocalRules ==
  << For("local_http", {"is disabled"}, "disabled"),
     For("local_http", {"not configured"}, "not_configured"),
     For("local_http", {"endpoint must start with http://"}, "endpoint_scheme_unsupported"),
     For("local_http", {"endpoint url is not parseable"}, "endpoint_unparseable"),
     For("local_http", {"timed out"}, "timeout"),
     For("local_http", {"http connect"}, "http_connect_failed"),
     For("local_http", {"http returned status"}, "http_error"),
     For("local_http", {"returned no content"}, "empty_response"),
     For("local_http", {"is not valid json", "not valid utf-8"}, "invalid_response") >>

LlamafileRules ==
  << For("llamafile", {"is disabled"}, "disabled"),
     For("llamafile", {"not configured"}, "not_configured"),
     For("llamafile", {"runtime is not yet implemented"}, "not_implemented"),
     For("llamafile", {"readiness check timed out"}, "startup_timeout"),
     For("llamafile", {"exited during startup"}, "process_exit_early"),
     For("llamafile", {"process spawn failed"}, "process_missing"),
     For("llamafile", {"http returned status"}, "http_error"),
     For("llamafile", {"returned no content"}, "empty_response"),
     For("llamafile", {"is not valid json", "not valid utf-8"}, "invalid_response"),
     For("llamafile", {"timed out"}, "timeout"),
     For("llamafile", {"http connect"}, "http_connect_failed") >>

Plain(any, class) == Rule({}, any, class)

GeneralRules ==
  << Plain({"timed out"}, "timeout"),
     Plain({"failed to spawn", "no such file"}, "process_missing"),
     Plain({"returned no output"}, "empty_response"),
     Plain({"not valid utf-8"}, "invalid_response"),
     Plain({"failed with status"}, "exit_nonzero") >>

(* Mutant: the general phrases are looked for first. *)
TextRules_GeneralFirst == GeneralRules \o CloudRules \o LocalRules \o LlamafileRules

TextRules == CloudRules \o LocalRules \o LlamafileRules \o GeneralRules

SttRules ==
  << Plain({"stt is disabled"}, "disabled"),
     Plain({"stt command is not configured", "stt command is empty after parsing"},
           "not_configured"),
     Plain({"timed out"}, "timeout"),
     Plain({"failed to spawn", "no such file"}, "process_missing"),
     Plain({"not valid utf-8"}, "invalid_response"),
     Plain({"returned no recognized text"}, "empty_response"),
     Plain({"failed with status"}, "exit_nonzero") >>

TtsRules ==
  << Plain({"tts is disabled"}, "disabled"),
     Plain({"tts command is not configured", "tts command is empty after parsing"},
           "not_configured"),
     Plain({"timed out"}, "timeout"),
     Plain({"failed to spawn", "no such file"}, "process_missing"),
     Plain({"failed to write text to tts stdin"}, "stdin_write_failed"),
     Plain({"failed with status"}, "exit_nonzero") >>

classify_error(axis, text) ==
  FirstMatch(CASE axis = "text" -> TextRules [] axis = "stt" -> SttRules
               [] OTHER -> TtsRules, text)
=============================================================================
