------------------------------- MODULE Config -------------------------------
(***************************************************************************)
(* core/src/config.rs: what the core reads from the environment and the    *)
(* .env file when it starts, as operators without state.                   *)
(*                                                                         *)
(* The text of a variable is the sequence of its comma separated words,    *)
(* each trimmed and in lower case, which is how every parser of the module *)
(* compares it (only commands and endpoints keep their case in the code,   *)
(* and none is compared); << >> is a variable that is not set, <<"">> one  *)
(* that is set to nothing.  A number is the word of its digits.            *)
(***************************************************************************)
EXTENDS Integers, Sequences, SequencesExt

Unset == << >>
Blank == <<"">>

(* str::parse on the numerals the models use. *)
Numeral ==
  [w \in {"0", "1", "20", "300", "1023", "1024", "9000", "65535", "65536"} |->
     CASE w = "0" -> 0 [] w = "1" -> 1 [] w = "20" -> 20 [] w = "300" -> 300
       [] w = "1023" -> 1023 [] w = "1024" -> 1024 [] w = "9000" -> 9000
       [] w = "65535" -> 65535 [] w = "65536" -> 65536]
IsNumber(raw) == Len(raw) = 1 /\ raw[1] \in DOMAIN Numeral

(* A value that is set but means nothing counts as the default, not as the *)
(* opposite of the default.                                                *)
parse_bool(raw, default) ==
  CASE raw \in {<<"true">>, <<"1">>, <<"yes">>, <<"on">>} -> TRUE
    [] raw \in {<<"false">>, <<"0">>, <<"no">>, <<"off">>} -> FALSE
    [] OTHER -> default

parse_u64(raw, default) == IF IsNumber(raw) THEN Numeral[raw[1]] ELSE default

non_empty(raw) == IF raw = Blank THEN Unset ELSE raw
OrElse(raw, default) == IF raw = Unset THEN default ELSE raw

(* The words of a text that are allowed, in their order. *)
Only(words, allowed) ==
  LET kept[n \in 0 .. Len(words)] ==
        IF n = 0 THEN << >>
        ELSE IF words[n] \in allowed THEN Append(kept[n - 1], words[n]) ELSE kept[n - 1]
  IN kept[Len(words)]

(* parse_text_provider_chain, parse_audio_provider_chain: unknown and      *)
(* repeated kinds stay in the chain.                                       *)
parse_provider_chain(raw, default) ==
  LET items == Only(raw, STRING \ {""}) IN
  IF items = << >> THEN default ELSE items

AllowedModes == {"on_demand", "standby"}
validate_llamafile_mode(raw) == Len(raw) = 1 /\ raw[1] \in AllowedModes
parse_llamafile_mode(raw) == IF validate_llamafile_mode(raw) THEN raw[1] ELSE "on_demand"

(* A u16 outside the well-known ports. *)
Ports == 1024 .. 65535
IsPort(raw) == IsNumber(raw) /\ Numeral[raw[1]] \in Ports
parse_llamafile_port(raw) == IF IsPort(raw) THEN Numeral[raw[1]] ELSE 8788

-----------------------------------------------------------------------------
(* The .env file: of the working directory, or else of its parent.  A line *)
(* is a comment, a line without "=", or a pair; quotes and "export " are   *)
(* stripped from a pair, one without a key is dropped, the last of several *)
(* with the same key counts.                                               *)
NoFile == "no file"
find_dotenv(files) ==
  IF files.cwd # NoFile THEN files.cwd
  ELSE IF files.parent # NoFile THEN files.parent
  ELSE << >>

IsPair(line) == line.form = "pair" /\ line.key # ""

parse_dotenv(lines) ==
  LET pairs == SelectSeq(lines, IsPair)
      LastOf(k) == CHOOSE i \in 1 .. Len(pairs) :
                   /\ pairs[i].key = k
                   /\ \A j \in i + 1 .. Len(pairs) : pairs[j].key # k
  IN [k \in {pairs[i].key : i \in 1 .. Len(pairs)} |-> pairs[LastOf(k)].value]

(* What one start finds: the variables of its process and of the file.  A  *)
(* variable of the process hides the same key of the file, even with a     *)
(* value no parser can use.                                                *)
Lookup(start, key) ==
  IF key \in DOMAIN start.process THEN start.process[key]
  ELSE IF key \in DOMAIN start.dotenv THEN start.dotenv[key]
  ELSE Unset

-----------------------------------------------------------------------------
(* Config::load, part by part.                                           *)

LoadAudio(start) ==
  [ tts_enabled |-> parse_bool(Lookup(start, "SMOLIT_TTS_ENABLED"), TRUE),
    tts_cmd |-> non_empty(Lookup(start, "SMOLIT_TTS_CMD")),
    tts_piper_cmd |-> non_empty(Lookup(start, "SMOLIT_TTS_PIPER_CMD")),
    tts_timeout_seconds |-> parse_u64(Lookup(start, "SMOLIT_TTS_TIMEOUT_SECONDS"), 20),
    stt_enabled |-> parse_bool(Lookup(start, "SMOLIT_STT_ENABLED"), TRUE),
    stt_cmd |-> non_empty(Lookup(start, "SMOLIT_STT_CMD")),
    stt_whisper_cpp_cmd |-> non_empty(Lookup(start, "SMOLIT_STT_WHISPER_CPP_CMD")),
    stt_timeout_seconds |-> parse_u64(Lookup(start, "SMOLIT_STT_TIMEOUT_SECONDS"), 20),
    auto_speak |-> parse_bool(Lookup(start, "SMOLIT_AUDIO_AUTO_SPEAK"), TRUE),
    stt_provider_chain |->
      parse_provider_chain(Lookup(start, "SMOLIT_STT_PROVIDER_CHAIN"), <<"command">>),
    tts_provider_chain |->
      parse_provider_chain(Lookup(start, "SMOLIT_TTS_PROVIDER_CHAIN"), <<"command">>) ]

(* The gates of real interaction: focus_window needs a flag and a template, *)
(* typing and shortcuts a flag for which there is no backend.              *)
LoadInteraction(start) ==
  [ enabled |-> parse_bool(Lookup(start, "SMOLIT_INTERACTION_ENABLED"), TRUE),
    allow_open_application |-> parse_bool(Lookup(start, "SMOLIT_INTERACTION_ALLOW_OPEN_APP"), TRUE),
    allow_focus_window |-> parse_bool(Lookup(start, "SMOLIT_INTERACTION_ALLOW_FOCUS_WINDOW"), FALSE),
    allow_type_text |-> parse_bool(Lookup(start, "SMOLIT_INTERACTION_ALLOW_TYPE_TEXT"), FALSE),
    allow_shortcuts |-> parse_bool(Lookup(start, "SMOLIT_INTERACTION_ALLOW_SHORTCUTS"), FALSE),
    require_confirmation |->
      parse_bool(Lookup(start, "SMOLIT_INTERACTION_REQUIRE_CONFIRMATION"), TRUE),
    open_app_cmd_template |-> non_empty(Lookup(start, "SMOLIT_INTERACTION_OPEN_APP_CMD")),
    focus_window_cmd_template |-> non_empty(Lookup(start, "SMOLIT_INTERACTION_FOCUS_WINDOW_CMD")),
    approval_timeout_seconds |-> parse_u64(Lookup(start, "SMOLIT_APPROVAL_TIMEOUT_SECONDS"), 20),
    accessibility_rpc |-> parse_bool(Lookup(start, "SMOLIT_ACCESSIBILITY_RPC_ENABLED"), FALSE) ]

(* impl Default for LlamafileConfig; the same for the two HTTP providers.  *)
DefaultLlamafile ==
  [ enabled |-> FALSE, path |-> Unset, mode |-> "on_demand", idle_timeout_seconds |-> 300,
    port |-> 8788, startup_timeout_seconds |-> 30, request_timeout_seconds |-> 60 ]

LoadLlamafile(start) ==
  [ enabled |-> parse_bool(Lookup(start, "SMOLIT_LLAMAFILE_ENABLED"), FALSE),
    path |-> non_empty(Lookup(start, "SMOLIT_LLAMAFILE_PATH")),
    mode |-> parse_llamafile_mode(Lookup(start, "SMOLIT_LLAMAFILE_MODE")),
    idle_timeout_seconds |-> parse_u64(Lookup(start, "SMOLIT_LLAMAFILE_IDLE_TIMEOUT_SECONDS"), 300),
    port |-> parse_llamafile_port(Lookup(start, "SMOLIT_LLAMAFILE_PORT")),
    startup_timeout_seconds |->
      parse_u64(Lookup(start, "SMOLIT_LLAMAFILE_STARTUP_TIMEOUT_SECONDS"), 30),
    request_timeout_seconds |->
      parse_u64(Lookup(start, "SMOLIT_LLAMAFILE_REQUEST_TIMEOUT_SECONDS"), 60) ]

DefaultLocalHttp ==
  [ enabled |-> FALSE, endpoint |-> Unset, request_timeout_seconds |-> 60,
    prompt_field |-> <<"prompt">>, response_field |-> <<"content">> ]

LoadLocalHttp(start) ==
  [ enabled |-> parse_bool(Lookup(start, "SMOLIT_LOCAL_HTTP_ENABLED"), FALSE),
    endpoint |-> non_empty(Lookup(start, "SMOLIT_LOCAL_HTTP_ENDPOINT")),
    request_timeout_seconds |->
      parse_u64(Lookup(start, "SMOLIT_LOCAL_HTTP_REQUEST_TIMEOUT_SECONDS"), 60),
    prompt_field |->
      OrElse(non_empty(Lookup(start, "SMOLIT_LOCAL_HTTP_PROMPT_FIELD")), <<"prompt">>),
    response_field |->
      OrElse(non_empty(Lookup(start, "SMOLIT_LOCAL_HTTP_RESPONSE_FIELD")), <<"content">>) ]

DefaultCloudHttp ==
  [ enabled |-> FALSE, endpoint |-> Unset, model |-> Unset, request_timeout_seconds |-> 90,
    prompt_field |-> <<"prompt">>, response_field |-> <<"content">>,
    auth_header |-> <<"authorization">> ]

(* The key is not among them: it lives in the secrets store. *)
LoadCloudHttp(start) ==
  [ enabled |-> parse_bool(Lookup(start, "SMOLIT_CLOUD_HTTP_ENABLED"), FALSE),
    endpoint |-> non_empty(Lookup(start, "SMOLIT_CLOUD_HTTP_ENDPOINT")),
    model |-> non_empty(Lookup(start, "SMOLIT_CLOUD_HTTP_MODEL")),
    request_timeout_seconds |->
      parse_u64(Lookup(start, "SMOLIT_CLOUD_HTTP_REQUEST_TIMEOUT_SECONDS"), 90),
    prompt_field |->
      OrElse(non_empty(Lookup(start, "SMOLIT_CLOUD_HTTP_PROMPT_FIELD")), <<"prompt">>),
    response_field |->
      OrElse(non_empty(Lookup(start, "SMOLIT_CLOUD_HTTP_RESPONSE_FIELD")), <<"content">>),
    auth_header |->
      OrElse(non_empty(Lookup(start, "SMOLIT_CLOUD_HTTP_AUTH_HEADER")), <<"authorization">>) ]

LoadTextProvider(start) ==
  [ chain |-> parse_provider_chain(Lookup(start, "SMOLIT_TEXT_PROVIDER_CHAIN"), <<"abrain">>),
    llamafile |-> LoadLlamafile(start),
    local_http |-> LoadLocalHttp(start),
    cloud_http |-> LoadCloudHttp(start) ]
=============================================================================
