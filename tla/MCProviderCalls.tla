--------------------------- MODULE MCProviderCalls ---------------------------
(* Small configurations for ProviderProbes, as a process environment and a *)
(* .env file could give them.                                              *)
EXTENDS ProviderProbes

CONSTANTS c1, c2
MCCall == {c1, c2}
MCEchoes == {{}, {"timed out"}}

(* The environment holds one line of words for each variable it sets. *)
NoDotenv == [k \in {} |-> Unset]
From(process, key) == [process |-> process, dotenv |-> NoDotenv, key |-> key]

CloudEnv(chain, flag, endpoint, header) ==
  [k \in {"SMOLIT_TEXT_PROVIDER_CHAIN", "SMOLIT_CLOUD_HTTP_ENABLED",
          "SMOLIT_CLOUD_HTTP_ENDPOINT", "SMOLIT_CLOUD_HTTP_AUTH_HEADER"} |->
     CASE k = "SMOLIT_TEXT_PROVIDER_CHAIN" -> chain
       [] k = "SMOLIT_CLOUD_HTTP_ENABLED" -> flag
       [] k = "SMOLIT_CLOUD_HTTP_ENDPOINT" -> endpoint
       [] OTHER -> header]

LocalEnv(endpoint) ==
  [k \in {"SMOLIT_TEXT_PROVIDER_CHAIN", "SMOLIT_LOCAL_HTTP_ENABLED",
          "SMOLIT_LOCAL_HTTP_ENDPOINT", "SMOLIT_LLAMAFILE_ENABLED"} |->
     CASE k = "SMOLIT_TEXT_PROVIDER_CHAIN" -> <<"llamafile_local", "local_http">>
       [] k = "SMOLIT_LOCAL_HTTP_ENDPOINT" -> endpoint
       [] OTHER -> <<"on">>]

TextStarts ==
  { From(CloudEnv(<<"cloudhttp", "">>, <<"on">>, <<"https://h">>, Blank), TRUE),
    From(CloudEnv(<<"cloud_http", "abrain">>, <<"maybe">>, <<"https://h">>, Unset), TRUE),
    From(CloudEnv(<<"abrain", "cloud_http">>, <<"on">>, <<"https://h">>, Unset), TRUE),
    From(CloudEnv(<<"cloud_http">>, <<"on">>, <<"http://h">>, Unset), FALSE),
    From(CloudEnv(<<"cloud_http">>, <<"1">>, <<"ftp://h">>, Unset), TRUE),
    From(CloudEnv(<<"cloud_http">>, <<"1">>, <<"https://:1">>, <<"a:b">>), TRUE),
    From(CloudEnv(<<"cloud_http">>, <<"1">>, <<"https://h">>, <<"a:b">>), TRUE),
    From(LocalEnv(<<"ftp://h">>), FALSE),
    From(LocalEnv(<<"http://h">>), FALSE),
    From(LocalEnv(<<"https://h">>), FALSE),
    [ process |-> [k \in {"SMOLIT_LLAMAFILE_ENABLED"} |-> <<"yes">>], key |-> FALSE,
      dotenv |-> [k \in {"SMOLIT_TEXT_PROVIDER_CHAIN", "SMOLIT_LLAMAFILE_PATH",
                         "SMOLIT_LLAMAFILE_ENABLED"} |->
                    IF k = "SMOLIT_TEXT_PROVIDER_CHAIN" THEN <<"llamafile_local">>
                    ELSE IF k = "SMOLIT_LLAMAFILE_PATH" THEN <<"bin">> ELSE <<"no">>] ] }

SpeechEnv(axis, chain, cmd, flag) ==
  LET key == IF axis = "stt" THEN "SMOLIT_STT_" ELSE "SMOLIT_TTS_" IN
  [k \in {key \o "PROVIDER_CHAIN", key \o "CMD", key \o "ENABLED"} |->
     CASE k = key \o "PROVIDER_CHAIN" -> chain
       [] k = key \o "CMD" -> cmd
       [] OTHER -> flag]

SpeechStarts(axis) ==
  LET other == IF axis = "stt" THEN "whisper_cpp" ELSE "piper" IN
  { From(SpeechEnv(axis, <<other, "command">>, <<"say">>, <<"on">>), FALSE),
    From(SpeechEnv(axis, <<"command", "command">>, <<"say">>, <<"on">>), FALSE),
    From(SpeechEnv(axis, <<"unknown">>, <<"''">>, <<"on">>), FALSE),
    From(SpeechEnv(axis, <<"command", other>>, <<"say">>, <<"off">>), FALSE) }

MCStarts == [axis \in Axis |-> IF axis = "text" THEN TextStarts ELSE SpeechStarts(axis)]
==============================================================================
