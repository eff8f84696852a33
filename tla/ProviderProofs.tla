--------------------------- MODULE ProviderProofs ---------------------------
(***************************************************************************)
(* Theorems about the providers: core/src/config.rs, and providers/text.rs,*)
(* stt.rs and tts.rs with probe.rs on top of it.                           *)
(*                                                                         *)
(*   - whatever the environment and the .env file hold, a configuration    *)
(*     has the types and ranges the core relies on, and the gates closed   *)
(*     by default open for a plain yes only;                               *)
(*   - CallsInv is an inductive invariant of the calls; from it follow     *)
(*     that text leaves the machine on request only, that a status is the  *)
(*     resolver's own, that probes and statuses agree with what calls do,  *)
(*     and, with classify_error in closed form, that the class of a        *)
(*     failed call is that of its cause.                                   *)
(*                                                                         *)
(* parse_provider_chain and from_chain are loops over words (Only); what   *)
(* they keep is proved by UpTo, an induction over a set of numbers.        *)
(***************************************************************************)
EXTENDS ProviderProbes, WellFoundedInduction, SequenceTheorems, TLAPS

(* A start without variables. *)
IsBare(start) == DOMAIN start.process = {} /\ DOMAIN start.dotenv = {}

LEMMA BareLookup ==
  ASSUME NEW start, IsBare(start), NEW key
  PROVE  Lookup(start, key) = Unset
BY DEF IsBare, Lookup

LEMMA BoolType ==
  ASSUME NEW raw, NEW default \in BOOLEAN
  PROVE  parse_bool(raw, default) \in BOOLEAN
BY DEF parse_bool

LEMMA NumeralType == \A w \in DOMAIN Numeral : Numeral[w] \in Nat
BY DEF Numeral

LEMMA U64Type ==
  ASSUME NEW raw, NEW default \in Nat
  PROVE  parse_u64(raw, default) \in Nat
BY NumeralType DEF parse_u64, IsNumber

LEMMA ModeType == ASSUME NEW raw PROVE parse_llamafile_mode(raw) \in AllowedModes
BY DEF parse_llamafile_mode, validate_llamafile_mode, AllowedModes

(* parse_provider_chain: a chain is never empty, whatever was written.     *)
THEOREM ChainsAreNotEmpty ==
  ASSUME NEW raw, NEW default, default # << >>
  PROVE  parse_provider_chain(raw, default) # << >>
BY DEF parse_provider_chain

LEMMA PortRange == ASSUME NEW raw PROVE parse_llamafile_port(raw) \in Ports
<1>1. IsPort(raw) => Numeral[raw[1]] \in Ports
  BY DEF IsPort
<1>2. 8788 \in Ports
  BY DEF Ports
<1> QED BY <1>1, <1>2 DEF parse_llamafile_port

LEMMA OrElseIsSet ==
  ASSUME NEW raw, NEW default, default # Unset
  PROVE  OrElse(raw, default) # Unset
BY DEF OrElse

-----------------------------------------------------------------------------
(* Config::load: whatever the environment and the .env file hold, the mode *)
(* of llamafile is a known one and its port can be bound, its times are    *)
(* numbers, and the fields an HTTP request is built from are never empty.  *)
THEOREM LoadedInRange ==
  ASSUME NEW start
  PROVE  /\ LoadLlamafile(start).mode \in AllowedModes
         /\ LoadLlamafile(start).port \in Ports
         /\ LoadLlamafile(start).idle_timeout_seconds \in Nat
         /\ LoadLocalHttp(start).prompt_field # Unset
         /\ LoadLocalHttp(start).response_field # Unset
         /\ LoadCloudHttp(start).prompt_field # Unset
         /\ LoadCloudHttp(start).response_field # Unset
         /\ LoadCloudHttp(start).auth_header # Unset
<1>1. /\ LoadLlamafile(start).mode \in AllowedModes
      /\ LoadLlamafile(start).port \in Ports
      /\ LoadLlamafile(start).idle_timeout_seconds \in Nat
  BY ModeType, PortRange, U64Type DEF LoadLlamafile
<1>2. <<"prompt">> # Unset /\ <<"content">> # Unset /\ <<"authorization">> # Unset
  BY DEF Unset
<1>3. LoadLocalHttp(start).prompt_field # Unset /\ LoadLocalHttp(start).response_field # Unset
  BY <1>2, OrElseIsSet DEF LoadLocalHttp
<1>4. /\ LoadCloudHttp(start).prompt_field # Unset
      /\ LoadCloudHttp(start).response_field # Unset
      /\ LoadCloudHttp(start).auth_header # Unset
  BY <1>2, OrElseIsSet DEF LoadCloudHttp
<1> QED BY <1>1, <1>3, <1>4

LEMMA UnsetIsNoWord == Len(Unset) = 0 /\ Unset # Blank /\ \A w : Unset # <<w>>
BY DEF Unset, Blank

LEMMA UnsetIsNoNumber == ~IsNumber(Unset)
BY UnsetIsNoWord DEF IsNumber

LEMMA UnsetBool == \A default \in BOOLEAN : parse_bool(Unset, default) = default
<1>1. /\ Unset \notin {<<"true">>, <<"1">>, <<"yes">>, <<"on">>}
      /\ Unset \notin {<<"false">>, <<"0">>, <<"no">>, <<"off">>}
  BY UnsetIsNoWord
<1> QED BY <1>1 DEF parse_bool

LEMMA UnsetNumber == \A default \in Nat : parse_u64(Unset, default) = default
BY UnsetIsNoNumber DEF parse_u64

LEMMA UnsetText ==
  /\ non_empty(Unset) = Unset
  /\ \A default : OrElse(non_empty(Unset), default) = default
BY DEF non_empty, OrElse

LEMMA UnsetMode == parse_llamafile_mode(Unset) = "on_demand"
BY UnsetIsNoWord DEF parse_llamafile_mode, validate_llamafile_mode

LEMMA UnsetPort == parse_llamafile_port(Unset) = 8788
BY UnsetIsNoNumber DEF parse_llamafile_port, IsPort

(* Config::load against impl Default for LlamafileConfig, LocalHttpConfig  *)
(* and CloudHttpConfig: without variables the loader gives exactly the     *)
(* defaults that older stored configurations are completed from.           *)
THEOREM DefaultsAgree ==
  ASSUME NEW start, IsBare(start)
  PROVE  /\ \A field \in DOMAIN DefaultLlamafile :
              LoadLlamafile(start)[field] = DefaultLlamafile[field]
         /\ LoadLocalHttp(start) = DefaultLocalHttp
         /\ LoadCloudHttp(start) = DefaultCloudHttp
<1>1. \A key : Lookup(start, key) = Unset
  BY BareLookup
<1>2. \A field \in DOMAIN DefaultLlamafile :
        LoadLlamafile(start)[field] = DefaultLlamafile[field]
  <2>1. LoadLlamafile(start).enabled = DefaultLlamafile.enabled
    <3>1. LoadLlamafile(start).enabled = parse_bool(Unset, FALSE)
      BY <1>1 DEF LoadLlamafile
    <3>2. DefaultLlamafile.enabled = FALSE
      BY DEF DefaultLlamafile
    <3> QED BY <3>1, <3>2, UnsetBool
  <2>2. LoadLlamafile(start).path = DefaultLlamafile.path
    <3>1. LoadLlamafile(start).path = non_empty(Unset)
      BY <1>1 DEF LoadLlamafile
    <3>2. DefaultLlamafile.path = Unset
      BY DEF DefaultLlamafile
    <3> QED BY <3>1, <3>2, UnsetText
  <2>3. LoadLlamafile(start).mode = DefaultLlamafile.mode
    BY <1>1, UnsetMode DEF LoadLlamafile, DefaultLlamafile
  <2>4. LoadLlamafile(start).port = DefaultLlamafile.port
    BY <1>1, UnsetPort DEF LoadLlamafile, DefaultLlamafile
  <2>5. LoadLlamafile(start).idle_timeout_seconds = DefaultLlamafile.idle_timeout_seconds
    BY <1>1, UnsetNumber DEF LoadLlamafile, DefaultLlamafile
  <2>6. LoadLlamafile(start).startup_timeout_seconds = DefaultLlamafile.startup_timeout_seconds
    BY <1>1, UnsetNumber DEF LoadLlamafile, DefaultLlamafile
  <2>7. LoadLlamafile(start).request_timeout_seconds = DefaultLlamafile.request_timeout_seconds
    BY <1>1, UnsetNumber DEF LoadLlamafile, DefaultLlamafile
  <2>8. DOMAIN DefaultLlamafile =
          {"enabled", "path", "mode", "idle_timeout_seconds", "port",
           "startup_timeout_seconds", "request_timeout_seconds"}
    BY DEF DefaultLlamafile
  <2> QED BY <2>1, <2>2, <2>3, <2>4, <2>5, <2>6, <2>7, <2>8, Zenon
<1>3. LoadLocalHttp(start) = DefaultLocalHttp
  BY <1>1, UnsetBool, UnsetNumber, UnsetText DEF LoadLocalHttp, DefaultLocalHttp
<1>4. LoadCloudHttp(start) = DefaultCloudHttp
  BY <1>1, UnsetBool, UnsetNumber, UnsetText DEF LoadCloudHttp, DefaultCloudHttp
<1> QED BY <1>2, <1>3, <1>4

(* parse_bool under the gates of real interaction and of the cloud: a gate *)
(* that is closed by default is opened by a plain yes alone, and the       *)
(* confirmation is waived by a plain no alone; a typing error does neither.*)
THEOREM GatesNeedPlainWords ==
  ASSUME NEW start
  PROVE  /\ LoadInteraction(start).allow_focus_window =>
              Lookup(start, "SMOLIT_INTERACTION_ALLOW_FOCUS_WINDOW")
                \in {<<"true">>, <<"1">>, <<"yes">>, <<"on">>}
         /\ LoadCloudHttp(start).enabled =>
              Lookup(start, "SMOLIT_CLOUD_HTTP_ENABLED")
                \in {<<"true">>, <<"1">>, <<"yes">>, <<"on">>}
         /\ ~LoadInteraction(start).require_confirmation =>
              Lookup(start, "SMOLIT_INTERACTION_REQUIRE_CONFIRMATION")
                \in {<<"false">>, <<"0">>, <<"no">>, <<"off">>}
<1>1. ASSUME NEW raw, parse_bool(raw, FALSE)
      PROVE  raw \in {<<"true">>, <<"1">>, <<"yes">>, <<"on">>}
  BY <1>1 DEF parse_bool
<1>2. ASSUME NEW raw, ~parse_bool(raw, TRUE)
      PROVE  raw \in {<<"false">>, <<"0">>, <<"no">>, <<"off">>}
  BY <1>2 DEF parse_bool
<1> QED BY <1>1, <1>2 DEF LoadInteraction, LoadCloudHttp

-----------------------------------------------------------------------------
(* A set of numbers that holds 0, and n + 1 with each n, holds all up to m. *)
LEMMA UpTo ==
  ASSUME NEW m \in Nat, NEW T, 0 \in T,
         \A n \in 0 .. m - 1 : n \in T => n + 1 \in T
  PROVE  m \in T
  <1> DEFINE U == {n \in 0 .. m : n \notin T}
  <1>1. SUFFICES ASSUME m \notin T PROVE FALSE
    OBVIOUS
  <1>2. U \subseteq Nat /\ U # {}
    BY <1>1
  <1> HIDE DEF U
  <1>3. PICK x \in U : \A y \in U : ~ (<<y, x>> \in OpToRel(<, Nat))
    BY <1>2, NatLessThanWellFounded, WFMin
  <1>4. \A y \in U : ~ (y < x)
    <2> TAKE y \in U
    <2>1. y \in Nat /\ x \in Nat
      BY <1>2
    <2>2. y < x => <<y, x>> \in OpToRel(<, Nat)
      BY <2>1 DEF OpToRel
    <2> QED BY <1>3, <2>2
  <1>5. x \in 0 .. m /\ x \notin T /\ x # 0
    BY DEF U
  <1>6. x - 1 \in 0 .. m - 1 /\ x - 1 + 1 = x
    BY <1>5
  <1>7. x - 1 \in U
    BY <1>5, <1>6 DEF U
  <1> QED
    BY <1>4, <1>5, <1>7

(* The loop of Only: f is what it has kept after each word.                *)
IsKept(f, words, allowed, m) ==
  f = [n \in 0 .. m |->
         IF n = 0 THEN << >>
         ELSE IF words[n] \in allowed THEN Append(f[n - 1], words[n]) ELSE f[n - 1]]

LEMMA KeptExists ==
  ASSUME NEW words, NEW allowed, NEW m \in Nat
  PROVE  \E f : IsKept(f, words, allowed, m)
  <1> DEFINE T == {n \in Nat : \E f : IsKept(f, words, allowed, n)}
  <1>1. 0 \in T
    <2> DEFINE f == [n \in 0 .. 0 |-> << >>]
    <2>1. IsKept(f, words, allowed, 0)
      BY DEF IsKept
    <2> HIDE DEF f
    <2> QED BY <2>1
  <1>2. ASSUME NEW n \in 0 .. m - 1, n \in T
        PROVE  n + 1 \in T
    <2>1. PICK f : IsKept(f, words, allowed, n)
      BY <1>2
    <2> DEFINE step == IF words[n + 1] \in allowed THEN Append(f[n], words[n + 1]) ELSE f[n]
               g == [i \in 0 .. n + 1 |-> IF i = n + 1 THEN step ELSE f[i]]
               h == [i \in 0 .. n + 1 |->
                       IF i = 0 THEN << >>
                       ELSE IF words[i] \in allowed THEN Append(g[i - 1], words[i]) ELSE g[i - 1]]
    <2>2. n \in Nat
      OBVIOUS
    <2>3. ASSUME NEW i \in 0 .. n + 1
          PROVE  g[i] = h[i]
      <3>1. CASE i = n + 1
        <4>1. g[i] = step /\ i # 0 /\ i - 1 = n /\ g[i - 1] = f[n]
          BY <2>2, <3>1
        <4>2. h[i] = IF words[i] \in allowed THEN Append(g[i - 1], words[i]) ELSE g[i - 1]
          BY <4>1
        <4> QED BY <3>1, <4>1, <4>2
      <3>2. CASE i # n + 1
        <4>1. i \in 0 .. n /\ g[i] = f[i]
          BY <2>2, <3>2
        <4>2. f[i] = IF i = 0 THEN << >>
                     ELSE IF words[i] \in allowed THEN Append(f[i - 1], words[i]) ELSE f[i - 1]
          BY <2>1, <4>1 DEF IsKept
        <4>3. i # 0 => g[i - 1] = f[i - 1]
          BY <2>2, <4>1
        <4> QED BY <4>1, <4>2, <4>3
      <3> QED BY <3>1, <3>2
    <2>4. g = h
      <3>1. g = [i \in 0 .. n + 1 |-> g[i]]
        OBVIOUS
      <3>2. h = [i \in 0 .. n + 1 |-> h[i]]
        OBVIOUS
      <3> HIDE DEF g, h
      <3> QED BY <2>3, <3>1, <3>2
    <2>5. IsKept(g, words, allowed, n + 1)
      BY <2>4 DEF IsKept
    <2> HIDE DEF g
    <2> QED BY <2>2, <2>5
  <1>3. m \in T
    <2> HIDE DEF T
    <2> QED BY <1>1, <1>2, UpTo
  <1> QED
    BY <1>3

LEMMA KeptAt ==
  ASSUME NEW f, NEW words, NEW allowed, NEW m \in Nat, IsKept(f, words, allowed, m)
  PROVE  /\ f[0] = << >>
         /\ \A n \in 0 .. m - 1 :
              f[n + 1] = IF words[n + 1] \in allowed THEN Append(f[n], words[n + 1]) ELSE f[n]
  <1>1. f[0] = << >>
    BY DEF IsKept
  <1>2. ASSUME NEW n \in 0 .. m - 1, NEW i \in 0 .. m, i = n + 1
        PROVE  f[i] = IF words[i] \in allowed THEN Append(f[n], words[i]) ELSE f[n]
    <2>1. i # 0 /\ i - 1 = n
      BY <1>2
    <2> QED BY <2>1 DEF IsKept
  <1> QED
    BY <1>1, <1>2

(* What is kept is a sequence of words, each allowed and each of the text. *)
LEMMA OnlyKeeps ==
  ASSUME NEW S, NEW words \in Seq(S), NEW allowed
  PROVE  /\ Only(words, allowed) \in Seq(S)
         /\ \A i \in DOMAIN Only(words, allowed) :
              /\ Only(words, allowed)[i] \in allowed
              /\ \E j \in DOMAIN words : words[j] = Only(words, allowed)[i]
  <1> DEFINE m == Len(words)
             kept == CHOOSE f : IsKept(f, words, allowed, m)
             Good(s) == /\ s \in Seq(S)
                        /\ \A i \in DOMAIN s :
                             s[i] \in allowed /\ \E j \in DOMAIN words : words[j] = s[i]
             T == {n \in 0 .. m : Good(kept[n])}
  <1>1. m \in Nat /\ DOMAIN words = 1 .. m /\ \A n \in 1 .. m : words[n] \in S
    OBVIOUS
  <1>2. Only(words, allowed) = kept[m]
    BY DEF Only, IsKept
  <1>3. IsKept(kept, words, allowed, m)
    BY <1>1, KeptExists
  <1> HIDE DEF kept, m
  <1>4. 0 \in T
    <2>1. kept[0] = << >> /\ 0 \in 0 .. m
      BY <1>1, <1>3, KeptAt
    <2>2. Good(<< >>)
      OBVIOUS
    <2>3. Good(kept[0])
      BY <2>1, <2>2
    <2> QED BY <2>1, <2>3
  <1>5. ASSUME NEW n \in 0 .. m - 1, n \in T
        PROVE  n + 1 \in T
    <2>1. n + 1 \in 0 .. m /\ n + 1 \in 1 .. m
      BY <1>1
    <2>2. Good(kept[n])
      BY <1>5
    <2> DEFINE old == kept[n]
               w == words[n + 1]
    <2>3. kept[n + 1] = IF w \in allowed THEN Append(old, w) ELSE old
      BY <1>1, <1>3, KeptAt
    <2>4. w \in S /\ \E j \in DOMAIN words : words[j] = w
      BY <1>1, <2>1
    <2> HIDE DEF old, w
    <2>5. ASSUME w \in allowed
          PROVE  Good(Append(old, w))
      <3>0. Good(old)
        BY <2>2 DEF old
      <3>1. /\ Append(old, w) \in Seq(S) /\ Len(old) \in Nat /\ DOMAIN old = 1 .. Len(old)
            /\ DOMAIN Append(old, w) = 1 .. Len(old) + 1
            /\ \A i \in 1 .. Len(old) : Append(old, w)[i] = old[i]
            /\ Append(old, w)[Len(old) + 1] = w
        BY <2>4, <3>0
      <3>2. \A i \in 1 .. Len(old) + 1 : i \in 1 .. Len(old) \/ i = Len(old) + 1
        BY <3>1
      <3> DEFINE longer == Append(old, w)
      <3>3. /\ longer \in Seq(S) /\ DOMAIN longer = 1 .. Len(old) + 1
            /\ \A i \in 1 .. Len(old) : longer[i] = old[i]
            /\ longer[Len(old) + 1] = w
        BY <3>1
      <3> HIDE DEF longer
      <3>4. Good(longer)
        BY <2>4, <2>5, <3>0, <3>1, <3>2, <3>3
      <3> QED BY <3>4 DEF longer
    <2>6. Good(kept[n + 1])
      BY <2>2, <2>3, <2>5 DEF old
    <2> QED BY <2>1, <2>6
  <1>6. m \in T
    <2> HIDE DEF T
    <2> QED BY <1>1, <1>4, <1>5, UpTo
  <1>7. Good(kept[m])
    BY <1>6
  <1> QED
    BY <1>2, <1>7

-----------------------------------------------------------------------------
LEMMA KnownChain ==
  ASSUME NEW axis \in Axis, NEW S, NEW chain \in Seq(S)
  PROVE  /\ from_chain(axis, chain) \in Seq(KnownKinds[axis])
         /\ from_chain(axis, chain) # << >>
         /\ \A i \in DOMAIN from_chain(axis, chain) :
              \/ from_chain(axis, chain)[i] = DefaultKind[axis]
              \/ \E j \in DOMAIN chain : chain[j] = from_chain(axis, chain)[i]
  <1> DEFINE known == Only(chain, KnownKinds[axis])
  <1>1. /\ known \in Seq(S)
        /\ \A i \in DOMAIN known :
             known[i] \in KnownKinds[axis] /\ \E j \in DOMAIN chain : chain[j] = known[i]
    BY OnlyKeeps
  <1>2. DefaultKind[axis] \in KnownKinds[axis]
    BY DEF Axis, DefaultKind, KnownKinds
  <1>3. from_chain(axis, chain) = IF known = << >> THEN <<DefaultKind[axis]>> ELSE known
    BY DEF from_chain
  <1> HIDE DEF known
  <1> DEFINE default == DefaultKind[axis]
             kinds == KnownKinds[axis]
  <1>4. default \in kinds
    BY <1>2
  <1>5. \A i \in DOMAIN known :
          known[i] \in kinds /\ \E j \in DOMAIN chain : chain[j] = known[i]
    BY <1>1
  <1>6. from_chain(axis, chain) = IF known = << >> THEN <<default>> ELSE known
    BY <1>3
  <1> HIDE DEF default, kinds
  <1>7. CASE known = << >>
    <2>1. from_chain(axis, chain) = <<default>>
      BY <1>6, <1>7
    <2>2. \A i \in DOMAIN <<default>> : <<default>>[i] = default
      OBVIOUS
    <2>3. <<default>> \in Seq(kinds) /\ <<default>> # << >>
      BY <1>4
    <2> QED BY <2>1, <2>2, <2>3 DEF default, kinds
  <1>8. CASE known # << >>
    <2>1. from_chain(axis, chain) = known
      BY <1>6, <1>8
    <2>2. known \in Seq(kinds)
      BY <1>1, <1>5
    <2> QED BY <1>5, <1>8, <2>1, <2>2 DEF default, kinds
  <1> QED BY <1>7, <1>8

LEMMA ParsedChain ==
  ASSUME NEW T, NEW raw \in Seq(T), NEW word
  PROVE  \E S : /\ parse_provider_chain(raw, <<word>>) \in Seq(S)
                /\ \A i \in DOMAIN parse_provider_chain(raw, <<word>>) :
                     \/ parse_provider_chain(raw, <<word>>)[i] = word
                     \/ \E j \in DOMAIN raw : raw[j] = parse_provider_chain(raw, <<word>>)[i]
  <1> DEFINE words == STRING \ {""}
             items == Only(raw, words)
             parsed == parse_provider_chain(raw, <<word>>)
  <1> HIDE DEF words
  <1>1. /\ items \in Seq(T)
        /\ \A i \in DOMAIN items : \E j \in DOMAIN raw : raw[j] = items[i]
    BY OnlyKeeps
  <1>2. parsed = IF items = << >> THEN <<word>> ELSE items
    BY DEF parse_provider_chain, words
  <1> HIDE DEF items, parsed
  <1>3. CASE items = << >>
    <2>1. parsed = <<word>>
      BY <1>2, <1>3
    <2>2. parsed \in Seq({word}) /\ \A i \in DOMAIN parsed : parsed[i] = word
      BY <2>1
    <2> QED BY <2>2 DEF parsed
  <1>4. CASE items # << >>
    <2>1. parsed = items
      BY <1>2, <1>4
    <2> QED BY <1>1, <2>1 DEF parsed
  <1> QED BY <1>3, <1>4

LEMMA LookedUp ==
  ASSUME NEW axis \in Axes, NEW start \in Starts[axis], NEW key
  PROVE  Lookup(start, key) \in Seq(STRING)
  <1>1. Unset \in Seq(STRING)
    BY DEF Unset
  <1> QED BY <1>1, StartsAssumption DEF Lookup

ChainKey(axis) ==
  CASE axis = "text" -> "SMOLIT_TEXT_PROVIDER_CHAIN"
    [] axis = "stt" -> "SMOLIT_STT_PROVIDER_CHAIN"
    [] OTHER -> "SMOLIT_TTS_PROVIDER_CHAIN"

LEMMA LoadedChain ==
  ASSUME NEW axis \in Axis, NEW start
  PROVE  ChainOf(axis, Load(axis, start)) =
           parse_provider_chain(Lookup(start, ChainKey(axis)), <<DefaultKind[axis]>>)
  <1>1. CASE axis = "text"
    BY <1>1 DEF ChainOf, Load, LoadTextProvider, ChainKey, DefaultKind
  <1>2. CASE axis = "stt"
    BY <1>2 DEF ChainOf, Load, LoadAudio, ChainKey, DefaultKind
  <1>3. CASE axis = "tts"
    BY <1>3 DEF ChainOf, Load, LoadAudio, ChainKey, DefaultKind
  <1> QED BY <1>1, <1>2, <1>3 DEF Axis

KindsOf(axis, start) == from_chain(axis, ChainOf(axis, Load(axis, start)))

LEMMA BuiltKinds ==
  ASSUME NEW axis \in Axes, NEW start \in Starts[axis]
  PROVE  /\ axis \in Axis
         /\ KindsOf(axis, start) \in Seq(KnownKinds[axis])
         /\ KindsOf(axis, start) # << >>
         /\ \A i \in DOMAIN KindsOf(axis, start) :
              \/ KindsOf(axis, start)[i] = DefaultKind[axis]
              \/ \E j \in DOMAIN Lookup(start, ChainKey(axis)) :
                   Lookup(start, ChainKey(axis))[j] = KindsOf(axis, start)[i]
  <1>1. axis \in Axis
    BY AxesAssumption
  <1> DEFINE raw == Lookup(start, ChainKey(axis))
             chain == ChainOf(axis, Load(axis, start))
             default == DefaultKind[axis]
             kinds == KindsOf(axis, start)
  <1>2. raw \in Seq(STRING)
    BY LookedUp
  <1>3. chain = parse_provider_chain(raw, <<default>>)
    BY <1>1, LoadedChain
  <1>4. kinds = from_chain(axis, chain)
    BY DEF KindsOf
  <1> HIDE DEF raw, chain, default, kinds
  <1>5. PICK S : /\ chain \in Seq(S)
                 /\ \A i \in DOMAIN chain :
                      chain[i] = default \/ \E j \in DOMAIN raw : raw[j] = chain[i]
    BY <1>2, <1>3, ParsedChain, SMTT(30)
  <1>6. /\ kinds \in Seq(KnownKinds[axis]) /\ kinds # << >>
        /\ \A i \in DOMAIN kinds :
             kinds[i] = default \/ \E j \in DOMAIN chain : chain[j] = kinds[i]
    BY <1>1, <1>4, <1>5, KnownChain DEF default
  <1>7. \A i \in DOMAIN kinds :
          kinds[i] = default \/ \E j \in DOMAIN raw : raw[j] = kinds[i]
    BY <1>5, <1>6, Zenon
  <1> QED BY <1>1, <1>6, <1>7 DEF raw, default, kinds

-----------------------------------------------------------------------------
(* The inductive invariant.  A step of a call writes at most the status of *)
(* its own resolver; everything else a resolver was built from stays.      *)
Same(res, old) ==
  /\ res.axis = old.axis /\ res.start = old.start
  /\ res.cfg = old.cfg /\ res.kinds = old.kinds

Keeps ==
  /\ DOMAIN resolvers \subseteq DOMAIN resolvers'
  /\ \A i \in DOMAIN resolvers : Same(resolvers'[i], resolvers[i])

LEMMA BuiltFromFields ==
  ASSUME NEW axis \in Axes, NEW start \in Starts[axis], NEW status, NEW res,
         res = BuiltFrom(axis, start, status)
  PROVE  /\ res.axis = axis /\ res.start = start /\ res.cfg = Load(axis, start)
         /\ res.kinds = KindsOf(axis, start) /\ res.status = status
         /\ \A other : [res EXCEPT !.status = other] = BuiltFrom(axis, start, other)
         /\ axis \in Axis
         /\ res.kinds \in Seq(KnownKinds[axis]) /\ res.kinds # << >>
  <1>1. /\ axis \in Axis
        /\ KindsOf(axis, start) \in Seq(KnownKinds[axis]) /\ KindsOf(axis, start) # << >>
    BY BuiltKinds
  <1>2. \A other : BuiltFrom(axis, start, other) =
          [axis |-> axis, start |-> start, cfg |-> Load(axis, start),
           kinds |-> KindsOf(axis, start), status |-> other]
    BY DEF BuiltFrom, Resolver, KindsOf
  <1> QED BY <1>1, <1>2

(* What BuiltInv says of one resolver. *)
LEMMA ResolverType ==
  ASSUME BuiltInv, NEW i \in DOMAIN resolvers
  PROVE  /\ resolvers[i].axis \in Axes /\ resolvers[i].axis \in Axis
         /\ resolvers[i].start \in Starts[resolvers[i].axis]
         /\ resolvers[i].cfg = Load(resolvers[i].axis, resolvers[i].start)
         /\ resolvers[i].kinds = KindsOf(resolvers[i].axis, resolvers[i].start)
         /\ resolvers[i].kinds \in Seq(KnownKinds[resolvers[i].axis])
         /\ resolvers[i].kinds # << >>
  <1>1. PICK axis \in Axes : \E start \in Starts[axis] :
          resolvers[i] = BuiltFrom(axis, start, resolvers[i].status)
    BY DEF BuiltInv
  <1>2. PICK start \in Starts[axis] :
          resolvers[i] = BuiltFrom(axis, start, resolvers[i].status)
    BY <1>1
  <1> QED BY <1>2, BuiltFromFields

LEMMA SetStatusKeeps ==
  ASSUME TypeOK, BuiltInv, NEW g \in DOMAIN resolvers, NEW status, SetStatus(g, status)
  PROVE  /\ resolvers' \in Seq(Range(resolvers')) /\ resolvers' # << >>
         /\ DOMAIN resolvers' = DOMAIN resolvers
         /\ Keeps /\ BuiltInv'
         /\ resolvers'[g].status = status
         /\ \A i \in DOMAIN resolvers \ {g} : resolvers'[i] = resolvers[i]
  <1>1. /\ resolvers \in Seq(Range(resolvers)) /\ resolvers # << >>
        /\ resolvers' = [resolvers EXCEPT ![g].status = status]
    BY DEF TypeOK, SetStatus
  <1> DEFINE fresh == [resolvers[g] EXCEPT !.status = status]
  <1>2. /\ DOMAIN resolvers' = DOMAIN resolvers
        /\ resolvers'[g] = fresh
        /\ \A i \in DOMAIN resolvers \ {g} : resolvers'[i] = resolvers[i]
    BY <1>1
  <1>0. PICK axis \in Axes : \E start \in Starts[axis] :
          resolvers[g] = BuiltFrom(axis, start, resolvers[g].status)
    BY DEF BuiltInv
  <1>3. PICK start \in Starts[axis] :
          resolvers[g] = BuiltFrom(axis, start, resolvers[g].status)
    BY <1>0
  <1>4. fresh = BuiltFrom(axis, start, status) /\ fresh.status = status /\ Same(fresh, resolvers[g])
    <2>1. fresh = BuiltFrom(axis, start, status)
      BY <1>3, BuiltFromFields
    <2> HIDE DEF fresh
    <2>2. /\ fresh.axis = axis /\ fresh.start = start /\ fresh.cfg = Load(axis, start)
          /\ fresh.kinds = KindsOf(axis, start) /\ fresh.status = status
      BY <2>1, BuiltFromFields
    <2>3. /\ resolvers[g].axis = axis /\ resolvers[g].start = start
          /\ resolvers[g].cfg = Load(axis, start) /\ resolvers[g].kinds = KindsOf(axis, start)
      BY <1>3, BuiltFromFields
    <2> QED BY <2>1, <2>2, <2>3 DEF Same
  <1> HIDE DEF fresh
  <1>5. Keeps
    BY <1>2, <1>4 DEF Keeps, Same
  <1>6. BuiltInv'
    <2>1. ASSUME NEW i \in DOMAIN resolvers
          PROVE  \E a \in Axes : \E s \in Starts[a] :
                   resolvers'[i] = BuiltFrom(a, s, resolvers'[i].status)
      <3>1. CASE i = g
        BY <1>2, <1>4, <3>1
      <3>2. CASE i # g
        <4>1. resolvers'[i] = resolvers[i]
          BY <1>2, <3>2
        <4> QED BY <4>1 DEF BuiltInv
      <3> QED BY <3>1, <3>2
    <2> QED BY <1>2, <2>1 DEF BuiltInv
  <1>7. resolvers' \in Seq(Range(resolvers')) /\ resolvers' # << >>
    <2>1. DOMAIN resolvers = 1 .. Len(resolvers) /\ Len(resolvers) \in Nat /\ Len(resolvers) # 0
      BY <1>1
    <2>2. resolvers' = [i \in 1 .. Len(resolvers) |-> resolvers'[i]]
      BY <1>1, <2>1
    <2>3. \A i \in 1 .. Len(resolvers) : resolvers'[i] \in Range(resolvers')
      BY <1>2, <2>1 DEF Range
    <2> HIDE DEF Range
    <2>4. resolvers' \in Seq(Range(resolvers'))
      BY <2>1, <2>2, <2>3
    <2>5. resolvers' # << >>
      BY <1>2, <2>1
    <2> QED BY <2>4, <2>5
  <1> QED BY <1>2, <1>4, <1>5, <1>6, <1>7


(* What a step says of a call it runs: nothing but this and the resolvers. *)
LEMMA View ==
  ASSUME Keeps, NEW q, on'[q] = on[q], on[q] \in DOMAIN resolvers, at'[q] = at[q]
  PROVE  /\ on'[q] \in DOMAIN resolvers'
         /\ Ax(q)' = Ax(q) /\ Cfg(q)' = Cfg(q) /\ Kind(q)' = Kind(q)
         /\ Res(q)'.kinds = Res(q).kinds /\ Res(q)'.start = Res(q).start
         /\ IsProgram(q)' = IsProgram(q) /\ Refused(q)' = Refused(q)
  <1>1. /\ Ax(q)' = Ax(q) /\ Cfg(q)' = Cfg(q) /\ Kind(q)' = Kind(q)
        /\ Res(q)'.kinds = Res(q).kinds /\ Res(q)'.start = Res(q).start
        /\ on'[q] \in DOMAIN resolvers'
    BY DEF Keeps, Same, Ax, Cfg, Kind, Res
  <1>2. IsProgram(q)' = IsProgram(q)
    BY <1>1 DEF IsProgram
  <1>3. Refused(q)' = Refused(q)
    BY <1>1 DEF Refused
  <1> QED BY <1>1, <1>2, <1>3

(* A call that the step of another one leaves where it is. *)
LEMMA CallKept ==
  ASSUME Keeps, NEW q, CallInv(q),
         pc'[q] = pc[q], on'[q] = on[q], at'[q] = at[q], error'[q] = error[q],
         q \in egress' <=> q \in egress
  PROVE  CallInv(q)'
  <1>1. CASE pc[q] = "idle"
    BY <1>1 DEF CallInv
  <1>2. CASE pc[q] # "idle"
    <2>1. on[q] \in DOMAIN resolvers /\ at[q] \in DOMAIN Res(q).kinds
      BY <1>2 DEF CallInv
    <2>2. /\ on'[q] \in DOMAIN resolvers'
          /\ Ax(q)' = Ax(q) /\ Cfg(q)' = Cfg(q) /\ Kind(q)' = Kind(q)
          /\ Res(q)'.kinds = Res(q).kinds /\ Res(q)'.start = Res(q).start
          /\ IsProgram(q)' = IsProgram(q) /\ Refused(q)' = Refused(q)
      BY <2>1, View
    <2> QED BY <1>2, <2>1, <2>2 DEF CallInv
  <1> QED BY <1>1, <1>2

LEMMA OthersKept ==
  ASSUME CallsInv, Keeps, NEW r \in Call, CallInv(r)',
         \A q \in Call \ {r} :
           /\ pc'[q] = pc[q] /\ on'[q] = on[q] /\ at'[q] = at[q] /\ error'[q] = error[q]
           /\ q \in egress' <=> q \in egress
  PROVE  \A q \in Call : CallInv(q)'
  <1>1. ASSUME NEW q \in Call \ {r}
        PROVE  CallInv(q)'
    <2>1. CallInv(q)
      BY DEF CallsInv
    <2> QED BY <2>1, CallKept
  <1> QED BY <1>1

(* What the statuses say, when one of them is written. *)
StatusFits(res, st) ==
  /\ st.configured = res.kinds[1]
  /\ st.active # "" =>
       /\ \E k \in 1 .. Len(res.kinds) :
            res.kinds[k] = st.active /\ ((st.availability = "fallback_active") <=> (k > 1))
       /\ Refusal(res.axis, st.active, res.cfg, res.start.key) = None
  /\ st.last_error # None =>
       /\ st.active = "" /\ st.availability = "unavailable"
       /\ \E c \in Causes(res.axis, res.kinds[Len(res.kinds)]), echo \in Echoes \cup {{}} :
            st.last_error = Class(res.axis, res.kinds[Len(res.kinds)], c, echo)
  /\ st.cloud => st.active = "cloud_http"

LEMMA StatusParts ==
  (StatusIsOwn /\ ActiveIsUsable) <=>
    \A i \in DOMAIN resolvers : StatusFits(resolvers[i], resolvers[i].status)
  BY DEF StatusIsOwn, ActiveIsUsable, StatusFits

LEMMA FitsSame ==
  ASSUME NEW res, NEW old, NEW st, Same(res, old), StatusFits(old, st)
  PROVE  StatusFits(res, st)
  BY DEF Same, StatusFits

LEMMA StatusWritten ==
  ASSUME CallsInv, NEW g \in DOMAIN resolvers, NEW status, SetStatus(g, status),
         StatusFits(resolvers[g], status)
  PROVE  StatusIsOwn' /\ ActiveIsUsable'
  <1>1. \A i \in DOMAIN resolvers : StatusFits(resolvers[i], resolvers[i].status)
    BY StatusParts DEF CallsInv
  <1>2. /\ DOMAIN resolvers' = DOMAIN resolvers /\ Keeps
        /\ resolvers'[g].status = status
        /\ \A i \in DOMAIN resolvers \ {g} : resolvers'[i] = resolvers[i]
    BY SetStatusKeeps DEF CallsInv
  <1>3. ASSUME NEW i \in DOMAIN resolvers'
        PROVE  StatusFits(resolvers'[i], resolvers'[i].status)
    <2>1. CASE i = g
      <3>1. Same(resolvers'[g], resolvers[g])
        BY <1>2 DEF Keeps
      <3> QED BY <1>2, <2>1, <3>1, FitsSame
    <2>2. CASE i # g
      <3>1. resolvers'[i] = resolvers[i] /\ i \in DOMAIN resolvers
        BY <1>2, <2>2
      <3> QED BY <1>1, <3>1
    <2> QED BY <2>1, <2>2
  <1>4. (\A i \in DOMAIN resolvers : StatusFits(resolvers[i], resolvers[i].status))'
    BY <1>3
  <1>5. (StatusIsOwn /\ ActiveIsUsable)'
    BY <1>4, StatusParts, PTL
  <1> QED BY <1>5

-----------------------------------------------------------------------------
(* The three ways a running call moves: on to its next step, to the next   *)
(* provider or its failure, to its answer.                                 *)
Moving == {"attempt", "write", "wait", "tls", "exchange"}

(* What may have left the machine with the step of a call. *)
MayLeave(r) ==
  /\ egress \subseteq egress' /\ egress' \subseteq egress \cup {r}
  /\ r \in egress' =>
       /\ Ax(r) = "text" /\ \E i \in DOMAIN Res(r).kinds : Res(r).kinds[i] = "cloud_http"
       /\ Refusal("text", "cloud_http", Cfg(r), Res(r).start.key) = None

LEMMA NothingLeaves ==
  ASSUME NEW r \in Call, CallInv(r), egress' = egress
  PROVE  MayLeave(r)
  BY DEF CallInv, MayLeave

(* What is known of a call that runs. *)
LEMMA Running ==
  ASSUME CallsInv, NEW r \in Call, pc[r] \in Moving
  PROVE  /\ pc[r] # "idle" /\ on[r] \in DOMAIN resolvers /\ on[r] \in Nat
         /\ Ax(r) \in Axes /\ Ax(r) \in Axis
         /\ Res(r).kinds \in Seq(KnownKinds[Ax(r)]) /\ Res(r).kinds # << >>
         /\ at[r] \in 1 .. Len(Res(r).kinds) /\ Len(Res(r).kinds) \in Nat
         /\ Kind(r) \in KnownKinds[Ax(r)] /\ error[r] = NoError
  <1>1. CallInv(r) /\ BuiltInv /\ TypeOK
    BY DEF CallsInv
  <1>2. /\ pc[r] # "idle" /\ on[r] \in DOMAIN resolvers /\ at[r] \in DOMAIN Res(r).kinds
        /\ error[r] = NoError /\ on[r] \in Nat
    BY <1>1 DEF CallInv, Moving, TypeOK
  <1>3. /\ Ax(r) \in Axes /\ Ax(r) \in Axis
        /\ Res(r).kinds \in Seq(KnownKinds[Ax(r)]) /\ Res(r).kinds # << >>
    BY <1>1, <1>2, ResolverType DEF Ax, Res
  <1> DEFINE kinds == Res(r).kinds
             S == KnownKinds[Ax(r)]
  <1>4. kinds \in Seq(S) /\ at[r] \in DOMAIN kinds
    BY <1>2, <1>3
  <1> HIDE DEF kinds, S
  <1>5. at[r] \in 1 .. Len(kinds) /\ Len(kinds) \in Nat /\ kinds[at[r]] \in S
    BY <1>4
  <1> QED BY <1>2, <1>3, <1>5 DEF kinds, S, Kind

LEMMA StepGoes ==
  ASSUME CallsInv, NEW r \in Call, pc[r] \in Moving, MayLeave(r),
         NEW step \in Moving \ {"attempt"}, Goes(r, step), Refused(r) = None,
         step = "write" => Ax(r) = "tts", step = "wait" => IsProgram(r),
         step = "tls" => Ax(r) = "text" /\ Kind(r) = "cloud_http",
         step = "exchange" => Ax(r) = "text" /\ Kind(r) \in {"local_http", "cloud_http"}
  PROVE  CallsInv'
  <1>1. /\ pc' = [pc EXCEPT ![r] = step] /\ resolvers' = resolvers
        /\ on' = on /\ at' = at /\ error' = error
    BY DEF Goes
  <1>2. Keeps
    BY <1>1 DEF Keeps, Same
  <1>3. TypeOK' /\ pc'[r] = step
    BY <1>1 DEF CallsInv, TypeOK, Moving, MayLeave
  <1>4. BuiltInv' /\ StatusIsOwn' /\ ActiveIsUsable'
    BY <1>1, ZenonT(30) DEF CallsInv, BuiltInv, StatusIsOwn, ActiveIsUsable, BuiltFrom
  <1>5. CallInv(r)'
    <2>1. /\ on[r] \in DOMAIN resolvers /\ at[r] \in DOMAIN Res(r).kinds /\ error[r] = NoError
      BY Running DEF CallsInv, CallInv, Moving
    <2>2. /\ on'[r] \in DOMAIN resolvers'
          /\ Ax(r)' = Ax(r) /\ Cfg(r)' = Cfg(r) /\ Kind(r)' = Kind(r)
          /\ Res(r)'.kinds = Res(r).kinds /\ Res(r)'.start = Res(r).start
          /\ IsProgram(r)' = IsProgram(r) /\ Refused(r)' = Refused(r)
      BY <1>1, <1>2, <2>1, View
    <2> QED BY <1>1, <1>3, <2>1, <2>2 DEF CallInv, Moving, MayLeave
  <1>6. \A q \in Call : CallInv(q)'
    <2>1. \A q \in Call \ {r} :
            /\ pc'[q] = pc[q] /\ on'[q] = on[q] /\ at'[q] = at[q] /\ error'[q] = error[q]
            /\ q \in egress' <=> q \in egress
      BY <1>1 DEF CallsInv, TypeOK, MayLeave
    <2> QED BY <1>2, <1>5, <2>1, OthersKept
  <1> QED BY <1>3, <1>4, <1>6 DEF CallsInv

LEMMA StepSucceeds ==
  ASSUME CallsInv, NEW r \in Call, pc[r] \in Moving, MayLeave(r),
         Succeeds(r), Refused(r) = None
  PROVE  CallsInv'
  <1> DEFINE status == Status(Res(r).kinds[1], Kind(r),
                              IF at[r] = 1 THEN "available" ELSE "fallback_active", None)
             g == on[r]
  <1>1. /\ SetStatus(g, status) /\ pc' = [pc EXCEPT ![r] = "answered"]
        /\ on' = on /\ at' = at /\ error' = error
    BY DEF Succeeds
  <1>2. /\ g \in DOMAIN resolvers /\ at[r] \in 1 .. Len(Res(r).kinds)
        /\ at[r] \in DOMAIN Res(r).kinds /\ error[r] = NoError
        /\ Kind(r) = resolvers[g].kinds[at[r]] /\ Res(r) = resolvers[g]
        /\ Len(Res(r).kinds) \in Nat
    BY Running DEF Kind, Res, CallsInv, CallInv
  <1>3. StatusFits(resolvers[g], status)
    <2>1. /\ status.configured = Res(r).kinds[1] /\ status.active = Kind(r)
          /\ status.availability = (IF at[r] = 1 THEN "available" ELSE "fallback_active")
          /\ status.last_error = None /\ status.cloud = (Kind(r) = "cloud_http")
      BY DEF Status
    <2> HIDE DEF status
    <2>2. (status.availability = "fallback_active") <=> (at[r] > 1)
      BY <1>2, <2>1
    <2>3. \E k \in 1 .. Len(resolvers[g].kinds) :
            /\ resolvers[g].kinds[k] = status.active
            /\ (status.availability = "fallback_active") <=> (k > 1)
      BY <1>2, <2>1, <2>2
    <2>4. Refusal(resolvers[g].axis, status.active, resolvers[g].cfg, resolvers[g].start.key) = None
      BY <1>2, <2>1 DEF Refused, Ax, Cfg
    <2> QED BY <1>2, <2>1, <2>3, <2>4 DEF StatusFits
  <1> HIDE DEF status
  <1>4. StatusIsOwn' /\ ActiveIsUsable'
    BY <1>1, <1>2, <1>3, StatusWritten
  <1>5. /\ resolvers' \in Seq(Range(resolvers')) /\ resolvers' # << >> /\ Keeps /\ BuiltInv'
    BY <1>1, <1>2, SetStatusKeeps DEF CallsInv
  <1>6. TypeOK' /\ pc'[r] = "answered"
    BY <1>1, <1>5 DEF CallsInv, TypeOK, MayLeave
  <1>7. CallInv(r)'
    <2>1. /\ on'[r] \in DOMAIN resolvers'
          /\ Ax(r)' = Ax(r) /\ Cfg(r)' = Cfg(r)
          /\ Res(r)'.kinds = Res(r).kinds /\ Res(r)'.start = Res(r).start
      BY <1>1, <1>2, <1>5, View
    <2> QED BY <1>1, <1>2, <1>6, <2>1 DEF CallInv, MayLeave
  <1>8. \A q \in Call : CallInv(q)'
    <2>1. \A q \in Call \ {r} :
            /\ pc'[q] = pc[q] /\ on'[q] = on[q] /\ at'[q] = at[q] /\ error'[q] = error[q]
            /\ q \in egress' <=> q \in egress
      BY <1>1 DEF CallsInv, TypeOK, MayLeave
    <2> QED BY <1>5, <1>7, <2>1, OthersKept
  <1> QED BY <1>4, <1>5, <1>6, <1>8 DEF CallsInv

LEMMA StepFails ==
  ASSUME CallsInv, NEW r \in Call, pc[r] \in Moving, MayLeave(r),
         NEW cause \in Causes(Ax(r), Kind(r)), NEW echo \in Echoes \cup {{}},
         Fails(r, cause, echo)
  PROVE  CallsInv'
  <1>0. /\ on[r] \in DOMAIN resolvers /\ at[r] \in 1 .. Len(Res(r).kinds)
        /\ at[r] \in DOMAIN Res(r).kinds /\ error[r] = NoError
        /\ Res(r).kinds \in Seq(KnownKinds[Ax(r)])
        /\ Kind(r) = Res(r).kinds[at[r]] /\ Res(r) = resolvers[on[r]]
        /\ Len(Res(r).kinds) \in Nat /\ Kind(r) \in KnownKinds[Ax(r)] /\ Ax(r) \in Axes
    BY Running DEF Kind, Res, CallsInv, CallInv
  <1>1. CASE at[r] < Len(Res(r).kinds)
    <2>1. /\ at' = [at EXCEPT ![r] = @ + 1] /\ pc' = [pc EXCEPT ![r] = "attempt"]
          /\ resolvers' = resolvers /\ error' = error /\ on' = on
      BY <1>1 DEF Fails
    <2>2. Keeps
      BY <2>1 DEF Keeps, Same
    <2>3. TypeOK' /\ pc'[r] = "attempt" /\ at'[r] = at[r] + 1
      BY <2>1 DEF CallsInv, TypeOK, MayLeave
    <2>4. BuiltInv' /\ StatusIsOwn' /\ ActiveIsUsable'
      BY <2>1 DEF CallsInv, BuiltInv, StatusIsOwn, ActiveIsUsable, BuiltFrom
    <2>5. CallInv(r)'
      <3>1. Res(r)' = Res(r) /\ Ax(r)' = Ax(r) /\ Cfg(r)' = Cfg(r)
        BY <2>1 DEF Res, Ax, Cfg
      <3>2. at'[r] \in DOMAIN Res(r).kinds
        BY <1>0, <1>1, <2>3
      <3> QED BY <1>0, <2>1, <2>3, <3>1, <3>2 DEF CallInv, MayLeave
    <2>6. \A q \in Call \ {r} :
            /\ pc'[q] = pc[q] /\ on'[q] = on[q] /\ at'[q] = at[q] /\ error'[q] = error[q]
            /\ q \in egress' <=> q \in egress
      BY <2>1 DEF CallsInv, TypeOK, MayLeave
    <2>7. \A q \in Call : CallInv(q)'
      BY <2>2, <2>5, <2>6, OthersKept
    <2> QED BY <2>3, <2>4, <2>7 DEF CallsInv
  <1>2. CASE ~ (at[r] < Len(Res(r).kinds))
    <2> DEFINE class == Class(Ax(r), Kind(r), cause, echo)
               status == Status(Res(r).kinds[1], "", "unavailable", class)
               failure == [kind |-> Kind(r), cause |-> cause, class |-> class, echo |-> echo]
               g == on[r]
    <2>1. /\ pc' = [pc EXCEPT ![r] = "failed"] /\ error' = [error EXCEPT ![r] = failure]
          /\ SetStatus(g, status) /\ at' = at /\ on' = on
      BY <1>2 DEF Fails
    <2>2. at[r] = Len(Res(r).kinds)
      BY <1>0, <1>2
    <2>3. failure \in FailuresOf(Ax(r))
      BY <1>0 DEF FailuresOf
    <2>4. StatusFits(resolvers[g], status)
      <3>1. /\ status.configured = Res(r).kinds[1] /\ status.active = ""
            /\ status.availability = "unavailable"
            /\ status.last_error = class /\ status.cloud = FALSE
        BY DEF Status
      <3> HIDE DEF status
      <3>2. Kind(r) = Res(r).kinds[Len(Res(r).kinds)]
        BY <1>0, <2>2
      <3>3. \E c \in Causes(Ax(r), Res(r).kinds[Len(Res(r).kinds)]), e \in Echoes \cup {{}} :
              status.last_error = Class(Ax(r), Res(r).kinds[Len(Res(r).kinds)], c, e)
        BY <3>1, <3>2
      <3> QED BY <1>0, <3>1, <3>3 DEF StatusFits, Ax
    <2> HIDE DEF status, failure, class
    <2>5. StatusIsOwn' /\ ActiveIsUsable'
      BY <1>0, <2>1, <2>4, StatusWritten
    <2>6. /\ resolvers' \in Seq(Range(resolvers')) /\ resolvers' # << >> /\ Keeps /\ BuiltInv'
      BY <1>0, <2>1, SetStatusKeeps DEF CallsInv
    <2>7. TypeOK' /\ pc'[r] = "failed" /\ error'[r] = failure
      BY <1>0, <2>1, <2>3, <2>6 DEF CallsInv, TypeOK, MayLeave
    <2>8. CallInv(r)'
      <3>1. /\ on'[r] \in DOMAIN resolvers'
            /\ Ax(r)' = Ax(r) /\ Cfg(r)' = Cfg(r)
            /\ Res(r)'.kinds = Res(r).kinds /\ Res(r)'.start = Res(r).start
        BY <1>0, <2>1, <2>6, View
      <3>2. error'[r] \in FailuresOf(Ax(r)')
        BY <2>3, <2>7, <3>1
      <3> QED BY <1>0, <2>1, <2>7, <3>1, <3>2 DEF CallInv, MayLeave
    <2>9. \A q \in Call \ {r} :
            /\ pc'[q] = pc[q] /\ on'[q] = on[q] /\ at'[q] = at[q] /\ error'[q] = error[q]
            /\ q \in egress' <=> q \in egress
      BY <2>1 DEF CallsInv, TypeOK, MayLeave
    <2>10. \A q \in Call : CallInv(q)'
      BY <2>6, <2>8, <2>9, OthersKept
    <2> QED BY <2>5, <2>6, <2>7, <2>10 DEF CallsInv
  <1> QED BY <1>1, <1>2

LEMMA Domains ==
  /\ DOMAIN SttText = {"disabled", "not_configured", "unparseable", "timeout", "spawn_failed",
                       "exit_nonzero", "not_utf8", "no_output"}
  /\ DOMAIN TtsText = {"disabled", "not_configured", "unparseable", "spawn_failed",
                       "stdin_failed", "timeout", "wait_failed", "exit_nonzero"}
  /\ DOMAIN AbrainText = {"timeout", "spawn_failed", "not_utf8", "exit_nonzero", "no_output"}
  /\ DOMAIN TransportText = {"connect_timeout", "connect_failed", "io_timeout", "io_failed",
                             "not_utf8", "malformed"}
  /\ DOMAIN TlsText = {"untrusted", "bad_signature", "revoked", "expired", "not_yet_valid",
                       "wrong_host", "tls_timeout", "tls_failed", "bad_name"}
  /\ DOMAIN AnswerText = {"unauthorized", "forbidden", "bad_status", "bad_json", "no_content"}
  BY DEF SttText, TtsText, AbrainText, TransportText, TlsText, CertificateText, AnswerText,
         Merged, Under

LEMMA HttpDomains ==
  /\ DOMAIN LocalHttpText = DOMAIN TransportText \cup DOMAIN AnswerText
       \cup {"disabled", "not_configured", "https_refused", "bad_scheme", "unparseable"}
  /\ DOMAIN CloudHttpText = DOMAIN TransportText \cup DOMAIN TlsText \cup DOMAIN AnswerText
       \cup {"disabled", "not_configured", "secret_missing", "bad_header", "bad_scheme",
             "unparseable"}
  /\ DOMAIN LlamafileText = DOMAIN TransportText \cup DOMAIN AnswerText
       \cup {"disabled", "not_configured", "spawn_failed", "exited_early", "startup_timeout"}
  <1>1. DOMAIN LocalHttpText = DOMAIN TransportText \cup DOMAIN AnswerText
       \cup {"disabled", "not_configured", "https_refused", "bad_scheme", "unparseable"}
    BY DEF LocalHttpText, Merged, Under
  <1>2. DOMAIN CloudHttpText = DOMAIN TransportText \cup DOMAIN TlsText \cup DOMAIN AnswerText
       \cup {"disabled", "not_configured", "secret_missing", "bad_header", "bad_scheme",
             "unparseable"}
    BY DEF CloudHttpText, Merged, Under
  <1>3. DOMAIN LlamafileText = DOMAIN TransportText \cup DOMAIN AnswerText
       \cup {"disabled", "not_configured", "spawn_failed", "exited_early", "startup_timeout"}
    BY DEF LlamafileText, Merged, Under
  <1> QED BY <1>1, <1>2, <1>3

LEMMA KindCauses ==
  /\ \A kind \in KnownKinds["stt"] : Causes("stt", kind) = DOMAIN SttText
  /\ \A kind \in KnownKinds["tts"] : Causes("tts", kind) = DOMAIN TtsText
  /\ Causes("text", "abrain") = DOMAIN AbrainText
  /\ Causes("text", "llamafile_local") = DOMAIN LlamafileText
  /\ Causes("text", "local_http") = DOMAIN LocalHttpText
  /\ Causes("text", "cloud_http") = DOMAIN CloudHttpText
  <1>1. \A kind \in KnownKinds["stt"] : Causes("stt", kind) = DOMAIN SttText
    BY DEF Causes, ErrorText, KnownKinds
  <1>2. \A kind \in KnownKinds["tts"] : Causes("tts", kind) = DOMAIN TtsText
    BY DEF Causes, ErrorText, KnownKinds
  <1>3. /\ Causes("text", "abrain") = DOMAIN AbrainText
        /\ Causes("text", "llamafile_local") = DOMAIN LlamafileText
        /\ Causes("text", "local_http") = DOMAIN LocalHttpText
        /\ Causes("text", "cloud_http") = DOMAIN CloudHttpText
    BY DEF Causes, ErrorText
  <1> QED BY <1>1, <1>2, <1>3

(* What a provider refuses is one of the causes it has a text for. *)
LEMMA RefusalIsCause ==
  ASSUME NEW axis \in Axis, NEW kind \in KnownKinds[axis], NEW cfg, NEW key,
         Refusal(axis, kind, cfg, key) # None
  PROVE  Refusal(axis, kind, cfg, key) \in Causes(axis, kind)
  <1>1. CASE axis # "text"
    <2>1. Refusal(axis, kind, cfg, key) = SpeechRefusal(axis, kind, cfg)
      BY <1>1 DEF Refusal, KnownKinds, Axis
    <2>2. SpeechRefusal(axis, kind, cfg) \in {"disabled", "not_configured", "unparseable", None}
      BY DEF SpeechRefusal
    <2> QED BY <1>1, <2>1, <2>2, Domains, KindCauses DEF Axis
  <1>2. CASE axis = "text" /\ kind = "local_http"
    <2>1. Refusal(axis, kind, cfg, key) = LocalHttpRefusal(cfg.local_http)
      BY <1>2 DEF Refusal
    <2>2. LocalHttpRefusal(cfg.local_http)
            \in {"disabled", "not_configured", "https_refused", "bad_scheme", "unparseable", None}
      BY DEF LocalHttpRefusal, LocalEndpointFault
    <2> QED BY <1>2, <2>1, <2>2, HttpDomains, KindCauses
  <1>3. CASE axis = "text" /\ kind = "cloud_http"
    <2>1. Refusal(axis, kind, cfg, key) = CloudHttpRefusal(cfg.cloud_http, key)
      BY <1>3 DEF Refusal
    <2>2. CloudHttpRefusal(cfg.cloud_http, key)
            \in {"disabled", "not_configured", "secret_missing", "bad_header", "bad_scheme",
                 "unparseable", None}
      BY DEF CloudHttpRefusal, CloudEndpointFault
    <2> QED BY <1>3, <2>1, <2>2, HttpDomains, KindCauses
  <1>4. CASE axis = "text" /\ kind = "llamafile_local"
    <2>1. Refusal(axis, kind, cfg, key) = LlamafileRefusal(cfg.llamafile)
      BY <1>4 DEF Refusal
    <2>2. LlamafileRefusal(cfg.llamafile) \in {"disabled", "not_configured", None}
      BY DEF LlamafileRefusal
    <2> QED BY <1>4, <2>1, <2>2, HttpDomains, KindCauses
  <1>5. CASE axis = "text" /\ kind = "abrain"
    BY <1>5 DEF Refusal
  <1> QED BY <1>1, <1>2, <1>3, <1>4, <1>5 DEF KnownKinds

LEMMA BuildIs ==
  ASSUME NEW axis \in Axes, NEW start \in Starts[axis], NEW res, res = Build(axis, start)
  PROVE  res = BuiltFrom(axis, start, res.status) /\ StatusFits(res, res.status)
  <1>1. axis \in Axis
    BY AxesAssumption
  <1> DEFINE kinds == KindsOf(axis, start)
  <1>2. \E ready : res = BuiltFrom(axis, start, Status(kinds[1], "", ready, None))
    <2>1. CASE axis = "text"
      BY <2>1 DEF Build, TextResolver, InitialText, BuiltFrom, KindsOf, Load, ChainOf
    <2>2. CASE axis = "stt"
      BY <2>2 DEF Build, SttResolver, InitialSpeech, BuiltFrom, KindsOf, Load, ChainOf
    <2>3. CASE axis = "tts"
      BY <2>3 DEF Build, TtsResolver, InitialSpeech, BuiltFrom, KindsOf, Load, ChainOf
    <2> QED BY <1>1, <2>1, <2>2, <2>3 DEF Axis
  <1>3. PICK ready : res = BuiltFrom(axis, start, Status(kinds[1], "", ready, None))
    BY <1>2
  <1> DEFINE st == Status(kinds[1], "", ready, None)
  <1>4. /\ st.configured = kinds[1] /\ st.active = "" /\ st.last_error = None
        /\ st.cloud = FALSE
    BY DEF Status
  <1>5. res = BuiltFrom(axis, start, st)
    BY <1>3
  <1> HIDE DEF kinds, st
  <1>6. res.status = st /\ res.kinds = KindsOf(axis, start)
    BY <1>5, BuiltFromFields
  <1>7. StatusFits(res, st)
    BY <1>4, <1>6 DEF StatusFits, kinds
  <1> QED BY <1>5, <1>6, <1>7

LEMMA InitInv == Init => CallsInv
  <1> SUFFICES ASSUME Init PROVE CallsInv
    OBVIOUS
  <1>1. PICK axis \in Axes : \E start \in Starts[axis] : resolvers = <<Build(axis, start)>>
    BY DEF Init
  <1>2. PICK start \in Starts[axis] : resolvers = <<Build(axis, start)>>
    BY <1>1
  <1> DEFINE res == Build(axis, start)
  <1>3. DOMAIN resolvers = {1} /\ resolvers[1] = res /\ resolvers # << >>
    BY <1>2
  <1>4. res = BuiltFrom(axis, start, res.status) /\ StatusFits(res, res.status)
    BY BuildIs
  <1> HIDE DEF res
  <1>5. BuiltInv
    BY <1>3, <1>4 DEF BuiltInv
  <1>6. StatusIsOwn /\ ActiveIsUsable
    BY <1>3, <1>4, StatusParts
  <1>7. TypeOK
    <2>1. resolvers \in Seq(Range(resolvers))
      BY <1>2 DEF Range, res
    <2> QED BY <1>3, <2>1 DEF TypeOK, Init
  <1>8. ASSUME NEW r \in Call PROVE CallInv(r)
    BY DEF Init, CallInv
  <1> QED BY <1>5, <1>6, <1>7, <1>8 DEF CallsInv

LEMMA ActRefuse ==
  ASSUME CallsInv, NEW r \in Call, Refuse(r)
  PROVE  CallsInv'
  <1>1. pc[r] \in Moving /\ egress' = egress /\ Refused(r) # None /\ Fails(r, Refused(r), {})
    BY DEF Refuse, Attempting, Moving
  <1>2. MayLeave(r)
    BY <1>1, NothingLeaves DEF CallsInv
  <1>3. Ax(r) \in Axis /\ Kind(r) \in KnownKinds[Ax(r)]
    BY <1>1, Running
  <1>4. Refused(r) \in Causes(Ax(r), Kind(r))
    BY <1>1, <1>3, RefusalIsCause DEF Refused
  <1> QED BY <1>1, <1>2, <1>4, StepFails

(* A program is spawned for speech and for ABrain.                         *)
LEMMA ProgramCauses ==
  ASSUME CallsInv, NEW r \in Call, pc[r] \in Moving, IsProgram(r)
  PROVE  /\ {"spawn_failed", "timeout", "exit_nonzero"} \subseteq Causes(Ax(r), Kind(r))
         /\ Ax(r) = "tts" => "stdin_failed" \in Causes(Ax(r), Kind(r))
  <1>1. Ax(r) \in Axis /\ Kind(r) \in KnownKinds[Ax(r)] /\ (Ax(r) # "text" \/ Kind(r) = "abrain")
    BY Running DEF IsProgram
  <1>2. CASE Ax(r) = "stt"
    BY <1>1, <1>2, Domains, KindCauses
  <1>3. CASE Ax(r) = "tts"
    BY <1>1, <1>3, Domains, KindCauses
  <1>4. CASE Ax(r) = "text"
    BY <1>1, <1>4, Domains, KindCauses
  <1> QED BY <1>1, <1>2, <1>3, <1>4 DEF Axis

LEMMA ActSpawn ==
  ASSUME CallsInv, NEW r \in Call, Spawn(r)
  PROVE  CallsInv'
  <1>1. /\ pc[r] \in Moving /\ egress' = egress /\ IsProgram(r) /\ Refused(r) = None
        /\ \/ Goes(r, IF Ax(r) = "tts" THEN "write" ELSE "wait")
           \/ Fails(r, "spawn_failed", {})
    BY DEF Spawn, Attempting, Moving
  <1>2. MayLeave(r)
    BY <1>1, NothingLeaves DEF CallsInv
  <1>3. "spawn_failed" \in Causes(Ax(r), Kind(r))
    BY <1>1, ProgramCauses
  <1>4. CASE Fails(r, "spawn_failed", {})
    BY <1>1, <1>2, <1>3, <1>4, StepFails
  <1>5. CASE Goes(r, IF Ax(r) = "tts" THEN "write" ELSE "wait")
    <2>1. CASE Ax(r) = "tts"
      <3>1. Goes(r, "write") /\ "write" \in Moving \ {"attempt"}
        BY <1>5, <2>1 DEF Moving
      <3> QED BY <1>1, <1>2, <2>1, <3>1, StepGoes
    <2>2. CASE Ax(r) # "tts"
      <3>1. Goes(r, "wait") /\ "wait" \in Moving \ {"attempt"}
        BY <1>5, <2>2 DEF Moving
      <3> QED BY <1>1, <1>2, <3>1, StepGoes
    <2> QED BY <2>1, <2>2
  <1> QED BY <1>1, <1>4, <1>5

LEMMA ActWriteStdin ==
  ASSUME CallsInv, NEW r \in Call, WriteStdin(r)
  PROVE  CallsInv'
  <1>1. /\ pc[r] = "write" /\ pc[r] \in Moving /\ egress' = egress
        /\ Goes(r, "wait") \/ Fails(r, "stdin_failed", {})
    BY DEF WriteStdin, Moving
  <1>2. MayLeave(r)
    BY <1>1, NothingLeaves DEF CallsInv
  <1>3. Ax(r) = "tts" /\ IsProgram(r) /\ Refused(r) = None
    BY <1>1 DEF CallsInv, CallInv, IsProgram
  <1>4. "stdin_failed" \in Causes(Ax(r), Kind(r))
    BY <1>1, <1>3, ProgramCauses
  <1>5. "wait" \in Moving \ {"attempt"}
    BY DEF Moving
  <1>6. CASE Goes(r, "wait")
    BY <1>1, <1>2, <1>3, <1>5, <1>6, StepGoes
  <1>7. CASE Fails(r, "stdin_failed", {})
    BY <1>1, <1>2, <1>4, <1>7, StepFails
  <1> QED BY <1>1, <1>6, <1>7

LEMMA ActExits ==
  ASSUME CallsInv, NEW r \in Call, Exits(r)
  PROVE  CallsInv'
  <1>1. /\ pc[r] = "wait" /\ pc[r] \in Moving /\ egress' = egress
        /\ \/ Succeeds(r)
           \/ \E echo \in Echoes : Fails(r, "exit_nonzero", echo)
           \/ \E cause \in Causes(Ax(r), Kind(r)) : Fails(r, cause, {})
    BY DEF Exits, Moving
  <1>2. MayLeave(r)
    BY <1>1, NothingLeaves DEF CallsInv
  <1>3. IsProgram(r) /\ Refused(r) = None
    BY <1>1 DEF CallsInv, CallInv
  <1>4. "exit_nonzero" \in Causes(Ax(r), Kind(r))
    BY <1>1, <1>3, ProgramCauses
  <1>5. CASE Succeeds(r)
    BY <1>1, <1>2, <1>3, <1>5, StepSucceeds
  <1>6. CASE \E echo \in Echoes : Fails(r, "exit_nonzero", echo)
    BY <1>1, <1>2, <1>4, <1>6, StepFails
  <1>7. CASE \E cause \in Causes(Ax(r), Kind(r)) : Fails(r, cause, {})
    BY <1>1, <1>2, <1>7, StepFails
  <1> QED BY <1>1, <1>5, <1>6, <1>7

LEMMA ActTimesOut ==
  ASSUME CallsInv, NEW r \in Call, TimesOut(r)
  PROVE  CallsInv'
  <1>1. pc[r] = "wait" /\ pc[r] \in Moving /\ egress' = egress /\ Fails(r, "timeout", {})
    BY DEF TimesOut, Moving
  <1>2. MayLeave(r) /\ IsProgram(r)
    BY <1>1, NothingLeaves DEF CallsInv, CallInv
  <1>3. "timeout" \in Causes(Ax(r), Kind(r))
    BY <1>1, <1>2, ProgramCauses
  <1> QED BY <1>1, <1>2, <1>3, StepFails

LEMMA ActRunLlamafile ==
  ASSUME CallsInv, NEW r \in Call, RunLlamafile(r)
  PROVE  CallsInv'
  <1>1. /\ pc[r] \in Moving /\ egress' = egress /\ Refused(r) = None
        /\ \/ Succeeds(r)
           \/ \E cause \in Causes(Ax(r), Kind(r)) : Fails(r, cause, {})
    BY DEF RunLlamafile, Attempting, Moving
  <1>2. MayLeave(r)
    BY <1>1, NothingLeaves DEF CallsInv
  <1>3. CASE Succeeds(r)
    BY <1>1, <1>2, <1>3, StepSucceeds
  <1>4. CASE \E cause \in Causes(Ax(r), Kind(r)) : Fails(r, cause, {})
    BY <1>1, <1>2, <1>4, StepFails
  <1> QED BY <1>1, <1>3, <1>4

LEMMA ActConnect ==
  ASSUME CallsInv, NEW r \in Call, Connect(r)
  PROVE  CallsInv'
  <1>1. /\ pc[r] \in Moving /\ egress' = egress /\ Refused(r) = None
        /\ Ax(r) = "text" /\ Kind(r) \in {"local_http", "cloud_http"}
        /\ \/ Goes(r, IF ByTls(r) THEN "tls" ELSE "exchange")
           \/ \E cause \in {"connect_timeout", "connect_failed"} : Fails(r, cause, {})
    BY DEF Connect, Attempting, Moving
  <1>2. MayLeave(r)
    BY <1>1, NothingLeaves DEF CallsInv
  <1>3. {"connect_timeout", "connect_failed"} \subseteq Causes(Ax(r), Kind(r))
    BY <1>1, Domains, HttpDomains, KindCauses
  <1>4. CASE \E cause \in {"connect_timeout", "connect_failed"} : Fails(r, cause, {})
    BY <1>1, <1>2, <1>3, <1>4, StepFails
  <1>5. CASE Goes(r, IF ByTls(r) THEN "tls" ELSE "exchange")
    <2>1. CASE ByTls(r)
      <3>1. Goes(r, "tls") /\ Kind(r) = "cloud_http" /\ "tls" \in Moving \ {"attempt"}
        BY <1>5, <2>1 DEF ByTls, Moving
      <3> QED BY <1>1, <1>2, <3>1, StepGoes
    <2>2. CASE ~ ByTls(r)
      <3>1. Goes(r, "exchange") /\ "exchange" \in Moving \ {"attempt"}
        BY <1>5, <2>2 DEF Moving
      <3> QED BY <1>1, <1>2, <3>1, StepGoes
    <2> QED BY <2>1, <2>2
  <1> QED BY <1>1, <1>4, <1>5

LEMMA ActHandshake ==
  ASSUME CallsInv, NEW r \in Call, Handshake(r)
  PROVE  CallsInv'
  <1>1. /\ pc[r] = "tls" /\ pc[r] \in Moving /\ egress' = egress
        /\ Goes(r, "exchange") \/ \E cause \in DOMAIN TlsText : Fails(r, cause, {})
    BY DEF Handshake, Moving
  <1>2. /\ MayLeave(r) /\ Refused(r) = None /\ Ax(r) = "text" /\ Kind(r) = "cloud_http"
    BY <1>1, NothingLeaves DEF CallsInv, CallInv
  <1>3. DOMAIN TlsText \subseteq Causes(Ax(r), Kind(r))
    BY <1>2, HttpDomains, KindCauses
  <1>4. "exchange" \in Moving \ {"attempt"}
    BY DEF Moving
  <1>5. CASE Goes(r, "exchange")
    BY <1>1, <1>2, <1>4, <1>5, StepGoes
  <1>6. CASE \E cause \in DOMAIN TlsText : Fails(r, cause, {})
    BY <1>1, <1>2, <1>3, <1>6, StepFails
  <1> QED BY <1>1, <1>5, <1>6

LEMMA ActExchange ==
  ASSUME CallsInv, NEW r \in Call, Exchange(r)
  PROVE  CallsInv'
  <1> DEFINE causes == {"io_timeout", "io_failed", "not_utf8", "malformed"} \cup DOMAIN AnswerText
  <1>1. /\ pc[r] = "exchange" /\ pc[r] \in Moving
        /\ egress' = IF Kind(r) = "cloud_http" THEN egress \cup {r} ELSE egress
        /\ Succeeds(r) \/ \E cause \in causes : Fails(r, cause, {})
    BY DEF Exchange, Moving
  <1>2. /\ Refused(r) = None /\ Ax(r) = "text" /\ Kind(r) \in {"local_http", "cloud_http"}
        /\ CallInv(r) /\ at[r] \in DOMAIN Res(r).kinds
    BY <1>1 DEF CallsInv, CallInv
  <1>3. MayLeave(r)
    <2>1. CASE Kind(r) = "cloud_http"
      <3>1. Res(r).kinds[at[r]] = "cloud_http"
        BY <2>1 DEF Kind
      <3>2. Refusal("text", "cloud_http", Cfg(r), Res(r).start.key) = None
        BY <1>2, <2>1 DEF Refused
      <3> QED BY <1>1, <1>2, <3>1, <3>2, <2>1 DEF MayLeave
    <2>2. CASE Kind(r) # "cloud_http"
      BY <1>1, <1>2, <2>2, NothingLeaves
    <2> QED BY <2>1, <2>2
  <1>4. causes \subseteq Causes(Ax(r), Kind(r))
    BY <1>2, Domains, HttpDomains, KindCauses
  <1> HIDE DEF causes
  <1>5. CASE Succeeds(r)
    BY <1>1, <1>2, <1>3, <1>5, StepSucceeds
  <1>6. CASE \E cause \in causes : Fails(r, cause, {})
    BY <1>1, <1>3, <1>4, <1>6, StepFails
  <1> QED BY <1>1, <1>5, <1>6

LEMMA ActStart ==
  ASSUME CallsInv, NEW r \in Call, Start(r)
  PROVE  CallsInv'
  <1>1. /\ pc[r] = "idle" /\ on' = [on EXCEPT ![r] = Installed] /\ at' = [at EXCEPT ![r] = 1]
        /\ pc' = [pc EXCEPT ![r] = "attempt"]
        /\ resolvers' = resolvers /\ error' = error /\ egress' = egress
    BY DEF Start
  <1>2. Installed \in DOMAIN resolvers /\ Installed \in Nat
    BY DEF CallsInv, TypeOK, Installed
  <1>3. Keeps
    BY <1>1 DEF Keeps, Same
  <1>4. TypeOK' /\ pc'[r] = "attempt" /\ at'[r] = 1 /\ on'[r] = Installed
    BY <1>1, <1>2 DEF CallsInv, TypeOK
  <1>5. BuiltInv' /\ StatusIsOwn' /\ ActiveIsUsable'
    BY <1>1, ZenonT(30) DEF CallsInv, BuiltInv, StatusIsOwn, ActiveIsUsable, BuiltFrom
  <1>6. CallInv(r)'
    <2>1. Res(r)' = resolvers[Installed]
      BY <1>1, <1>4 DEF Res
    <2> DEFINE kinds == resolvers[Installed].kinds
               S == KnownKinds[resolvers[Installed].axis]
    <2>2. kinds \in Seq(S) /\ kinds # << >>
      BY <1>2, ResolverType DEF CallsInv
    <2> HIDE DEF kinds, S
    <2>3. 1 \in DOMAIN kinds
      BY <2>2
    <2>4. r \notin egress /\ error[r] = NoError
      BY <1>1 DEF CallsInv, CallInv
    <2> QED BY <1>1, <1>2, <1>4, <2>1, <2>3, <2>4 DEF CallInv, kinds
  <1>7. \A q \in Call \ {r} :
          /\ pc'[q] = pc[q] /\ on'[q] = on[q] /\ at'[q] = at[q] /\ error'[q] = error[q]
          /\ q \in egress' <=> q \in egress
    BY <1>1 DEF CallsInv, TypeOK
  <1>8. \A q \in Call : CallInv(q)'
    BY <1>3, <1>6, <1>7, OthersKept
  <1> QED BY <1>4, <1>5, <1>8 DEF CallsInv

LEMMA ActReturn ==
  ASSUME CallsInv, NEW r \in Call, Return(r)
  PROVE  CallsInv'
  <1>1. /\ on' = [on EXCEPT ![r] = 0] /\ at' = [at EXCEPT ![r] = 0]
        /\ pc' = [pc EXCEPT ![r] = "idle"] /\ error' = [error EXCEPT ![r] = NoError]
        /\ egress' = egress \ {r} /\ resolvers' = resolvers
    BY DEF Return
  <1>2. Keeps
    BY <1>1 DEF Keeps, Same
  <1>3. TypeOK' /\ pc'[r] = "idle" /\ error'[r] = NoError /\ r \notin egress'
    BY <1>1 DEF CallsInv, TypeOK
  <1>4. BuiltInv' /\ StatusIsOwn' /\ ActiveIsUsable'
    BY <1>1, ZenonT(30) DEF CallsInv, BuiltInv, StatusIsOwn, ActiveIsUsable, BuiltFrom
  <1>5. CallInv(r)'
    BY <1>3 DEF CallInv
  <1>6. \A q \in Call \ {r} :
          /\ pc'[q] = pc[q] /\ on'[q] = on[q] /\ at'[q] = at[q] /\ error'[q] = error[q]
          /\ q \in egress' <=> q \in egress
    BY <1>1 DEF CallsInv, TypeOK
  <1>7. \A q \in Call : CallInv(q)'
    BY <1>2, <1>5, <1>6, OthersKept
  <1> QED BY <1>3, <1>4, <1>7 DEF CallsInv

LEMMA ActRebuild ==
  ASSUME CallsInv, Rebuild
  PROVE  CallsInv'
  <1> DEFINE axis == resolvers[Installed].axis
  <1>1. PICK start \in Starts[axis] : resolvers' = Append(resolvers, Build(axis, start))
    BY DEF Rebuild
  <1>2. /\ on' = on /\ at' = at /\ pc' = pc /\ error' = error /\ egress' = egress
    BY DEF Rebuild
  <1>3. /\ resolvers \in Seq(Range(resolvers)) /\ resolvers # << >>
        /\ DOMAIN resolvers = 1 .. Len(resolvers) /\ Len(resolvers) \in Nat
        /\ Installed = Len(resolvers) /\ Installed \in DOMAIN resolvers
    BY DEF CallsInv, TypeOK, Installed
  <1>4. axis \in Axes
    BY <1>3, ResolverType DEF CallsInv
  <1> HIDE DEF axis
  <1> DEFINE res == Build(axis, start)
             last == Len(resolvers) + 1
  <1>5. res = BuiltFrom(axis, start, res.status) /\ StatusFits(res, res.status)
    BY <1>4, BuildIs
  <1> HIDE DEF res
  <1>6. resolvers' = Append(resolvers, res)
    BY <1>1 DEF res
  <1>7. /\ DOMAIN resolvers' = 1 .. last /\ resolvers'[last] = res
        /\ \A i \in DOMAIN resolvers : resolvers'[i] = resolvers[i]
        /\ \A i \in 1 .. last : i \in DOMAIN resolvers \/ i = last
        /\ last \in Nat /\ resolvers' # << >>
    BY <1>3, <1>6
  <1>8. Keeps
    BY <1>3, <1>7 DEF Keeps, Same
  <1>9. resolvers' \in Seq(Range(resolvers'))
    <2> DEFINE T == Range(resolvers) \cup {res}
    <2>0. resolvers \in Seq(T) /\ res \in T
      BY <1>3
    <2> HIDE DEF T
    <2>1. resolvers' \in Seq(T)
      BY <1>6, <2>0
    <2>2. \A i \in 1 .. last : resolvers'[i] \in Range(resolvers')
      BY <1>7 DEF Range
    <2> HIDE DEF Range, last
    <2> QED BY <1>7, <2>1, <2>2
  <1> HIDE DEF last
  <1>10. TypeOK'
    BY <1>2, <1>7, <1>9 DEF CallsInv, TypeOK
  <1>11. BuiltInv'
    <2>1. ASSUME NEW i \in DOMAIN resolvers'
          PROVE  \E a \in Axes : \E s \in Starts[a] :
                   resolvers'[i] = BuiltFrom(a, s, resolvers'[i].status)
      <3>1. CASE i \in DOMAIN resolvers
        BY <1>7, <3>1 DEF CallsInv, BuiltInv
      <3>2. CASE i = last
        BY <1>4, <1>5, <1>7, <3>2
      <3> QED BY <1>7, <3>1, <3>2
    <2> QED BY <2>1 DEF BuiltInv
  <1>12. StatusIsOwn' /\ ActiveIsUsable'
    <2>1. \A i \in DOMAIN resolvers : StatusFits(resolvers[i], resolvers[i].status)
      BY StatusParts DEF CallsInv
    <2>2. (\A i \in DOMAIN resolvers : StatusFits(resolvers[i], resolvers[i].status))'
      BY <1>5, <1>7, <2>1
    <2>3. (StatusIsOwn /\ ActiveIsUsable)'
      BY <2>2, StatusParts, PTL
    <2> QED BY <2>3
  <1>13. ASSUME NEW q \in Call
         PROVE  CallInv(q)'
    <2>1. CallInv(q)
      BY DEF CallsInv
    <2> QED BY <1>2, <1>8, <2>1, CallKept
  <1> QED BY <1>10, <1>11, <1>12, <1>13 DEF CallsInv

LEMMA Unchanged ==
  ASSUME CallsInv,
         UNCHANGED <<resolvers, on, at, pc, error, egress>>
  PROVE  CallsInv'
  <1>1. Keeps
    BY DEF Keeps, Same
  <1>2. TypeOK' /\ BuiltInv' /\ StatusIsOwn' /\ ActiveIsUsable'
    BY DEF CallsInv, TypeOK, BuiltInv, BuiltFrom, StatusIsOwn, ActiveIsUsable
  <1>3. ASSUME NEW q \in Call
        PROVE  CallInv(q)'
    <2>1. CallInv(q)
      BY DEF CallsInv
    <2> QED BY <1>1, <2>1, CallKept
  <1> QED BY <1>2, <1>3 DEF CallsInv

(* Every behaviour keeps CallsInv, the inductive invariant of the calls of *)
(* text.rs, stt.rs and tts.rs: resolvers are what from_start built but for *)
(* their status, a call stands at a provider of its chain that has not     *)
(* refused, and what a call failed with is an error of its own axis.       *)
THEOREM CallsInvariant == Spec => []CallsInv
<1>1. Init => CallsInv
  BY InitInv
<1>2. CallsInv /\ [Next]_vars => CallsInv'
  <2> SUFFICES ASSUME CallsInv, [Next]_vars PROVE CallsInv'
    OBVIOUS
  <2>1. ASSUME NEW r \in Call, Start(r) PROVE CallsInv'
    BY <2>1, ActStart
  <2>2. ASSUME NEW r \in Call, Step(r) PROVE CallsInv'
    BY <2>2, ActRefuse, ActSpawn, ActTimesOut, ActRunLlamafile, ActConnect, ActHandshake,
       ActExchange DEF Step
  <2>3. ASSUME NEW r \in Call, WriteStdin(r) PROVE CallsInv'
    BY <2>3, ActWriteStdin
  <2>4. ASSUME NEW r \in Call, Exits(r) PROVE CallsInv'
    BY <2>4, ActExits
  <2>5. ASSUME NEW r \in Call, Return(r) PROVE CallsInv'
    BY <2>5, ActReturn
  <2>6. ASSUME NEW p \in running, AbandonedExits(p) PROVE CallsInv'
    BY <2>6, Unchanged DEF AbandonedExits
  <2>7. CASE Rebuild
    BY <2>7, ActRebuild
  <2>8. CASE UNCHANGED vars
    BY <2>8, Unchanged DEF vars
  <2> QED BY <2>1, <2>2, <2>3, <2>4, <2>5, <2>6, <2>7, <2>8 DEF Next
<1> QED BY <1>1, <1>2, PTL DEF Spec

-----------------------------------------------------------------------------
LEMMA PlainYes ==
  ASSUME NEW raw, parse_bool(raw, FALSE)
  PROVE  raw[1] \in {"true", "1", "yes", "on"}
  <1>1. raw \in {<<"true">>, <<"1">>, <<"yes">>, <<"on">>}
    BY DEF parse_bool
  <1> QED BY <1>1

(* What a configuration of text or of speech holds, as far as the switches. *)
LEMMA CloudFromStart ==
  ASSUME NEW start
  PROVE  /\ Load("text", start).cloud_http = LoadCloudHttp(start)
         /\ LoadCloudHttp(start).enabled =
              parse_bool(Lookup(start, "SMOLIT_CLOUD_HTTP_ENABLED"), FALSE)
         /\ Load("text", start).cloud_http.enabled \in BOOLEAN
         /\ Load("text", start).local_http.enabled \in BOOLEAN
         /\ Load("text", start).llamafile.enabled \in BOOLEAN
         /\ \A axis \in {"stt", "tts"} :
              Load(axis, start).stt_enabled \in BOOLEAN /\ Load(axis, start).tts_enabled \in BOOLEAN
  <1>1. /\ Load("text", start).cloud_http = LoadCloudHttp(start)
        /\ Load("text", start).local_http = LoadLocalHttp(start)
        /\ Load("text", start).llamafile = LoadLlamafile(start)
    BY DEF Load, LoadTextProvider
  <1>2. LoadCloudHttp(start).enabled = parse_bool(Lookup(start, "SMOLIT_CLOUD_HTTP_ENABLED"), FALSE)
    BY DEF LoadCloudHttp
  <1>3. LoadLocalHttp(start).enabled \in BOOLEAN
    BY BoolType DEF LoadLocalHttp
  <1>4. LoadLlamafile(start).enabled \in BOOLEAN
    BY BoolType DEF LoadLlamafile
  <1>5. ASSUME NEW axis \in {"stt", "tts"}
        PROVE  /\ Load(axis, start).stt_enabled \in BOOLEAN
               /\ Load(axis, start).tts_enabled \in BOOLEAN
    BY BoolType DEF Load, LoadAudio
  <1>6. LoadCloudHttp(start).enabled \in BOOLEAN
    BY <1>2, BoolType
  <1> QED BY <1>1, <1>2, <1>3, <1>4, <1>5, <1>6

LEMMA Asked ==
  ASSUME CallsInv, NEW r \in egress
  PROVE  LET start == Res(r).start IN
         /\ \E i \in DOMAIN Lookup(start, "SMOLIT_TEXT_PROVIDER_CHAIN") :
              Lookup(start, "SMOLIT_TEXT_PROVIDER_CHAIN")[i] = "cloud_http"
         /\ Lookup(start, "SMOLIT_CLOUD_HTTP_ENABLED")[1] \in {"true", "1", "yes", "on"}
         /\ start.key
  <1>1. CallInv(r) /\ BuiltInv /\ r \in Call
    BY DEF CallsInv, TypeOK
  <1>2. /\ on[r] \in DOMAIN resolvers /\ Ax(r) = "text"
        /\ Refusal("text", "cloud_http", Cfg(r), Res(r).start.key) = None
    BY <1>1 DEF CallInv
  <1>3. PICK i \in DOMAIN Res(r).kinds : Res(r).kinds[i] = "cloud_http"
    BY <1>1 DEF CallInv
  <1> DEFINE start == Res(r).start
  <1>4. /\ "text" \in Axes /\ start \in Starts["text"]
        /\ Cfg(r) = Load("text", start) /\ Res(r).kinds = KindsOf("text", start)
    BY <1>1, <1>2, ResolverType DEF Res, Ax, Cfg
  <1> HIDE DEF start
  <1>5. \E j \in DOMAIN Lookup(start, ChainKey("text")) :
          Lookup(start, ChainKey("text"))[j] = "cloud_http"
    <2>1. DefaultKind["text"] # "cloud_http"
      BY DEF DefaultKind
    <2> QED BY <1>3, <1>4, <2>1, BuiltKinds
  <1>6. CloudHttpRefusal(Load("text", start).cloud_http, start.key) = None
    BY <1>2, <1>4 DEF Refusal, start
  <1>7. Load("text", start).cloud_http.enabled /\ start.key
    BY <1>6 DEF CloudHttpRefusal, None
  <1>8. Lookup(start, "SMOLIT_CLOUD_HTTP_ENABLED")[1] \in {"true", "1", "yes", "on"}
    BY <1>7, CloudFromStart, PlainYes
  <1>9. ChainKey("text") = "SMOLIT_TEXT_PROVIDER_CHAIN"
    BY DEF ChainKey
  <1> QED BY <1>5, <1>7, <1>8, <1>9 DEF start

(* No text reaches cloud_http unless the chain of the configuration names  *)
(* it, a plain yes switches it on and a key is stored: whatever the words  *)
(* in the environment, and however settings change while calls run.        *)
THEOREM CloudIsAskedFor == Spec => []CloudOnlyWhenAsked
<1>1. CallsInv => CloudOnlyWhenAsked
  BY Asked DEF CloudOnlyWhenAsked
<1> QED BY <1>1, CallsInvariant, PTL

(* The status of a resolver names providers of its own chain: a call that  *)
(* outlives a change of the settings writes into the resolver it was begun *)
(* with, never into the one that is installed now.                         *)
THEOREM StatusesAreOwn == Spec => []StatusIsOwn
<1>1. CallsInv => StatusIsOwn
  BY DEF CallsInv
<1> QED BY <1>1, CallsInvariant, PTL

-----------------------------------------------------------------------------
LEMMA Switches ==
  ASSUME CallsInv, NEW i \in DOMAIN resolvers
  PROVE  LET res == resolvers[i] IN
         /\ res.axis \in Axis /\ res.start.key \in BOOLEAN
         /\ res.kinds \in Seq(KnownKinds[res.axis]) /\ res.kinds # << >>
         /\ res.axis = "text" =>
              /\ res.cfg.cloud_http.enabled \in BOOLEAN
              /\ res.cfg.local_http.enabled \in BOOLEAN
              /\ res.cfg.llamafile.enabled \in BOOLEAN
         /\ res.axis # "text" =>
              res.cfg.stt_enabled \in BOOLEAN /\ res.cfg.tts_enabled \in BOOLEAN
  <1> DEFINE res == resolvers[i]
  <1>1. /\ res.axis \in Axes /\ res.axis \in Axis /\ res.start \in Starts[res.axis]
        /\ res.cfg = Load(res.axis, res.start)
        /\ res.kinds \in Seq(KnownKinds[res.axis]) /\ res.kinds # << >>
    BY ResolverType DEF CallsInv
  <1>2. res.start.key \in BOOLEAN
    BY <1>1, StartsAssumption
  <1> HIDE DEF res
  <1>3. res.axis # "text" => res.axis \in {"stt", "tts"}
    BY <1>1 DEF Axis
  <1> QED BY <1>1, <1>2, <1>3, CloudFromStart DEF res

LEMMA TextStatusAgrees ==
  ASSUME CallsInv, NEW i \in DOMAIN resolvers, resolvers[i].axis = "text"
  PROVE  LET cfg == resolvers[i].cfg
             key == resolvers[i].start.key
             chain == resolvers[i].kinds
             status == TextStatus(cfg, key, chain)
             Lacks(kind) ==
               Refusal("text", kind, cfg, key) \in {"disabled", "not_configured", "secret_missing"}
         IN /\ status.llamafile_configured <=> ~Lacks("llamafile_local")
            /\ status.local_http_configured <=> ~Lacks("local_http")
            /\ status.cloud_http_configured <=> ~Lacks("cloud_http")
            /\ resolvers[i].status.cloud =>
                 status.cloud_http_in_chain /\ status.cloud_http_configured
  <1> DEFINE cfg == resolvers[i].cfg
             key == resolvers[i].start.key
             chain == resolvers[i].kinds
             status == TextStatus(cfg, key, chain)
             st == resolvers[i].status
             Lacks(kind) ==
               Refusal("text", kind, cfg, key) \in {"disabled", "not_configured", "secret_missing"}
  <1>1. /\ key \in BOOLEAN /\ cfg.cloud_http.enabled \in BOOLEAN
        /\ cfg.local_http.enabled \in BOOLEAN /\ cfg.llamafile.enabled \in BOOLEAN
        /\ Len(chain) \in Nat
    BY Switches
  <1>2. /\ st.cloud => st.active = "cloud_http"
        /\ st.active # "" => \E k \in 1 .. Len(chain) : chain[k] = st.active
        /\ st.active # "" => Refusal("text", st.active, cfg, key) = None
    BY DEF CallsInv, StatusIsOwn, ActiveIsUsable
  <1> HIDE DEF cfg, key, chain, st
  <1>3. status.llamafile_configured <=> ~Lacks("llamafile_local")
    BY <1>1 DEF TextStatus, Refusal, LlamafileRefusal, None
  <1>4. status.local_http_configured <=> ~Lacks("local_http")
    BY <1>1 DEF TextStatus, Refusal, LocalHttpRefusal, LocalEndpointFault, None
  <1>5. status.cloud_http_configured <=> ~Lacks("cloud_http")
    BY <1>1 DEF TextStatus, Refusal, CloudHttpRefusal, CloudEndpointFault, None
  <1>6. st.cloud => status.cloud_http_in_chain /\ status.cloud_http_configured
    <2>1. SUFFICES ASSUME st.cloud PROVE status.cloud_http_in_chain /\ status.cloud_http_configured
      OBVIOUS
    <2>2. Contains(chain, "cloud_http")
      BY <1>2, <2>1 DEF Contains
    <2>3. ~Lacks("cloud_http")
      BY <1>2, <2>1 DEF None
    <2> QED BY <1>5, <2>2, <2>3 DEF TextStatus
  <1> QED BY <1>3, <1>4, <1>5, <1>6 DEF cfg, key, chain, st

LEMMA SpeechStatusAgrees ==
  ASSUME CallsInv, NEW i \in DOMAIN resolvers, resolvers[i].axis # "text"
  PROVE  LET axis == resolvers[i].axis
             cfg == resolvers[i].cfg
             key == resolvers[i].start.key
             chain == resolvers[i].kinds
             status == SpeechStatus(axis, cfg, chain)
         IN status.enabled /\ status.available <=>
              ~(Refusal(axis, chain[1], cfg, key)
                  \in {"disabled", "not_configured", "secret_missing"})
  <1> DEFINE axis == resolvers[i].axis
             cfg == resolvers[i].cfg
             key == resolvers[i].start.key
             chain == resolvers[i].kinds
             p == Speech(axis, chain[1], cfg)
             status == SpeechStatus(axis, cfg, chain)
             refused == Refusal(axis, chain[1], cfg, key)
  <1>1. axis \in {"stt", "tts"} /\ cfg.stt_enabled \in BOOLEAN /\ cfg.tts_enabled \in BOOLEAN
    BY Switches DEF Axis
  <1>2. chain[1] \in KnownKinds[axis]
    <2> DEFINE S == KnownKinds[axis]
    <2>1. chain \in Seq(S) /\ chain # << >>
      BY Switches
    <2> HIDE DEF S, chain
    <2>2. chain[1] \in S
      BY <2>1
    <2> QED BY <2>2 DEF S
  <1> HIDE DEF axis, cfg, key, chain
  <1>3. refused = SpeechRefusal(axis, chain[1], cfg)
    BY <1>1, <1>2 DEF Refusal, KnownKinds
  <1>4. p.enabled \in BOOLEAN
    BY <1>1 DEF Speech, SttProvider, TtsProvider
  <1>5. status.enabled = p.enabled /\ status.available = (p.cmd # Unset)
    BY DEF SpeechStatus
  <1>6. SpeechRefusal(axis, chain[1], cfg) =
          IF ~p.enabled THEN "disabled" ELSE IF p.cmd = Unset THEN "not_configured"
          ELSE IF Program(p.cmd) = None THEN "unparseable" ELSE None
    BY DEF SpeechRefusal
  <1> HIDE DEF p, status, refused
  <1>7. status.enabled /\ status.available <=>
          ~(refused \in {"disabled", "not_configured", "secret_missing"})
    BY <1>3, <1>4, <1>5, <1>6 DEF None
  <1> QED BY <1>7 DEF axis, cfg, key, chain, status, refused

(* What get_status reports of text and of speech as available would not be *)
(* refused for a missing switch, setting or key, and the other way round.  *)
THEOREM StatusAgreesWithRuns == Spec => []StatusAgreesWithRun
<1>1. ASSUME CallsInv PROVE StatusAgreesWithRun
  BY <1>1, TextStatusAgrees, SpeechStatusAgrees DEF StatusAgreesWithRun
<1> QED BY <1>1, CallsInvariant, PTL

-----------------------------------------------------------------------------
(* The class by the rules from the k-th on. *)
From(rules, k, text) ==
  LET hits == {i \in k .. Len(rules) : Holds(rules[i], text)} IN
  IF hits = {} THEN "unknown"
  ELSE rules[CHOOSE i \in hits : \A j \in hits : i <= j].class

LEMMA Look ==
  ASSUME NEW rules, NEW n \in Nat, Len(rules) = n, NEW text, NEW k \in 1 .. n
  PROVE  From(rules, k, text) =
           IF Holds(rules[k], text) THEN rules[k].class ELSE From(rules, k + 1, text)
  <1> DEFINE hits(j) == {i \in j .. n : Holds(rules[i], text)}
             first(j) == CHOOSE i \in hits(j) : \A m \in hits(j) : i <= m
  <1>1. \A j : From(rules, j, text) = IF hits(j) = {} THEN "unknown" ELSE rules[first(j)].class
    BY DEF From
  <1>2. CASE Holds(rules[k], text)
    <2>1. k \in hits(k) /\ \A m \in hits(k) : k <= m
      BY <1>2
    <2>2. \A i \in hits(k) : (\A m \in hits(k) : i <= m) => i = k
      BY <2>1
    <2> HIDE DEF hits
    <2>3. first(k) = k
      BY <2>1, <2>2
    <2> HIDE DEF first
    <2> QED BY <1>1, <1>2, <2>1, <2>3
  <1>3. CASE ~ Holds(rules[k], text)
    <2>1. hits(k) = hits(k + 1)
      BY <1>3
    <2> HIDE DEF hits
    <2> QED BY <1>1, <1>3, <2>1
  <1> QED BY <1>2, <1>3

LEMMA Looked ==
  ASSUME NEW rules, NEW n \in Nat, Len(rules) = n, NEW text, NEW last, last = n + 1
  PROVE  /\ FirstMatch(rules, text) = From(rules, 1, text)
         /\ From(rules, last, text) = "unknown"
  <1>1. FirstMatch(rules, text) = From(rules, 1, text)
    BY DEF FirstMatch, From
  <1>2. last .. n = {}
    OBVIOUS
  <1> QED BY <1>1, <1>2 DEF From

(* A function on 1 .. n with values in S is a sequence over S. *)
LEMMA IsSeq ==
  ASSUME NEW f, NEW n \in Nat, f = [i \in 1 .. n |-> f[i]], NEW S,
         \A i \in 1 .. n : f[i] \in S
  PROVE  f \in Seq(S)
  <1>1. f \in [1 .. n -> S]
    OBVIOUS
  <1> QED BY <1>1, SeqDef

LEMMA TextRuleAt ==
  /\ Len(TextRules) = 39
  /\ \A i \in 1 .. 14 : TextRules[i] = CloudRules[i]
  /\ \A i \in 1 .. 9  : TextRules[14 + i] = LocalRules[i]
  /\ \A i \in 1 .. 11 : TextRules[23 + i] = LlamafileRules[i]
  /\ \A i \in 1 .. 5  : TextRules[34 + i] = GeneralRules[i]
  <1> DEFINE S == {CloudRules[i] : i \in 1 .. 14} \cup {LocalRules[i] : i \in 1 .. 9}
                  \cup {LlamafileRules[i] : i \in 1 .. 11} \cup {GeneralRules[i] : i \in 1 .. 5}
  <1>1. /\ Len(CloudRules) = 14 /\ CloudRules = [i \in 1 .. 14 |-> CloudRules[i]]
        /\ Len(LocalRules) = 9 /\ LocalRules = [i \in 1 .. 9 |-> LocalRules[i]]
        /\ Len(LlamafileRules) = 11 /\ LlamafileRules = [i \in 1 .. 11 |-> LlamafileRules[i]]
        /\ Len(GeneralRules) = 5 /\ GeneralRules = [i \in 1 .. 5 |-> GeneralRules[i]]
    BY DEF CloudRules, LocalRules, LlamafileRules, GeneralRules
  <1>2. CloudRules \in Seq(S) /\ LocalRules \in Seq(S)
        /\ LlamafileRules \in Seq(S) /\ GeneralRules \in Seq(S)
    BY <1>1, IsSeq
  <1> HIDE DEF S
  <1>6. TextRules = CloudRules \o LocalRules \o LlamafileRules \o GeneralRules
    BY DEF TextRules
  <1> QED BY <1>1, <1>2, <1>6
(* The lists of rules, read as the chains of if the source writes them as. *)
SttClass(text, rest) ==
  IF "stt is disabled" \in text THEN "disabled"
  ELSE IF "stt command is not configured" \in text
          \/ "stt command is empty after parsing" \in text THEN "not_configured"
  ELSE IF "timed out" \in text THEN "timeout"
  ELSE IF "failed to spawn" \in text \/ "no such file" \in text THEN "process_missing"
  ELSE IF "not valid utf-8" \in text THEN "invalid_response"
  ELSE IF "returned no recognized text" \in text THEN "empty_response"
  ELSE IF "failed with status" \in text THEN "exit_nonzero"
  ELSE rest

LEMMA SttLook ==
  ASSUME NEW text
  PROVE  From(SttRules, 1, text) =
           SttClass(text, From(SttRules, 8, text))
  <1> DEFINE from(k) == From(SttRules, k, text)
  <1>0. \A k \in 1 .. 7 : from(k) =
          IF Holds(SttRules[k], text) THEN SttRules[k].class ELSE from(k + 1)
    <2>1. Len(SttRules) = 7
      BY DEF SttRules
    <2> QED BY <2>1, Look
  <1> HIDE DEF from
  <1>1. from(1) = IF "stt is disabled" \in text THEN "disabled" ELSE from(2)
    <2>1. /\ Holds(SttRules[1], text) <=>
               "stt is disabled" \in text
          /\ SttRules[1].class = "disabled"
      BY DEF SttRules, Plain, Rule, Holds
    <2>2. from(1) = IF Holds(SttRules[1], text) THEN SttRules[1].class ELSE from(2)
      BY <1>0
    <2> QED BY <2>1, <2>2
  <1>2. from(2) =
          IF "stt command is not configured" \in text \/
               "stt command is empty after parsing" \in text
          THEN "not_configured" ELSE from(3)
    <2>1. /\ Holds(SttRules[2], text) <=>
               "stt command is not configured" \in text \/
               "stt command is empty after parsing" \in text
          /\ SttRules[2].class = "not_configured"
      BY DEF SttRules, Plain, Rule, Holds
    <2>2. from(2) = IF Holds(SttRules[2], text) THEN SttRules[2].class ELSE from(3)
      BY <1>0
    <2> QED BY <2>1, <2>2
  <1>3. from(3) = IF "timed out" \in text THEN "timeout" ELSE from(4)
    <2>1. /\ Holds(SttRules[3], text) <=>
               "timed out" \in text
          /\ SttRules[3].class = "timeout"
      BY DEF SttRules, Plain, Rule, Holds
    <2>2. from(3) = IF Holds(SttRules[3], text) THEN SttRules[3].class ELSE from(4)
      BY <1>0
    <2> QED BY <2>1, <2>2
  <1>4. from(4) =
          IF "failed to spawn" \in text \/ "no such file" \in text
          THEN "process_missing" ELSE from(5)
    <2>1. /\ Holds(SttRules[4], text) <=>
               "failed to spawn" \in text \/ "no such file" \in text
          /\ SttRules[4].class = "process_missing"
      BY DEF SttRules, Plain, Rule, Holds
    <2>2. from(4) = IF Holds(SttRules[4], text) THEN SttRules[4].class ELSE from(5)
      BY <1>0
    <2> QED BY <2>1, <2>2
  <1>5. from(5) = IF "not valid utf-8" \in text THEN "invalid_response" ELSE from(6)
    <2>1. /\ Holds(SttRules[5], text) <=>
               "not valid utf-8" \in text
          /\ SttRules[5].class = "invalid_response"
      BY DEF SttRules, Plain, Rule, Holds
    <2>2. from(5) = IF Holds(SttRules[5], text) THEN SttRules[5].class ELSE from(6)
      BY <1>0
    <2> QED BY <2>1, <2>2
  <1>6. from(6) = IF "returned no recognized text" \in text THEN "empty_response" ELSE from(7)
    <2>1. /\ Holds(SttRules[6], text) <=>
               "returned no recognized text" \in text
          /\ SttRules[6].class = "empty_response"
      BY DEF SttRules, Plain, Rule, Holds
    <2>2. from(6) = IF Holds(SttRules[6], text) THEN SttRules[6].class ELSE from(7)
      BY <1>0
    <2> QED BY <2>1, <2>2
  <1>7. from(7) = IF "failed with status" \in text THEN "exit_nonzero" ELSE from(8)
    <2>1. /\ Holds(SttRules[7], text) <=>
               "failed with status" \in text
          /\ SttRules[7].class = "exit_nonzero"
      BY DEF SttRules, Plain, Rule, Holds
    <2>2. from(7) = IF Holds(SttRules[7], text) THEN SttRules[7].class ELSE from(8)
      BY <1>0
    <2> QED BY <2>1, <2>2
  <1> QED
    BY <1>1, <1>2, <1>3, <1>4, <1>5, <1>6, <1>7 DEF SttClass, from

TtsClass(text, rest) ==
  IF "tts is disabled" \in text THEN "disabled"
  ELSE IF "tts command is not configured" \in text
          \/ "tts command is empty after parsing" \in text THEN "not_configured"
  ELSE IF "timed out" \in text THEN "timeout"
  ELSE IF "failed to spawn" \in text \/ "no such file" \in text THEN "process_missing"
  ELSE IF "failed to write text to tts stdin" \in text THEN "stdin_write_failed"
  ELSE IF "failed with status" \in text THEN "exit_nonzero"
  ELSE rest

LEMMA TtsLook ==
  ASSUME NEW text
  PROVE  From(TtsRules, 1, text) =
           TtsClass(text, From(TtsRules, 7, text))
  <1> DEFINE from(k) == From(TtsRules, k, text)
  <1>0. \A k \in 1 .. 6 : from(k) =
          IF Holds(TtsRules[k], text) THEN TtsRules[k].class ELSE from(k + 1)
    <2>1. Len(TtsRules) = 6
      BY DEF TtsRules
    <2> QED BY <2>1, Look
  <1> HIDE DEF from
  <1>1. from(1) = IF "tts is disabled" \in text THEN "disabled" ELSE from(2)
    <2>1. /\ Holds(TtsRules[1], text) <=>
               "tts is disabled" \in text
          /\ TtsRules[1].class = "disabled"
      BY DEF TtsRules, Plain, Rule, Holds
    <2>2. from(1) = IF Holds(TtsRules[1], text) THEN TtsRules[1].class ELSE from(2)
      BY <1>0
    <2> QED BY <2>1, <2>2
  <1>2. from(2) =
          IF "tts command is not configured" \in text \/
               "tts command is empty after parsing" \in text
          THEN "not_configured" ELSE from(3)
    <2>1. /\ Holds(TtsRules[2], text) <=>
               "tts command is not configured" \in text \/
               "tts command is empty after parsing" \in text
          /\ TtsRules[2].class = "not_configured"
      BY DEF TtsRules, Plain, Rule, Holds
    <2>2. from(2) = IF Holds(TtsRules[2], text) THEN TtsRules[2].class ELSE from(3)
      BY <1>0
    <2> QED BY <2>1, <2>2
  <1>3. from(3) = IF "timed out" \in text THEN "timeout" ELSE from(4)
    <2>1. /\ Holds(TtsRules[3], text) <=>
               "timed out" \in text
          /\ TtsRules[3].class = "timeout"
      BY DEF TtsRules, Plain, Rule, Holds
    <2>2. from(3) = IF Holds(TtsRules[3], text) THEN TtsRules[3].class ELSE from(4)
      BY <1>0
    <2> QED BY <2>1, <2>2
  <1>4. from(4) =
          IF "failed to spawn" \in text \/ "no such file" \in text
          THEN "process_missing" ELSE from(5)
    <2>1. /\ Holds(TtsRules[4], text) <=>
               "failed to spawn" \in text \/ "no such file" \in text
          /\ TtsRules[4].class = "process_missing"
      BY DEF TtsRules, Plain, Rule, Holds
    <2>2. from(4) = IF Holds(TtsRules[4], text) THEN TtsRules[4].class ELSE from(5)
      BY <1>0
    <2> QED BY <2>1, <2>2
  <1>5. from(5) =
          IF "failed to write text to tts stdin" \in text
          THEN "stdin_write_failed" ELSE from(6)
    <2>1. /\ Holds(TtsRules[5], text) <=>
               "failed to write text to tts stdin" \in text
          /\ TtsRules[5].class = "stdin_write_failed"
      BY DEF TtsRules, Plain, Rule, Holds
    <2>2. from(5) = IF Holds(TtsRules[5], text) THEN TtsRules[5].class ELSE from(6)
      BY <1>0
    <2> QED BY <2>1, <2>2
  <1>6. from(6) = IF "failed with status" \in text THEN "exit_nonzero" ELSE from(7)
    <2>1. /\ Holds(TtsRules[6], text) <=>
               "failed with status" \in text
          /\ TtsRules[6].class = "exit_nonzero"
      BY DEF TtsRules, Plain, Rule, Holds
    <2>2. from(6) = IF Holds(TtsRules[6], text) THEN TtsRules[6].class ELSE from(7)
      BY <1>0
    <2> QED BY <2>1, <2>2
  <1> QED
    BY <1>1, <1>2, <1>3, <1>4, <1>5, <1>6 DEF TtsClass, from

CertFaults ==
  {"notvalidyet", "expired", "badsignature", "invalidcertificate", "notvaliddns", "revoked"}

CloudClass(text, rest) ==
  IF "is disabled" \in text THEN "disabled"
  ELSE IF "not configured" \in text THEN "not_configured"
  ELSE IF "secret is not set" \in text THEN "secret_missing"
  ELSE IF {"tls", "handshake"} \subseteq text /\ text \cap {"unknownissuer", "unknown issuer"} # {}
    THEN "cert_untrusted"
  ELSE IF {"tls", "handshake"} \subseteq text /\ text \cap CertFaults # {} THEN "cert_invalid"
  ELSE IF {"tls", "handshake"} \subseteq text THEN "tls_handshake_failed"
  ELSE IF "endpoint must start with http://" \in text THEN "endpoint_scheme_unsupported"
  ELSE IF "endpoint url is not parseable" \in text THEN "endpoint_unparseable"
  ELSE IF "timed out" \in text THEN "timeout"
  ELSE IF "http connect" \in text THEN "http_connect_failed"
  ELSE IF "http returned status 401" \in text \/ "http returned status 403" \in text
    THEN "unauthorized"
  ELSE IF "http returned status" \in text THEN "http_error"
  ELSE IF "returned no content" \in text THEN "empty_response"
  ELSE IF "is not valid json" \in text \/ "not valid utf-8" \in text THEN "invalid_response"
  ELSE rest

LEMMA CloudLook ==
  ASSUME NEW text
  PROVE  From(TextRules, 1, text) =
           IF "cloud_http" \in text THEN CloudClass(text, From(TextRules, 15, text))
           ELSE From(TextRules, 15, text)
  <1> DEFINE from(k) == From(TextRules, k, text)
  <1>0. \A k \in 1 .. 39 : from(k) =
          IF Holds(TextRules[k], text) THEN TextRules[k].class ELSE from(k + 1)
    BY Look, TextRuleAt
  <1> HIDE DEF from
  <1>1. from(1) = IF "cloud_http" \in text /\ "is disabled" \in text THEN "disabled" ELSE from(2)
    <2>1. /\ Holds(CloudRules[1], text) <=>
               "cloud_http" \in text /\ "is disabled" \in text
          /\ CloudRules[1].class = "disabled"
      BY DEF CloudRules, For, Rule, Holds
    <2>2. from(1) = IF Holds(CloudRules[1], text) THEN CloudRules[1].class ELSE from(2)
      BY <1>0, TextRuleAt
    <2> QED BY <2>1, <2>2
  <1>2. from(2) =
          IF "cloud_http" \in text /\ "not configured" \in text
          THEN "not_configured" ELSE from(3)
    <2>1. /\ Holds(CloudRules[2], text) <=>
               "cloud_http" \in text /\ "not configured" \in text
          /\ CloudRules[2].class = "not_configured"
      BY DEF CloudRules, For, Rule, Holds
    <2>2. from(2) = IF Holds(CloudRules[2], text) THEN CloudRules[2].class ELSE from(3)
      BY <1>0, TextRuleAt
    <2> QED BY <2>1, <2>2
  <1>3. from(3) =
          IF "cloud_http" \in text /\ "secret is not set" \in text
          THEN "secret_missing" ELSE from(4)
    <2>1. /\ Holds(CloudRules[3], text) <=>
               "cloud_http" \in text /\ "secret is not set" \in text
          /\ CloudRules[3].class = "secret_missing"
      BY DEF CloudRules, For, Rule, Holds
    <2>2. from(3) = IF Holds(CloudRules[3], text) THEN CloudRules[3].class ELSE from(4)
      BY <1>0, TextRuleAt
    <2> QED BY <2>1, <2>2
  <1>4. from(4) =
          IF "cloud_http" \in text /\ {"tls", "handshake"} \subseteq text
               /\ text \cap {"unknownissuer", "unknown issuer"} # {}
          THEN "cert_untrusted" ELSE from(5)
    <2>1. /\ Holds(CloudRules[4], text) <=>
               "cloud_http" \in text /\ {"tls", "handshake"} \subseteq text
               /\ text \cap {"unknownissuer", "unknown issuer"} # {}
          /\ CloudRules[4].class = "cert_untrusted"
      BY DEF CloudRules, For, Rule, Holds
    <2>2. from(4) = IF Holds(CloudRules[4], text) THEN CloudRules[4].class ELSE from(5)
      BY <1>0, TextRuleAt
    <2> QED BY <2>1, <2>2
  <1>5. from(5) =
          IF "cloud_http" \in text /\ {"tls", "handshake"} \subseteq text
               /\ text \cap CertFaults # {}
          THEN "cert_invalid" ELSE from(6)
    <2>1. /\ Holds(CloudRules[5], text) <=>
               "cloud_http" \in text /\ {"tls", "handshake"} \subseteq text
               /\ text \cap CertFaults # {}
          /\ CloudRules[5].class = "cert_invalid"
      BY DEF CloudRules, For, Rule, Holds, CertFaults
    <2>2. from(5) = IF Holds(CloudRules[5], text) THEN CloudRules[5].class ELSE from(6)
      BY <1>0, TextRuleAt
    <2> QED BY <2>1, <2>2
  <1>6. from(6) =
          IF "cloud_http" \in text /\ {"tls", "handshake"} \subseteq text
          THEN "tls_handshake_failed" ELSE from(7)
    <2>1. /\ Holds(CloudRules[6], text) <=>
               "cloud_http" \in text /\ {"tls", "handshake"} \subseteq text
          /\ CloudRules[6].class = "tls_handshake_failed"
      BY DEF CloudRules, For, Rule, Holds
    <2>2. from(6) = IF Holds(CloudRules[6], text) THEN CloudRules[6].class ELSE from(7)
      BY <1>0, TextRuleAt
    <2> QED BY <2>1, <2>2
  <1>7. from(7) =
          IF "cloud_http" \in text /\ "endpoint must start with http://" \in text
          THEN "endpoint_scheme_unsupported" ELSE from(8)
    <2>1. /\ Holds(CloudRules[7], text) <=>
               "cloud_http" \in text /\ "endpoint must start with http://" \in text
          /\ CloudRules[7].class = "endpoint_scheme_unsupported"
      BY DEF CloudRules, For, Rule, Holds
    <2>2. from(7) = IF Holds(CloudRules[7], text) THEN CloudRules[7].class ELSE from(8)
      BY <1>0, TextRuleAt
    <2> QED BY <2>1, <2>2
  <1>8. from(8) =
          IF "cloud_http" \in text /\ "endpoint url is not parseable" \in text
          THEN "endpoint_unparseable" ELSE from(9)
    <2>1. /\ Holds(CloudRules[8], text) <=>
               "cloud_http" \in text /\ "endpoint url is not parseable" \in text
          /\ CloudRules[8].class = "endpoint_unparseable"
      BY DEF CloudRules, For, Rule, Holds
    <2>2. from(8) = IF Holds(CloudRules[8], text) THEN CloudRules[8].class ELSE from(9)
      BY <1>0, TextRuleAt
    <2> QED BY <2>1, <2>2
  <1>9. from(9) = IF "cloud_http" \in text /\ "timed out" \in text THEN "timeout" ELSE from(10)
    <2>1. /\ Holds(CloudRules[9], text) <=>
               "cloud_http" \in text /\ "timed out" \in text
          /\ CloudRules[9].class = "timeout"
      BY DEF CloudRules, For, Rule, Holds
    <2>2. from(9) = IF Holds(CloudRules[9], text) THEN CloudRules[9].class ELSE from(10)
      BY <1>0, TextRuleAt
    <2> QED BY <2>1, <2>2
  <1>10. from(10) =
          IF "cloud_http" \in text /\ "http connect" \in text
          THEN "http_connect_failed" ELSE from(11)
    <2>1. /\ Holds(CloudRules[10], text) <=>
               "cloud_http" \in text /\ "http connect" \in text
          /\ CloudRules[10].class = "http_connect_failed"
      BY DEF CloudRules, For, Rule, Holds
    <2>2. from(10) = IF Holds(CloudRules[10], text) THEN CloudRules[10].class ELSE from(11)
      BY <1>0, TextRuleAt
    <2> QED BY <2>1, <2>2
  <1>11. from(11) =
          IF "cloud_http" \in text /\ ("http returned status 401" \in text \/
               "http returned status 403" \in text)
          THEN "unauthorized" ELSE from(12)
    <2>1. /\ Holds(CloudRules[11], text) <=>
               "cloud_http" \in text /\ ("http returned status 401" \in text \/
               "http returned status 403" \in text)
          /\ CloudRules[11].class = "unauthorized"
      BY DEF CloudRules, For, Rule, Holds
    <2>2. from(11) = IF Holds(CloudRules[11], text) THEN CloudRules[11].class ELSE from(12)
      BY <1>0, TextRuleAt
    <2> QED BY <2>1, <2>2
  <1>12. from(12) =
          IF "cloud_http" \in text /\ "http returned status" \in text
          THEN "http_error" ELSE from(13)
    <2>1. /\ Holds(CloudRules[12], text) <=>
               "cloud_http" \in text /\ "http returned status" \in text
          /\ CloudRules[12].class = "http_error"
      BY DEF CloudRules, For, Rule, Holds
    <2>2. from(12) = IF Holds(CloudRules[12], text) THEN CloudRules[12].class ELSE from(13)
      BY <1>0, TextRuleAt
    <2> QED BY <2>1, <2>2
  <1>13. from(13) =
          IF "cloud_http" \in text /\ "returned no content" \in text
          THEN "empty_response" ELSE from(14)
    <2>1. /\ Holds(CloudRules[13], text) <=>
               "cloud_http" \in text /\ "returned no content" \in text
          /\ CloudRules[13].class = "empty_response"
      BY DEF CloudRules, For, Rule, Holds
    <2>2. from(13) = IF Holds(CloudRules[13], text) THEN CloudRules[13].class ELSE from(14)
      BY <1>0, TextRuleAt
    <2> QED BY <2>1, <2>2
  <1>14. from(14) =
          IF "cloud_http" \in text /\ ("is not valid json" \in text \/
               "not valid utf-8" \in text)
          THEN "invalid_response" ELSE from(15)
    <2>1. /\ Holds(CloudRules[14], text) <=>
               "cloud_http" \in text /\ ("is not valid json" \in text \/
               "not valid utf-8" \in text)
          /\ CloudRules[14].class = "invalid_response"
      BY DEF CloudRules, For, Rule, Holds
    <2>2. from(14) = IF Holds(CloudRules[14], text) THEN CloudRules[14].class ELSE from(15)
      BY <1>0, TextRuleAt
    <2> QED BY <2>1, <2>2
  <1> QED
    BY <1>1, <1>2, <1>3, <1>4, <1>5, <1>6, <1>7, <1>8, <1>9,
       <1>10, <1>11, <1>12, <1>13, <1>14, ZenonT(30) DEF CloudClass, from

LocalClass(text, rest) ==
  IF "is disabled" \in text THEN "disabled"
  ELSE IF "not configured" \in text THEN "not_configured"
  ELSE IF "endpoint must start with http://" \in text THEN "endpoint_scheme_unsupported"
  ELSE IF "endpoint url is not parseable" \in text THEN "endpoint_unparseable"
  ELSE IF "timed out" \in text THEN "timeout"
  ELSE IF "http connect" \in text THEN "http_connect_failed"
  ELSE IF "http returned status" \in text THEN "http_error"
  ELSE IF "returned no content" \in text THEN "empty_response"
  ELSE IF "is not valid json" \in text \/ "not valid utf-8" \in text THEN "invalid_response"
  ELSE rest

LEMMA LocalLook ==
  ASSUME NEW text
  PROVE  From(TextRules, 15, text) =
           IF "local_http" \in text THEN LocalClass(text, From(TextRules, 24, text))
           ELSE From(TextRules, 24, text)
  <1> DEFINE from(k) == From(TextRules, k, text)
  <1>0. \A k \in 1 .. 39 : from(k) =
          IF Holds(TextRules[k], text) THEN TextRules[k].class ELSE from(k + 1)
    BY Look, TextRuleAt
  <1> HIDE DEF from
  <1>1. from(15) =
          IF "local_http" \in text /\ "is disabled" \in text
          THEN "disabled" ELSE from(16)
    <2>1. /\ Holds(LocalRules[1], text) <=>
               "local_http" \in text /\ "is disabled" \in text
          /\ LocalRules[1].class = "disabled"
      BY DEF LocalRules, For, Rule, Holds
    <2>2. from(15) = IF Holds(LocalRules[1], text) THEN LocalRules[1].class ELSE from(16)
      BY <1>0, TextRuleAt
    <2> QED BY <2>1, <2>2
  <1>2. from(16) =
          IF "local_http" \in text /\ "not configured" \in text
          THEN "not_configured" ELSE from(17)
    <2>1. /\ Holds(LocalRules[2], text) <=>
               "local_http" \in text /\ "not configured" \in text
          /\ LocalRules[2].class = "not_configured"
      BY DEF LocalRules, For, Rule, Holds
    <2>2. from(16) = IF Holds(LocalRules[2], text) THEN LocalRules[2].class ELSE from(17)
      BY <1>0, TextRuleAt
    <2> QED BY <2>1, <2>2
  <1>3. from(17) =
          IF "local_http" \in text /\ "endpoint must start with http://" \in text
          THEN "endpoint_scheme_unsupported" ELSE from(18)
    <2>1. /\ Holds(LocalRules[3], text) <=>
               "local_http" \in text /\ "endpoint must start with http://" \in text
          /\ LocalRules[3].class = "endpoint_scheme_unsupported"
      BY DEF LocalRules, For, Rule, Holds
    <2>2. from(17) = IF Holds(LocalRules[3], text) THEN LocalRules[3].class ELSE from(18)
      BY <1>0, TextRuleAt
    <2> QED BY <2>1, <2>2
  <1>4. from(18) =
          IF "local_http" \in text /\ "endpoint url is not parseable" \in text
          THEN "endpoint_unparseable" ELSE from(19)
    <2>1. /\ Holds(LocalRules[4], text) <=>
               "local_http" \in text /\ "endpoint url is not parseable" \in text
          /\ LocalRules[4].class = "endpoint_unparseable"
      BY DEF LocalRules, For, Rule, Holds
    <2>2. from(18) = IF Holds(LocalRules[4], text) THEN LocalRules[4].class ELSE from(19)
      BY <1>0, TextRuleAt
    <2> QED BY <2>1, <2>2
  <1>5. from(19) = IF "local_http" \in text /\ "timed out" \in text THEN "timeout" ELSE from(20)
    <2>1. /\ Holds(LocalRules[5], text) <=>
               "local_http" \in text /\ "timed out" \in text
          /\ LocalRules[5].class = "timeout"
      BY DEF LocalRules, For, Rule, Holds
    <2>2. from(19) = IF Holds(LocalRules[5], text) THEN LocalRules[5].class ELSE from(20)
      BY <1>0, TextRuleAt
    <2> QED BY <2>1, <2>2
  <1>6. from(20) =
          IF "local_http" \in text /\ "http connect" \in text
          THEN "http_connect_failed" ELSE from(21)
    <2>1. /\ Holds(LocalRules[6], text) <=>
               "local_http" \in text /\ "http connect" \in text
          /\ LocalRules[6].class = "http_connect_failed"
      BY DEF LocalRules, For, Rule, Holds
    <2>2. from(20) = IF Holds(LocalRules[6], text) THEN LocalRules[6].class ELSE from(21)
      BY <1>0, TextRuleAt
    <2> QED BY <2>1, <2>2
  <1>7. from(21) =
          IF "local_http" \in text /\ "http returned status" \in text
          THEN "http_error" ELSE from(22)
    <2>1. /\ Holds(LocalRules[7], text) <=>
               "local_http" \in text /\ "http returned status" \in text
          /\ LocalRules[7].class = "http_error"
      BY DEF LocalRules, For, Rule, Holds
    <2>2. from(21) = IF Holds(LocalRules[7], text) THEN LocalRules[7].class ELSE from(22)
      BY <1>0, TextRuleAt
    <2> QED BY <2>1, <2>2
  <1>8. from(22) =
          IF "local_http" \in text /\ "returned no content" \in text
          THEN "empty_response" ELSE from(23)
    <2>1. /\ Holds(LocalRules[8], text) <=>
               "local_http" \in text /\ "returned no content" \in text
          /\ LocalRules[8].class = "empty_response"
      BY DEF LocalRules, For, Rule, Holds
    <2>2. from(22) = IF Holds(LocalRules[8], text) THEN LocalRules[8].class ELSE from(23)
      BY <1>0, TextRuleAt
    <2> QED BY <2>1, <2>2
  <1>9. from(23) =
          IF "local_http" \in text /\ ("is not valid json" \in text \/
               "not valid utf-8" \in text)
          THEN "invalid_response" ELSE from(24)
    <2>1. /\ Holds(LocalRules[9], text) <=>
               "local_http" \in text /\ ("is not valid json" \in text \/
               "not valid utf-8" \in text)
          /\ LocalRules[9].class = "invalid_response"
      BY DEF LocalRules, For, Rule, Holds
    <2>2. from(23) = IF Holds(LocalRules[9], text) THEN LocalRules[9].class ELSE from(24)
      BY <1>0, TextRuleAt
    <2> QED BY <2>1, <2>2
  <1> QED
    BY <1>1, <1>2, <1>3, <1>4, <1>5, <1>6, <1>7, <1>8, <1>9 DEF LocalClass, from

LlamafileClass(text, rest) ==
  IF "is disabled" \in text THEN "disabled"
  ELSE IF "not configured" \in text THEN "not_configured"
  ELSE IF "runtime is not yet implemented" \in text THEN "not_implemented"
  ELSE IF "readiness check timed out" \in text THEN "startup_timeout"
  ELSE IF "exited during startup" \in text THEN "process_exit_early"
  ELSE IF "process spawn failed" \in text THEN "process_missing"
  ELSE IF "http returned status" \in text THEN "http_error"
  ELSE IF "returned no content" \in text THEN "empty_response"
  ELSE IF "is not valid json" \in text \/ "not valid utf-8" \in text THEN "invalid_response"
  ELSE IF "timed out" \in text THEN "timeout"
  ELSE IF "http connect" \in text THEN "http_connect_failed"
  ELSE rest

LEMMA LlamafileLook ==
  ASSUME NEW text
  PROVE  From(TextRules, 24, text) =
           IF "llamafile" \in text THEN LlamafileClass(text, From(TextRules, 35, text))
           ELSE From(TextRules, 35, text)
  <1> DEFINE from(k) == From(TextRules, k, text)
  <1>0. \A k \in 1 .. 39 : from(k) =
          IF Holds(TextRules[k], text) THEN TextRules[k].class ELSE from(k + 1)
    BY Look, TextRuleAt
  <1> HIDE DEF from
  <1>1. from(24) = IF "llamafile" \in text /\ "is disabled" \in text THEN "disabled" ELSE from(25)
    <2>1. /\ Holds(LlamafileRules[1], text) <=>
               "llamafile" \in text /\ "is disabled" \in text
          /\ LlamafileRules[1].class = "disabled"
      BY DEF LlamafileRules, For, Rule, Holds
    <2>2. from(24) = IF Holds(LlamafileRules[1], text) THEN LlamafileRules[1].class ELSE from(25)
      BY <1>0, TextRuleAt
    <2> QED BY <2>1, <2>2
  <1>2. from(25) =
          IF "llamafile" \in text /\ "not configured" \in text
          THEN "not_configured" ELSE from(26)
    <2>1. /\ Holds(LlamafileRules[2], text) <=>
               "llamafile" \in text /\ "not configured" \in text
          /\ LlamafileRules[2].class = "not_configured"
      BY DEF LlamafileRules, For, Rule, Holds
    <2>2. from(25) = IF Holds(LlamafileRules[2], text) THEN LlamafileRules[2].class ELSE from(26)
      BY <1>0, TextRuleAt
    <2> QED BY <2>1, <2>2
  <1>3. from(26) =
          IF "llamafile" \in text /\ "runtime is not yet implemented" \in text
          THEN "not_implemented" ELSE from(27)
    <2>1. /\ Holds(LlamafileRules[3], text) <=>
               "llamafile" \in text /\ "runtime is not yet implemented" \in text
          /\ LlamafileRules[3].class = "not_implemented"
      BY DEF LlamafileRules, For, Rule, Holds
    <2>2. from(26) = IF Holds(LlamafileRules[3], text) THEN LlamafileRules[3].class ELSE from(27)
      BY <1>0, TextRuleAt
    <2> QED BY <2>1, <2>2
  <1>4. from(27) =
          IF "llamafile" \in text /\ "readiness check timed out" \in text
          THEN "startup_timeout" ELSE from(28)
    <2>1. /\ Holds(LlamafileRules[4], text) <=>
               "llamafile" \in text /\ "readiness check timed out" \in text
          /\ LlamafileRules[4].class = "startup_timeout"
      BY DEF LlamafileRules, For, Rule, Holds
    <2>2. from(27) = IF Holds(LlamafileRules[4], text) THEN LlamafileRules[4].class ELSE from(28)
      BY <1>0, TextRuleAt
    <2> QED BY <2>1, <2>2
  <1>5. from(28) =
          IF "llamafile" \in text /\ "exited during startup" \in text
          THEN "process_exit_early" ELSE from(29)
    <2>1. /\ Holds(LlamafileRules[5], text) <=>
               "llamafile" \in text /\ "exited during startup" \in text
          /\ LlamafileRules[5].class = "process_exit_early"
      BY DEF LlamafileRules, For, Rule, Holds
    <2>2. from(28) = IF Holds(LlamafileRules[5], text) THEN LlamafileRules[5].class ELSE from(29)
      BY <1>0, TextRuleAt
    <2> QED BY <2>1, <2>2
  <1>6. from(29) =
          IF "llamafile" \in text /\ "process spawn failed" \in text
          THEN "process_missing" ELSE from(30)
    <2>1. /\ Holds(LlamafileRules[6], text) <=>
               "llamafile" \in text /\ "process spawn failed" \in text
          /\ LlamafileRules[6].class = "process_missing"
      BY DEF LlamafileRules, For, Rule, Holds
    <2>2. from(29) = IF Holds(LlamafileRules[6], text) THEN LlamafileRules[6].class ELSE from(30)
      BY <1>0, TextRuleAt
    <2> QED BY <2>1, <2>2
  <1>7. from(30) =
          IF "llamafile" \in text /\ "http returned status" \in text
          THEN "http_error" ELSE from(31)
    <2>1. /\ Holds(LlamafileRules[7], text) <=>
               "llamafile" \in text /\ "http returned status" \in text
          /\ LlamafileRules[7].class = "http_error"
      BY DEF LlamafileRules, For, Rule, Holds
    <2>2. from(30) = IF Holds(LlamafileRules[7], text) THEN LlamafileRules[7].class ELSE from(31)
      BY <1>0, TextRuleAt
    <2> QED BY <2>1, <2>2
  <1>8. from(31) =
          IF "llamafile" \in text /\ "returned no content" \in text
          THEN "empty_response" ELSE from(32)
    <2>1. /\ Holds(LlamafileRules[8], text) <=>
               "llamafile" \in text /\ "returned no content" \in text
          /\ LlamafileRules[8].class = "empty_response"
      BY DEF LlamafileRules, For, Rule, Holds
    <2>2. from(31) = IF Holds(LlamafileRules[8], text) THEN LlamafileRules[8].class ELSE from(32)
      BY <1>0, TextRuleAt
    <2> QED BY <2>1, <2>2
  <1>9. from(32) =
          IF "llamafile" \in text /\ ("is not valid json" \in text \/
               "not valid utf-8" \in text)
          THEN "invalid_response" ELSE from(33)
    <2>1. /\ Holds(LlamafileRules[9], text) <=>
               "llamafile" \in text /\ ("is not valid json" \in text \/
               "not valid utf-8" \in text)
          /\ LlamafileRules[9].class = "invalid_response"
      BY DEF LlamafileRules, For, Rule, Holds
    <2>2. from(32) = IF Holds(LlamafileRules[9], text) THEN LlamafileRules[9].class ELSE from(33)
      BY <1>0, TextRuleAt
    <2> QED BY <2>1, <2>2
  <1>10. from(33) = IF "llamafile" \in text /\ "timed out" \in text THEN "timeout" ELSE from(34)
    <2>1. /\ Holds(LlamafileRules[10], text) <=>
               "llamafile" \in text /\ "timed out" \in text
          /\ LlamafileRules[10].class = "timeout"
      BY DEF LlamafileRules, For, Rule, Holds
    <2>2. from(33) = IF Holds(LlamafileRules[10], text) THEN LlamafileRules[10].class ELSE from(34)
      BY <1>0, TextRuleAt
    <2> QED BY <2>1, <2>2
  <1>11. from(34) =
          IF "llamafile" \in text /\ "http connect" \in text
          THEN "http_connect_failed" ELSE from(35)
    <2>1. /\ Holds(LlamafileRules[11], text) <=>
               "llamafile" \in text /\ "http connect" \in text
          /\ LlamafileRules[11].class = "http_connect_failed"
      BY DEF LlamafileRules, For, Rule, Holds
    <2>2. from(34) = IF Holds(LlamafileRules[11], text) THEN LlamafileRules[11].class ELSE from(35)
      BY <1>0, TextRuleAt
    <2> QED BY <2>1, <2>2
  <1> QED
    BY <1>1, <1>2, <1>3, <1>4, <1>5, <1>6, <1>7, <1>8, <1>9,
       <1>10, <1>11, ZenonT(30) DEF LlamafileClass, from

GeneralClass(text, rest) ==
  IF "timed out" \in text THEN "timeout"
  ELSE IF "failed to spawn" \in text \/ "no such file" \in text THEN "process_missing"
  ELSE IF "returned no output" \in text THEN "empty_response"
  ELSE IF "not valid utf-8" \in text THEN "invalid_response"
  ELSE IF "failed with status" \in text THEN "exit_nonzero"
  ELSE rest

LEMMA GeneralLook ==
  ASSUME NEW text
  PROVE  From(TextRules, 35, text) =
           GeneralClass(text, From(TextRules, 40, text))
  <1> DEFINE from(k) == From(TextRules, k, text)
  <1>0. \A k \in 1 .. 39 : from(k) =
          IF Holds(TextRules[k], text) THEN TextRules[k].class ELSE from(k + 1)
    BY Look, TextRuleAt
  <1> HIDE DEF from
  <1>1. from(35) = IF "timed out" \in text THEN "timeout" ELSE from(36)
    <2>1. /\ Holds(GeneralRules[1], text) <=>
               "timed out" \in text
          /\ GeneralRules[1].class = "timeout"
      BY DEF GeneralRules, Plain, Rule, Holds
    <2>2. from(35) = IF Holds(GeneralRules[1], text) THEN GeneralRules[1].class ELSE from(36)
      BY <1>0, TextRuleAt
    <2> QED BY <2>1, <2>2
  <1>2. from(36) =
          IF "failed to spawn" \in text \/ "no such file" \in text
          THEN "process_missing" ELSE from(37)
    <2>1. /\ Holds(GeneralRules[2], text) <=>
               "failed to spawn" \in text \/ "no such file" \in text
          /\ GeneralRules[2].class = "process_missing"
      BY DEF GeneralRules, Plain, Rule, Holds
    <2>2. from(36) = IF Holds(GeneralRules[2], text) THEN GeneralRules[2].class ELSE from(37)
      BY <1>0, TextRuleAt
    <2> QED BY <2>1, <2>2
  <1>3. from(37) = IF "returned no output" \in text THEN "empty_response" ELSE from(38)
    <2>1. /\ Holds(GeneralRules[3], text) <=>
               "returned no output" \in text
          /\ GeneralRules[3].class = "empty_response"
      BY DEF GeneralRules, Plain, Rule, Holds
    <2>2. from(37) = IF Holds(GeneralRules[3], text) THEN GeneralRules[3].class ELSE from(38)
      BY <1>0, TextRuleAt
    <2> QED BY <2>1, <2>2
  <1>4. from(38) = IF "not valid utf-8" \in text THEN "invalid_response" ELSE from(39)
    <2>1. /\ Holds(GeneralRules[4], text) <=>
               "not valid utf-8" \in text
          /\ GeneralRules[4].class = "invalid_response"
      BY DEF GeneralRules, Plain, Rule, Holds
    <2>2. from(38) = IF Holds(GeneralRules[4], text) THEN GeneralRules[4].class ELSE from(39)
      BY <1>0, TextRuleAt
    <2> QED BY <2>1, <2>2
  <1>5. from(39) = IF "failed with status" \in text THEN "exit_nonzero" ELSE from(40)
    <2>1. /\ Holds(GeneralRules[5], text) <=>
               "failed with status" \in text
          /\ GeneralRules[5].class = "exit_nonzero"
      BY DEF GeneralRules, Plain, Rule, Holds
    <2>2. from(39) = IF Holds(GeneralRules[5], text) THEN GeneralRules[5].class ELSE from(40)
      BY <1>0, TextRuleAt
    <2> QED BY <2>1, <2>2
  <1> QED
    BY <1>1, <1>2, <1>3, <1>4, <1>5 DEF GeneralClass, from


(* classify_error in closed form. *)
LEMMA Classified ==
  ASSUME NEW text
  PROVE  /\ classify_error("stt", text) = SttClass(text, "unknown")
         /\ classify_error("tts", text) = TtsClass(text, "unknown")
         /\ LET general   == GeneralClass(text, "unknown")
                llamafile == IF "llamafile" \in text THEN LlamafileClass(text, general) ELSE general
                local     == IF "local_http" \in text THEN LocalClass(text, llamafile)
                             ELSE llamafile
            IN  classify_error("text", text) =
                  IF "cloud_http" \in text THEN CloudClass(text, local) ELSE local
  <1>1. classify_error("stt", text) = SttClass(text, "unknown")
    <2>1. Len(SttRules) = 7 /\ 8 = 7 + 1
      BY DEF SttRules
    <2>2. /\ FirstMatch(SttRules, text) = From(SttRules, 1, text)
          /\ From(SttRules, 8, text) = "unknown"
      BY <2>1, Looked
    <2> QED BY <2>2, SttLook DEF classify_error
  <1>2. classify_error("tts", text) = TtsClass(text, "unknown")
    <2>1. Len(TtsRules) = 6 /\ 7 = 6 + 1
      BY DEF TtsRules
    <2>2. /\ FirstMatch(TtsRules, text) = From(TtsRules, 1, text)
          /\ From(TtsRules, 7, text) = "unknown"
      BY <2>1, Looked
    <2> QED BY <2>2, TtsLook DEF classify_error
  <1>3. /\ FirstMatch(TextRules, text) = From(TextRules, 1, text)
        /\ From(TextRules, 40, text) = "unknown"
    <2>1. Len(TextRules) = 39 /\ 40 = 39 + 1
      BY TextRuleAt
    <2> QED BY <2>1, Looked
  <1>4. classify_error("text", text) = FirstMatch(TextRules, text)
    BY DEF classify_error
  <1> QED
    BY <1>1, <1>2, <1>3, <1>4, CloudLook, LocalLook, LlamafileLook, GeneralLook

(* Every error of a kind, cause by cause. *)
LEMMA SttTold ==
  ASSUME NEW cause \in DOMAIN SttText, NEW kind
  PROVE  classify_error("stt", SttText[cause]) = Documented("stt", kind, cause)
           <=> cause \notin Misnamed
  <1> DEFINE Told(c) == classify_error("stt", SttText[c]) = Documented("stt", kind, c)
                          <=> c \notin Misnamed
  <1>1. Told("disabled")
    <2>1. SttText["disabled"] = {"stt is disabled"}
      BY DEF SttText
    <2>2. classify_error("stt", SttText["disabled"]) = "disabled"
      BY <2>1, Classified DEF SttClass
    <2>3. Documented("stt", kind, "disabled") = "disabled" /\ "disabled" \notin Misnamed
      BY DEF Documented, Vocabulary, Misnamed
    <2> QED BY <2>2, <2>3
  <1>2. Told("not_configured")
    <2>1. SttText["not_configured"] = {"stt command is not configured"}
      BY DEF SttText
    <2>2. classify_error("stt", SttText["not_configured"]) = "not_configured"
      BY <2>1, Classified DEF SttClass
    <2>3. Documented("stt", kind, "not_configured") = "not_configured" /\ "not_configured" \notin Misnamed
      BY DEF Documented, Vocabulary, Misnamed
    <2> QED BY <2>2, <2>3
  <1>3. Told("unparseable")
    <2>1. SttText["unparseable"] = {"stt command is empty after parsing"}
      BY DEF SttText
    <2>2. classify_error("stt", SttText["unparseable"]) = "not_configured"
      BY <2>1, Classified DEF SttClass
    <2>3. Documented("stt", kind, "unparseable") = "not_configured" /\ "unparseable" \notin Misnamed
      BY DEF Documented, Vocabulary, Misnamed
    <2> QED BY <2>2, <2>3
  <1>4. Told("timeout")
    <2>1. SttText["timeout"] = {"timed out"}
      BY DEF SttText
    <2>2. classify_error("stt", SttText["timeout"]) = "timeout"
      BY <2>1, Classified DEF SttClass
    <2>3. Documented("stt", kind, "timeout") = "timeout" /\ "timeout" \notin Misnamed
      BY DEF Documented, Vocabulary, Misnamed
    <2> QED BY <2>2, <2>3
  <1>5. Told("spawn_failed")
    <2>1. SttText["spawn_failed"] = {"failed to spawn"}
      BY DEF SttText
    <2>2. classify_error("stt", SttText["spawn_failed"]) = "process_missing"
      BY <2>1, Classified DEF SttClass
    <2>3. Documented("stt", kind, "spawn_failed") = "process_missing" /\ "spawn_failed" \notin Misnamed
      BY DEF Documented, Vocabulary, Misnamed
    <2> QED BY <2>2, <2>3
  <1>6. Told("exit_nonzero")
    <2>1. SttText["exit_nonzero"] = {"failed with status"}
      BY DEF SttText
    <2>2. classify_error("stt", SttText["exit_nonzero"]) = "exit_nonzero"
      BY <2>1, Classified DEF SttClass
    <2>3. Documented("stt", kind, "exit_nonzero") = "exit_nonzero" /\ "exit_nonzero" \notin Misnamed
      BY DEF Documented, Vocabulary, Misnamed
    <2> QED BY <2>2, <2>3
  <1>7. Told("not_utf8")
    <2>1. SttText["not_utf8"] = {"not valid utf-8"}
      BY DEF SttText
    <2>2. classify_error("stt", SttText["not_utf8"]) = "invalid_response"
      BY <2>1, Classified DEF SttClass
    <2>3. Documented("stt", kind, "not_utf8") = "invalid_response" /\ "not_utf8" \notin Misnamed
      BY DEF Documented, Vocabulary, Misnamed
    <2> QED BY <2>2, <2>3
  <1>8. Told("no_output")
    <2>1. SttText["no_output"] = {"returned no recognized text"}
      BY DEF SttText
    <2>2. classify_error("stt", SttText["no_output"]) = "empty_response"
      BY <2>1, Classified DEF SttClass
    <2>3. Documented("stt", kind, "no_output") = "empty_response" /\ "no_output" \notin Misnamed
      BY DEF Documented, Vocabulary, Misnamed
    <2> QED BY <2>2, <2>3
  <1> HIDE DEF Told
  <1>9. Told(cause)
    BY <1>1, <1>2, <1>3, <1>4, <1>5, <1>6, <1>7, <1>8, Domains, HttpDomains
  <1> QED BY <1>9 DEF Told

LEMMA TtsTold ==
  ASSUME NEW cause \in DOMAIN TtsText, NEW kind
  PROVE  classify_error("tts", TtsText[cause]) = Documented("tts", kind, cause)
           <=> cause \notin Misnamed
  <1> DEFINE Told(c) == classify_error("tts", TtsText[c]) = Documented("tts", kind, c)
                          <=> c \notin Misnamed
  <1>1. Told("disabled")
    <2>1. TtsText["disabled"] = {"tts is disabled"}
      BY DEF TtsText
    <2>2. classify_error("tts", TtsText["disabled"]) = "disabled"
      BY <2>1, Classified DEF TtsClass
    <2>3. Documented("tts", kind, "disabled") = "disabled" /\ "disabled" \notin Misnamed
      BY DEF Documented, Vocabulary, Misnamed
    <2> QED BY <2>2, <2>3
  <1>2. Told("not_configured")
    <2>1. TtsText["not_configured"] = {"tts command is not configured"}
      BY DEF TtsText
    <2>2. classify_error("tts", TtsText["not_configured"]) = "not_configured"
      BY <2>1, Classified DEF TtsClass
    <2>3. Documented("tts", kind, "not_configured") = "not_configured" /\ "not_configured" \notin Misnamed
      BY DEF Documented, Vocabulary, Misnamed
    <2> QED BY <2>2, <2>3
  <1>3. Told("unparseable")
    <2>1. TtsText["unparseable"] = {"tts command is empty after parsing"}
      BY DEF TtsText
    <2>2. classify_error("tts", TtsText["unparseable"]) = "not_configured"
      BY <2>1, Classified DEF TtsClass
    <2>3. Documented("tts", kind, "unparseable") = "not_configured" /\ "unparseable" \notin Misnamed
      BY DEF Documented, Vocabulary, Misnamed
    <2> QED BY <2>2, <2>3
  <1>4. Told("spawn_failed")
    <2>1. TtsText["spawn_failed"] = {"failed to spawn"}
      BY DEF TtsText
    <2>2. classify_error("tts", TtsText["spawn_failed"]) = "process_missing"
      BY <2>1, Classified DEF TtsClass
    <2>3. Documented("tts", kind, "spawn_failed") = "process_missing" /\ "spawn_failed" \notin Misnamed
      BY DEF Documented, Vocabulary, Misnamed
    <2> QED BY <2>2, <2>3
  <1>5. Told("stdin_failed")
    <2>1. TtsText["stdin_failed"] = {"failed to write text to tts stdin"}
      BY DEF TtsText
    <2>2. classify_error("tts", TtsText["stdin_failed"]) = "stdin_write_failed"
      BY <2>1, Classified DEF TtsClass
    <2>3. Documented("tts", kind, "stdin_failed") = "stdin_write_failed" /\ "stdin_failed" \notin Misnamed
      BY DEF Documented, Vocabulary, Misnamed
    <2> QED BY <2>2, <2>3
  <1>6. Told("timeout")
    <2>1. TtsText["timeout"] = {"timed out"}
      BY DEF TtsText
    <2>2. classify_error("tts", TtsText["timeout"]) = "timeout"
      BY <2>1, Classified DEF TtsClass
    <2>3. Documented("tts", kind, "timeout") = "timeout" /\ "timeout" \notin Misnamed
      BY DEF Documented, Vocabulary, Misnamed
    <2> QED BY <2>2, <2>3
  <1>7. Told("wait_failed")
    <2>1. TtsText["wait_failed"] = {}
      BY DEF TtsText
    <2>2. classify_error("tts", TtsText["wait_failed"]) = "unknown"
      BY <2>1, Classified DEF TtsClass
    <2>3. Documented("tts", kind, "wait_failed") = "unknown" /\ "wait_failed" \notin Misnamed
      BY DEF Documented, Vocabulary, Misnamed
    <2> QED BY <2>2, <2>3
  <1>8. Told("exit_nonzero")
    <2>1. TtsText["exit_nonzero"] = {"failed with status"}
      BY DEF TtsText
    <2>2. classify_error("tts", TtsText["exit_nonzero"]) = "exit_nonzero"
      BY <2>1, Classified DEF TtsClass
    <2>3. Documented("tts", kind, "exit_nonzero") = "exit_nonzero" /\ "exit_nonzero" \notin Misnamed
      BY DEF Documented, Vocabulary, Misnamed
    <2> QED BY <2>2, <2>3
  <1> HIDE DEF Told
  <1>9. Told(cause)
    BY <1>1, <1>2, <1>3, <1>4, <1>5, <1>6, <1>7, <1>8, Domains, HttpDomains
  <1> QED BY <1>9 DEF Told

LEMMA AbrainTold ==
  ASSUME NEW cause \in DOMAIN AbrainText
  PROVE  classify_error("text", AbrainText[cause]) = Documented("text", "abrain", cause)
           <=> cause \notin Misnamed
  <1> DEFINE Told(c) == classify_error("text", AbrainText[c]) = Documented("text", "abrain", c)
                          <=> c \notin Misnamed
  <1>1. Told("timeout")
    <2>1. AbrainText["timeout"] = {"timed out"}
      BY DEF AbrainText
    <2>2. classify_error("text", AbrainText["timeout"]) = "timeout"
      BY <2>1, Classified DEF GeneralClass
    <2>3. Documented("text", "abrain", "timeout") = "timeout" /\ "timeout" \notin Misnamed
      BY DEF Documented, Vocabulary, Misnamed
    <2> QED BY <2>2, <2>3
  <1>2. Told("spawn_failed")
    <2>1. AbrainText["spawn_failed"] = {"failed to spawn"}
      BY DEF AbrainText
    <2>2. classify_error("text", AbrainText["spawn_failed"]) = "process_missing"
      BY <2>1, Classified DEF GeneralClass
    <2>3. Documented("text", "abrain", "spawn_failed") = "process_missing" /\ "spawn_failed" \notin Misnamed
      BY DEF Documented, Vocabulary, Misnamed
    <2> QED BY <2>2, <2>3
  <1>3. Told("not_utf8")
    <2>1. AbrainText["not_utf8"] = {"not valid utf-8"}
      BY DEF AbrainText
    <2>2. classify_error("text", AbrainText["not_utf8"]) = "invalid_response"
      BY <2>1, Classified DEF GeneralClass
    <2>3. Documented("text", "abrain", "not_utf8") = "invalid_response" /\ "not_utf8" \notin Misnamed
      BY DEF Documented, Vocabulary, Misnamed
    <2> QED BY <2>2, <2>3
  <1>4. Told("exit_nonzero")
    <2>1. AbrainText["exit_nonzero"] = {"failed with status"}
      BY DEF AbrainText
    <2>2. classify_error("text", AbrainText["exit_nonzero"]) = "exit_nonzero"
      BY <2>1, Classified DEF GeneralClass
    <2>3. Documented("text", "abrain", "exit_nonzero") = "exit_nonzero" /\ "exit_nonzero" \notin Misnamed
      BY DEF Documented, Vocabulary, Misnamed
    <2> QED BY <2>2, <2>3
  <1>5. Told("no_output")
    <2>1. AbrainText["no_output"] = {"returned no output"}
      BY DEF AbrainText
    <2>2. classify_error("text", AbrainText["no_output"]) = "empty_response"
      BY <2>1, Classified DEF GeneralClass
    <2>3. Documented("text", "abrain", "no_output") = "empty_response" /\ "no_output" \notin Misnamed
      BY DEF Documented, Vocabulary, Misnamed
    <2> QED BY <2>2, <2>3
  <1> HIDE DEF Told
  <1>6. Told(cause)
    BY <1>1, <1>2, <1>3, <1>4, <1>5, Domains, HttpDomains
  <1> QED BY <1>6 DEF Told

LEMMA LlamafileTold ==
  ASSUME NEW cause \in DOMAIN LlamafileText
  PROVE  classify_error("text", LlamafileText[cause]) = Documented("text", "llamafile_local", cause)
           <=> cause \notin Misnamed
  <1> DEFINE Told(c) == classify_error("text", LlamafileText[c]) = Documented("text", "llamafile_local", c)
                          <=> c \notin Misnamed
  <1>1. Told("connect_timeout")
    <2>1. LlamafileText["connect_timeout"] = {"llamafile", "http connect", "timed out"}
      BY DEF LlamafileText, TransportText, AnswerText, Merged, Under
    <2>2. classify_error("text", LlamafileText["connect_timeout"]) = "timeout"
      BY <2>1, Classified DEF LlamafileClass, GeneralClass
    <2>3. Documented("text", "llamafile_local", "connect_timeout") = "timeout" /\ "connect_timeout" \notin Misnamed
      BY DEF Documented, Vocabulary, Misnamed
    <2> QED BY <2>2, <2>3
  <1>2. Told("connect_failed")
    <2>1. LlamafileText["connect_failed"] = {"llamafile", "http connect"}
      BY DEF LlamafileText, TransportText, AnswerText, Merged, Under
    <2>2. classify_error("text", LlamafileText["connect_failed"]) = "http_connect_failed"
      BY <2>1, Classified DEF LlamafileClass, GeneralClass
    <2>3. Documented("text", "llamafile_local", "connect_failed") = "http_connect_failed" /\ "connect_failed" \notin Misnamed
      BY DEF Documented, Vocabulary, Misnamed
    <2> QED BY <2>2, <2>3
  <1>3. Told("io_timeout")
    <2>1. LlamafileText["io_timeout"] = {"llamafile", "timed out"}
      BY DEF LlamafileText, TransportText, AnswerText, Merged, Under
    <2>2. classify_error("text", LlamafileText["io_timeout"]) = "timeout"
      BY <2>1, Classified DEF LlamafileClass, GeneralClass
    <2>3. Documented("text", "llamafile_local", "io_timeout") = "timeout" /\ "io_timeout" \notin Misnamed
      BY DEF Documented, Vocabulary, Misnamed
    <2> QED BY <2>2, <2>3
  <1>4. Told("io_failed")
    <2>1. LlamafileText["io_failed"] = {"llamafile"}
      BY DEF LlamafileText, TransportText, AnswerText, Merged, Under
    <2>2. classify_error("text", LlamafileText["io_failed"]) = "unknown"
      BY <2>1, Classified DEF LlamafileClass, GeneralClass
    <2>3. Documented("text", "llamafile_local", "io_failed") = "unknown" /\ "io_failed" \notin Misnamed
      BY DEF Documented, Vocabulary, Misnamed
    <2> QED BY <2>2, <2>3
  <1>5. Told("not_utf8")
    <2>1. LlamafileText["not_utf8"] = {"llamafile", "not valid utf-8"}
      BY DEF LlamafileText, TransportText, AnswerText, Merged, Under
    <2>2. classify_error("text", LlamafileText["not_utf8"]) = "invalid_response"
      BY <2>1, Classified DEF LlamafileClass, GeneralClass
    <2>3. Documented("text", "llamafile_local", "not_utf8") = "invalid_response" /\ "not_utf8" \notin Misnamed
      BY DEF Documented, Vocabulary, Misnamed
    <2> QED BY <2>2, <2>3
  <1>6. Told("malformed")
    <2>1. LlamafileText["malformed"] = {"llamafile"}
      BY DEF LlamafileText, TransportText, AnswerText, Merged, Under
    <2>2. classify_error("text", LlamafileText["malformed"]) = "unknown"
      BY <2>1, Classified DEF LlamafileClass, GeneralClass
    <2>3. Documented("text", "llamafile_local", "malformed") = "unknown" /\ "malformed" \notin Misnamed
      BY DEF Documented, Vocabulary, Misnamed
    <2> QED BY <2>2, <2>3
  <1>7. Told("unauthorized")
    <2>1. LlamafileText["unauthorized"] =
            {"llamafile", "http returned status", "http returned status 401"}
      BY DEF LlamafileText, TransportText, AnswerText, Merged, Under
    <2>2. classify_error("text", LlamafileText["unauthorized"]) = "http_error"
      BY <2>1, Classified DEF LlamafileClass, GeneralClass
    <2>3. Documented("text", "llamafile_local", "unauthorized") = "http_error" /\ "unauthorized" \notin Misnamed
      BY DEF Documented, Vocabulary, Misnamed
    <2> QED BY <2>2, <2>3
  <1>8. Told("forbidden")
    <2>1. LlamafileText["forbidden"] =
            {"llamafile", "http returned status", "http returned status 403"}
      BY DEF LlamafileText, TransportText, AnswerText, Merged, Under
    <2>2. classify_error("text", LlamafileText["forbidden"]) = "http_error"
      BY <2>1, Classified DEF LlamafileClass, GeneralClass
    <2>3. Documented("text", "llamafile_local", "forbidden") = "http_error" /\ "forbidden" \notin Misnamed
      BY DEF Documented, Vocabulary, Misnamed
    <2> QED BY <2>2, <2>3
  <1>9. Told("bad_status")
    <2>1. LlamafileText["bad_status"] = {"llamafile", "http returned status"}
      BY DEF LlamafileText, TransportText, AnswerText, Merged, Under
    <2>2. classify_error("text", LlamafileText["bad_status"]) = "http_error"
      BY <2>1, Classified DEF LlamafileClass, GeneralClass
    <2>3. Documented("text", "llamafile_local", "bad_status") = "http_error" /\ "bad_status" \notin Misnamed
      BY DEF Documented, Vocabulary, Misnamed
    <2> QED BY <2>2, <2>3
  <1>10. Told("bad_json")
    <2>1. LlamafileText["bad_json"] = {"llamafile", "is not valid json"}
      BY DEF LlamafileText, TransportText, AnswerText, Merged, Under
    <2>2. classify_error("text", LlamafileText["bad_json"]) = "invalid_response"
      BY <2>1, Classified DEF LlamafileClass, GeneralClass
    <2>3. Documented("text", "llamafile_local", "bad_json") = "invalid_response" /\ "bad_json" \notin Misnamed
      BY DEF Documented, Vocabulary, Misnamed
    <2> QED BY <2>2, <2>3
  <1>11. Told("no_content")
    <2>1. LlamafileText["no_content"] = {"llamafile", "returned no content"}
      BY DEF LlamafileText, TransportText, AnswerText, Merged, Under
    <2>2. classify_error("text", LlamafileText["no_content"]) = "empty_response"
      BY <2>1, Classified DEF LlamafileClass, GeneralClass
    <2>3. Documented("text", "llamafile_local", "no_content") = "empty_response" /\ "no_content" \notin Misnamed
      BY DEF Documented, Vocabulary, Misnamed
    <2> QED BY <2>2, <2>3
  <1>12. Told("disabled")
    <2>1. LlamafileText["disabled"] = {"llamafile", "is disabled"}
      BY DEF LlamafileText, TransportText, AnswerText, Merged, Under
    <2>2. classify_error("text", LlamafileText["disabled"]) = "disabled"
      BY <2>1, Classified DEF LlamafileClass, GeneralClass
    <2>3. Documented("text", "llamafile_local", "disabled") = "disabled" /\ "disabled" \notin Misnamed
      BY DEF Documented, Vocabulary, Misnamed
    <2> QED BY <2>2, <2>3
  <1>13. Told("not_configured")
    <2>1. LlamafileText["not_configured"] = {"llamafile", "not configured"}
      BY DEF LlamafileText, TransportText, AnswerText, Merged, Under
    <2>2. classify_error("text", LlamafileText["not_configured"]) = "not_configured"
      BY <2>1, Classified DEF LlamafileClass, GeneralClass
    <2>3. Documented("text", "llamafile_local", "not_configured") = "not_configured" /\ "not_configured" \notin Misnamed
      BY DEF Documented, Vocabulary, Misnamed
    <2> QED BY <2>2, <2>3
  <1>14. Told("spawn_failed")
    <2>1. LlamafileText["spawn_failed"] = {"llamafile", "process spawn failed"}
      BY DEF LlamafileText, TransportText, AnswerText, Merged, Under
    <2>2. classify_error("text", LlamafileText["spawn_failed"]) = "process_missing"
      BY <2>1, Classified DEF LlamafileClass, GeneralClass
    <2>3. Documented("text", "llamafile_local", "spawn_failed") = "process_missing" /\ "spawn_failed" \notin Misnamed
      BY DEF Documented, Vocabulary, Misnamed
    <2> QED BY <2>2, <2>3
  <1>15. Told("exited_early")
    <2>1. LlamafileText["exited_early"] = {"llamafile", "exited during startup"}
      BY DEF LlamafileText, TransportText, AnswerText, Merged, Under
    <2>2. classify_error("text", LlamafileText["exited_early"]) = "process_exit_early"
      BY <2>1, Classified DEF LlamafileClass, GeneralClass
    <2>3. Documented("text", "llamafile_local", "exited_early") = "process_exit_early" /\ "exited_early" \notin Misnamed
      BY DEF Documented, Vocabulary, Misnamed
    <2> QED BY <2>2, <2>3
  <1>16. Told("startup_timeout")
    <2>1. LlamafileText["startup_timeout"] =
            {"llamafile", "readiness check timed out", "timed out"}
      BY DEF LlamafileText, TransportText, AnswerText, Merged, Under
    <2>2. classify_error("text", LlamafileText["startup_timeout"]) = "startup_timeout"
      BY <2>1, Classified DEF LlamafileClass, GeneralClass
    <2>3. Documented("text", "llamafile_local", "startup_timeout") = "startup_timeout" /\ "startup_timeout" \notin Misnamed
      BY DEF Documented, Vocabulary, Misnamed
    <2> QED BY <2>2, <2>3
  <1> HIDE DEF Told
  <1>17. Told(cause)
    BY <1>1, <1>2, <1>3, <1>4, <1>5, <1>6, <1>7, <1>8, <1>9, <1>10, <1>11, <1>12, <1>13, <1>14,
       <1>15, <1>16, Domains, HttpDomains
  <1> QED BY <1>17 DEF Told

LEMMA LocalTold ==
  ASSUME NEW cause \in DOMAIN LocalHttpText
  PROVE  classify_error("text", LocalHttpText[cause]) = Documented("text", "local_http", cause)
           <=> cause \notin Misnamed
  <1> DEFINE Told(c) == classify_error("text", LocalHttpText[c]) = Documented("text", "local_http", c)
                          <=> c \notin Misnamed
  <1>1. Told("connect_timeout")
    <2>1. LocalHttpText["connect_timeout"] =
            {"local_http", "llamafile", "http connect", "timed out"}
      BY DEF LocalHttpText, TransportText, AnswerText, Merged, Under
    <2>2. classify_error("text", LocalHttpText["connect_timeout"]) = "timeout"
      BY <2>1, Classified DEF LocalClass, LlamafileClass, GeneralClass
    <2>3. Documented("text", "local_http", "connect_timeout") = "timeout" /\ "connect_timeout" \notin Misnamed
      BY DEF Documented, Vocabulary, Misnamed
    <2> QED BY <2>2, <2>3
  <1>2. Told("connect_failed")
    <2>1. LocalHttpText["connect_failed"] = {"local_http", "llamafile", "http connect"}
      BY DEF LocalHttpText, TransportText, AnswerText, Merged, Under
    <2>2. classify_error("text", LocalHttpText["connect_failed"]) = "http_connect_failed"
      BY <2>1, Classified DEF LocalClass, LlamafileClass, GeneralClass
    <2>3. Documented("text", "local_http", "connect_failed") = "http_connect_failed" /\ "connect_failed" \notin Misnamed
      BY DEF Documented, Vocabulary, Misnamed
    <2> QED BY <2>2, <2>3
  <1>3. Told("io_timeout")
    <2>1. LocalHttpText["io_timeout"] = {"local_http", "llamafile", "timed out"}
      BY DEF LocalHttpText, TransportText, AnswerText, Merged, Under
    <2>2. classify_error("text", LocalHttpText["io_timeout"]) = "timeout"
      BY <2>1, Classified DEF LocalClass, LlamafileClass, GeneralClass
    <2>3. Documented("text", "local_http", "io_timeout") = "timeout" /\ "io_timeout" \notin Misnamed
      BY DEF Documented, Vocabulary, Misnamed
    <2> QED BY <2>2, <2>3
  <1>4. Told("io_failed")
    <2>1. LocalHttpText["io_failed"] = {"local_http", "llamafile"}
      BY DEF LocalHttpText, TransportText, AnswerText, Merged, Under
    <2>2. classify_error("text", LocalHttpText["io_failed"]) = "unknown"
      BY <2>1, Classified DEF LocalClass, LlamafileClass, GeneralClass
    <2>3. Documented("text", "local_http", "io_failed") = "unknown" /\ "io_failed" \notin Misnamed
      BY DEF Documented, Vocabulary, Misnamed
    <2> QED BY <2>2, <2>3
  <1>5. Told("not_utf8")
    <2>1. LocalHttpText["not_utf8"] = {"local_http", "llamafile", "not valid utf-8"}
      BY DEF LocalHttpText, TransportText, AnswerText, Merged, Under
    <2>2. classify_error("text", LocalHttpText["not_utf8"]) = "invalid_response"
      BY <2>1, Classified DEF LocalClass, LlamafileClass, GeneralClass
    <2>3. Documented("text", "local_http", "not_utf8") = "invalid_response" /\ "not_utf8" \notin Misnamed
      BY DEF Documented, Vocabulary, Misnamed
    <2> QED BY <2>2, <2>3
  <1>6. Told("malformed")
    <2>1. LocalHttpText["malformed"] = {"local_http", "llamafile"}
      BY DEF LocalHttpText, TransportText, AnswerText, Merged, Under
    <2>2. classify_error("text", LocalHttpText["malformed"]) = "unknown"
      BY <2>1, Classified DEF LocalClass, LlamafileClass, GeneralClass
    <2>3. Documented("text", "local_http", "malformed") = "unknown" /\ "malformed" \notin Misnamed
      BY DEF Documented, Vocabulary, Misnamed
    <2> QED BY <2>2, <2>3
  <1>7. Told("unauthorized")
    <2>1. LocalHttpText["unauthorized"] =
            {"local_http", "http returned status", "http returned status 401"}
      BY DEF LocalHttpText, TransportText, AnswerText, Merged, Under
    <2>2. classify_error("text", LocalHttpText["unauthorized"]) = "http_error"
      BY <2>1, Classified DEF LocalClass, LlamafileClass, GeneralClass
    <2>3. Documented("text", "local_http", "unauthorized") = "http_error" /\ "unauthorized" \notin Misnamed
      BY DEF Documented, Vocabulary, Misnamed
    <2> QED BY <2>2, <2>3
  <1>8. Told("forbidden")
    <2>1. LocalHttpText["forbidden"] =
            {"local_http", "http returned status", "http returned status 403"}
      BY DEF LocalHttpText, TransportText, AnswerText, Merged, Under
    <2>2. classify_error("text", LocalHttpText["forbidden"]) = "http_error"
      BY <2>1, Classified DEF LocalClass, LlamafileClass, GeneralClass
    <2>3. Documented("text", "local_http", "forbidden") = "http_error" /\ "forbidden" \notin Misnamed
      BY DEF Documented, Vocabulary, Misnamed
    <2> QED BY <2>2, <2>3
  <1>9. Told("bad_status")
    <2>1. LocalHttpText["bad_status"] = {"local_http", "http returned status"}
      BY DEF LocalHttpText, TransportText, AnswerText, Merged, Under
    <2>2. classify_error("text", LocalHttpText["bad_status"]) = "http_error"
      BY <2>1, Classified DEF LocalClass, LlamafileClass, GeneralClass
    <2>3. Documented("text", "local_http", "bad_status") = "http_error" /\ "bad_status" \notin Misnamed
      BY DEF Documented, Vocabulary, Misnamed
    <2> QED BY <2>2, <2>3
  <1>10. Told("bad_json")
    <2>1. LocalHttpText["bad_json"] = {"local_http", "is not valid json"}
      BY DEF LocalHttpText, TransportText, AnswerText, Merged, Under
    <2>2. classify_error("text", LocalHttpText["bad_json"]) = "invalid_response"
      BY <2>1, Classified DEF LocalClass, LlamafileClass, GeneralClass
    <2>3. Documented("text", "local_http", "bad_json") = "invalid_response" /\ "bad_json" \notin Misnamed
      BY DEF Documented, Vocabulary, Misnamed
    <2> QED BY <2>2, <2>3
  <1>11. Told("no_content")
    <2>1. LocalHttpText["no_content"] = {"local_http", "returned no content"}
      BY DEF LocalHttpText, TransportText, AnswerText, Merged, Under
    <2>2. classify_error("text", LocalHttpText["no_content"]) = "empty_response"
      BY <2>1, Classified DEF LocalClass, LlamafileClass, GeneralClass
    <2>3. Documented("text", "local_http", "no_content") = "empty_response" /\ "no_content" \notin Misnamed
      BY DEF Documented, Vocabulary, Misnamed
    <2> QED BY <2>2, <2>3
  <1>12. Told("disabled")
    <2>1. LocalHttpText["disabled"] = {"local_http", "is disabled"}
      BY DEF LocalHttpText, TransportText, AnswerText, Merged, Under
    <2>2. classify_error("text", LocalHttpText["disabled"]) = "disabled"
      BY <2>1, Classified DEF LocalClass, LlamafileClass, GeneralClass
    <2>3. Documented("text", "local_http", "disabled") = "disabled" /\ "disabled" \notin Misnamed
      BY DEF Documented, Vocabulary, Misnamed
    <2> QED BY <2>2, <2>3
  <1>13. Told("not_configured")
    <2>1. LocalHttpText["not_configured"] = {"local_http", "not configured"}
      BY DEF LocalHttpText, TransportText, AnswerText, Merged, Under
    <2>2. classify_error("text", LocalHttpText["not_configured"]) = "not_configured"
      BY <2>1, Classified DEF LocalClass, LlamafileClass, GeneralClass
    <2>3. Documented("text", "local_http", "not_configured") = "not_configured" /\ "not_configured" \notin Misnamed
      BY DEF Documented, Vocabulary, Misnamed
    <2> QED BY <2>2, <2>3
  <1>14. Told("https_refused")
    <2>1. LocalHttpText["https_refused"] = {"local_http", "endpoint must start with http://"}
      BY DEF LocalHttpText, TransportText, AnswerText, Merged, Under
    <2>2. classify_error("text", LocalHttpText["https_refused"]) = "endpoint_scheme_unsupported"
      BY <2>1, Classified DEF LocalClass, LlamafileClass, GeneralClass
    <2>3. Documented("text", "local_http", "https_refused") = "endpoint_scheme_unsupported" /\ "https_refused" \notin Misnamed
      BY DEF Documented, Vocabulary, Misnamed
    <2> QED BY <2>2, <2>3
  <1>15. Told("bad_scheme")
    <2>1. LocalHttpText["bad_scheme"] = {"local_http", "endpoint url is not parseable"}
      BY DEF LocalHttpText, TransportText, AnswerText, Merged, Under
    <2>2. classify_error("text", LocalHttpText["bad_scheme"]) = "endpoint_unparseable"
      BY <2>1, Classified DEF LocalClass, LlamafileClass, GeneralClass
    <2>3. Documented("text", "local_http", "bad_scheme") = "endpoint_scheme_unsupported" /\ "bad_scheme" \in Misnamed
      BY DEF Documented, Vocabulary, Misnamed
    <2> QED BY <2>2, <2>3
  <1>16. Told("unparseable")
    <2>1. LocalHttpText["unparseable"] = {"local_http", "endpoint url is not parseable"}
      BY DEF LocalHttpText, TransportText, AnswerText, Merged, Under
    <2>2. classify_error("text", LocalHttpText["unparseable"]) = "endpoint_unparseable"
      BY <2>1, Classified DEF LocalClass, LlamafileClass, GeneralClass
    <2>3. Documented("text", "local_http", "unparseable") = "endpoint_unparseable" /\ "unparseable" \notin Misnamed
      BY DEF Documented, Vocabulary, Misnamed
    <2> QED BY <2>2, <2>3
  <1> HIDE DEF Told
  <1>17. Told(cause)
    BY <1>1, <1>2, <1>3, <1>4, <1>5, <1>6, <1>7, <1>8, <1>9, <1>10, <1>11, <1>12, <1>13, <1>14,
       <1>15, <1>16, Domains, HttpDomains
  <1> QED BY <1>17 DEF Told

LEMMA CloudTold ==
  ASSUME NEW cause \in DOMAIN CloudHttpText
  PROVE  classify_error("text", CloudHttpText[cause]) = Documented("text", "cloud_http", cause)
           <=> cause \notin Misnamed
  <1> DEFINE Told(c) == classify_error("text", CloudHttpText[c]) = Documented("text", "cloud_http", c)
                          <=> c \notin Misnamed
  <1>1. Told("connect_timeout")
    <2>1. CloudHttpText["connect_timeout"] = {"cloud_http", "http connect", "timed out"}
      BY DEF CloudHttpText, TlsText, CertificateText, TransportText, AnswerText, Merged, Under
    <2>2. classify_error("text", CloudHttpText["connect_timeout"]) = "timeout"
      BY <2>1, Classified, ZenonT(30) DEF CloudClass, GeneralClass, CertFaults
    <2>3. Documented("text", "cloud_http", "connect_timeout") = "timeout" /\ "connect_timeout" \notin Misnamed
      BY DEF Documented, Vocabulary, Misnamed
    <2> QED BY <2>2, <2>3
  <1>2. Told("connect_failed")
    <2>1. CloudHttpText["connect_failed"] = {"cloud_http", "http connect"}
      BY DEF CloudHttpText, TlsText, CertificateText, TransportText, AnswerText, Merged, Under
    <2>2. classify_error("text", CloudHttpText["connect_failed"]) = "http_connect_failed"
      BY <2>1, Classified, ZenonT(30) DEF CloudClass, GeneralClass, CertFaults
    <2>3. Documented("text", "cloud_http", "connect_failed") = "http_connect_failed" /\ "connect_failed" \notin Misnamed
      BY DEF Documented, Vocabulary, Misnamed
    <2> QED BY <2>2, <2>3
  <1>3. Told("io_timeout")
    <2>1. CloudHttpText["io_timeout"] = {"cloud_http", "timed out"}
      BY DEF CloudHttpText, TlsText, CertificateText, TransportText, AnswerText, Merged, Under
    <2>2. classify_error("text", CloudHttpText["io_timeout"]) = "timeout"
      BY <2>1, Classified, ZenonT(30) DEF CloudClass, GeneralClass, CertFaults
    <2>3. Documented("text", "cloud_http", "io_timeout") = "timeout" /\ "io_timeout" \notin Misnamed
      BY DEF Documented, Vocabulary, Misnamed
    <2> QED BY <2>2, <2>3
  <1>4. Told("io_failed")
    <2>1. CloudHttpText["io_failed"] = {"cloud_http"}
      BY DEF CloudHttpText, TlsText, CertificateText, TransportText, AnswerText, Merged, Under
    <2>2. classify_error("text", CloudHttpText["io_failed"]) = "unknown"
      BY <2>1, Classified, ZenonT(30) DEF CloudClass, GeneralClass, CertFaults
    <2>3. Documented("text", "cloud_http", "io_failed") = "unknown" /\ "io_failed" \notin Misnamed
      BY DEF Documented, Vocabulary, Misnamed
    <2> QED BY <2>2, <2>3
  <1>5. Told("not_utf8")
    <2>1. CloudHttpText["not_utf8"] = {"cloud_http", "not valid utf-8"}
      BY DEF CloudHttpText, TlsText, CertificateText, TransportText, AnswerText, Merged, Under
    <2>2. classify_error("text", CloudHttpText["not_utf8"]) = "invalid_response"
      BY <2>1, Classified, ZenonT(30) DEF CloudClass, GeneralClass, CertFaults
    <2>3. Documented("text", "cloud_http", "not_utf8") = "invalid_response" /\ "not_utf8" \notin Misnamed
      BY DEF Documented, Vocabulary, Misnamed
    <2> QED BY <2>2, <2>3
  <1>6. Told("malformed")
    <2>1. CloudHttpText["malformed"] = {"cloud_http"}
      BY DEF CloudHttpText, TlsText, CertificateText, TransportText, AnswerText, Merged, Under
    <2>2. classify_error("text", CloudHttpText["malformed"]) = "unknown"
      BY <2>1, Classified, ZenonT(30) DEF CloudClass, GeneralClass, CertFaults
    <2>3. Documented("text", "cloud_http", "malformed") = "unknown" /\ "malformed" \notin Misnamed
      BY DEF Documented, Vocabulary, Misnamed
    <2> QED BY <2>2, <2>3
  <1>7. Told("tls_timeout")
    <2>1. CloudHttpText["tls_timeout"] = {"cloud_http", "tls", "handshake", "timed out"}
      BY DEF CloudHttpText, TlsText, CertificateText, TransportText, AnswerText, Merged, Under
    <2>2. classify_error("text", CloudHttpText["tls_timeout"]) = "tls_handshake_failed"
      BY <2>1, Classified, ZenonT(30) DEF CloudClass, GeneralClass, CertFaults
    <2>3. Documented("text", "cloud_http", "tls_timeout") = "tls_handshake_failed" /\ "tls_timeout" \notin Misnamed
      BY DEF Documented, Vocabulary, Misnamed
    <2> QED BY <2>2, <2>3
  <1>8. Told("tls_failed")
    <2>1. CloudHttpText["tls_failed"] = {"cloud_http", "tls", "handshake"}
      BY DEF CloudHttpText, TlsText, CertificateText, TransportText, AnswerText, Merged, Under
    <2>2. classify_error("text", CloudHttpText["tls_failed"]) = "tls_handshake_failed"
      BY <2>1, Classified, ZenonT(30) DEF CloudClass, GeneralClass, CertFaults
    <2>3. Documented("text", "cloud_http", "tls_failed") = "tls_handshake_failed" /\ "tls_failed" \notin Misnamed
      BY DEF Documented, Vocabulary, Misnamed
    <2> QED BY <2>2, <2>3
  <1>9. Told("untrusted")
    <2>1. CloudHttpText["untrusted"] = {"cloud_http", "tls", "handshake", "unknownissuer"}
      BY DEF CloudHttpText, TlsText, CertificateText, TransportText, AnswerText, Merged, Under
    <2>2. classify_error("text", CloudHttpText["untrusted"]) = "cert_untrusted"
      BY <2>1, Classified, ZenonT(30) DEF CloudClass, GeneralClass, CertFaults
    <2>3. Documented("text", "cloud_http", "untrusted") = "cert_untrusted" /\ "untrusted" \notin Misnamed
      BY DEF Documented, Vocabulary, Misnamed
    <2> QED BY <2>2, <2>3
  <1>10. Told("bad_signature")
    <2>1. CloudHttpText["bad_signature"] = {"cloud_http", "tls", "handshake", "badsignature"}
      BY DEF CloudHttpText, TlsText, CertificateText, TransportText, AnswerText, Merged, Under
    <2>2. classify_error("text", CloudHttpText["bad_signature"]) = "cert_invalid"
      BY <2>1, Classified, ZenonT(30) DEF CloudClass, GeneralClass, CertFaults
    <2>3. Documented("text", "cloud_http", "bad_signature") = "cert_invalid" /\ "bad_signature" \notin Misnamed
      BY DEF Documented, Vocabulary, Misnamed
    <2> QED BY <2>2, <2>3
  <1>11. Told("revoked")
    <2>1. CloudHttpText["revoked"] = {"cloud_http", "tls", "handshake", "revoked"}
      BY DEF CloudHttpText, TlsText, CertificateText, TransportText, AnswerText, Merged, Under
    <2>2. classify_error("text", CloudHttpText["revoked"]) = "cert_invalid"
      BY <2>1, Classified, ZenonT(30) DEF CloudClass, GeneralClass, CertFaults
    <2>3. Documented("text", "cloud_http", "revoked") = "cert_invalid" /\ "revoked" \notin Misnamed
      BY DEF Documented, Vocabulary, Misnamed
    <2> QED BY <2>2, <2>3
  <1>12. Told("expired")
    <2>1. CloudHttpText["expired"] = {"cloud_http", "tls", "handshake", "expired"}
      BY DEF CloudHttpText, TlsText, CertificateText, TransportText, AnswerText, Merged, Under
    <2>2. classify_error("text", CloudHttpText["expired"]) = "cert_invalid"
      BY <2>1, Classified, ZenonT(30) DEF CloudClass, GeneralClass, CertFaults
    <2>3. Documented("text", "cloud_http", "expired") = "cert_invalid" /\ "expired" \notin Misnamed
      BY DEF Documented, Vocabulary, Misnamed
    <2> QED BY <2>2, <2>3
  <1>13. Told("not_yet_valid")
    <2>1. CloudHttpText["not_yet_valid"] = {"cloud_http", "tls", "handshake", "not valid yet"}
      BY DEF CloudHttpText, TlsText, CertificateText, TransportText, AnswerText, Merged, Under
    <2>2. classify_error("text", CloudHttpText["not_yet_valid"]) = "tls_handshake_failed"
      BY <2>1, Classified, ZenonT(30) DEF CloudClass, GeneralClass, CertFaults
    <2>3. Documented("text", "cloud_http", "not_yet_valid") = "cert_invalid" /\ "not_yet_valid" \in Misnamed
      BY DEF Documented, Vocabulary, Misnamed
    <2> QED BY <2>2, <2>3
  <1>14. Told("wrong_host")
    <2>1. CloudHttpText["wrong_host"] = {"cloud_http", "tls", "handshake", "not valid for name"}
      BY DEF CloudHttpText, TlsText, CertificateText, TransportText, AnswerText, Merged, Under
    <2>2. classify_error("text", CloudHttpText["wrong_host"]) = "tls_handshake_failed"
      BY <2>1, Classified, ZenonT(30) DEF CloudClass, GeneralClass, CertFaults
    <2>3. Documented("text", "cloud_http", "wrong_host") = "cert_invalid" /\ "wrong_host" \in Misnamed
      BY DEF Documented, Vocabulary, Misnamed
    <2> QED BY <2>2, <2>3
  <1>15. Told("bad_name")
    <2>1. CloudHttpText["bad_name"] = {"cloud_http", "tls"}
      BY DEF CloudHttpText, TlsText, CertificateText, TransportText, AnswerText, Merged, Under
    <2>2. classify_error("text", CloudHttpText["bad_name"]) = "unknown"
      BY <2>1, Classified, ZenonT(30) DEF CloudClass, GeneralClass, CertFaults
    <2>3. Documented("text", "cloud_http", "bad_name") = "unknown" /\ "bad_name" \notin Misnamed
      BY DEF Documented, Vocabulary, Misnamed
    <2> QED BY <2>2, <2>3
  <1>16. Told("unauthorized")
    <2>1. CloudHttpText["unauthorized"] =
            {"cloud_http", "http returned status", "http returned status 401"}
      BY DEF CloudHttpText, TlsText, CertificateText, TransportText, AnswerText, Merged, Under
    <2>2. classify_error("text", CloudHttpText["unauthorized"]) = "unauthorized"
      BY <2>1, Classified, ZenonT(30) DEF CloudClass, GeneralClass, CertFaults
    <2>3. Documented("text", "cloud_http", "unauthorized") = "unauthorized" /\ "unauthorized" \notin Misnamed
      BY DEF Documented, Vocabulary, Misnamed
    <2> QED BY <2>2, <2>3
  <1>17. Told("forbidden")
    <2>1. CloudHttpText["forbidden"] =
            {"cloud_http", "http returned status", "http returned status 403"}
      BY DEF CloudHttpText, TlsText, CertificateText, TransportText, AnswerText, Merged, Under
    <2>2. classify_error("text", CloudHttpText["forbidden"]) = "unauthorized"
      BY <2>1, Classified, ZenonT(30) DEF CloudClass, GeneralClass, CertFaults
    <2>3. Documented("text", "cloud_http", "forbidden") = "unauthorized" /\ "forbidden" \notin Misnamed
      BY DEF Documented, Vocabulary, Misnamed
    <2> QED BY <2>2, <2>3
  <1>18. Told("bad_status")
    <2>1. CloudHttpText["bad_status"] = {"cloud_http", "http returned status"}
      BY DEF CloudHttpText, TlsText, CertificateText, TransportText, AnswerText, Merged, Under
    <2>2. classify_error("text", CloudHttpText["bad_status"]) = "http_error"
      BY <2>1, Classified, ZenonT(30) DEF CloudClass, GeneralClass, CertFaults
    <2>3. Documented("text", "cloud_http", "bad_status") = "http_error" /\ "bad_status" \notin Misnamed
      BY DEF Documented, Vocabulary, Misnamed
    <2> QED BY <2>2, <2>3
  <1>19. Told("bad_json")
    <2>1. CloudHttpText["bad_json"] = {"cloud_http", "is not valid json"}
      BY DEF CloudHttpText, TlsText, CertificateText, TransportText, AnswerText, Merged, Under
    <2>2. classify_error("text", CloudHttpText["bad_json"]) = "invalid_response"
      BY <2>1, Classified, ZenonT(30) DEF CloudClass, GeneralClass, CertFaults
    <2>3. Documented("text", "cloud_http", "bad_json") = "invalid_response" /\ "bad_json" \notin Misnamed
      BY DEF Documented, Vocabulary, Misnamed
    <2> QED BY <2>2, <2>3
  <1>20. Told("no_content")
    <2>1. CloudHttpText["no_content"] = {"cloud_http", "returned no content"}
      BY DEF CloudHttpText, TlsText, CertificateText, TransportText, AnswerText, Merged, Under
    <2>2. classify_error("text", CloudHttpText["no_content"]) = "empty_response"
      BY <2>1, Classified, ZenonT(30) DEF CloudClass, GeneralClass, CertFaults
    <2>3. Documented("text", "cloud_http", "no_content") = "empty_response" /\ "no_content" \notin Misnamed
      BY DEF Documented, Vocabulary, Misnamed
    <2> QED BY <2>2, <2>3
  <1>21. Told("disabled")
    <2>1. CloudHttpText["disabled"] = {"cloud_http", "is disabled"}
      BY DEF CloudHttpText, TlsText, CertificateText, TransportText, AnswerText, Merged, Under
    <2>2. classify_error("text", CloudHttpText["disabled"]) = "disabled"
      BY <2>1, Classified, ZenonT(30) DEF CloudClass, GeneralClass, CertFaults
    <2>3. Documented("text", "cloud_http", "disabled") = "disabled" /\ "disabled" \notin Misnamed
      BY DEF Documented, Vocabulary, Misnamed
    <2> QED BY <2>2, <2>3
  <1>22. Told("not_configured")
    <2>1. CloudHttpText["not_configured"] = {"cloud_http", "not configured"}
      BY DEF CloudHttpText, TlsText, CertificateText, TransportText, AnswerText, Merged, Under
    <2>2. classify_error("text", CloudHttpText["not_configured"]) = "not_configured"
      BY <2>1, Classified, ZenonT(30) DEF CloudClass, GeneralClass, CertFaults
    <2>3. Documented("text", "cloud_http", "not_configured") = "not_configured" /\ "not_configured" \notin Misnamed
      BY DEF Documented, Vocabulary, Misnamed
    <2> QED BY <2>2, <2>3
  <1>23. Told("secret_missing")
    <2>1. CloudHttpText["secret_missing"] = {"cloud_http", "secret is not set"}
      BY DEF CloudHttpText, TlsText, CertificateText, TransportText, AnswerText, Merged, Under
    <2>2. classify_error("text", CloudHttpText["secret_missing"]) = "secret_missing"
      BY <2>1, Classified, ZenonT(30) DEF CloudClass, GeneralClass, CertFaults
    <2>3. Documented("text", "cloud_http", "secret_missing") = "secret_missing" /\ "secret_missing" \notin Misnamed
      BY DEF Documented, Vocabulary, Misnamed
    <2> QED BY <2>2, <2>3
  <1>24. Told("bad_header")
    <2>1. CloudHttpText["bad_header"] = {"cloud_http"}
      BY DEF CloudHttpText, TlsText, CertificateText, TransportText, AnswerText, Merged, Under
    <2>2. classify_error("text", CloudHttpText["bad_header"]) = "unknown"
      BY <2>1, Classified, ZenonT(30) DEF CloudClass, GeneralClass, CertFaults
    <2>3. Documented("text", "cloud_http", "bad_header") = "unknown" /\ "bad_header" \notin Misnamed
      BY DEF Documented, Vocabulary, Misnamed
    <2> QED BY <2>2, <2>3
  <1>25. Told("bad_scheme")
    <2>1. CloudHttpText["bad_scheme"] = {"cloud_http", "endpoint url is not parseable"}
      BY DEF CloudHttpText, TlsText, CertificateText, TransportText, AnswerText, Merged, Under
    <2>2. classify_error("text", CloudHttpText["bad_scheme"]) = "endpoint_unparseable"
      BY <2>1, Classified, ZenonT(30) DEF CloudClass, GeneralClass, CertFaults
    <2>3. Documented("text", "cloud_http", "bad_scheme") = "endpoint_scheme_unsupported" /\ "bad_scheme" \in Misnamed
      BY DEF Documented, Vocabulary, Misnamed
    <2> QED BY <2>2, <2>3
  <1>26. Told("unparseable")
    <2>1. CloudHttpText["unparseable"] = {"cloud_http", "endpoint url is not parseable"}
      BY DEF CloudHttpText, TlsText, CertificateText, TransportText, AnswerText, Merged, Under
    <2>2. classify_error("text", CloudHttpText["unparseable"]) = "endpoint_unparseable"
      BY <2>1, Classified, ZenonT(30) DEF CloudClass, GeneralClass, CertFaults
    <2>3. Documented("text", "cloud_http", "unparseable") = "endpoint_unparseable" /\ "unparseable" \notin Misnamed
      BY DEF Documented, Vocabulary, Misnamed
    <2> QED BY <2>2, <2>3
  <1> HIDE DEF Told
  <1>27. Told(cause)
    BY <1>1, <1>2, <1>3, <1>4, <1>5, <1>6, <1>7, <1>8, <1>9, <1>10, <1>11, <1>12, <1>13, <1>14,
       <1>15, <1>16, <1>17, <1>18, <1>19, <1>20, <1>21, <1>22, <1>23, <1>24, <1>25, <1>26,
       Domains, HttpDomains
  <1> QED BY <1>27 DEF Told

LEMMA TextsAreTold ==
  ASSUME NEW axis \in Axis, NEW kind \in KnownKinds[axis], NEW cause \in Causes(axis, kind)
  PROVE  classify_error(axis, ErrorText(axis, kind)[cause]) = Documented(axis, kind, cause)
           <=> cause \notin Misnamed
  <1>1. CASE axis = "stt"
    <2>1. ErrorText("stt", kind) = SttText
      BY <1>1 DEF ErrorText, KnownKinds
    <2> QED BY <1>1, <2>1, KindCauses, SttTold
  <1>2. CASE axis = "tts"
    <2>1. ErrorText("tts", kind) = TtsText
      BY <1>2 DEF ErrorText, KnownKinds
    <2> QED BY <1>2, <2>1, KindCauses, TtsTold
  <1>3. CASE axis = "text" /\ kind = "abrain"
    <2>1. ErrorText("text", "abrain") = AbrainText
      BY DEF ErrorText
    <2> QED BY <1>3, <2>1, KindCauses, AbrainTold
  <1>4. CASE axis = "text" /\ kind = "llamafile_local"
    <2>1. ErrorText("text", "llamafile_local") = LlamafileText
      BY DEF ErrorText
    <2> QED BY <1>4, <2>1, KindCauses, LlamafileTold
  <1>5. CASE axis = "text" /\ kind = "local_http"
    <2>1. ErrorText("text", "local_http") = LocalHttpText
      BY DEF ErrorText
    <2> QED BY <1>5, <2>1, KindCauses, LocalTold
  <1>6. CASE axis = "text" /\ kind = "cloud_http"
    <2>1. ErrorText("text", "cloud_http") = CloudHttpText
      BY DEF ErrorText
    <2> QED BY <1>6, <2>1, KindCauses, CloudTold
  <1> QED BY <1>1, <1>2, <1>3, <1>4, <1>5, <1>6 DEF Axis, KnownKinds

LEMMA OwnWordsTell ==
  ASSUME NEW axis \in Axis, NEW kind \in KnownKinds[axis], NEW cause \in Causes(axis, kind)
  PROVE  Class(axis, kind, cause, {}) = Documented(axis, kind, cause) <=> cause \notin Misnamed
  <1>1. OwnClass[axis][kind][cause] = classify_error(axis, ErrorText(axis, kind)[cause])
    BY DEF OwnClass
  <1> QED BY <1>1, TextsAreTold DEF Class

(* The classes of what is refused before anything is done.                 *)
LEMMA RefusalsShow ==
  /\ \A axis \in {"stt", "tts"} :
       /\ Class(axis, "command", "disabled", {}) = "disabled"
       /\ Class(axis, "command", "not_configured", {}) = "not_configured"
       /\ Class(axis, "command", "unparseable", {}) = "not_configured"
  /\ Class("text", "llamafile_local", "disabled", {}) = "disabled"
  /\ Class("text", "llamafile_local", "not_configured", {}) = "not_configured"
  /\ Class("text", "local_http", "disabled", {}) = "disabled"
  /\ Class("text", "local_http", "not_configured", {}) = "not_configured"
  /\ Class("text", "local_http", "https_refused", {}) = "endpoint_scheme_unsupported"
  /\ Class("text", "local_http", "bad_scheme", {}) = "endpoint_unparseable"
  /\ Class("text", "local_http", "unparseable", {}) = "endpoint_unparseable"
  /\ Class("text", "cloud_http", "disabled", {}) = "disabled"
  /\ Class("text", "cloud_http", "not_configured", {}) = "not_configured"
  /\ Class("text", "cloud_http", "secret_missing", {}) = "secret_missing"
  /\ Class("text", "cloud_http", "bad_header", {}) = "unknown"
  /\ Class("text", "cloud_http", "bad_scheme", {}) = "endpoint_unparseable"
  /\ Class("text", "cloud_http", "unparseable", {}) = "endpoint_unparseable"
  <1>1. \A axis \in {"stt", "tts"} :
          /\ "command" \in KnownKinds[axis]
          /\ {"disabled", "not_configured", "unparseable"} \subseteq Causes(axis, "command")
          /\ Documented(axis, "command", "disabled") = "disabled"
          /\ Documented(axis, "command", "not_configured") = "not_configured"
          /\ Documented(axis, "command", "unparseable") = "not_configured"
    <2>1. "command" \in KnownKinds["stt"] /\ "command" \in KnownKinds["tts"]
      BY DEF KnownKinds
    <2>2. \A axis \in {"stt", "tts"} :
            {"disabled", "not_configured", "unparseable"} \subseteq Causes(axis, "command")
      BY <2>1, Domains, KindCauses
    <2> QED BY <2>1, <2>2 DEF Documented, Vocabulary
  <1>2. /\ {"disabled", "not_configured"} \subseteq Causes("text", "llamafile_local")
        /\ {"disabled", "not_configured", "https_refused", "bad_scheme", "unparseable"}
             \subseteq Causes("text", "local_http")
        /\ {"disabled", "not_configured", "secret_missing", "bad_header", "bad_scheme",
            "unparseable"} \subseteq Causes("text", "cloud_http")
    BY HttpDomains, KindCauses
  <1>3. {"llamafile_local", "local_http", "cloud_http"} \subseteq KnownKinds["text"]
    BY DEF KnownKinds
  <1>4. \A kind : /\ Documented("text", kind, "disabled") = "disabled"
                  /\ Documented("text", kind, "not_configured") = "not_configured"
                  /\ Documented("text", kind, "secret_missing") = "secret_missing"
                  /\ Documented("text", kind, "bad_header") = "unknown"
                  /\ Documented("text", kind, "https_refused") = "endpoint_scheme_unsupported"
                  /\ Documented("text", kind, "unparseable") = "endpoint_unparseable"
    BY DEF Documented, Vocabulary
  <1>5. {"disabled", "not_configured", "secret_missing", "bad_header", "https_refused",
         "unparseable"} \cap Misnamed = {}
    BY DEF Misnamed
  <1>6. {"text", "stt", "tts"} \subseteq Axis
    BY DEF Axis
  <1>7. /\ Class("text", "local_http", "bad_scheme", {}) = "endpoint_unparseable"
        /\ Class("text", "cloud_http", "bad_scheme", {}) = "endpoint_unparseable"
    <2>1. /\ LocalHttpText["bad_scheme"] = {"local_http", "endpoint url is not parseable"}
          /\ CloudHttpText["bad_scheme"] = {"cloud_http", "endpoint url is not parseable"}
      BY DEF LocalHttpText, CloudHttpText, TlsText, CertificateText, TransportText, AnswerText,
             Merged, Under
    <2>2. classify_error("text", LocalHttpText["bad_scheme"]) = "endpoint_unparseable"
      BY <2>1, Classified DEF LocalClass
    <2>3. classify_error("text", CloudHttpText["bad_scheme"]) = "endpoint_unparseable"
      BY <2>1, Classified, ZenonT(30) DEF CloudClass
    <2>4. /\ ErrorText("text", "local_http") = LocalHttpText
          /\ ErrorText("text", "cloud_http") = CloudHttpText
      BY DEF ErrorText
    <2>5. \A kind \in KnownKinds["text"] : \A cause \in Causes("text", kind) :
            OwnClass["text"][kind][cause] = classify_error("text", ErrorText("text", kind)[cause])
      BY <1>6 DEF OwnClass
    <2> QED BY <1>2, <1>3, <2>2, <2>3, <2>4, <2>5 DEF Class
  <1> QED BY <1>1, <1>2, <1>3, <1>4, <1>5, <1>6, <1>7, OwnWordsTell

(* The facts each probe shares with the refusal of the same kind. *)
LEMMA AudioProbe ==
  ASSUME NEW enabled \in BOOLEAN, NEW command, NEW chain, NEW refused,
         refused = IF ~enabled THEN "disabled" ELSE IF command = Unset THEN "not_configured"
                   ELSE IF Program(command) = None THEN "unparseable" ELSE None
  PROVE  LET probe == probe_audio_command(enabled, command, chain, "executable") IN
         /\ probe.in_chain <=> Contains(chain, "command")
         /\ probe.in_chain => (probe.ok <=> refused = None)
         /\ \A axis \in {"stt", "tts"} : probe.in_chain /\ refused # None =>
              (probe.class = Class(axis, "command", refused, {}) <=> ~ TwoNames(axis, "command", refused))
  <1>1. \A axis \in {"stt", "tts"} :
          /\ Class(axis, "command", "disabled", {}) = "disabled"
          /\ Class(axis, "command", "not_configured", {}) = "not_configured"
          /\ Class(axis, "command", "unparseable", {}) = "not_configured"
    BY RefusalsShow
  <1>2. FileClass["executable"] = "ok"
    BY DEF FileClass
  <1> DEFINE in == Contains(chain, "command")
  <1>3. in \in BOOLEAN
    BY DEF Contains
  <1> HIDE DEF in
  <1>4. /\ probe_audio_command(enabled, command, chain, "executable").in_chain = in
        /\ probe_audio_command(enabled, command, chain, "executable").class =
             IF ~in THEN "not_in_chain" ELSE IF ~enabled THEN "disabled"
             ELSE IF command = Unset THEN "not_configured"
             ELSE IF Program(command) = None THEN "command_unparseable" ELSE "ok"
        /\ probe_audio_command(enabled, command, chain, "executable").ok =
             (probe_audio_command(enabled, command, chain, "executable").class = "ok")
    BY <1>2 DEF probe_audio_command, Result, in
  <1> DEFINE probe == probe_audio_command(enabled, command, chain, "executable")
             class == probe.class
  <1>5. /\ probe.in_chain = in /\ probe.ok = (class = "ok")
        /\ class = IF ~in THEN "not_in_chain" ELSE IF ~enabled THEN "disabled"
                   ELSE IF command = Unset THEN "not_configured"
                   ELSE IF Program(command) = None THEN "command_unparseable" ELSE "ok"
    BY <1>4
  <1> HIDE DEF probe, class
  <1>6. in => (class = "ok" <=> refused = None)
    BY <1>5 DEF None
  <1>7. ASSUME in, refused # None, NEW axis \in {"stt", "tts"}
        PROVE  class = Class(axis, "command", refused, {}) <=> ~ TwoNames(axis, "command", refused)
    <2>1. TwoNames(axis, "command", refused) <=> refused = "unparseable"
      BY DEF TwoNames
    <2>2. CASE refused = "disabled"
      BY <1>1, <1>3, <1>5, <1>7, <2>1, <2>2
    <2>3. CASE refused = "not_configured"
      BY <1>1, <1>3, <1>5, <1>7, <2>1, <2>3
    <2>4. CASE refused = "unparseable"
      BY <1>1, <1>3, <1>5, <1>7, <2>1, <2>4
    <2> QED BY <1>7, <2>2, <2>3, <2>4
  <1> QED BY <1>3, <1>5, <1>6, <1>7 DEF probe, class, in

LEMMA LlamafileProbe ==
  ASSUME NEW c, c.enabled \in BOOLEAN, NEW chain, NEW refused, refused = LlamafileRefusal(c)
  PROVE  LET probe == probe_llamafile(c, chain, "executable") IN
         /\ probe.in_chain <=> Contains(chain, "llamafile_local")
         /\ probe.in_chain => (probe.ok <=> refused = None)
         /\ probe.in_chain /\ refused # None =>
              (probe.class = Class("text", "llamafile_local", refused, {}) <=> ~ TwoNames("text", "llamafile_local", refused))
  <1> DEFINE in == Contains(chain, "llamafile_local")
             probe == probe_llamafile(c, chain, "executable")
             class == probe.class
  <1>1. in \in BOOLEAN
    BY DEF Contains
  <1>2. FileClass["executable"] = "ok"
    BY DEF FileClass
  <1> HIDE DEF in
  <1>3. /\ probe.in_chain = in
        /\ class = IF ~in THEN "not_in_chain" ELSE IF ~c.enabled THEN "disabled"
                   ELSE IF c.path = Unset THEN "not_configured" ELSE "ok"
        /\ probe.ok = (class = "ok")
    BY <1>2 DEF probe_llamafile, Result, in
  <1> HIDE DEF probe, class
  <1>4. in => (class = "ok" <=> refused = None)
    BY <1>3 DEF None, LlamafileRefusal
  <1>5. in /\ refused # None =>
          (class = Class("text", "llamafile_local", refused, {})
             <=> ~ TwoNames("text", "llamafile_local", refused))
    BY <1>3, RefusalsShow DEF None, LlamafileRefusal, TwoNames
  <1> QED BY <1>1, <1>3, <1>4, <1>5 DEF probe, class, in

LEMMA LocalProbe ==
  ASSUME NEW c, c.enabled \in BOOLEAN, NEW chain, NEW refused, refused = LocalHttpRefusal(c)
  PROVE  LET probe == probe_local_http(c, chain, "ok") IN
         /\ probe.in_chain <=> Contains(chain, "local_http")
         /\ probe.in_chain => (probe.ok <=> refused = None)
         /\ probe.in_chain /\ refused # None =>
              (probe.class = Class("text", "local_http", refused, {}) <=> ~ TwoNames("text", "local_http", refused))
  <1> DEFINE in == Contains(chain, "local_http")
             probe == probe_local_http(c, chain, "ok")
             class == probe.class
             fault == LocalEndpointFault(c.endpoint[1])
  <1>1. in \in BOOLEAN
    BY DEF Contains
  <1>2. NetClass["ok"] = "ok"
    BY DEF NetClass
  <1>3. fault \in {"https_refused", "bad_scheme", "unparseable", None}
    BY DEF LocalEndpointFault
  <1> HIDE DEF in, fault
  <1>4. /\ probe.in_chain = in
        /\ class = IF ~in THEN "not_in_chain" ELSE IF ~c.enabled THEN "disabled"
                   ELSE IF c.endpoint = Unset THEN "not_configured"
                   ELSE IF fault = "https_refused" THEN "endpoint_scheme_unsupported"
                   ELSE IF fault # None THEN "endpoint_unparseable" ELSE "ok"
        /\ probe.ok = (class = "ok")
    BY <1>2 DEF probe_local_http, Result, in, fault
  <1>5. refused = IF ~c.enabled THEN "disabled"
                  ELSE IF c.endpoint = Unset THEN "not_configured" ELSE fault
    BY DEF LocalHttpRefusal, fault
  <1> HIDE DEF probe, class
  <1>6. in => (class = "ok" <=> refused = None)
    BY <1>3, <1>4, <1>5 DEF None
  <1>7. in /\ refused # None =>
          (class = Class("text", "local_http", refused, {})
             <=> ~ TwoNames("text", "local_http", refused))
    <2>1. ~ TwoNames("text", "local_http", refused)
      BY DEF TwoNames
    <2>2. CASE fault = "https_refused"
      BY <1>4, <1>5, <2>1, <2>2, RefusalsShow DEF None
    <2>3. CASE fault = "bad_scheme"
      BY <1>4, <1>5, <2>1, <2>3, RefusalsShow DEF None
    <2>4. CASE fault = "unparseable"
      BY <1>4, <1>5, <2>1, <2>4, RefusalsShow DEF None
    <2>5. CASE fault = None
      BY <1>4, <1>5, <2>1, <2>5, RefusalsShow DEF None
    <2> QED BY <1>3, <2>2, <2>3, <2>4, <2>5
  <1> QED BY <1>1, <1>4, <1>6, <1>7 DEF probe, class, in

LEMMA CloudProbe ==
  ASSUME NEW c, c.enabled \in BOOLEAN, NEW key \in BOOLEAN, NEW chain,
         NEW refused, refused = CloudHttpRefusal(c, key)
  PROVE  LET probe == probe_cloud_http(c, key, chain, "s2xx") IN
         /\ probe.in_chain <=> Contains(chain, "cloud_http")
         /\ probe.in_chain => (probe.ok <=> refused = None)
         /\ probe.in_chain /\ refused # None =>
              (probe.class = Class("text", "cloud_http", refused, {}) <=> ~ TwoNames("text", "cloud_http", refused))
  <1> DEFINE in == Contains(chain, "cloud_http")
             probe == probe_cloud_http(c, key, chain, "s2xx")
             class == probe.class
             fault == CloudEndpointFault(c.endpoint[1])
             static == probe_cloud_static(c, key, chain)
             bad == BadHeader(c.auth_header)
  <1>1. in \in BOOLEAN /\ bad \in BOOLEAN
    BY DEF Contains, BadHeader
  <1>2. HeadClass("s2xx") = "ok"
    BY DEF HeadClass, HeadStatus
  <1>3. fault \in {"bad_scheme", "unparseable", None}
    BY DEF CloudEndpointFault
  <1>4. static = IF ~in THEN "not_in_chain" ELSE IF ~c.enabled THEN "disabled"
                 ELSE IF c.endpoint = Unset THEN "not_configured"
                 ELSE IF ~key THEN "secret_missing"
                 ELSE IF fault = "bad_scheme" THEN "endpoint_scheme_unsupported"
                 ELSE IF fault = "unparseable" THEN "endpoint_unparseable"
                 ELSE IF bad THEN "not_configured" ELSE "ok"
    BY DEF probe_cloud_static
  <1>5. refused = IF ~c.enabled THEN "disabled"
                  ELSE IF c.endpoint = Unset THEN "not_configured"
                  ELSE IF ~key THEN "secret_missing" ELSE IF bad THEN "bad_header" ELSE fault
    BY DEF CloudHttpRefusal
  <1> HIDE DEF fault, bad, static
  <1>6. class = IF static = "ok" THEN "ok" ELSE static
    BY <1>2 DEF probe_cloud_http, Result, static
  <1>7. probe.in_chain = in /\ probe.ok = (class = "ok")
    BY DEF probe_cloud_http, Result, in
  <1> HIDE DEF in, probe, class
  <1>8. in => (class = "ok" <=> refused = None)
    BY <1>1, <1>3, <1>4, <1>5, <1>6 DEF None
  <1>9. in /\ refused # None =>
          (class = Class("text", "cloud_http", refused, {})
             <=> ~ TwoNames("text", "cloud_http", refused))
    <2>1. TwoNames("text", "cloud_http", refused) <=> refused \in {"bad_scheme", "bad_header"}
      BY DEF TwoNames
    <2>2. CASE ~ c.enabled \/ c.endpoint = Unset \/ ~ key
      BY <1>4, <1>5, <1>6, <2>1, <2>2, RefusalsShow DEF None
    <2>3. CASE c.enabled /\ c.endpoint # Unset /\ key /\ bad
      BY <1>3, <1>4, <1>5, <1>6, <2>1, <2>3, RefusalsShow DEF None
    <2>4. CASE c.enabled /\ c.endpoint # Unset /\ key /\ ~ bad
      BY <1>3, <1>4, <1>5, <1>6, <2>1, <2>4, RefusalsShow DEF None
    <2> QED BY <1>1, <2>2, <2>3, <2>4
  <1> QED BY <1>1, <1>7, <1>8, <1>9 DEF probe, class, in

LEMMA ProbesAgree ==
  ASSUME CallsInv, NEW i \in DOMAIN resolvers, NEW kind \in Probed(resolvers[i].axis)
  PROVE  LET axis == resolvers[i].axis
             cfg == resolvers[i].cfg
             key == resolvers[i].start.key
             chain == resolvers[i].kinds
             probe == Probe(axis, kind, cfg, key, chain)
             refused == Refusal(axis, kind, cfg, key) IN
         /\ probe.in_chain <=> Contains(chain, kind)
         /\ probe.in_chain => (probe.ok <=> refused = None)
         /\ probe.in_chain /\ refused # None =>
              (probe.class = Class(axis, kind, refused, {}) <=> ~ TwoNames(axis, kind, refused))
  <1> DEFINE axis == resolvers[i].axis
             cfg == resolvers[i].cfg
             key == resolvers[i].start.key
             chain == resolvers[i].kinds
             probe == Probe(axis, kind, cfg, key, chain)
             refused == Refusal(axis, kind, cfg, key)
             Agrees == /\ probe.in_chain <=> Contains(chain, kind)
                       /\ probe.in_chain => (probe.ok <=> refused = None)
                       /\ probe.in_chain /\ refused # None =>
                            (probe.class = Class(axis, kind, refused, {})
                               <=> ~ TwoNames(axis, kind, refused))
  <1> SUFFICES Agrees
    OBVIOUS
  <1>1. /\ axis \in Axis /\ key \in BOOLEAN
        /\ axis = "text" => /\ cfg.cloud_http.enabled \in BOOLEAN
                            /\ cfg.local_http.enabled \in BOOLEAN
                            /\ cfg.llamafile.enabled \in BOOLEAN
        /\ axis # "text" => cfg.stt_enabled \in BOOLEAN /\ cfg.tts_enabled \in BOOLEAN
    BY Switches
  <1>2. kind \in Probed(axis)
    OBVIOUS
  <1> HIDE DEF axis, cfg, key, chain
  <1>3. CASE axis = "stt"
    <2>1. kind = "command"
      BY <1>2, <1>3 DEF Probed
    <2>2. refused = IF ~cfg.stt_enabled THEN "disabled"
                    ELSE IF cfg.stt_cmd = Unset THEN "not_configured"
                    ELSE IF Program(cfg.stt_cmd) = None THEN "unparseable" ELSE None
      BY <1>3, <2>1 DEF Refusal, SpeechRefusal, Speech, SttProvider
    <2>3. probe = probe_audio_command(cfg.stt_enabled, cfg.stt_cmd, chain, "executable")
      BY <1>3, <2>1 DEF Probe, probe_stt
    <2> HIDE DEF probe, refused
    <2> QED BY <1>1, <1>3, <2>1, <2>2, <2>3, AudioProbe
  <1>4. CASE axis = "tts"
    <2>1. kind = "command"
      BY <1>2, <1>4 DEF Probed
    <2>2. refused = IF ~cfg.tts_enabled THEN "disabled"
                    ELSE IF cfg.tts_cmd = Unset THEN "not_configured"
                    ELSE IF Program(cfg.tts_cmd) = None THEN "unparseable" ELSE None
      BY <1>4, <2>1 DEF Refusal, SpeechRefusal, Speech, TtsProvider
    <2>3. probe = probe_audio_command(cfg.tts_enabled, cfg.tts_cmd, chain, "executable")
      BY <1>4, <2>1 DEF Probe, probe_tts
    <2> HIDE DEF probe, refused
    <2> QED BY <1>1, <1>4, <2>1, <2>2, <2>3, AudioProbe
  <1>5. CASE axis = "text" /\ kind = "llamafile_local"
    <2>1. probe = probe_llamafile(cfg.llamafile, chain, "executable")
      BY <1>5 DEF Probe
    <2>2. refused = LlamafileRefusal(cfg.llamafile)
      BY <1>5 DEF Refusal
    <2> HIDE DEF probe, refused
    <2> QED BY <1>1, <1>5, <2>1, <2>2, LlamafileProbe
  <1>6. CASE axis = "text" /\ kind = "local_http"
    <2>1. probe = probe_local_http(cfg.local_http, chain, "ok")
      BY <1>6 DEF Probe
    <2>2. refused = LocalHttpRefusal(cfg.local_http)
      BY <1>6 DEF Refusal
    <2> HIDE DEF probe, refused
    <2> QED BY <1>1, <1>6, <2>1, <2>2, LocalProbe
  <1>7. CASE axis = "text" /\ kind = "cloud_http"
    <2>1. probe = probe_cloud_http(cfg.cloud_http, key, chain, "s2xx")
      BY <1>7 DEF Probe
    <2>2. refused = CloudHttpRefusal(cfg.cloud_http, key)
      BY <1>7 DEF Refusal
    <2> HIDE DEF probe, refused
    <2> QED BY <1>1, <1>7, <2>1, <2>2, CloudProbe
  <1> HIDE DEF Agrees
  <1> QED BY <1>1, <1>2, <1>3, <1>4, <1>5, <1>6, <1>7 DEF Axis, Probed

(* A probe says ok of a provider exactly if a call would not be refused by *)
(* it, and otherwise shows the class the call's error would get, but for   *)
(* the three faults of TwoNames, which it always names otherwise: two      *)
(* pieces of code, the probe_* functions and the providers' own checks,    *)
(* with the file or the server as they should be.                          *)
THEOREM ProbesAgreeWithRuns == Spec => []ProbeAgreesWithRun
<1>1. CallsInv => ProbeAgreesWithRun
  BY ProbesAgree DEF ProbeAgreesWithRun
<1> QED BY <1>1, CallsInvariant, PTL

(* The class a failed call shows is the documented one for 75 of the 79    *)
(* errors of the providers, and for the four of Misnamed it is not: the    *)
(* phrases the contexts of an error put into its text, read in the order   *)
(* of classify_error, meet the rule of their own cause first, but these    *)
(* four meet the rule of another cause.                                    *)
THEOREM ClassesNameTheFailure == Spec => []ClassNamesTheFailure
<1>1. CallsInv => ClassNamesTheFailure
  <2> SUFFICES ASSUME CallsInv, NEW r \in Call, error[r].cause # None, error[r].echo = {}
               PROVE  error[r].class = Documented(Ax(r), error[r].kind, error[r].cause)
                        <=> error[r].cause \notin Misnamed
    BY DEF ClassNamesTheFailure
  <2>1. CallInv(r) /\ BuiltInv
    BY DEF CallsInv
  <2>2. error[r] \in FailuresOf(Ax(r)) /\ pc[r] = "failed"
    <3>1. NoError.cause = None
      BY DEF NoError
    <3> QED BY <2>1, <3>1 DEF CallInv
  <2>3. Ax(r) \in Axis
    <3>1. on[r] \in DOMAIN resolvers
      BY <2>1, <2>2 DEF CallInv
    <3>2. resolvers[on[r]].axis \in Axes
      BY <2>1, <3>1, ResolverType
    <3> QED BY <3>2, AxesAssumption DEF Ax, Res
  <2> DEFINE axis == Ax(r)
  <2> HIDE DEF axis
  <2>4. PICK kind \in KnownKinds[axis] :
          \E cause \in Causes(axis, kind) : \E echo \in Echoes \cup {{}} :
            error[r] = [kind |-> kind, cause |-> cause,
                        class |-> Class(axis, kind, cause, echo), echo |-> echo]
    BY <2>2 DEF FailuresOf, axis
  <2>5. PICK cause \in Causes(axis, kind) : \E echo \in Echoes \cup {{}} :
            error[r] = [kind |-> kind, cause |-> cause,
                        class |-> Class(axis, kind, cause, echo), echo |-> echo]
    BY <2>4
  <2>6. PICK echo \in Echoes \cup {{}} :
            error[r] = [kind |-> kind, cause |-> cause,
                        class |-> Class(axis, kind, cause, echo), echo |-> echo]
    BY <2>5
  <2>7. /\ error[r].kind = kind /\ error[r].cause = cause /\ error[r].echo = echo
        /\ error[r].class = Class(axis, kind, cause, echo)
    BY <2>6
  <2>8. echo = {} /\ axis \in Axis
    BY <2>3, <2>7 DEF axis
  <2>9. Class(axis, kind, cause, {}) = Documented(axis, kind, cause) <=> cause \notin Misnamed
    BY <2>8, OwnWordsTell
  <2> QED BY <2>7, <2>8, <2>9 DEF axis
<1> QED BY <1>1, CallsInvariant, PTL
=============================================================================
