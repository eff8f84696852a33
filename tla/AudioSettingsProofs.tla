-------------------------- MODULE AudioSettingsProofs --------------------------
(***************************************************************************)
(* Proofs about AudioSettings with one connection, as the shipped UI opens *)
(* it: for any commands, chains and environment, with saves failing and    *)
(* restarts between any two steps, resolvers, live configuration and files *)
(* agree whenever no handler is at work.                                   *)
(***************************************************************************)
EXTENDS AudioSettings, TLAPS

OneConnection == \E c : Client = {c}

(* A configuration k of axis a reads back from the files. *)
CfgBack(a, k) ==
  <<a, "cfg">> \notin unsaved =>
    /\ Startup(a).enabled = k.enabled
    /\ Startup(a).cmd = k.cmd \/ (k.cmd = None /\ Startup(a).cmd = Env[a].cmd)
ChainBack(a, k) == <<a, "chain">> \notin unsaved => Startup(a).chain = k

(* What a handler at work leaves to be done: the axis it writes has its    *)
(* new configuration in the clone or its new chain in the job, and the     *)
(* file it has written already holds it; nothing else has moved.           *)
Writing(c, a) == pc[c] # "idle" /\ job[c].axis = a
Cloned(c) == pc[c] \in {"saveCfg", "install", "commit"}

Elsewhere ==
  \A c \in Client, a \in Axis :
    (pc[c] = "idle" \/ job[c].axis # a) =>
      /\ CfgBack(a, live[a]) /\ ChainBack(a, live[a].chain)
      /\ resolver[a] = live[a]
      /\ Cloned(c) => merged[c][a] = live[a]

AtWork ==
  \A c \in Client : LET a == job[c].axis IN
    /\ pc[c] = "saveCfg" =>
         merged[c][a].chain = live[a].chain /\ ChainBack(a, live[a].chain)
    /\ pc[c] \in {"clearChain", "saveChain", "clone"} => CfgBack(a, live[a])
    /\ pc[c] = "clone" => ChainBack(a, job[c].chain)
    /\ pc[c] \in {"install", "commit"} =>
         CfgBack(a, merged[c][a]) /\ ChainBack(a, merged[c][a].chain)
    /\ pc[c] = "commit" => resolver[a] = merged[c][a]

Inv == TypeOK /\ Elsewhere /\ AtWork

LEMMA InitInv == Init => Inv
<1> SUFFICES ASSUME Init PROVE Inv
  OBVIOUS
<1>1. TypeOK
  BY EnvAssumption, ChainAssumption DEF Init, TypeOK, CfgBody, Steps, NoJob, Axis
<1>2. Elsewhere
  BY DEF Init, Elsewhere, CfgBack, ChainBack, Startup, Cloned
<1>3. AtWork
  BY DEF Init, AtWork
<1> QED BY <1>1, <1>2, <1>3 DEF Inv

LEMMA SetConfigStep ==
  ASSUME NEW c, Client = {c}, Inv, NEW ax \in Axis, NEW e \in BOOLEAN,
         NEW u \in Cmd \cup {Keep, None}, SetConfig(c, ax, e, u)
  PROVE  Inv'
<1> DEFINE k == [live[ax] EXCEPT !.enabled = e, !.cmd = NewCmd(@, u)]
<1>1. live \in [Axis -> AxisConfig] /\ c \in Client /\ live[ax] \in AxisConfig
  BY DEF Inv, TypeOK
<1>2. k \in AxisConfig /\ k.chain = live[ax].chain
  BY <1>1 DEF AxisConfig, NewCmd
<1>3. merged' = [merged EXCEPT ![c] = [live EXCEPT ![ax] = k]]
  BY <1>1 DEF SetConfig
<1>4. pc' = [pc EXCEPT ![c] = "saveCfg"] /\ job' = [job EXCEPT ![c].axis = ax] /\ pc[c] = "idle"
      /\ UNCHANGED <<live, resolver, cfgFile, chainFile, unsaved>>
  BY DEF SetConfig
<1> HIDE DEF k
<1>5. TypeOK'
  <2>1. merged' \in [Client -> [Axis -> AxisConfig]]
    BY <1>1, <1>2, <1>3 DEF Inv, TypeOK
  <2>2. job' \in [Client -> [axis : Axis, chain : Chain]]
    BY <1>4 DEF Inv, TypeOK
  <2> QED BY <1>4, <2>1, <2>2 DEF Inv, TypeOK, Steps
<1>6. job'[c].axis = ax /\ pc'[c] = "saveCfg"
  BY <1>1, <1>4 DEF Inv, TypeOK
<1>7. merged'[c][ax] = k /\ \A a \in Axis \ {ax} : merged'[c][a] = live[a]
  BY <1>1, <1>3 DEF Inv, TypeOK
<1>8. Elsewhere'
  BY <1>4, <1>6, <1>7 DEF Inv, Elsewhere, CfgBack, ChainBack, Startup, Cloned
<1>9. ChainBack(ax, live[ax].chain)
  BY <1>1, <1>4 DEF Inv, Elsewhere
<1>10. ChainBack(ax, live[ax].chain)'
  BY <1>4, <1>9 DEF ChainBack, Startup
<1>11. AtWork'
  BY <1>2, <1>4, <1>6, <1>7, <1>10 DEF AtWork
<1> QED BY <1>5, <1>8, <1>11 DEF Inv

LEMMA SaveCfgStep ==
  ASSUME NEW c, Client = {c}, Inv, SaveCfg(c)
  PROVE  Inv'
<1> SUFFICES ASSUME NEW a \in Axis, a = job[c].axis, NEW k \in AxisConfig, k = merged[c][a]
             PROVE  Inv'
  BY DEF Inv, TypeOK
<1> DEFINE f == [enabled |-> k.enabled, cmd |-> k.cmd]
<1>1. c \in Client
  OBVIOUS
<1>2. f \in CfgBody /\ f.enabled = k.enabled /\ f.cmd = k.cmd
  BY DEF AxisConfig, CfgBody
<1>3. \/ cfgFile' = [cfgFile EXCEPT ![a] = f] /\ unsaved' = unsaved \ {<<a, "cfg">>}
      \/ cfgFile' = cfgFile /\ unsaved' = unsaved \cup {<<a, "cfg">>}
  BY DEF SaveCfg
<1>4. pc' = [pc EXCEPT ![c] = "install"] /\ pc[c] = "saveCfg"
      /\ UNCHANGED <<live, resolver, chainFile, job, merged>>
  BY DEF SaveCfg
<1>5. pc'[c] = "install" /\ job'[c].axis = a /\ merged'[c][a] = k
  BY <1>1, <1>4 DEF Inv, TypeOK
<1> HIDE DEF f
<1>6. TypeOK'
  <2>1. <<a, "cfg">> \in Files
    BY DEF Files
  <2>2. cfgFile' \in [Axis -> CfgBody \cup {None}] /\ unsaved' \subseteq Files
    BY <1>2, <1>3, <2>1 DEF Inv, TypeOK
  <2> QED BY <1>4, <2>2 DEF Inv, TypeOK, Steps
<1>7. Elsewhere'
  BY DEF Inv, TypeOK, AxisConfig, CfgBody, Elsewhere, AtWork, CfgBack, ChainBack, Startup,
         Cloned, SaveCfg
<1>8. ChainBack(a, k.chain)
  BY <1>1, <1>4 DEF Inv, AtWork
<1>9. ChainBack(a, k.chain)'
  <2>1. <<a, "chain">> \notin unsaved' => <<a, "chain">> \notin unsaved
    BY <1>3
  <2> QED BY <1>4, <1>8, <2>1 DEF ChainBack, Startup
<1>10. CfgBack(a, k)'
  <2> SUFFICES ASSUME <<a, "cfg">> \notin unsaved'
               PROVE  /\ Startup(a).enabled' = k.enabled
                      /\ \/ Startup(a).cmd' = k.cmd
                         \/ k.cmd = None /\ Startup(a).cmd' = Env[a].cmd
    BY DEF CfgBack
  <2>1. cfgFile'[a] = f
    BY <1>3 DEF Inv, TypeOK
  <2>2. f # None
    BY <1>2, NoneAssumption
  <2> QED BY <1>2, <2>1, <2>2 DEF Startup
<1>11. AtWork'
  BY <1>5, <1>9, <1>10 DEF AtWork
<1> QED BY <1>6, <1>7, <1>11 DEF Inv

LEMMA SetChainStep ==
  ASSUME NEW c, Client = {c}, Inv, NEW ax \in Axis, NEW ch \in Chain, SetChain(c, ax, ch)
  PROVE  Inv'
<1>1. TypeOK'
  BY ChainAssumption DEF Inv, TypeOK, Steps, SetChain
<1>2. Elsewhere'
  BY DEF Inv, TypeOK, Elsewhere, CfgBack, ChainBack, Startup, Cloned, SetChain
<1>3. CfgBack(ax, live[ax])
  BY DEF Inv, Elsewhere, SetChain
<1>4. pc'[c] = "saveChain" /\ job'[c].axis = ax /\ UNCHANGED <<live, cfgFile, chainFile, unsaved>>
  BY DEF Inv, TypeOK, SetChain
<1>5. CfgBack(ax, live[ax])'
  BY <1>3, <1>4 DEF CfgBack, Startup
<1>6. AtWork'
  BY <1>4, <1>5 DEF AtWork
<1> QED BY <1>1, <1>2, <1>6 DEF Inv

LEMMA ResetChainStep ==
  ASSUME NEW c, Client = {c}, Inv, NEW ax \in Axis, ResetChain(c, ax)
  PROVE  Inv'
<1>1. TypeOK'
  BY ChainAssumption DEF Inv, TypeOK, Steps, ResetChain
<1>2. Elsewhere'
  BY DEF Inv, TypeOK, Elsewhere, CfgBack, ChainBack, Startup, Cloned, ResetChain
<1>3. CfgBack(ax, live[ax])
  BY DEF Inv, Elsewhere, ResetChain
<1>4. pc'[c] = "clearChain" /\ job'[c].axis = ax /\ UNCHANGED <<live, cfgFile, chainFile, unsaved>>
  BY DEF Inv, TypeOK, ResetChain
<1>5. CfgBack(ax, live[ax])'
  BY <1>3, <1>4 DEF CfgBack, Startup
<1>6. AtWork'
  BY <1>4, <1>5 DEF AtWork
<1> QED BY <1>1, <1>2, <1>6 DEF Inv

LEMMA ClearChainStep ==
  ASSUME NEW c, Client = {c}, Inv, ClearChain(c)
  PROVE  Inv'
<1>1. TypeOK'
  BY ChainAssumption, EnvAssumption DEF Inv, TypeOK, AxisConfig, CfgBody, Steps, Files, NoJob, ClearChain
<1>2. Elsewhere'
  BY DEF Inv, TypeOK, AxisConfig, CfgBody, Elsewhere, AtWork, CfgBack, ChainBack, Startup, Cloned, ClearChain
<1>3. AtWork'
  BY DEF Inv, TypeOK, AxisConfig, CfgBody, Elsewhere, AtWork, CfgBack, ChainBack, Startup, Cloned, ClearChain
<1> QED BY <1>1, <1>2, <1>3 DEF Inv

LEMMA SaveChainStep ==
  ASSUME NEW c, Client = {c}, Inv, SaveChain(c)
  PROVE  Inv'
<1> SUFFICES ASSUME NEW a \in Axis, a = job[c].axis, NEW ch \in Chain, ch = job[c].chain
             PROVE  Inv'
  BY DEF Inv, TypeOK
<1>1. c \in Client
  OBVIOUS
<1>2. TypeOK'
  BY DEF Inv, TypeOK, Steps, Files, SaveChain
<1>3. Elsewhere'
  BY DEF Inv, TypeOK, Elsewhere, AtWork, CfgBack, ChainBack, Startup, Cloned, SaveChain
<1>4. \/ chainFile' = [chainFile EXCEPT ![a] = ch] /\ unsaved' = unsaved \ {<<a, "chain">>}
      \/ chainFile' = chainFile /\ unsaved' = unsaved \cup {<<a, "chain">>}
  BY DEF SaveChain
<1>5. pc'[c] = "clone" /\ job' = job /\ UNCHANGED <<live, cfgFile>> /\ pc[c] = "saveChain"
  BY <1>1 DEF Inv, TypeOK, SaveChain
<1>6. CfgBack(a, live[a])
  BY <1>1, <1>5 DEF Inv, AtWork
<1>7. CfgBack(a, live[a])'
  <2>1. <<a, "cfg">> \notin unsaved' => <<a, "cfg">> \notin unsaved
    BY <1>4
  <2> QED BY <1>5, <1>6, <2>1 DEF CfgBack, Startup
<1>8. ChainBack(a, ch)'
  <2> SUFFICES ASSUME <<a, "chain">> \notin unsaved' PROVE Startup(a).chain' = ch
    BY DEF ChainBack
  <2>1. chainFile'[a] = ch
    BY <1>4 DEF Inv, TypeOK
  <2>2. ch # None
    BY NoneAssumption
  <2> QED BY <2>1, <2>2 DEF Startup
<1>9. AtWork'
  BY <1>5, <1>7, <1>8 DEF AtWork
<1> QED BY <1>2, <1>3, <1>9 DEF Inv

LEMMA CloneLiveStep ==
  ASSUME NEW c, Client = {c}, Inv, CloneLive(c)
  PROVE  Inv'
<1> SUFFICES ASSUME NEW a \in Axis, a = job[c].axis, NEW ch \in Chain, ch = job[c].chain,
                    NEW k, k = [live[a] EXCEPT !.chain = ch]
             PROVE  Inv'
  BY DEF Inv, TypeOK
<1>1. c \in Client /\ live[a] \in AxisConfig
  BY DEF Inv, TypeOK
<1>2. k \in AxisConfig /\ k.enabled = live[a].enabled /\ k.cmd = live[a].cmd /\ k.chain = ch
  BY <1>1 DEF AxisConfig
<1>3. merged' = [merged EXCEPT ![c] = [live EXCEPT ![a] = k]]
  BY <1>1 DEF Inv, TypeOK, CloneLive
<1>4. pc' = [pc EXCEPT ![c] = "install"] /\ pc[c] = "clone"
      /\ UNCHANGED <<live, resolver, cfgFile, chainFile, unsaved, job>>
  BY DEF CloneLive
<1>5. TypeOK'
  <2>1. merged' \in [Client -> [Axis -> AxisConfig]]
    BY <1>1, <1>2, <1>3 DEF Inv, TypeOK
  <2> QED BY <1>4, <2>1 DEF Inv, TypeOK, Steps
<1>6. /\ pc'[c] = "install" /\ job'[c].axis = a /\ merged'[c][a] = k
      /\ \A b \in Axis \ {a} : merged'[c][b] = live[b]
  BY <1>1, <1>3, <1>4 DEF Inv, TypeOK
<1>7. Elsewhere'
  BY <1>4, <1>6 DEF Inv, Elsewhere, CfgBack, ChainBack, Startup, Cloned
<1>8. CfgBack(a, live[a]) /\ ChainBack(a, ch)
  BY <1>1, <1>4 DEF Inv, AtWork
<1>9. CfgBack(a, k)'
  BY <1>2, <1>4, <1>8 DEF CfgBack, Startup
<1>10. ChainBack(a, k.chain)'
  BY <1>2, <1>4, <1>8 DEF ChainBack, Startup
<1>11. AtWork'
  BY <1>6, <1>9, <1>10 DEF AtWork
<1> QED BY <1>5, <1>7, <1>11 DEF Inv

LEMMA InstallResolverStep ==
  ASSUME NEW c, Client = {c}, Inv, InstallResolver(c)
  PROVE  Inv'
<1>1. TypeOK'
  BY ChainAssumption, EnvAssumption DEF Inv, TypeOK, AxisConfig, CfgBody, Steps, Files, NoJob, InstallResolver
<1>2. Elsewhere'
  BY DEF Inv, TypeOK, AxisConfig, CfgBody, Elsewhere, AtWork, CfgBack, ChainBack, Startup, Cloned, InstallResolver
<1>3. AtWork'
  BY DEF Inv, TypeOK, AxisConfig, CfgBody, Elsewhere, AtWork, CfgBack, ChainBack, Startup, Cloned, InstallResolver
<1> QED BY <1>1, <1>2, <1>3 DEF Inv

LEMMA CommitLiveStep ==
  ASSUME NEW c, Client = {c}, Inv, CommitLive(c)
  PROVE  Inv'
<1> DEFINE a == job[c].axis
<1>1. c \in Client /\ a \in Axis
  BY DEF Inv, TypeOK
<1>2. live' = merged[c] /\ pc'[c] = "idle" /\ pc[c] = "commit"
      /\ UNCHANGED <<resolver, cfgFile, chainFile, unsaved>>
  BY <1>1 DEF Inv, TypeOK, CommitLive
<1>3. TypeOK'
  BY ChainAssumption, EnvAssumption DEF Inv, TypeOK, AxisConfig, Steps, NoJob, Axis, CommitLive
<1>4. CfgBack(a, merged[c][a]) /\ ChainBack(a, merged[c][a].chain) /\ resolver[a] = merged[c][a]
  BY <1>1, <1>2 DEF Inv, AtWork
<1>5. \A b \in Axis \ {a} :
        /\ CfgBack(b, merged[c][b]) /\ ChainBack(b, merged[c][b].chain)
        /\ resolver[b] = merged[c][b]
  BY <1>1, <1>2 DEF Inv, Elsewhere, Cloned
<1>6. \A b \in Axis :
        /\ CfgBack(b, merged[c][b]) /\ ChainBack(b, merged[c][b].chain)
        /\ resolver[b] = merged[c][b]
  BY <1>4, <1>5
<1>7. \A b \in Axis :
        /\ CfgBack(b, live[b])' /\ ChainBack(b, live[b].chain)'
        /\ resolver'[b] = live'[b]
  BY <1>2, <1>6 DEF CfgBack, ChainBack, Startup
<1>8. Elsewhere'
  BY <1>2, <1>7 DEF Elsewhere, Cloned
<1>9. AtWork'
  BY <1>2 DEF AtWork
<1> QED BY <1>3, <1>8, <1>9 DEF Inv

LEMMA RestartStep ==
  ASSUME OneConnection, Inv, Restart
  PROVE  Inv'
<1>1. \A a \in Axis : Startup(a) \in AxisConfig
  BY EnvAssumption DEF Inv, TypeOK, Startup, AxisConfig, CfgBody
<1>2. TypeOK'
  BY <1>1, EnvAssumption, ChainAssumption DEF Inv, TypeOK, Restart, Steps, NoJob, Axis
<1>3. \A a \in Axis : live'[a] = Startup(a) /\ resolver'[a] = live'[a]
  BY DEF Restart
<1>4. \A a \in Axis : CfgBack(a, live[a])' /\ ChainBack(a, live[a].chain)'
  BY <1>3 DEF CfgBack, ChainBack, Startup, Restart
<1>5. \A c \in Client : pc'[c] = "idle"
  BY DEF Restart
<1>6. Elsewhere'
  BY <1>3, <1>4, <1>5 DEF Elsewhere, Cloned
<1>7. AtWork'
  BY <1>5 DEF AtWork
<1> QED BY <1>2, <1>6, <1>7 DEF Inv

(* A step that leaves the variables of Inv alone keeps it. *)
LEMMA StutterStep == Inv /\ UNCHANGED vars => Inv'
<1> SUFFICES ASSUME Inv, UNCHANGED vars PROVE Inv'
  OBVIOUS
<1>1. TypeOK'
  BY DEF Inv, TypeOK, vars
<1>2. /\ UNCHANGED <<live, resolver, job, merged, pc>>
      /\ \A a, k : CfgBack(a, k)' <=> CfgBack(a, k)
      /\ \A a, k : ChainBack(a, k)' <=> ChainBack(a, k)
  BY DEF CfgBack, ChainBack, Startup, vars
<1>3. Elsewhere'
  BY <1>2 DEF Inv, Elsewhere, Cloned
<1>4. AtWork'
  BY <1>2 DEF Inv, AtWork
<1> QED BY <1>1, <1>3, <1>4 DEF Inv

LEMMA StepInv ==
  ASSUME OneConnection, Inv, [Next]_vars
  PROVE  Inv'
<1>1. ASSUME NEW c \in Client, Handler(c)
      PROVE  Inv'
  <2>1. Client = {c}
    BY DEF OneConnection
  <2>2. ASSUME NEW ax \in Axis, NEW e \in BOOLEAN, NEW u \in Cmd \cup {Keep, None},
               SetConfig(c, ax, e, u)
        PROVE  Inv'
    BY <2>1, <2>2, SetConfigStep
  <2>3. ASSUME NEW ax \in Axis, NEW ch \in Chain, SetChain(c, ax, ch)
        PROVE  Inv'
    BY <2>1, <2>3, SetChainStep
  <2>4. ASSUME NEW ax \in Axis, ResetChain(c, ax)
        PROVE  Inv'
    BY <2>1, <2>4, ResetChainStep
  <2>5. CASE SaveCfg(c)
    BY <2>1, <2>5, SaveCfgStep
  <2>6. CASE ClearChain(c) \/ SaveChain(c)
    BY <2>1, <2>6, ClearChainStep, SaveChainStep
  <2>7. CASE CloneLive(c)
    BY <2>1, <2>7, CloneLiveStep
  <2>8. CASE InstallResolver(c) \/ CommitLive(c)
    BY <2>1, <2>8, InstallResolverStep, CommitLiveStep
  <2> QED BY <1>1, <2>2, <2>3, <2>4, <2>5, <2>6, <2>7, <2>8 DEF Handler
<1>2. CASE Restart
  BY <1>2, RestartStep
<1>3. CASE UNCHANGED vars
  BY <1>3, StutterStep
<1> QED BY <1>1, <1>2, <1>3 DEF Next

(* What the speech handlers (app.rs, update_stt_config and its kin) keep   *)
(* of files, live record and resolvers at every step of one connection.    *)
THEOREM Invariance == ASSUME OneConnection PROVE Spec => []Inv
<1>1. OneConnection
  OBVIOUS
<1>2. Inv /\ [Next]_vars => Inv'
  BY <1>1, StepInv
<1> QED BY <1>2, InitInv, PTL DEF Spec

-----------------------------------------------------------------------------
(* With one connection, both resolvers are built from the live             *)
(* configuration whenever no handler is at work, whatever saves failed and *)
(* whenever the core was restarted (app.rs, update_{stt,tts}_config and    *)
(* the chain handlers).                                                    *)
THEOREM StatusIsWhatSpeaks == ASSUME OneConnection PROVE Spec => []ResolverMatchesLive
<1>1. OneConnection
  OBVIOUS
<1>2. ASSUME Inv PROVE ResolverMatchesLive
  <2> SUFFICES ASSUME Settled PROVE resolver = live
    BY DEF ResolverMatchesLive
  <2>1. PICK c : Client = {c}
    BY <1>1 DEF OneConnection
  <2>2. \A a \in Axis : resolver[a] = live[a]
    BY <1>2, <2>1 DEF Inv, Elsewhere, Settled
  <2> QED BY <1>2, <2>2 DEF Inv, TypeOK
<1> QED BY <1>2, Invariance, PTL

(* With one connection, a restart between handlers undoes nothing but a    *)
(* failed save and the clearing of a command the environment names         *)
(* (settings_store.rs, save_{stt,tts}_override; app.rs, App::new).         *)
THEOREM SpeechSettingsSurvive == ASSUME OneConnection PROVE Spec => []RestartRestores
<1>1. OneConnection
  OBVIOUS
<1>2. ASSUME Inv PROVE RestartRestores
  <2>1. PICK c : Client = {c}
    BY <1>1 DEF OneConnection
  <2>2. ASSUME Settled, NEW a \in Axis
        PROVE  CfgBack(a, live[a]) /\ ChainBack(a, live[a].chain)
    BY <1>2, <2>1, <2>2 DEF Inv, Elsewhere, Settled
  <2> QED BY <2>2 DEF RestartRestores, CfgBack, ChainBack
<1> QED BY <1>2, Invariance, PTL
=============================================================================
