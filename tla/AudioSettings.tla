--------------------------- MODULE AudioSettings ---------------------------
(***************************************************************************)
(* The settings of the speech axes in core/src/app.rs: the live            *)
(* configuration behind one mutex (live_audio), one resolver per axis      *)
(* behind its own RwLock, one override file for an axis's configuration    *)
(* and one for its provider chain, and the handlers that write them        *)
(* (update_{stt,tts}_config, update_{stt,tts}_provider_chain,              *)
(* reset_{stt,tts}_provider_chain), each running inside the connection     *)
(* that sent the message.  No lock is held across a handler, so handlers   *)
(* of different connections interleave at their lock and file operations.  *)
(*                                                                         *)
(* auto_speak travels with the tts configuration and is not kept apart.    *)
(* A save is one atomic replacement, which SettingsStore shows for one     *)
(* writer of a file.                                                       *)
(***************************************************************************)
CONSTANTS
  Client,        \* connections
  Cmd,           \* provider commands
  Chain,         \* validated provider chains
  DefaultChain,  \* DEFAULT_STT_PROVIDER_CHAIN, DEFAULT_TTS_PROVIDER_CHAIN
  Env,           \* Axis -> the configuration the environment gives
  Keep,          \* "command": null, leave the value alone
  None           \* no command, no file

Axis == {"stt", "tts"}
CfgBody == [enabled : BOOLEAN, cmd : Cmd \cup {None}]
AxisConfig == [enabled : BOOLEAN, cmd : Cmd \cup {None}, chain : Chain]

ASSUME EnvAssumption == Env \in [Axis -> AxisConfig]
ASSUME ChainAssumption == DefaultChain \in Chain
ASSUME NoneAssumption ==
  /\ None \notin Cmd /\ None \notin Chain /\ None \notin CfgBody
  /\ Keep \notin Cmd /\ Keep # None

VARIABLES
  live,       \* live_audio: Axis -> AxisConfig
  resolver,   \* self.stt, self.tts: Axis -> the AxisConfig it was built from
  cfgFile,    \* Axis -> the body of stt.json / tts.json, or None
  chainFile,  \* Axis -> the body of *_chain.json, or None
  unsaved,    \* <<axis, file>> pairs whose last save failed (history)
  job,        \* Client -> [op, axis, chain] it is executing
  merged,     \* Client -> its clone of live_audio with the update applied
  pc          \* Client -> where its handler is

vars == <<live, resolver, cfgFile, chainFile, unsaved, job, merged, pc>>

Steps == {"idle", "saveCfg", "clearChain", "saveChain", "clone", "install", "commit"}
Files == Axis \X {"cfg", "chain"}

TypeOK ==
  /\ live \in [Axis -> AxisConfig]
  /\ resolver \in [Axis -> AxisConfig]
  /\ cfgFile \in [Axis -> CfgBody \cup {None}]
  /\ chainFile \in [Axis -> Chain \cup {None}]
  /\ unsaved \subseteq Files
  /\ job \in [Client -> [axis : Axis, chain : Chain]]
  /\ merged \in [Client -> [Axis -> AxisConfig]]
  /\ pc \in [Client -> Steps]

(* apply_{stt,tts}_override and the chain override, field by field: a file *)
(* without a command leaves the command of the environment.                *)
Startup(ax) ==
  LET f == cfgFile[ax] IN
  [ enabled |-> IF f = None THEN Env[ax].enabled ELSE f.enabled,
    cmd     |-> IF f = None \/ f.cmd = None THEN Env[ax].cmd ELSE f.cmd,
    chain   |-> IF chainFile[ax] = None THEN Env[ax].chain ELSE chainFile[ax] ]

NoJob == [axis |-> "stt", chain |-> DefaultChain]

(* A core started in a directory without override files. *)
Init ==
  /\ cfgFile = [ax \in Axis |-> None]
  /\ chainFile = [ax \in Axis |-> None]
  /\ live = Env
  /\ resolver = Env
  /\ unsaved = {}
  /\ job = [c \in Client |-> NoJob]
  /\ merged = [c \in Client |-> Env]
  /\ pc = [c \in Client |-> "idle"]

(* What an update of the command leaves: null keeps, blank clears. *)
NewCmd(old, update) == IF update = Keep THEN old ELSE update

(* update_{stt,tts}_config: clone the live configuration under its lock    *)
(* and apply the update to the clone.                                      *)
SetConfig(c, ax, e, u) ==
  /\ pc[c] = "idle"
  /\ job' = [job EXCEPT ![c].axis = ax]
  /\ merged' = [merged EXCEPT ![c] =
       [live EXCEPT ![ax].enabled = e, ![ax].cmd = NewCmd(@, u)]]
  /\ pc' = [pc EXCEPT ![c] = "saveCfg"]
  /\ UNCHANGED <<live, resolver, cfgFile, chainFile, unsaved>>

(* save_{stt,tts}_override of the clone; an error is logged, not returned. *)
SaveCfg(c) ==
  LET ax == job[c].axis IN
  /\ pc[c] = "saveCfg"
  /\ \/ /\ cfgFile' = [cfgFile EXCEPT ![ax] =
             [enabled |-> merged[c][ax].enabled, cmd |-> merged[c][ax].cmd]]
        /\ unsaved' = unsaved \ {<<ax, "cfg">>}
     \/ /\ UNCHANGED cfgFile
        /\ unsaved' = unsaved \cup {<<ax, "cfg">>}
  /\ pc' = [pc EXCEPT ![c] = "install"]
  /\ UNCHANGED <<live, resolver, chainFile, job, merged>>

(* update_{stt,tts}_provider_chain with a chain the validator accepted. *)
SetChain(c, ax, ch) ==
  /\ pc[c] = "idle"
  /\ job' = [job EXCEPT ![c] = [axis |-> ax, chain |-> ch]]
  /\ pc' = [pc EXCEPT ![c] = "saveChain"]
  /\ UNCHANGED <<live, resolver, cfgFile, chainFile, unsaved, merged>>

(* reset_{stt,tts}_provider_chain. *)
ResetChain(c, ax) ==
  /\ pc[c] = "idle"
  /\ job' = [job EXCEPT ![c] = [axis |-> ax, chain |-> DefaultChain]]
  /\ pc' = [pc EXCEPT ![c] = "clearChain"]
  /\ UNCHANGED <<live, resolver, cfgFile, chainFile, unsaved, merged>>

(* clear_*_chain_override; whatever it returns, the reset goes on as an    *)
(* update with the default chain.                                          *)
ClearChain(c) ==
  /\ pc[c] = "clearChain"
  /\ \/ chainFile' = [chainFile EXCEPT ![job[c].axis] = None]
     \/ UNCHANGED chainFile
  /\ pc' = [pc EXCEPT ![c] = "saveChain"]
  /\ UNCHANGED <<live, resolver, cfgFile, unsaved, job, merged>>

(* save_*_chain_override; an error is logged, not returned. *)
SaveChain(c) ==
  LET ax == job[c].axis IN
  /\ pc[c] = "saveChain"
  /\ \/ /\ chainFile' = [chainFile EXCEPT ![ax] = job[c].chain]
        /\ unsaved' = unsaved \ {<<ax, "chain">>}
     \/ /\ UNCHANGED chainFile
        /\ unsaved' = unsaved \cup {<<ax, "chain">>}
  /\ pc' = [pc EXCEPT ![c] = "clone"]
  /\ UNCHANGED <<live, resolver, cfgFile, job, merged>>

(* Mutant: The chain handler starts from the startup snapshot, the bug that the    *)
(* comment of PR 13 describes.                                             *)
CloneLive_FromEnv(c) ==
  /\ pc[c] = "clone"
  /\ merged' = [merged EXCEPT ![c] = [Env EXCEPT ![job[c].axis].chain = job[c].chain]]
  /\ pc' = [pc EXCEPT ![c] = "install"]
  /\ UNCHANGED <<live, resolver, cfgFile, chainFile, unsaved, job>>

(* The chain handlers clone the live configuration after the save. *)
CloneLive(c) ==
  /\ pc[c] = "clone"
  /\ merged' = [merged EXCEPT ![c] = [live EXCEPT ![job[c].axis].chain = job[c].chain]]
  /\ pc' = [pc EXCEPT ![c] = "install"]
  /\ UNCHANGED <<live, resolver, cfgFile, chainFile, unsaved, job>>

(* Mutant: The resolver is built from the live configuration before the commit. *)
InstallResolver_Old(c) ==
  LET ax == job[c].axis IN
  /\ pc[c] = "install"
  /\ resolver' = [resolver EXCEPT ![ax] = live[ax]]
  /\ pc' = [pc EXCEPT ![c] = "commit"]
  /\ UNCHANGED <<live, cfgFile, chainFile, unsaved, job, merged>>

(* A new resolver for the axis, built from the clone. *)
InstallResolver(c) ==
  LET ax == job[c].axis IN
  /\ pc[c] = "install"
  /\ resolver' = [resolver EXCEPT ![ax] = merged[c][ax]]
  /\ pc' = [pc EXCEPT ![c] = "commit"]
  /\ UNCHANGED <<live, cfgFile, chainFile, unsaved, job, merged>>

(* The whole clone becomes the live configuration. *)
CommitLive(c) ==
  /\ pc[c] = "commit"
  /\ live' = merged[c]
  /\ pc' = [pc EXCEPT ![c] = "idle"]
  /\ job' = [job EXCEPT ![c] = NoJob]
  /\ merged' = [merged EXCEPT ![c] = Env]
  /\ UNCHANGED <<resolver, cfgFile, chainFile, unsaved>>

(* The core dies between any two steps and App::new starts it again. *)
Restart ==
  /\ live' = [ax \in Axis |-> Startup(ax)]
  /\ resolver' = [ax \in Axis |-> Startup(ax)]
  /\ pc' = [c \in Client |-> "idle"]
  /\ job' = [c \in Client |-> NoJob]
  /\ merged' = [c \in Client |-> Env]
  /\ unsaved' = {}
  /\ UNCHANGED <<cfgFile, chainFile>>

Handler(c) ==
  \/ \E ax \in Axis, e \in BOOLEAN, u \in Cmd \cup {Keep, None} : SetConfig(c, ax, e, u)
  \/ \E ax \in Axis, ch \in Chain : SetChain(c, ax, ch)
  \/ \E ax \in Axis : ResetChain(c, ax)
  \/ SaveCfg(c)
  \/ ClearChain(c)
  \/ SaveChain(c)
  \/ CloneLive(c)
  \/ InstallResolver(c)
  \/ CommitLive(c)

Next == (\E c \in Client : Handler(c)) \/ Restart

Spec == Init /\ [][Next]_vars

-----------------------------------------------------------------------------
(***************************************************************************)
(* Properties                                                              *)
(***************************************************************************)

Settled == \A c \in Client : pc[c] = "idle"

(* "live_audio + Resolver atomisch umstellen": when no handler is running, *)
(* both resolvers are built from the live configuration, so that what the  *)
(* status reports is what the next utterance uses.                         *)
ResolverMatchesLive == Settled => resolver = live

(* A restart changes nothing a user has set, unless the save was reported  *)
(* to have failed: the override files, laid over the environment, give     *)
(* back the live configuration.  One thing comes back: a command that the  *)
(* user cleared and the environment names, for a cleared field is left out *)
(* of the file (skip_serializing_if), and an absent one keeps the value.   *)
RestartRestores ==
  Settled =>
    \A ax \in Axis :
      /\ <<ax, "cfg">> \notin unsaved =>
           /\ Startup(ax).enabled = live[ax].enabled
           /\ \/ Startup(ax).cmd = live[ax].cmd
              \/ live[ax].cmd = None /\ Startup(ax).cmd = Env[ax].cmd
      /\ <<ax, "chain">> \notin unsaved => Startup(ax).chain = live[ax].chain

=============================================================================
