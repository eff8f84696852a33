-------------------------- MODULE TextSettingsProofs --------------------------
(***************************************************************************)
(* Proofs about TextSettings: for any number of connections no two of      *)
(* which edit the same part, any values and chains and any environment, in *)
(* every interleaving of their handlers, with saves failing and restarts   *)
(* anywhere, a restart gives back what was set, and the key on disk is the *)
(* key in use.  The resolver, which the run text_settings_resolver shows   *)
(* to go stale, is what is live as long as no two handlers overlap: this   *)
(* holds whoever edits which part.                                         *)
(***************************************************************************)
EXTENDS TextSettings, TLAPS

(* Each part has one connection that edits it. *)
DisjointOwns == \A c, d \in Client : c # d => Owns[c] \cap Owns[d] = {}

(* What a start makes of a part, and what it may do to a live one. *)
Given(p) == IF file[p] # None THEN file[p] ELSE Env[p]
Back(p)  == Given(p) = live[p] \/ (live[p] = None /\ Given(p) = Env[p])

Any == Value \cup Chain \cup {None}
Types ==
  /\ live \in Parts
  /\ file \in [Stored -> Any]
  /\ part \in [Client -> Part]
  /\ new \in [Client -> Any]
  /\ pc \in [Client -> Steps]
  /\ "api_key" \notin unsaved

(* A handler writes a part of its own connection; only the chain is reset, *)
(* and only the key is set apart from a commit.                            *)
OwnPart ==
  \A c \in Client :
    /\ pc[c] # "idle" => part[c] \in Owns[c]
    /\ pc[c] = "clear" => part[c] = "chain"
    /\ pc[c] = "setKey" => part[c] = "api_key"
    /\ pc[c] = "commit" => part[c] # "api_key"

(* What a handler has saved is on disk until it is done. *)
SavedIsNew ==
  \A c \in Client :
    (pc[c] \in {"setKey", "read", "commit"} /\ part[c] \in Stored /\ part[c] \notin unsaved)
      => file[part[c]] = new[c]

(* The key in use is the one on disk, but between its save and its use. *)
KeyInv ==
  (\A c \in Client : pc[c] # "setKey") => file["api_key"] = live["api_key"]

(* A part nobody is writing reads back as it is live. *)
Quiet(p) == \A c \in Client : pc[c] = "idle" \/ part[c] # p
BackInv == \A p \in Stored \ {"api_key"} : Quiet(p) /\ p \notin unsaved => Back(p)

Inv == Types /\ OwnPart /\ SavedIsNew /\ KeyInv /\ BackInv

-----------------------------------------------------------------------------
(* Two handlers at work write different parts. *)
LEMMA OneWriterEach ==
  ASSUME DisjointOwns, OwnPart, NEW c \in Client, NEW d \in Client,
         pc[c] # "idle", pc[d] # "idle", c # d
  PROVE  part[c] # part[d]
BY DEF DisjointOwns, OwnPart

(* The core starts with what the environment gives. *)
LEMMA InitInv == Init => Inv
<1> SUFFICES ASSUME Init PROVE Inv
  OBVIOUS
<1>1. Types
  BY EnvAssumption DEF Init, Types, Any, Parts, Steps, Part, Config
<1>2. OwnPart /\ SavedIsNew
  BY DEF Init, OwnPart, SavedIsNew
<1>3. KeyInv
  BY EnvAssumption DEF Init, KeyInv, Stored, Part, Config
<1>4. BackInv
  BY DEF Init, BackInv, Back, Given
<1> QED BY <1>1, <1>2, <1>3, <1>4 DEF Inv

LEMMA BeginStep ==
  ASSUME DisjointOwns, Inv, NEW c \in Client, NEW p \in Part, NEW v \in Any, NEW step \in {"save", "clear"}, Begin(c, p, v, step), step = "clear" => p = "chain"
  PROVE  Inv'
<1>1. Types'
  BY DEF Inv, Types, Begin, ToRead, Parts, Steps, Any, Part, Config, Stored
<1>2. OwnPart'
  BY DEF Inv, Types, OwnPart, Begin, ToRead
<1>3. SavedIsNew'
  BY OneWriterEach DEF Inv, Types, OwnPart, SavedIsNew, Begin, ToRead, Stored
<1>4. KeyInv'
  BY OneWriterEach DEF Inv, Types, OwnPart, SavedIsNew, KeyInv, Begin, ToRead, Stored, Part
<1>5. BackInv'
  BY OneWriterEach DEF Inv, Types, OwnPart, SavedIsNew, BackInv, Quiet, Back, Given, Begin, ToRead, Stored, Part
<1> QED BY <1>1, <1>2, <1>3, <1>4, <1>5 DEF Inv

LEMMA ClearChainStep ==
  ASSUME DisjointOwns, Inv, NEW c \in Client, ClearChain(c)
  PROVE  Inv'
<1>1. Types'
  BY DEF Inv, Types, ClearChain, Parts, Steps, Any, Part, Config, Stored
<1>2. OwnPart'
  BY DEF Inv, Types, OwnPart, ClearChain
<1>3. SavedIsNew'
  BY OneWriterEach DEF Inv, Types, OwnPart, SavedIsNew, ClearChain, Stored
<1>4. KeyInv'
  BY OneWriterEach DEF Inv, Types, OwnPart, SavedIsNew, KeyInv, ClearChain, Stored, Part
<1>5. BackInv'
  BY OneWriterEach DEF Inv, Types, OwnPart, SavedIsNew, BackInv, Quiet, Back, Given, ClearChain, Stored, Part
<1> QED BY <1>1, <1>2, <1>3, <1>4, <1>5 DEF Inv

LEMMA SaveStep ==
  ASSUME DisjointOwns, Inv, NEW c \in Client, Save(c)
  PROVE  Inv'
<1>1. Types'
  BY DEF Inv, Types, Save, Parts, Steps, Any, Part, Config, Stored
<1>2. OwnPart'
  BY DEF Inv, Types, OwnPart, Save
<1>3. SavedIsNew'
  BY OneWriterEach DEF Inv, Types, OwnPart, SavedIsNew, Save, Stored
<1>4. KeyInv'
  BY OneWriterEach DEF Inv, Types, OwnPart, SavedIsNew, KeyInv, Save, Stored, Part
<1>5. BackInv'
  BY OneWriterEach DEF Inv, Types, OwnPart, SavedIsNew, BackInv, Quiet, Back, Given, Save, Stored, Part
<1> QED BY <1>1, <1>2, <1>3, <1>4, <1>5 DEF Inv

LEMMA SaveFailsStep ==
  ASSUME DisjointOwns, Inv, NEW c \in Client, SaveFails(c)
  PROVE  Inv'
<1>1. Types'
  BY DEF Inv, Types, SaveFails, Parts, Steps, Any, Part, Config, Stored
<1>2. OwnPart'
  BY DEF Inv, Types, OwnPart, SaveFails
<1>3. SavedIsNew'
  BY OneWriterEach DEF Inv, Types, OwnPart, SavedIsNew, SaveFails, Stored
<1>4. KeyInv'
  BY OneWriterEach DEF Inv, Types, OwnPart, SavedIsNew, KeyInv, SaveFails, Stored, Part
<1>5. BackInv'
  BY OneWriterEach DEF Inv, Types, OwnPart, SavedIsNew, BackInv, Quiet, Back, Given, SaveFails, Stored, Part
<1> QED BY <1>1, <1>2, <1>3, <1>4, <1>5 DEF Inv

LEMMA SaveKeyFailsStep ==
  ASSUME DisjointOwns, Inv, NEW c \in Client, SaveKeyFails(c)
  PROVE  Inv'
<1>1. Types'
  BY DEF Inv, Types, SaveKeyFails, Idle, Parts, Steps, Any, Part, Config, Stored
<1>2. OwnPart'
  BY DEF Inv, Types, OwnPart, SaveKeyFails, Idle
<1>3. SavedIsNew'
  BY OneWriterEach DEF Inv, Types, OwnPart, SavedIsNew, SaveKeyFails, Idle, Stored
<1>4. KeyInv'
  BY OneWriterEach DEF Inv, Types, OwnPart, SavedIsNew, KeyInv, SaveKeyFails, Idle, Stored, Part
<1>5. BackInv'
  BY OneWriterEach DEF Inv, Types, OwnPart, SavedIsNew, BackInv, Quiet, Back, Given, SaveKeyFails, Idle, Stored, Part
<1> QED BY <1>1, <1>2, <1>3, <1>4, <1>5 DEF Inv

LEMMA SetLiveKeyStep ==
  ASSUME DisjointOwns, Inv, NEW c \in Client, SetLiveKey(c)
  PROVE  Inv'
<1>1. Types'
  BY DEF Inv, Types, SetLiveKey, Parts, Steps, Any, Part, Config, Stored
<1>2. OwnPart'
  BY DEF Inv, Types, OwnPart, SetLiveKey
<1>3. SavedIsNew'
  BY OneWriterEach DEF Inv, Types, OwnPart, SavedIsNew, SetLiveKey, Stored
<1>4. KeyInv'
  <2>1. pc[c] = "setKey" /\ part[c] = "api_key"
    BY DEF Inv, OwnPart, SetLiveKey
  <2>2. file["api_key"] = new[c]
    BY <2>1 DEF Inv, Types, SavedIsNew, Stored, Part
  <2>3. file' = file /\ live'["api_key"] = new[c]
    BY DEF Inv, Types, SetLiveKey, Parts, Part
  <2> QED BY <2>2, <2>3 DEF KeyInv
<1>5. BackInv'
  BY OneWriterEach DEF Inv, Types, OwnPart, SavedIsNew, BackInv, Quiet, Back, Given, SetLiveKey, Stored, Part
<1> QED BY <1>1, <1>2, <1>3, <1>4, <1>5 DEF Inv

LEMMA ReadPartStep ==
  ASSUME DisjointOwns, Inv, NEW c \in Client, ReadPart(c)
  PROVE  Inv'
<1>1. Types'
  BY DEF Inv, Types, ReadPart, Parts, Steps, Any, Part, Config, Stored
<1>2. OwnPart'
  BY DEF Inv, Types, OwnPart, ReadPart
<1>3. SavedIsNew'
  BY OneWriterEach DEF Inv, Types, OwnPart, SavedIsNew, ReadPart, Stored
<1>4. KeyInv'
  BY OneWriterEach DEF Inv, Types, OwnPart, SavedIsNew, KeyInv, ReadPart, Stored, Part
<1>5. BackInv'
  BY OneWriterEach DEF Inv, Types, OwnPart, SavedIsNew, BackInv, Quiet, Back, Given, ReadPart, Stored, Part
<1> QED BY <1>1, <1>2, <1>3, <1>4, <1>5 DEF Inv

LEMMA InstallResolverStep ==
  ASSUME DisjointOwns, Inv, NEW c \in Client, InstallResolver(c)
  PROVE  Inv'
<1>1. Types'
  BY DEF Inv, Types, InstallResolver, Idle, Parts, Steps, Any, Part, Config, Stored
<1>2. OwnPart'
  BY DEF Inv, Types, OwnPart, InstallResolver, Idle
<1>3. SavedIsNew'
  BY OneWriterEach DEF Inv, Types, OwnPart, SavedIsNew, InstallResolver, Idle, Stored
<1>4. KeyInv'
  BY OneWriterEach DEF Inv, Types, OwnPart, SavedIsNew, KeyInv, InstallResolver, Idle, Stored, Part
<1>5. BackInv'
  BY OneWriterEach DEF Inv, Types, OwnPart, SavedIsNew, BackInv, Quiet, Back, Given, InstallResolver, Idle, Stored, Part
<1> QED BY <1>1, <1>2, <1>3, <1>4, <1>5 DEF Inv

LEMMA CommitLiveStep ==
  ASSUME DisjointOwns, Inv, NEW c \in Client, CommitLive(c)
  PROVE  Inv'
<1>1. Types'
  BY DEF Inv, Types, CommitLive, Idle, Parts, Steps, Any, Part, Config, Stored
<1>2. OwnPart'
  BY DEF Inv, Types, OwnPart, CommitLive, Idle
<1>3. SavedIsNew'
  BY OneWriterEach DEF Inv, Types, OwnPart, SavedIsNew, CommitLive, Idle, Stored
<1>4. KeyInv'
  BY OneWriterEach DEF Inv, Types, OwnPart, SavedIsNew, KeyInv, CommitLive, Idle, Stored, Part
<1>5. BackInv'
  <2> SUFFICES ASSUME NEW p \in Stored \ {"api_key"}, Quiet(p)', p \notin unsaved'
               PROVE  Back(p)'
    BY DEF BackInv
  <2>1. file' = file /\ unsaved' = unsaved /\ p \in Part
    BY DEF CommitLive, Stored
  <2>2. CASE p = part[c]
    <3>1. file[p] = new[c]
      BY <2>1, <2>2 DEF Inv, SavedIsNew, CommitLive
    <3>2. live'[p] = new[c]
      BY <2>1, <2>2 DEF Inv, Types, Parts, CommitLive
    <3> QED BY <2>1, <3>1, <3>2 DEF Back, Given
  <2>3. CASE p # part[c]
    <3>1. Quiet(p)
      BY <2>3 DEF Inv, Types, Quiet, CommitLive, Idle
    <3>2. live'[p] = live[p]
      BY <2>1, <2>3 DEF Inv, Types, Parts, CommitLive
    <3>3. Back(p)
      BY <2>1, <3>1 DEF Inv, BackInv
    <3> QED BY <2>1, <3>2, <3>3 DEF Back, Given
  <2> QED BY <2>2, <2>3
<1> QED BY <1>1, <1>2, <1>3, <1>4, <1>5 DEF Inv

LEMMA RestartStep ==
  ASSUME DisjointOwns, Inv, Restart
  PROVE  Inv'
<1>1. Types'
  BY EnvAssumption DEF Inv, Types, Restart, Startup, Parts, Steps, Any, Part, Config, Stored
<1>2. OwnPart' /\ SavedIsNew'
  BY DEF OwnPart, SavedIsNew, Restart
<1>3. KeyInv'
  BY EnvAssumption DEF Inv, Types, KeyInv, Restart, Startup, Stored, Part, Config
<1>4. BackInv'
  BY DEF BackInv, Back, Given, Restart, Startup, Stored
<1> QED BY <1>1, <1>2, <1>3, <1>4 DEF Inv

(* A step that leaves the variables of Inv alone keeps it. *)
LEMMA StutterStep == Inv /\ UNCHANGED vars => Inv'
<1> SUFFICES ASSUME Inv, UNCHANGED vars PROVE Inv'
  OBVIOUS
<1>1. Types' /\ OwnPart'
  BY DEF Inv, Types, OwnPart, vars
<1>2. SavedIsNew' /\ KeyInv'
  BY DEF Inv, SavedIsNew, KeyInv, vars
<1>3. BackInv'
  BY DEF Inv, BackInv, Quiet, Back, Given, vars
<1> QED BY <1>1, <1>2, <1>3 DEF Inv

LEMMA StepInv ==
  ASSUME DisjointOwns, Inv, [Next]_vars
  PROVE  Inv'
<1>1. ASSUME NEW c \in Client, Handler(c)
      PROVE  Inv'
  <2>1. ASSUME NEW p \in Config, NEW u \in Value \cup {Keep, None}, SetConfig(c, p, u)
        PROVE  Inv'
    <3> DEFINE v == IF u = Keep THEN live[p] ELSE u
    <3>1. p \in Part /\ v \in Any
      BY DEF Inv, Types, Parts, Part, Any
    <3>2. Begin(c, p, v, "save")
      BY <2>1 DEF SetConfig
    <3> QED BY <3>1, <3>2, BeginStep
  <2>2. ASSUME NEW ch \in Chain, SetChain(c, ch)
        PROVE  Inv'
    BY <2>2, BeginStep DEF SetChain, Part, Any
  <2>3. ASSUME NEW k \in Value \cup {None}, SetKey(c, k)
        PROVE  Inv'
    BY <2>3, BeginStep DEF SetKey, Part, Any
  <2>4. ASSUME ResetChain(c)
        PROVE  Inv'
    BY <2>4, BeginStep, ChainAssumption DEF ResetChain, Part, Any
  <2> QED BY <1>1, <2>1, <2>2, <2>3, <2>4, ClearChainStep, SaveStep, SaveFailsStep,
             SaveKeyFailsStep, SetLiveKeyStep, ReadPartStep, InstallResolverStep, CommitLiveStep
          DEF Handler
<1>2. CASE Restart
  BY <1>2, RestartStep
<1>3. CASE UNCHANGED vars
  BY <1>3, StutterStep
<1> QED BY <1>1, <1>2, <1>3 DEF Next

(* What the text handlers (app.rs, update_llamafile_config and its kin)    *)
(* keep of the parts each connection writes.                               *)
THEOREM Invariance == ASSUME DisjointOwns PROVE Spec => []Inv
<1>1. DisjointOwns
  OBVIOUS
<1>2. Inv /\ [Next]_vars => Inv'
  BY <1>1, StepInv
<1> QED BY <1>2, InitInv, PTL DEF Spec

-----------------------------------------------------------------------------
(* Whatever its editors write and in whatever order their handlers run,    *)
(* when none is at work a restart undoes nothing but a failed save, the    *)
(* cloud_http configuration and the clearing of a value the environment    *)
(* names (app.rs, App::new; settings_store.rs).                            *)
THEOREM SettingsSurvive == ASSUME DisjointOwns PROVE Spec => []RestartRestores
<1>1. ASSUME Inv PROVE RestartRestores
  <2> SUFFICES ASSUME Settled, NEW p \in Stored \ unsaved
               PROVE  Startup[p] = live[p] \/ (live[p] = None /\ Startup[p] = Env[p])
    BY DEF RestartRestores
  <2>1. p \in Part /\ Startup[p] = Given(p)
    BY DEF Startup, Given, Stored
  <2>2. CASE p = "api_key"
    <3>1. file[p] = live[p]
      BY <1>1, <2>2 DEF Inv, KeyInv, Settled
    <3>2. Env[p] = None
      BY <2>2, EnvAssumption
    <3> QED BY <2>1, <3>1, <3>2 DEF Given
  <2>3. CASE p # "api_key"
    <3>1. Quiet(p)
      BY DEF Quiet, Settled
    <3> QED BY <1>1, <2>1, <2>3, <3>1 DEF Inv, BackInv, Back
  <2> QED BY <2>2, <2>3
<1> QED BY <1>1, Invariance, PTL

(* The key in use is the key on disk unless its own handler is at work,    *)
(* whatever saves failed (app.rs, set_cloud_http_api_key).                 *)
THEOREM KeyInUseIsStored == ASSUME DisjointOwns PROVE Spec => []KeyOnDiskIsLive
<1>1. ASSUME Inv PROVE KeyOnDiskIsLive
  BY <1>1 DEF Inv, OwnPart, KeyInv, KeyOnDiskIsLive
<1> QED BY <1>1, Invariance, PTL

-----------------------------------------------------------------------------
(* One handler at a time: the resolver.                                   *)

(* What the handlers have in hand. *)
TurnTypes ==
  /\ live \in Parts /\ resolver \in Parts
  /\ part \in [Client -> Part]
  /\ new \in [Client -> Any]
  /\ view \in [Client -> Parts]
  /\ todo \in [Client -> Seq(Part)]
  /\ pc \in [Client -> Steps]
TurnInv == TurnTypes /\ InTurn

LEMMA ReadsTheOthers ==
  ASSUME NEW p \in Part
  PROVE  /\ ToRead(p) \in Seq(Part)
         /\ \A q \in Part \ {p} : \E i \in 1 .. Len(ToRead(p)) : ToRead(p)[i] = q
         /\ \A i \in 1 .. Len(ToRead(p)) : ToRead(p)[i] = p => p = "api_key"
  <1>1. /\ ReadOrder[1] = "llamafile" /\ ReadOrder[2] = "local_http"
        /\ ReadOrder[3] = "cloud_http" /\ ReadOrder[4] = "api_key" /\ ReadOrder[5] = "chain"
        /\ Len(ReadOrder) = 5 /\ ReadOrder \in Seq(Part)
    BY DEF ReadOrder, Part, Config
  <1>2. Part = {"llamafile", "local_http", "cloud_http", "api_key", "chain"}
    BY DEF Part, Config
  <1>3. CASE p = "api_key"
    <2>1. ToRead(p) = ReadOrder
      BY <1>3 DEF ToRead
    <2> QED BY <1>1, <1>2, <1>3, <2>1
  <1>4. CASE p # "api_key"
    <2> DEFINE own == CHOOSE i \in 1 .. 5 : ReadOrder[i] = p
               rest == [i \in 1 .. 4 |-> IF i < own THEN ReadOrder[i] ELSE ReadOrder[i + 1]]
    <2>1. ToRead(p) = rest
      BY <1>4 DEF ToRead
    <2>2. \E i \in 1 .. 5 : ReadOrder[i] = p
      BY <1>1, <1>2
    <2>3. own \in 1 .. 5 /\ ReadOrder[own] = p
      BY <2>2
    <2> HIDE DEF own
    <2>4. \A i \in 1 .. 4 : rest[i] \in Part \ {p}
      BY <1>1, <1>2, <2>3
    <2>5. rest \in Seq(Part) /\ Len(rest) = 4
      BY <2>4
    <2>6. ASSUME NEW q \in Part \ {p}
          PROVE  \E i \in 1 .. 4 : rest[i] = q
      <3>1. PICK j \in 1 .. 5 : ReadOrder[j] = q
        BY <1>1, <1>2
      <3>2. j # own
        BY <2>3, <3>1
      <3>3. CASE j < own
        BY <2>3, <3>1, <3>3
      <3>4. CASE j > own
        <4>1. j - 1 \in 1 .. 4 /\ ~ (j - 1 < own) /\ j - 1 + 1 = j
          BY <2>3, <3>4
        <4>2. rest[j - 1] = q
          BY <3>1, <4>1
        <4> QED BY <4>1, <4>2
      <3> QED BY <2>3, <3>2, <3>3, <3>4
    <2> HIDE DEF rest
    <2> QED BY <2>1, <2>4, <2>5, <2>6
  <1> QED BY <1>3, <1>4

LEMMA InitTurn == Init => TurnInv
  <1> SUFFICES ASSUME Init PROVE TurnInv
    OBVIOUS
  <1>1. NoParts \in Parts
    BY DEF NoParts, Parts
  <1>2. TurnTypes
    BY <1>1, EnvAssumption DEF Init, TurnTypes, Any, Part, Steps
  <1>3. InTurn
    BY DEF Init, InTurn, TurnOf, ResolverMatchesLive
  <1> QED BY <1>2, <1>3 DEF TurnInv

(* A step of the one handler at work. *)
LEMMA TurnKept ==
  ASSUME InTurn, crossed' = crossed, NEW c \in Client, pc[c] # "idle",
         \A d \in Client \ {c} : pc'[d] = pc[d],
         ~crossed => TurnOf(c)' /\ (pc'[c] = "idle" => resolver' = live')
  PROVE  InTurn'
  <1> SUFFICES ASSUME ~crossed
               PROVE  /\ \A e, d \in Client : pc'[e] # "idle" /\ pc'[d] # "idle" => e = d
                      /\ \A d \in Client : TurnOf(d)'
                      /\ ResolverMatchesLive'
    BY DEF InTurn
  <1>1. \A d \in Client \ {c} : pc'[d] = "idle"
    BY DEF InTurn
  <1>2. \A e, d \in Client : pc'[e] # "idle" /\ pc'[d] # "idle" => e = d
    BY <1>1
  <1>3. \A d \in Client \ {c} : TurnOf(d)'
    BY <1>1 DEF TurnOf
  <1>4. ResolverMatchesLive'
    BY DEF ResolverMatchesLive, Settled
  <1> QED BY <1>2, <1>3, <1>4

LEMMA TurnBegins ==
  ASSUME TurnInv, NEW c \in Client, NEW p \in Part, NEW v \in Any,
         NEW step \in {"save", "clear"}, Begin(c, p, v, step)
  PROVE  TurnInv'
  <1>1. TurnTypes'
    <2>1. [NoParts EXCEPT ![p] = v] \in Parts
      BY DEF NoParts, Parts, Any
    <2>2. ToRead(p) \in Seq(Part)
      BY ReadsTheOthers
    <2> QED BY <2>1, <2>2 DEF TurnInv, TurnTypes, Begin, Steps
  <1>2. InTurn'
    <2> SUFFICES ASSUME ~crossed'
                 PROVE  /\ \A e, d \in Client : pc'[e] # "idle" /\ pc'[d] # "idle" => e = d
                        /\ \A d \in Client : TurnOf(d)'
                        /\ ResolverMatchesLive'
      BY DEF InTurn
    <2>1. ~crossed /\ \A d \in Client : pc[d] = "idle"
      BY DEF Begin
    <2>2. resolver = live /\ resolver' = resolver /\ live' = live
      BY <2>1 DEF TurnInv, InTurn, ResolverMatchesLive, Settled, Begin
    <2>3. \A d \in Client \ {c} : pc'[d] = "idle"
      BY <2>1 DEF TurnInv, TurnTypes, Begin
    <2>4. pc'[c] = step
      BY DEF TurnInv, TurnTypes, Begin
    <2>5. /\ part'[c] = p /\ new'[c] = v
          /\ view'[c] = [NoParts EXCEPT ![p] = v] /\ todo'[c] = ToRead(p)
      BY DEF TurnInv, TurnTypes, Begin
    <2>6. view'[c][p] = v
      BY <2>5 DEF NoParts
    <2>7. /\ \A q \in Part \ {p} : ToCome(c, q)'
          /\ ToCome(c, p)' => p = "api_key"
      <3> DEFINE parts == ToRead(p)
      <3>1. /\ \A q \in Part \ {p} : \E i \in 1 .. Len(parts) : parts[i] = q
            /\ \A i \in 1 .. Len(parts) : parts[i] = p => p = "api_key"
        BY ReadsTheOthers
      <3>2. todo'[c] = parts
        BY <2>5
      <3> HIDE DEF parts
      <3> QED BY <3>1, <3>2 DEF ToCome
    <2>8. TurnOf(c)'
      BY <2>2, <2>4, <2>5, <2>6, <2>7 DEF TurnOf
    <2>9. \A d \in Client \ {c} : TurnOf(d)'
      BY <2>3 DEF TurnOf
    <2> QED BY <2>3, <2>4, <2>8, <2>9 DEF ResolverMatchesLive, Settled
  <1> QED BY <1>1, <1>2 DEF TurnInv

LEMMA IdleTurn ==
  ASSUME TurnTypes, NEW c \in Client, Idle(c)
  PROVE  /\ part' \in [Client -> Part] /\ new' \in [Client -> Any] /\ view' \in [Client -> Parts]
         /\ todo' \in [Client -> Seq(Part)] /\ pc' \in [Client -> Steps]
         /\ pc'[c] = "idle" /\ \A d \in Client \ {c} : pc'[d] = pc[d]
         /\ TurnOf(c)'
  <1>1. NoParts \in Parts /\ "chain" \in Part /\ "idle" \in Steps /\ None \in Any
        /\ << >> \in Seq(Part)
    BY DEF NoParts, Parts, Part, Steps, Any
  <1>2. pc'[c] = "idle" /\ \A d \in Client \ {c} : pc'[d] = pc[d]
    BY DEF TurnTypes, Idle
  <1>3. TurnOf(c)'
    BY <1>2 DEF TurnOf
  <1> QED BY <1>1, <1>2, <1>3 DEF TurnTypes, Idle

LEMMA TurnGoesOn ==
  ASSUME TurnInv, NEW c \in Client,
         ClearChain(c) \/ Save(c) \/ SaveFails(c) \/ SaveKeyFails(c) \/ SetLiveKey(c)
  PROVE  TurnInv'
  <1>1. CASE ClearChain(c)
    <2>1. /\ UNCHANGED <<live, resolver, part, new, view, todo, crossed>>
          /\ pc' = [pc EXCEPT ![c] = "save"] /\ pc[c] = "clear"
      BY <1>1 DEF ClearChain
    <2>2. TurnTypes' /\ pc'[c] = "save" /\ \A d \in Client \ {c} : pc'[d] = pc[d]
      BY <2>1 DEF TurnInv, TurnTypes, Steps
    <2>3. ~crossed => TurnOf(c)'
      BY <2>1, <2>2 DEF TurnInv, InTurn, TurnOf, ToCome
    <2> QED BY <2>1, <2>2, <2>3, TurnKept DEF TurnInv
  <1>2. CASE Save(c)
    <2>1. /\ UNCHANGED <<live, resolver, part, new, view, todo, crossed>>
          /\ pc' = [pc EXCEPT ![c] = IF part[c] = "api_key" THEN "setKey" ELSE "read"]
          /\ pc[c] = "save"
      BY <1>2 DEF Save
    <2>2. /\ TurnTypes' /\ \A d \in Client \ {c} : pc'[d] = pc[d]
          /\ pc'[c] = IF part[c] = "api_key" THEN "setKey" ELSE "read"
      BY <2>1 DEF TurnInv, TurnTypes, Steps
    <2>3. ~crossed => TurnOf(c)'
      BY <2>1, <2>2 DEF TurnInv, InTurn, TurnOf, ToCome
    <2> QED BY <2>1, <2>2, <2>3, TurnKept DEF TurnInv
  <1>3. CASE SaveFails(c)
    <2>1. /\ UNCHANGED <<live, resolver, part, new, view, todo, crossed>>
          /\ pc' = [pc EXCEPT ![c] = "read"] /\ pc[c] = "save" /\ part[c] # "api_key"
      BY <1>3 DEF SaveFails
    <2>2. TurnTypes' /\ pc'[c] = "read" /\ \A d \in Client \ {c} : pc'[d] = pc[d]
      BY <2>1 DEF TurnInv, TurnTypes, Steps
    <2>3. ~crossed => TurnOf(c)'
      BY <2>1, <2>2 DEF TurnInv, InTurn, TurnOf, ToCome
    <2> QED BY <2>1, <2>2, <2>3, TurnKept DEF TurnInv
  <1>4. CASE SaveKeyFails(c)
    <2>1. UNCHANGED <<live, resolver, crossed>> /\ pc[c] = "save" /\ Idle(c)
      BY <1>4 DEF SaveKeyFails
    <2>2. TurnTypes' /\ TurnOf(c)' /\ \A d \in Client \ {c} : pc'[d] = pc[d]
      BY <2>1, IdleTurn DEF TurnInv, TurnTypes
    <2>3. ~crossed => resolver' = live'
      BY <2>1 DEF TurnInv, InTurn, TurnOf
    <2> QED BY <2>1, <2>2, <2>3, TurnKept DEF TurnInv
  <1>5. CASE SetLiveKey(c)
    <2>1. /\ UNCHANGED <<resolver, part, new, view, todo, crossed>>
          /\ live' = [live EXCEPT !["api_key"] = new[c]]
          /\ pc' = [pc EXCEPT ![c] = "read"] /\ pc[c] = "setKey"
      BY <1>5 DEF SetLiveKey
    <2>2. TurnTypes' /\ pc'[c] = "read" /\ \A d \in Client \ {c} : pc'[d] = pc[d]
      BY <2>1 DEF TurnInv, TurnTypes, Steps, Parts, Any
    <2>3. /\ "api_key" \in Part /\ live'["api_key"] = new[c]
          /\ \A q \in Part \ {"api_key"} : live'[q] = live[q]
      BY <2>1 DEF TurnInv, TurnTypes, Parts, Part
    <2>4. ~crossed => TurnOf(c)'
      BY <2>1, <2>2, <2>3 DEF TurnInv, InTurn, TurnOf, ToCome
    <2> QED BY <2>1, <2>2, <2>4, TurnKept DEF TurnInv
  <1> QED BY <1>1, <1>2, <1>3, <1>4, <1>5

LEMMA TurnReads ==
  ASSUME TurnInv, NEW c \in Client, ReadPart(c)
  PROVE  TurnInv'
  <1> DEFINE p == Head(todo[c])
             left == todo[c]
  <1>1. /\ UNCHANGED <<live, resolver, part, new, pc, crossed>> /\ pc[c] = "read"
        /\ left # << >> /\ left \in Seq(Part)
        /\ view' = [view EXCEPT ![c][p] = live[p]]
        /\ todo' = [todo EXCEPT ![c] = Tail(@)]
    BY DEF ReadPart, TurnInv, TurnTypes
  <1>2. p \in Part /\ p = left[1] /\ Tail(left) \in Seq(Part)
        /\ Len(Tail(left)) = Len(left) - 1
        /\ \A i \in 1 .. Len(left) - 1 : Tail(left)[i] = left[i + 1]
    BY <1>1
  <1>3. live[p] \in Any
    BY <1>2 DEF TurnInv, TurnTypes, Parts, Any
  <1>4. [view[c] EXCEPT ![p] = live[p]] \in Parts
    BY <1>2, <1>3 DEF TurnInv, TurnTypes, Parts, Any
  <1> HIDE DEF p
  <1>5. /\ view'[c] = [view[c] EXCEPT ![p] = live[p]] /\ view' \in [Client -> Parts]
        /\ todo'[c] = Tail(left) /\ todo' \in [Client -> Seq(Part)]
    BY <1>1, <1>2, <1>4 DEF TurnInv, TurnTypes
  <1>6. TurnTypes'
    BY <1>1, <1>5 DEF TurnInv, TurnTypes
  <1>7. ASSUME ~crossed
        PROVE  TurnOf(c)'
    <2>1. /\ part[c] = "api_key" => live["api_key"] = new[c]
          /\ view[c][part[c]] = new[c]
          /\ \A q \in Part \ {part[c]} : view[c][q] = live[q] \/ ToCome(c, q)
          /\ ToCome(c, part[c]) => part[c] = "api_key"
      BY <1>1, <1>7 DEF TurnInv, InTurn, TurnOf
    <2>2. /\ view'[c][p] = live[p] /\ \A q \in Part \ {p} : view'[c][q] = view[c][q]
          /\ part[c] \in Part
      BY <1>2, <1>5 DEF TurnInv, TurnTypes, Parts
    <2>3. \A q : ToCome(c, q)' <=> \E i \in 1 .. Len(left) - 1 : left[i + 1] = q
      BY <1>2, <1>5 DEF ToCome
    <2>4. \A q : ToCome(c, q) => q = p \/ ToCome(c, q)'
      <3> SUFFICES ASSUME NEW q, ToCome(c, q), q # p PROVE ToCome(c, q)'
        OBVIOUS
      <3>1. PICK i \in 1 .. Len(left) : left[i] = q
        BY DEF ToCome
      <3>2. i # 1 /\ Len(left) \in Nat
        BY <1>1, <1>2, <3>1
      <3>3. i - 1 \in 1 .. Len(left) - 1 /\ left[i - 1 + 1] = q
        BY <3>1, <3>2
      <3> QED BY <2>3, <3>3
    <2>5. \A q : ToCome(c, q)' => ToCome(c, q)
      BY <1>1, <2>3 DEF ToCome
    <2>6. ToCome(c, p)
      BY <1>1, <1>2 DEF ToCome
    <2>7. view'[c][part[c]] = new[c]
      BY <2>1, <2>2, <2>6
    <2>8. \A q \in Part \ {part[c]} : view'[c][q] = live[q] \/ ToCome(c, q)'
      BY <2>1, <2>2, <2>4
    <2> QED BY <1>1, <2>1, <2>5, <2>7, <2>8 DEF TurnOf
  <1> QED BY <1>1, <1>6, <1>7, TurnKept DEF TurnInv

LEMMA TurnInstalls ==
  ASSUME TurnInv, NEW c \in Client, InstallResolver(c)
  PROVE  TurnInv'
  <1>1. /\ pc[c] = "read" /\ todo[c] = << >> /\ resolver' = view[c]
        /\ UNCHANGED <<live, crossed>>
    BY DEF InstallResolver
  <1>2. /\ view[c] \in Parts /\ live \in Parts /\ part[c] \in Part /\ new[c] \in Any
    BY DEF TurnInv, TurnTypes
  <1>3. ASSUME ~crossed
        PROVE  resolver' = [live EXCEPT ![part[c]] = new[c]]
    <2>1. \A q : ~ ToCome(c, q)
      BY <1>1 DEF ToCome
    <2>2. view[c][part[c]] = new[c] /\ \A q \in Part \ {part[c]} : view[c][q] = live[q]
      BY <1>1, <1>3, <2>1 DEF TurnInv, InTurn, TurnOf
    <2> QED BY <1>1, <1>2, <2>2 DEF Parts
  <1>4. CASE part[c] = "api_key"
    <2>1. Idle(c)
      BY <1>4 DEF InstallResolver
    <2>2. TurnTypes' /\ TurnOf(c)' /\ \A d \in Client \ {c} : pc'[d] = pc[d]
      BY <1>1, <1>2, <2>1, IdleTurn DEF TurnInv, TurnTypes
    <2>3. ASSUME ~crossed
          PROVE  resolver' = live'
      <3>1. live["api_key"] = new[c]
        BY <1>1, <1>4, <2>3 DEF TurnInv, InTurn, TurnOf
      <3> QED BY <1>1, <1>2, <1>3, <1>4, <2>3, <3>1 DEF Parts
    <2> QED BY <1>1, <2>2, <2>3, TurnKept DEF TurnInv
  <1>5. CASE part[c] # "api_key"
    <2>1. pc' = [pc EXCEPT ![c] = "commit"] /\ UNCHANGED <<part, new, view, todo>>
      BY <1>5 DEF InstallResolver
    <2>2. TurnTypes' /\ pc'[c] = "commit" /\ \A d \in Client \ {c} : pc'[d] = pc[d]
      BY <1>1, <1>2, <2>1 DEF TurnInv, TurnTypes, Steps
    <2>3. ~crossed => TurnOf(c)'
      BY <1>1, <1>3, <2>1, <2>2 DEF TurnOf
    <2> QED BY <1>1, <2>2, <2>3, TurnKept DEF TurnInv
  <1> QED BY <1>4, <1>5

LEMMA TurnCommits ==
  ASSUME TurnInv, NEW c \in Client, CommitLive(c)
  PROVE  TurnInv'
  <1>1. /\ pc[c] = "commit" /\ live' = [live EXCEPT ![part[c]] = new[c]] /\ Idle(c)
        /\ UNCHANGED <<resolver, crossed>>
    BY DEF CommitLive
  <1>2. live' \in Parts
    BY <1>1 DEF TurnInv, TurnTypes, Parts, Any
  <1>3. TurnTypes' /\ TurnOf(c)' /\ \A d \in Client \ {c} : pc'[d] = pc[d]
    BY <1>1, <1>2, IdleTurn DEF TurnInv, TurnTypes
  <1>4. ~crossed => resolver' = live'
    BY <1>1 DEF TurnInv, InTurn, TurnOf
  <1> QED BY <1>1, <1>3, <1>4, TurnKept DEF TurnInv

LEMMA TurnRestarts ==
  ASSUME TurnInv, file \in [Stored -> Any], Restart
  PROVE  TurnInv'
  <1>1. Startup \in Parts
    BY EnvAssumption DEF Startup, Parts, Any
  <1>2. NoParts \in Parts /\ "chain" \in Part /\ "idle" \in Steps /\ None \in Any
        /\ << >> \in Seq(Part)
    BY DEF NoParts, Parts, Part, Steps, Any
  <1>3. TurnTypes'
    BY <1>1, <1>2 DEF TurnTypes, Restart
  <1>4. InTurn'
    BY DEF Restart, InTurn, TurnOf, ResolverMatchesLive
  <1> QED BY <1>3, <1>4 DEF TurnInv

LEMMA TurnStep ==
  ASSUME TurnInv, file \in [Stored -> Any], [Next]_vars
  PROVE  TurnInv'
  <1>1. ASSUME NEW c \in Client, Handler(c)
        PROVE  TurnInv'
    <2>1. ASSUME NEW p \in Config, NEW u \in Value \cup {Keep, None}, SetConfig(c, p, u)
          PROVE  TurnInv'
      <3> DEFINE v == IF u = Keep THEN live[p] ELSE u
      <3>1. p \in Part /\ v \in Any
        BY DEF TurnInv, TurnTypes, Parts, Part, Any
      <3>2. Begin(c, p, v, "save")
        BY <2>1 DEF SetConfig
      <3> QED BY <3>1, <3>2, TurnBegins
    <2>2. ASSUME NEW ch \in Chain, SetChain(c, ch)
          PROVE  TurnInv'
      BY <2>2, TurnBegins DEF SetChain, Part, Any
    <2>3. ASSUME NEW k \in Value \cup {None}, SetKey(c, k)
          PROVE  TurnInv'
      BY <2>3, TurnBegins DEF SetKey, Part, Any
    <2>4. ASSUME ResetChain(c)
          PROVE  TurnInv'
      BY <2>4, TurnBegins, ChainAssumption DEF ResetChain, Part, Any
    <2> QED BY <1>1, <2>1, <2>2, <2>3, <2>4, TurnGoesOn, TurnReads, TurnInstalls, TurnCommits
            DEF Handler
  <1>2. CASE Restart
    BY <1>2, TurnRestarts
  <1>3. CASE UNCHANGED vars
    BY <1>3 DEF vars, TurnInv, TurnTypes, InTurn, TurnOf, ToCome, ResolverMatchesLive, Settled
  <1> QED BY <1>1, <1>2, <1>3 DEF Next

LEMMA FileStep ==
  ASSUME TurnTypes, file \in [Stored -> Any], [Next]_vars
  PROVE  file' \in [Stored -> Any]
  <1>1. ASSUME NEW c \in Client, Handler(c), file' # file
        PROVE  ClearChain(c) \/ Save(c)
    BY <1>1 DEF Handler, SetConfig, SetChain, SetKey, ResetChain, Begin, SaveFails, SaveKeyFails,
                SetLiveKey, ReadPart, InstallResolver, CommitLive
  <1>2. ASSUME NEW c \in Client, ClearChain(c) \/ Save(c)
        PROVE  file' \in [Stored -> Any]
    BY <1>2 DEF ClearChain, Save, TurnTypes, Any
  <1>3. CASE Restart \/ UNCHANGED vars
    BY <1>3 DEF Restart, vars
  <1> QED BY <1>1, <1>2, <1>3 DEF Next

(* Of connections whose handlers have not overlapped, none leaves behind a *)
(* resolver that differs from what is live, whoever wrote which part and   *)
(* whatever saves failed (app.rs, rebuild of the text resolver).           *)
THEOREM TurnsEndInAgreement == Spec => []ResolverMatchesLiveInTurn
<1> DEFINE Disk == file \in [Stored -> Any]
<1>1. Init => TurnInv /\ Disk
  BY InitTurn DEF Init, Any
<1>2. TurnInv /\ Disk /\ [Next]_vars => TurnInv' /\ Disk'
  BY TurnStep, FileStep DEF TurnInv
<1>3. TurnInv => ResolverMatchesLiveInTurn
  BY DEF TurnInv, InTurn, ResolverMatchesLiveInTurn
<1> QED BY <1>1, <1>2, <1>3, PTL DEF Spec
=============================================================================
