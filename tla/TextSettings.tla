---------------------------- MODULE TextSettings ----------------------------
(***************************************************************************)
(* The settings of the text axis in core/src/app.rs.  The resolver that    *)
(* answers queries is built from five parts, each live behind a mutex of   *)
(* its own: the llamafile, local_http and cloud_http configurations, the   *)
(* cloud API key and the provider chain.  A handler writes one part, but   *)
(* has to read the other four to build the next resolver, one lock at a    *)
(* time; handlers of different connections interleave between the locks.   *)
(*                                                                         *)
(* Of a configuration the model keeps the optional value (path, endpoint): *)
(* enabled, mode and timeouts are written and read back with every save.   *)
(* A save is one atomic replacement, which SettingsStore shows for one     *)
(* writer of a file.                                                       *)
(***************************************************************************)
EXTENDS Naturals, Sequences

CONSTANTS
  Client,        \* connections
  Owns,          \* Client -> the parts its user edits
  Value,         \* paths, endpoints, keys
  Chain,         \* validated provider chains
  DefaultChain,  \* DEFAULT_TEXT_PROVIDER_CHAIN
  Env,           \* Part -> what the environment gives
  Keep,          \* a null field: leave the value alone
  None           \* no value, no file

Config == {"llamafile", "local_http", "cloud_http"}
Part == Config \cup {"api_key", "chain"}
(* The parts with a file: cloud_http configuration has none. *)
Stored == Part \ {"cloud_http"}

Parts == [Part -> Value \cup Chain \cup {None}]
Typed(p) == IF p = "chain" THEN Chain ELSE Value \cup {None}

ASSUME OwnsAssumption == Owns \in [Client -> SUBSET Part]
ASSUME EnvAssumption ==
  /\ Env \in Parts
  /\ \A p \in Part : Env[p] \in Typed(p)
  /\ Env["api_key"] = None
ASSUME ChainAssumption == DefaultChain \in Chain
ASSUME ValueAssumption ==
  /\ None \notin Value \cup Chain
  /\ Keep \notin Value \cup Chain \cup {None}

VARIABLES
  live,      \* live_llamafile, live_local_http, live_cloud_http,
             \* cloud_http_api_key, live_text_chain
  resolver,  \* text_provider: the parts it was built from
  file,      \* Stored -> the override or secret on disk, or None
  unsaved,   \* the parts whose last save failed (history)
  part,      \* Client -> the part its handler writes
  new,       \* Client -> the new value of that part
  view,      \* Client -> the parts it has read for the next resolver
  todo,      \* Client -> the parts it has still to read, in order
  pc,        \* Client -> where its handler is
  crossed    \* two handlers have run at the same time (history)

vars == <<live, resolver, file, unsaved, part, new, view, todo, pc, crossed>>

Steps == {"idle", "clear", "save", "setKey", "read", "commit"}

TypeOK ==
  /\ live \in Parts /\ \A p \in Part : live[p] \in Typed(p)
  /\ resolver \in Parts /\ \A p \in Part : resolver[p] \in Typed(p)
  /\ file \in [Stored -> Value \cup Chain \cup {None}]
  /\ unsaved \subseteq Stored
  /\ part \in [Client -> Part]
  /\ new \in [Client -> Value \cup Chain \cup {None}]
  /\ view \in [Client -> Parts]
  /\ todo \in [Client -> Seq(Part)]
  /\ pc \in [Client -> Steps]
  /\ crossed \in BOOLEAN

(* The override files laid over the environment, by App::new. *)
Startup ==
  [p \in Part |-> IF p \in Stored /\ file[p] # None THEN file[p] ELSE Env[p]]

(* The order in which the handlers read the parts for the next resolver;   *)
(* the handler of the key reads its own part back as well.                 *)
ReadOrder == <<"llamafile", "local_http", "cloud_http", "api_key", "chain">>
ToRead(p) ==
  IF p = "api_key" THEN ReadOrder
  ELSE LET own == CHOOSE i \in 1 .. 5 : ReadOrder[i] = p
       IN [i \in 1 .. 4 |-> IF i < own THEN ReadOrder[i] ELSE ReadOrder[i + 1]]

NoParts == [p \in Part |-> None]
Idle(c) ==
  /\ part' = [part EXCEPT ![c] = "chain"]
  /\ new' = [new EXCEPT ![c] = None]
  /\ view' = [view EXCEPT ![c] = NoParts]
  /\ todo' = [todo EXCEPT ![c] = << >>]
  /\ pc' = [pc EXCEPT ![c] = "idle"]

(* A core started in a directory without override files. *)
Init ==
  /\ file = [p \in Stored |-> None]
  /\ live = Env
  /\ resolver = Env
  /\ unsaved = {}
  /\ part = [c \in Client |-> "chain"]
  /\ new = [c \in Client |-> None]
  /\ view = [c \in Client |-> NoParts]
  /\ todo = [c \in Client |-> << >>]
  /\ pc = [c \in Client |-> "idle"]
  /\ crossed = FALSE

(* The handler of part p has its new value v. *)
Begin(c, p, v, step) ==
  /\ pc[c] = "idle"
  /\ p \in Owns[c]
  /\ part' = [part EXCEPT ![c] = p]
  /\ new' = [new EXCEPT ![c] = v]
  /\ view' = [view EXCEPT ![c] = [NoParts EXCEPT ![p] = v]]
  /\ todo' = [todo EXCEPT ![c] = ToRead(p)]
  /\ pc' = [pc EXCEPT ![c] = step]
  /\ crossed' = (crossed \/ \E d \in Client : pc[d] # "idle")
  /\ UNCHANGED <<live, resolver, file, unsaved>>

(* update_llamafile_config, update_local_http_config,                      *)
(* update_cloud_http_config: the live part is cloned and the update        *)
(* applied; a null field keeps its value, a blank one clears it.           *)
SetConfig(c, p, u) ==
  /\ p \in Config
  /\ Begin(c, p, IF u = Keep THEN live[p] ELSE u, "save")

(* update_text_provider_chain with a chain the validator accepted. *)
SetChain(c, ch) == Begin(c, "chain", ch, "save")

(* reset_text_provider_chain. *)
ResetChain(c) == Begin(c, "chain", DefaultChain, "clear")

(* set_cloud_http_api_key; null or blank removes the key. *)
SetKey(c, k) == Begin(c, "api_key", k, "save")

(* clear_text_chain_override; whatever it returns, the reset goes on as an *)
(* update with the default chain.                                          *)
ClearChain(c) ==
  /\ pc[c] = "clear"
  /\ \/ file' = [file EXCEPT !["chain"] = None]
     \/ UNCHANGED file
  /\ pc' = [pc EXCEPT ![c] = "save"]
  /\ UNCHANGED <<live, resolver, unsaved, part, new, view, todo, crossed>>

(* The save succeeds; update_cloud_http_config saves nothing. *)
Save(c) ==
  LET p == part[c] IN
  /\ pc[c] = "save"
  /\ IF p \in Stored
       THEN /\ file' = [file EXCEPT ![p] = new[c]]
            /\ unsaved' = unsaved \ {p}
       ELSE UNCHANGED <<file, unsaved>>
  /\ pc' = [pc EXCEPT ![c] = IF p = "api_key" THEN "setKey" ELSE "read"]
  /\ UNCHANGED <<live, resolver, part, new, view, todo, crossed>>

(* The save of an override fails: it is logged and the handler goes on. *)
SaveFails(c) ==
  /\ pc[c] = "save"
  /\ part[c] \in Stored \ {"api_key"}
  /\ unsaved' = unsaved \cup {part[c]}
  /\ pc' = [pc EXCEPT ![c] = "read"]
  /\ UNCHANGED <<live, resolver, file, part, new, view, todo, crossed>>

(* Mutant: The key's handler goes on when its save has failed, as the others do. *)
SaveKeyFails_GoesOn(c) ==
  /\ pc[c] = "save"
  /\ part[c] = "api_key"
  /\ pc' = [pc EXCEPT ![c] = "setKey"]
  /\ UNCHANGED <<live, resolver, file, unsaved, part, new, view, todo, crossed>>

(* The save of the key fails: the handler returns the error at once. *)
SaveKeyFails(c) ==
  /\ pc[c] = "save"
  /\ part[c] = "api_key"
  /\ Idle(c)
  /\ UNCHANGED <<live, resolver, file, unsaved, crossed>>

(* The key becomes live before the resolver is rebuilt. *)
SetLiveKey(c) ==
  /\ pc[c] = "setKey"
  /\ live' = [live EXCEPT !["api_key"] = new[c]]
  /\ pc' = [pc EXCEPT ![c] = "read"]
  /\ UNCHANGED <<resolver, file, unsaved, part, new, view, todo, crossed>>

(* Mutant: The resolver is built without the chain of the settings, from the       *)
(* environment's.                                                          *)
ReadPart_StartupChain(c) ==
  /\ pc[c] = "read"
  /\ todo[c] # << >>
  /\ view' = [view EXCEPT ![c][Head(todo[c])] =
       IF Head(todo[c]) = "chain" THEN Env["chain"] ELSE live[Head(todo[c])]]
  /\ todo' = [todo EXCEPT ![c] = Tail(@)]
  /\ UNCHANGED <<live, resolver, file, unsaved, part, new, pc, crossed>>

(* One lock, one part. *)
ReadPart(c) ==
  /\ pc[c] = "read"
  /\ todo[c] # << >>
  /\ view' = [view EXCEPT ![c][Head(todo[c])] = live[Head(todo[c])]]
  /\ todo' = [todo EXCEPT ![c] = Tail(@)]
  /\ UNCHANGED <<live, resolver, file, unsaved, part, new, pc, crossed>>

(* The new resolver replaces the old one; the key's handler is done. *)
InstallResolver(c) ==
  /\ pc[c] = "read"
  /\ todo[c] = << >>
  /\ resolver' = view[c]
  /\ IF part[c] = "api_key"
       THEN Idle(c)
       ELSE /\ pc' = [pc EXCEPT ![c] = "commit"]
            /\ UNCHANGED <<part, new, view, todo>>
  /\ UNCHANGED <<live, file, unsaved, crossed>>

(* Mutant: A commit writes back every part the handler has read. *)
CommitLive_WholeView(c) ==
  /\ pc[c] = "commit"
  /\ live' = view[c]
  /\ Idle(c)
  /\ UNCHANGED <<resolver, file, unsaved, crossed>>

(* The part becomes live after the resolver was replaced. *)
CommitLive(c) ==
  /\ pc[c] = "commit"
  /\ live' = [live EXCEPT ![part[c]] = new[c]]
  /\ Idle(c)
  /\ UNCHANGED <<resolver, file, unsaved, crossed>>

(* The core dies between any two steps and App::new starts it again. *)
Restart ==
  /\ live' = Startup
  /\ resolver' = Startup
  /\ unsaved' = {}
  /\ part' = [c \in Client |-> "chain"]
  /\ new' = [c \in Client |-> None]
  /\ view' = [c \in Client |-> NoParts]
  /\ todo' = [c \in Client |-> << >>]
  /\ pc' = [c \in Client |-> "idle"]
  /\ crossed' = FALSE
  /\ UNCHANGED file

Handler(c) ==
  \/ \E p \in Config, u \in Value \cup {Keep, None} : SetConfig(c, p, u)
  \/ \E ch \in Chain : SetChain(c, ch)
  \/ \E k \in Value \cup {None} : SetKey(c, k)
  \/ ResetChain(c)
  \/ ClearChain(c)
  \/ Save(c)
  \/ SaveFails(c)
  \/ SaveKeyFails(c)
  \/ SetLiveKey(c)
  \/ ReadPart(c)
  \/ InstallResolver(c)
  \/ CommitLive(c)

Next == (\E c \in Client : Handler(c)) \/ Restart

Spec == Init /\ [][Next]_vars

-----------------------------------------------------------------------------
(***************************************************************************)
(* Properties                                                              *)
(***************************************************************************)

Settled == \A c \in Client : pc[c] = "idle"

(* "Der nächste handle_text_query / build_status_payload sieht die neue    *)
(* Config": when no handler is running, the resolver that answers queries  *)
(* is built from what is live, in every part.                              *)
ResolverMatchesLive == Settled => resolver = live

(* The same for connections whose handlers have not overlapped since the   *)
(* start, whatever saves failed and whoever wrote which part.              *)
ResolverMatchesLiveInTurn == ~crossed => ResolverMatchesLive

(***************************************************************************)
(* The inductive invariant behind it: one handler at a time, which has     *)
(* still to read what differs, and a resolver that differs from what is    *)
(* live by the handler's own part at most, and only before its commit.     *)
(***************************************************************************)
ToCome(c, q) == \E i \in 1 .. Len(todo[c]) : todo[c][i] = q
TurnOf(c) ==
  /\ pc[c] \in {"clear", "save"} => resolver = live
  /\ pc[c] = "setKey" => part[c] = "api_key"
  /\ pc[c] = "read" /\ part[c] = "api_key" => live["api_key"] = new[c]
  /\ pc[c] \in {"clear", "save", "setKey", "read"} =>
       /\ view[c][part[c]] = new[c]
       /\ \A q \in Part \ {part[c]} : view[c][q] = live[q] \/ ToCome(c, q)
       /\ ToCome(c, part[c]) => part[c] = "api_key"
  /\ pc[c] = "commit" => resolver = [live EXCEPT ![part[c]] = new[c]]
InTurn ==
  ~crossed =>
    /\ \A c, d \in Client : pc[c] # "idle" /\ pc[d] # "idle" => c = d
    /\ \A c \in Client : TurnOf(c)
    /\ ResolverMatchesLive

(* When no handler is running, the files laid over the environment give    *)
(* back what is live: a restart undoes nothing but a save that failed, the *)
(* cloud_http configuration, which has no file, and the clearing of a      *)
(* value that the environment names: an absent field keeps it.             *)
RestartRestores ==
  Settled => \A p \in Stored \ unsaved :
    Startup[p] = live[p] \/ (live[p] = None /\ Startup[p] = Env[p])

(* The API key is all or nothing: when its save fails the running core     *)
(* goes on with the key that is on disk, and with no other.                *)
KeyOnDiskIsLive ==
  (\A c \in Client : pc[c] = "idle" \/ part[c] # "api_key") => file["api_key"] = live["api_key"]
=============================================================================
