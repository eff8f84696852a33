--------------------------- MODULE SettingsStore ---------------------------
(***************************************************************************)
(* One override file of core/src/settings_store.rs at the level of the     *)
(* system calls of write_override_atomic: the temporary file with its      *)
(* fixed name, the inode behind it, the rename over the target, the        *)
(* remove_file of a chain reset, and what a start of the core reads back.  *)
(*                                                                         *)
(* Connections run on a multi-threaded runtime and each executes its own   *)
(* settings_set_* handler, so one writer per connection.  The chain files  *)
(* (text_chain.json, stt_chain.json, tts_chain.json) have the reset; the   *)
(* other override files use the same save without it.                      *)
(***************************************************************************)
EXTENDS Naturals

CONSTANTS
  Writer,    \* connections that run a save or a reset of this file
  Body,      \* the JSON bodies a save can write
  Default,   \* the body a reset saves: the compile-time default chain
  Size,      \* Body -> its length in bytes
  Inode,     \* inodes of the settings directory
  Empty,     \* the data of a truncated file
  Torn,      \* the data of a file that is no complete JSON document
  None       \* no directory entry, no descriptor, no override

ASSUME SizeAssumption == Size \in [Body -> Nat \ {0}]
ASSUME DefaultAssumption == Default \in Body
ASSUME DataAssumption == Empty \notin Body /\ Torn \notin Body /\ None \notin Body
ASSUME InodeAssumption == None \notin Inode

VARIABLES
  target,    \* the directory entry <name>.json: an inode or None
  tmp,       \* the directory entry <name>.json.tmp: an inode or None
  content,   \* Inode -> [data, len]
  fd,        \* Writer -> the inode behind its open descriptor, or None
  body,      \* Writer -> the body it is saving
  op,        \* Writer -> its operation, "save" or "reset"
  pc         \* Writer -> where its handler is

vars == <<target, tmp, content, fd, body, op, pc>>

Data == Body \cup {Empty, Torn}
Steps == {"idle", "remove", "create", "write", "rename", "saved", "failed"}

TypeOK ==
  /\ target \in Inode \cup {None}
  /\ tmp \in Inode \cup {None}
  /\ content \in [Inode -> [data : Data, len : Nat]]
  /\ fd \in [Writer -> Inode \cup {None}]
  /\ body \in [Writer -> Body]
  /\ op \in [Writer -> {"save", "reset"}]
  /\ pc \in [Writer -> Steps]

Truncated == [data |-> Empty, len |-> 0]

(* The file after a complete write_all of b from offset 0: a longer old    *)
(* content keeps its tail behind b.                                        *)
Overwritten(old, b) ==
  IF old.len <= Size[b]
    THEN [data |-> b, len |-> Size[b]]
    ELSE [data |-> Torn, len |-> old.len]

(* The file after a write that failed having written k bytes of b. *)
PartlyWritten(old, k) ==
  IF k = 0 THEN old
           ELSE [data |-> Torn, len |-> IF k < old.len THEN old.len ELSE k]

(* What load_*_override returns: a missing file and a file that is not     *)
(* valid JSON are both "no override".                                      *)
Loaded ==
  IF target = None THEN None
  ELSE IF content[target].data \in Body THEN content[target].data ELSE None

Busy(w) == pc[w] \notin {"idle", "saved", "failed"}

Init ==
  /\ target \in Inode \cup {None}
  /\ tmp = None
  /\ content \in {[i \in Inode |-> [data |-> b, len |-> Size[b]]] : b \in Body}
  /\ fd = [w \in Writer |-> None]
  /\ body = [w \in Writer |-> Default]
  /\ op = [w \in Writer |-> "save"]
  /\ pc = [w \in Writer |-> "idle"]

(* save_*_override: the handler has its body and calls the writer. *)
BeginSave(w, b) ==
  /\ ~Busy(w)
  /\ pc' = [pc EXCEPT ![w] = "create"]
  /\ op' = [op EXCEPT ![w] = "save"]
  /\ body' = [body EXCEPT ![w] = b]
  /\ UNCHANGED <<target, tmp, content, fd>>

(* reset_*_provider_chain: the override is to be removed first. *)
BeginReset(w) ==
  /\ ~Busy(w)
  /\ pc' = [pc EXCEPT ![w] = "remove"]
  /\ op' = [op EXCEPT ![w] = "reset"]
  /\ body' = [body EXCEPT ![w] = Default]
  /\ UNCHANGED <<target, tmp, content, fd>>

(* remove_file; a missing file is no error.  Whatever it returns, the      *)
(* reset goes on to save the default chain.                                *)
RemoveTarget(w) ==
  /\ pc[w] = "remove"
  /\ target' \in {None, target}
  /\ pc' = [pc EXCEPT ![w] = "create"]
  /\ UNCHANGED <<tmp, content, fd, body, op>>

Unused(i) == i # target /\ i # tmp /\ \A w \in Writer : fd[w] # i

(* Mutant: The body is written to the target itself, without a temporary file. *)
CreateTmp_OpensTarget(w) ==
  /\ pc[w] = "create"
  /\ \E i \in Inode :
       /\ IF target = None THEN Unused(i) ELSE i = target
       /\ tmp' = i
       /\ fd' = [fd EXCEPT ![w] = i]
       /\ content' = [content EXCEPT ![i] = Truncated]
  /\ pc' = [pc EXCEPT ![w] = "write"]
  /\ UNCHANGED <<target, body, op>>

(* File::create(tmp): opens and truncates the entry that is there, or      *)
(* makes a new one.                                                        *)
CreateTmp(w) ==
  /\ pc[w] = "create"
  /\ \E i \in Inode :
       /\ IF tmp = None THEN Unused(i) ELSE i = tmp
       /\ tmp' = i
       /\ fd' = [fd EXCEPT ![w] = i]
       /\ content' = [content EXCEPT ![i] = Truncated]
  /\ pc' = [pc EXCEPT ![w] = "write"]
  /\ UNCHANGED <<target, body, op>>

(* write_all, sync_all and the end of the block that closes the file. *)
WriteBody(w) ==
  /\ pc[w] = "write"
  /\ content' = [content EXCEPT ![fd[w]] = Overwritten(@, body[w])]
  /\ fd' = [fd EXCEPT ![w] = None]
  /\ pc' = [pc EXCEPT ![w] = "rename"]
  /\ UNCHANGED <<target, tmp, body, op>>

(* rename(tmp, target): whatever inode tmp names now becomes the target. *)
RenameTmp(w) ==
  /\ pc[w] = "rename"
  /\ tmp # None
  /\ target' = tmp
  /\ tmp' = None
  /\ pc' = [pc EXCEPT ![w] = "saved"]
  /\ UNCHANGED <<content, fd, body, op>>

(* Mutant: A failed write is not noticed and the rename goes on. *)
SaveFails_Ignored(w) ==
  /\ pc[w] = "write"
  /\ \E k \in 0..(Size[body[w]] - 1) :
       content' = [content EXCEPT ![fd[w]] = PartlyWritten(@, k)]
  /\ fd' = [fd EXCEPT ![w] = None]
  /\ pc' = [pc EXCEPT ![w] = "rename"]
  /\ UNCHANGED <<target, tmp, body, op>>

(* Any of the three calls fails; the caller logs it and goes on.  rename   *)
(* always fails when another writer has renamed the temporary file away.   *)
SaveFails(w) ==
  /\ pc[w] \in {"create", "write", "rename"}
  /\ IF pc[w] = "write"
       THEN \E k \in 0..(Size[body[w]] - 1) :
              content' = [content EXCEPT ![fd[w]] = PartlyWritten(@, k)]
       ELSE UNCHANGED content
  /\ fd' = [fd EXCEPT ![w] = None]
  /\ pc' = [pc EXCEPT ![w] = "failed"]
  /\ UNCHANGED <<target, tmp, body, op>>

(* The core dies between any two calls: descriptors and handlers are gone, *)
(* the directory and the bytes written so far stay.                        *)
Crash ==
  /\ fd' = [w \in Writer |-> None]
  /\ pc' = [w \in Writer |-> "idle"]
  /\ body' = [w \in Writer |-> Default]
  /\ op' = [w \in Writer |-> "save"]
  /\ UNCHANGED <<target, tmp, content>>

Step(w) ==
  \/ \E b \in Body : BeginSave(w, b)
  \/ BeginReset(w)
  \/ RemoveTarget(w)
  \/ CreateTmp(w)
  \/ WriteBody(w)
  \/ RenameTmp(w)
  \/ SaveFails(w)

Next == (\E w \in Writer : Step(w)) \/ Crash

Spec == Init /\ [][Next]_vars

-----------------------------------------------------------------------------
(***************************************************************************)
(* Properties                                                              *)
(***************************************************************************)

(* The file a start of the core reads is never truncated or half written,  *)
(* between any two system calls of a save: "temp + rename, damit ein Crash *)
(* zwischen write und rename die bestehende Datei nicht beschädigt".       *)
FileIsWhole == target # None => content[target].data \in Body

(* A save that returns Ok has made the stored override its own body: the   *)
(* handler's "override persisted" is about what it saved.                  *)
OkMeansStored ==
  [][\A w \in Writer : (pc[w] = "rename" /\ pc'[w] = "saved") => Loaded' = body[w]]_vars

(* With one writer the temporary file is its alone: what it has truncated  *)
(* is empty when it writes, what it has written is complete when it        *)
(* renames, and neither is the file a start would read.                    *)
Apart == target # None => target # tmp
OwnTmp == \A w \in Writer :
  /\ pc[w] = "write"  => /\ fd[w] # None
                         /\ fd[w] = tmp
                         /\ content[fd[w]].len = 0
  /\ pc[w] = "rename" => /\ tmp # None
                         /\ content[tmp].data = body[w]
Closed == \A w \in Writer : pc[w] # "write" => fd[w] = None

IInv == TypeOK /\ FileIsWhole /\ Apart /\ OwnTmp /\ Closed

(* With one writer the system calls implement the abstract register: a     *)
(* save takes effect at its rename, at once, or never.                     *)
Register == INSTANCE SettingsRegister WITH
  stored <- Loaded,
  asked  <- [w \in Writer |-> IF Busy(w) THEN body[w] ELSE None]
ImplementsRegister == Register!Spec
=============================================================================
