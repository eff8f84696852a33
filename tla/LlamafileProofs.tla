--------------------------- MODULE LlamafileProofs ---------------------------
(***************************************************************************)
(* Machine-checked safety of LlamafileRuntime for any number of callers,   *)
(* providers and processes: what the lifecycle says of the process, who    *)
(* watches it, and who may take it away.                                   *)
(***************************************************************************)
EXTENDS LlamafileRuntime, TLAPS

USE ConstantsAssumption
USE DEF Gen, Inert, Initials, Listening, PCs, Holding, Goto, Lifecycle, Release, Alive

Here(g) == Held(g, current, pc, waiting)

(* A provider that is not built yet has nothing.                           *)
NotBuilt ==
  /\ \A g \in Gen : g > current =>
       child[g] = "none" /\ ~ watchdog[g] /\ asleep[g] = 0 /\ waiting[g] = 0
  /\ \A c \in Caller : gen[c] <= current

(* What the holder of a mutex knows of the process, by where it is.        *)
HolderInv ==
  \A c \in Caller : LET g == gen[c] IN
    /\ pc[c] = "spawn" => child[g] = "none" /\ lifecycle[g] = "starting"
    /\ pc[c] \in {"probe", "health"} => child[g] # "none" /\ lifecycle[g] = "starting"
    /\ pc[c] = "request" => child[g] # "none" /\ lifecycle[g] = "busy"

Inv == TypeOK /\ NotBuilt /\ HolderInv /\ LifecycleMatchesChild /\ EveryProcessIsWatched

LEMMA InitInv == Init => Inv
<1> SUFFICES ASSUME Init PROVE Inv
  OBVIOUS
<1>1. PICK l \in Initials : lifecycle = [g \in Gen |-> l]
  BY DEF Init
<1>2. TypeOK
  BY <1>1 DEF Init, TypeOK
<1>3. NotBuilt /\ HolderInv
  BY DEF Init, NotBuilt, HolderInv
<1>4. LifecycleMatchesChild
  BY <1>1 DEF Init, LifecycleMatchesChild
<1>5. EveryProcessIsWatched
  BY DEF Init, EveryProcessIsWatched
<1> QED BY <1>2, <1>3, <1>4, <1>5 DEF Inv

LEMMA QueryStep ==
  ASSUME Inv, NEW c \in Caller, Query(c)
  PROVE  Inv'
<1>1. TypeOK'
  BY SMTT(30) DEF Inv, TypeOK, Query
<1>2. NotBuilt'
  BY DEF Inv, TypeOK, NotBuilt, HolderInv, Query
<1>3. HolderInv'
  BY DEF Inv, TypeOK, HolderInv, Query
<1>4. LifecycleMatchesChild'
  BY SMTT(30) DEF Inv, TypeOK, NotBuilt, HolderInv, LifecycleMatchesChild, EveryProcessIsWatched, Held, Query
<1>5. EveryProcessIsWatched'
  BY SMTT(30) DEF Inv, TypeOK, NotBuilt, HolderInv, EveryProcessIsWatched, Held, Query
<1> QED BY <1>1, <1>2, <1>3, <1>4, <1>5 DEF Inv

LEMMA AcquireStep ==
  ASSUME Inv, NEW c \in Caller, Acquire(c)
  PROVE  Inv'
<1>1. TypeOK'
  <2>1. \A d \in Caller, h \in Gen : lock'[h] = d <=> pc'[d] \in Holding /\ gen'[d] = h
    BY DEF Inv, TypeOK, Acquire
  <2>2. child' \in [Gen -> {"none", "booting", "serving", "dead"}] /\ lifecycle' \in [Gen -> Inert \cup Listening]
    BY DEF Inv, TypeOK, Acquire
  <2>3. /\ pc' \in [Caller -> PCs] /\ gen' \in [Caller -> Gen] /\ late' \in [Caller -> BOOLEAN]
        /\ lock' \in [Gen -> Caller \cup {None}]
    <3>1. gen' = gen /\ late' = [late EXCEPT ![c] = FALSE] /\ lock' = [lock EXCEPT ![gen[c]] = c]
      BY DEF Acquire
    <3>2. pc' = [pc EXCEPT ![c] = "spawn"] \/ pc' = [pc EXCEPT ![c] = "request"]
      BY DEF Acquire
    <3>3. gen[c] \in Gen
      BY DEF Inv, TypeOK
    <3>4. gen' \in [Caller -> Gen] /\ late' \in [Caller -> BOOLEAN]
      BY <3>1 DEF Inv, TypeOK
    <3>5. lock' \in [Gen -> Caller \cup {None}]
      BY <3>1, <3>3 DEF Inv, TypeOK
    <3>6. pc' \in [Caller -> PCs]
      BY <3>2, SMTT(30) DEF Inv, TypeOK
    <3> QED BY <3>4, <3>5, <3>6
  <2>4. asleep' \in [Gen -> Nat] /\ waiting' \in [Gen -> Nat] /\ watchdog' \in [Gen -> BOOLEAN]
        /\ idle' \in [Gen -> BOOLEAN] /\ current' \in Gen /\ spawns' \in 0 .. MaxSpawns
    BY DEF Inv, TypeOK, Acquire
  <2> QED BY <2>1, <2>2, <2>3, <2>4 DEF TypeOK
<1>2. NotBuilt'
  BY DEF Inv, TypeOK, NotBuilt, HolderInv, Acquire
<1>3. HolderInv'
  BY DEF Inv, TypeOK, HolderInv, Acquire
<1>4. LifecycleMatchesChild'
  BY SMTT(30) DEF Inv, TypeOK, NotBuilt, HolderInv, LifecycleMatchesChild, EveryProcessIsWatched, Held, Acquire
<1>5. EveryProcessIsWatched'
  BY SMTT(30) DEF Inv, TypeOK, NotBuilt, HolderInv, EveryProcessIsWatched, Held, Acquire
<1> QED BY <1>1, <1>2, <1>3, <1>4, <1>5 DEF Inv

LEMMA SpawnFailsStep ==
  ASSUME Inv, NEW c \in Caller, SpawnFails(c)
  PROVE  Inv'
<1>1. TypeOK'
  BY SMTT(30) DEF Inv, TypeOK, SpawnFails
<1>2. NotBuilt'
  BY DEF Inv, TypeOK, NotBuilt, HolderInv, SpawnFails
<1>3. HolderInv'
  BY DEF Inv, TypeOK, HolderInv, SpawnFails
<1>4. LifecycleMatchesChild'
  BY DEF Inv, TypeOK, NotBuilt, HolderInv, LifecycleMatchesChild, EveryProcessIsWatched, Held, SpawnFails
<1>5. EveryProcessIsWatched'
  BY SMTT(30) DEF Inv, TypeOK, NotBuilt, HolderInv, EveryProcessIsWatched, Held, SpawnFails
<1> QED BY <1>1, <1>2, <1>3, <1>4, <1>5 DEF Inv

LEMMA SpawnStep ==
  ASSUME Inv, NEW c \in Caller, Spawn(c)
  PROVE  Inv'
<1>1. TypeOK'
  BY SMTT(30) DEF Inv, TypeOK, Spawn
<1>2. NotBuilt'
  BY DEF Inv, TypeOK, NotBuilt, HolderInv, Spawn
<1>3. HolderInv'
  BY DEF Inv, TypeOK, HolderInv, Spawn
<1>4. LifecycleMatchesChild'
  BY DEF Inv, TypeOK, NotBuilt, HolderInv, LifecycleMatchesChild, EveryProcessIsWatched, Held, Spawn
<1>5. EveryProcessIsWatched'
  BY DEF Inv, TypeOK, NotBuilt, HolderInv, EveryProcessIsWatched, Held, Spawn
<1> QED BY <1>1, <1>2, <1>3, <1>4, <1>5 DEF Inv

(* The run ends without a process, and the mutex is let go of.             *)
LEMMA GivesUp ==
  ASSUME Inv, NEW c \in Caller, pc[c] \in Holding,
         pc' = [pc EXCEPT ![c] = "rest"], lock' = [lock EXCEPT ![gen[c]] = None],
         lifecycle' = [lifecycle EXCEPT ![gen[c]] = "failed"],
         child' = [child EXCEPT ![gen[c]] = "none"],
         UNCHANGED <<current, idle, watchdog, asleep, waiting, gen, late, spawns>>
  PROVE  Inv'
<1>1. TypeOK'
  <2>1. \A d \in Caller, h \in Gen : lock'[h] = d <=> pc'[d] \in Holding /\ gen'[d] = h
    BY SMTT(30) DEF Inv, TypeOK
  <2>2. /\ child' \in [Gen -> {"none", "booting", "serving", "dead"}]
        /\ lifecycle' \in [Gen -> Inert \cup Listening]
    BY DEF Inv, TypeOK
  <2>3. pc' \in [Caller -> PCs] /\ lock' \in [Gen -> Caller \cup {None}]
    BY DEF Inv, TypeOK
  <2> QED BY <2>1, <2>2, <2>3 DEF Inv, TypeOK
<1>2. NotBuilt'
  BY DEF Inv, TypeOK, NotBuilt
<1>3. HolderInv'
  BY DEF Inv, TypeOK, HolderInv
<1>4. LifecycleMatchesChild'
  BY DEF Inv, TypeOK, NotBuilt, HolderInv, LifecycleMatchesChild, EveryProcessIsWatched, Held
<1>5. EveryProcessIsWatched'
  BY SMTT(30) DEF Inv, TypeOK, NotBuilt, HolderInv, EveryProcessIsWatched, Held
<1> QED BY <1>1, <1>2, <1>3, <1>4, <1>5 DEF Inv

(* The readiness loop goes round.                                          *)
LEMMA GoesOn ==
  ASSUME Inv, NEW c \in Caller, pc[c] \in {"probe", "health"},
         NEW q \in {"probe", "health"}, pc' = [pc EXCEPT ![c] = q],
         UNCHANGED <<current, child, idle, watchdog, lifecycle, lock, asleep, waiting, gen,
                     late, spawns>>
  PROVE  Inv'
<1>1. TypeOK'
  BY SMTT(30) DEF Inv, TypeOK
<1>2. NotBuilt'
  BY DEF Inv, TypeOK, NotBuilt
<1>3. HolderInv'
  BY DEF Inv, TypeOK, HolderInv
<1>4. LifecycleMatchesChild'
  BY DEF Inv, TypeOK, NotBuilt, HolderInv, LifecycleMatchesChild, EveryProcessIsWatched, Held
<1>5. EveryProcessIsWatched'
  BY SMTT(30) DEF Inv, TypeOK, NotBuilt, HolderInv, EveryProcessIsWatched, Held
<1> QED BY <1>1, <1>2, <1>3, <1>4, <1>5 DEF Inv

LEMMA TryWaitStep ==
  ASSUME Inv, NEW c \in Caller, TryWait(c)
  PROVE  Inv'
<1>1. CASE Alive(gen[c])
  BY <1>1, GoesOn DEF TryWait
<1>2. CASE ~ Alive(gen[c])
  BY <1>2, GivesUp DEF TryWait
<1> QED BY <1>1, <1>2

LEMMA HealthOkStep ==
  ASSUME Inv, NEW c \in Caller, HealthOk(c)
  PROVE  Inv'
<1>1. TypeOK'
  BY SMTT(30) DEF Inv, TypeOK, HealthOk
<1>2. NotBuilt'
  BY DEF Inv, TypeOK, NotBuilt, HolderInv, HealthOk
<1>3. HolderInv'
  BY DEF Inv, TypeOK, HolderInv, HealthOk
<1>4. LifecycleMatchesChild'
  BY DEF Inv, TypeOK, NotBuilt, HolderInv, LifecycleMatchesChild, EveryProcessIsWatched, Held, HealthOk
<1>5. EveryProcessIsWatched'
  BY DEF Inv, TypeOK, NotBuilt, HolderInv, EveryProcessIsWatched, Held, HealthOk
<1> QED BY <1>1, <1>2, <1>3, <1>4, <1>5 DEF Inv

LEMMA HealthFailsStep ==
  ASSUME Inv, NEW c \in Caller, HealthFails(c)
  PROVE  Inv'
<1>1. CASE ~ late[c]
  BY <1>1, GoesOn DEF HealthFails
<1>2. CASE ~ (~ late[c])
  BY <1>2, GivesUp DEF HealthFails
<1> QED BY <1>1, <1>2

LEMMA StartupExpiresStep ==
  ASSUME Inv, NEW c \in Caller, StartupExpires(c)
  PROVE  Inv'
<1>1. TypeOK'
  BY DEF Inv, TypeOK, StartupExpires
<1>2. NotBuilt'
  BY DEF Inv, TypeOK, NotBuilt, HolderInv, StartupExpires
<1>3. HolderInv'
  BY DEF Inv, TypeOK, HolderInv, StartupExpires
<1>4. LifecycleMatchesChild'
  BY DEF Inv, TypeOK, NotBuilt, HolderInv, LifecycleMatchesChild, EveryProcessIsWatched, Held, StartupExpires
<1>5. EveryProcessIsWatched'
  BY DEF Inv, TypeOK, NotBuilt, HolderInv, EveryProcessIsWatched, Held, StartupExpires
<1> QED BY <1>1, <1>2, <1>3, <1>4, <1>5 DEF Inv

LEMMA RequestOkStep ==
  ASSUME Inv, NEW c \in Caller, RequestOk(c)
  PROVE  Inv'
<1>1. TypeOK'
  BY SMTT(30) DEF Inv, TypeOK, RequestOk
<1>2. NotBuilt'
  BY DEF Inv, TypeOK, NotBuilt, HolderInv, RequestOk
<1>3. HolderInv'
  BY DEF Inv, TypeOK, HolderInv, RequestOk
<1>4. LifecycleMatchesChild'
  BY DEF Inv, TypeOK, NotBuilt, HolderInv, LifecycleMatchesChild, EveryProcessIsWatched, Held, RequestOk
<1>5. EveryProcessIsWatched'
  BY SMTT(30) DEF Inv, TypeOK, NotBuilt, HolderInv, EveryProcessIsWatched, Held, RequestOk
<1> QED BY <1>1, <1>2, <1>3, <1>4, <1>5 DEF Inv

LEMMA RequestErrStep ==
  ASSUME Inv, NEW c \in Caller, RequestErr(c)
  PROVE  Inv'
<1>1. TypeOK'
  <2>1. \A d \in Caller, h \in Gen : lock'[h] = d <=> pc'[d] \in Holding /\ gen'[d] = h
    BY DEF Inv, TypeOK, RequestErr
  <2>2. child' \in [Gen -> {"none", "booting", "serving", "dead"}] /\ lifecycle' \in [Gen -> Inert \cup Listening]
    BY DEF Inv, TypeOK, RequestErr
  <2>3. /\ pc' \in [Caller -> PCs] /\ gen' \in [Caller -> Gen] /\ late' \in [Caller -> BOOLEAN]
        /\ lock' \in [Gen -> Caller \cup {None}]
    BY DEF Inv, TypeOK, RequestErr
  <2>4. asleep' \in [Gen -> Nat] /\ waiting' \in [Gen -> Nat] /\ watchdog' \in [Gen -> BOOLEAN]
        /\ idle' \in [Gen -> BOOLEAN] /\ current' \in Gen /\ spawns' \in 0 .. MaxSpawns
    BY DEF Inv, TypeOK, RequestErr
  <2> QED BY <2>1, <2>2, <2>3, <2>4 DEF TypeOK
<1>2. NotBuilt'
  BY DEF Inv, TypeOK, NotBuilt, HolderInv, RequestErr
<1>3. HolderInv'
  BY DEF Inv, TypeOK, HolderInv, RequestErr
<1>4. LifecycleMatchesChild'
  BY DEF Inv, TypeOK, NotBuilt, HolderInv, LifecycleMatchesChild, EveryProcessIsWatched, Held, RequestErr
<1>5. EveryProcessIsWatched'
  BY DEF Inv, TypeOK, NotBuilt, HolderInv, EveryProcessIsWatched, Held, RequestErr
<1> QED BY <1>1, <1>2, <1>3, <1>4, <1>5 DEF Inv

LEMMA LeaveStep ==
  ASSUME Inv, NEW c \in Caller, Leave(c)
  PROVE  Inv'
<1>1. TypeOK'
  <2>1. \A d \in Caller, h \in Gen : lock'[h] = d <=> pc'[d] \in Holding /\ gen'[d] = h
    BY SMTT(30) DEF Inv, TypeOK, Leave
  <2>2. child' \in [Gen -> {"none", "booting", "serving", "dead"}] /\ lifecycle' \in [Gen -> Inert \cup Listening]
    BY SMTT(30) DEF Inv, TypeOK, Leave, Kept
  <2>3. /\ pc' \in [Caller -> PCs] /\ gen' \in [Caller -> Gen] /\ late' \in [Caller -> BOOLEAN]
        /\ lock' \in [Gen -> Caller \cup {None}]
    BY DEF Inv, TypeOK, Leave
  <2>4. asleep' \in [Gen -> Nat] /\ waiting' \in [Gen -> Nat] /\ watchdog' \in [Gen -> BOOLEAN]
        /\ idle' \in [Gen -> BOOLEAN] /\ current' \in Gen /\ spawns' \in 0 .. MaxSpawns
    BY DEF Inv, TypeOK, Leave
  <2> QED BY <2>1, <2>2, <2>3, <2>4 DEF TypeOK
<1>2. NotBuilt'
  BY DEF Inv, TypeOK, NotBuilt, HolderInv, Leave, Kept
<1>3. HolderInv'
  BY DEF Inv, TypeOK, HolderInv, Leave, Kept, Held
<1>4. LifecycleMatchesChild'
  BY SMTT(30) DEF Inv, TypeOK, NotBuilt, HolderInv, LifecycleMatchesChild, EveryProcessIsWatched, Held, Leave, Kept
<1>5. EveryProcessIsWatched'
  BY DEF Inv, TypeOK, NotBuilt, HolderInv, EveryProcessIsWatched, Held, Leave, Kept
<1> QED BY <1>1, <1>2, <1>3, <1>4, <1>5 DEF Inv

LEMMA DogWakesStep ==
  ASSUME Inv, NEW g \in Gen, DogWakes(g)
  PROVE  Inv'
<1>1. TypeOK'
  <2>1. \A d \in Caller, h \in Gen : lock'[h] = d <=> pc'[d] \in Holding /\ gen'[d] = h
    BY DEF Inv, TypeOK, DogWakes
  <2>2. child' \in [Gen -> {"none", "booting", "serving", "dead"}] /\ lifecycle' \in [Gen -> Inert \cup Listening]
    BY DEF Inv, TypeOK, DogWakes
  <2>3. /\ pc' \in [Caller -> PCs] /\ gen' \in [Caller -> Gen] /\ late' \in [Caller -> BOOLEAN]
        /\ lock' \in [Gen -> Caller \cup {None}]
    BY DEF Inv, TypeOK, DogWakes
  <2>4. /\ watchdog' \in [Gen -> BOOLEAN] /\ idle' \in [Gen -> BOOLEAN]
        /\ current' \in Gen /\ spawns' \in 0 .. MaxSpawns
    BY DEF Inv, TypeOK, DogWakes
  <2>5. asleep' \in [Gen -> Nat]
    <3>1. asleep \in [Gen -> Nat]
      BY DEF Inv, TypeOK
    <3>2. asleep[g] \in Nat /\ asleep[g] > 0
      BY <3>1 DEF DogWakes
    <3>3. asleep[g] - 1 \in Nat
      BY <3>2
    <3> QED BY <3>1, <3>3 DEF DogWakes
  <2>6. waiting' \in [Gen -> Nat]
    <3>1. waiting[g] + 1 \in Nat /\ waiting \in [Gen -> Nat]
      BY DEF Inv, TypeOK
    <3> QED BY <3>1 DEF DogWakes
  <2> QED BY <2>1, <2>2, <2>3, <2>4, <2>5, <2>6 DEF TypeOK
<1>2. NotBuilt'
  BY DEF Inv, TypeOK, NotBuilt, HolderInv, DogWakes
<1>3. HolderInv'
  BY DEF Inv, TypeOK, HolderInv, DogWakes
<1>4. LifecycleMatchesChild'
  BY DEF Inv, TypeOK, NotBuilt, HolderInv, LifecycleMatchesChild, EveryProcessIsWatched, Held, DogWakes
<1>5. EveryProcessIsWatched'
  BY SMTT(30) DEF Inv, TypeOK, NotBuilt, HolderInv, EveryProcessIsWatched, Held, DogWakes
<1> QED BY <1>1, <1>2, <1>3, <1>4, <1>5 DEF Inv

LEMMA DogChecksStep ==
  ASSUME Inv, NEW g \in Gen, DogChecks(g)
  PROVE  Inv'
<1>1. TypeOK'
  <2>1. \A d \in Caller, h \in Gen : lock'[h] = d <=> pc'[d] \in Holding /\ gen'[d] = h
    BY DEF Inv, TypeOK, DogChecks
  <2>2. child' \in [Gen -> {"none", "booting", "serving", "dead"}] /\ lifecycle' \in [Gen -> Inert \cup Listening]
    BY DEF Inv, TypeOK, DogChecks, Kept
  <2>3. /\ pc' \in [Caller -> PCs] /\ gen' \in [Caller -> Gen] /\ late' \in [Caller -> BOOLEAN]
        /\ lock' \in [Gen -> Caller \cup {None}]
    BY DEF Inv, TypeOK, DogChecks
  <2>4. /\ watchdog' \in [Gen -> BOOLEAN] /\ idle' \in [Gen -> BOOLEAN]
        /\ current' \in Gen /\ spawns' \in 0 .. MaxSpawns
    <3>1. idle' \in [Gen -> BOOLEAN] /\ current' \in Gen /\ spawns' \in 0 .. MaxSpawns
      BY DEF Inv, TypeOK, DogChecks
    <3>2. watchdog \in [Gen -> BOOLEAN]
      BY DEF Inv, TypeOK
    <3>3. watchdog' = [watchdog EXCEPT ![g] = FALSE] \/ watchdog' = [watchdog EXCEPT ![g] = watchdog[g]]
      BY DEF DogChecks
    <3>4. watchdog' \in [Gen -> BOOLEAN]
      BY <3>2, <3>3
    <3> QED BY <3>1, <3>4
  <2>5. asleep' \in [Gen -> Nat]
    <3>1. asleep[g] + 1 \in Nat /\ asleep[g] \in Nat /\ asleep \in [Gen -> Nat]
      BY DEF Inv, TypeOK
    <3> QED BY <3>1 DEF DogChecks
  <2>6. waiting' \in [Gen -> Nat]
    <3>1. waiting[g] - 1 \in Nat /\ waiting \in [Gen -> Nat]
      BY SMTT(30) DEF Inv, TypeOK, DogChecks
    <3> QED BY <3>1 DEF DogChecks
  <2> QED BY <2>1, <2>2, <2>3, <2>4, <2>5, <2>6 DEF TypeOK
<1>2. NotBuilt'
  BY DEF Inv, TypeOK, NotBuilt, HolderInv, DogChecks, Kept
<1>3. HolderInv'
  BY SMTT(30) DEF Inv, TypeOK, HolderInv, DogChecks, Kept, Held
<1>4. LifecycleMatchesChild'
  BY SMTT(30) DEF Inv, TypeOK, NotBuilt, HolderInv, LifecycleMatchesChild, EveryProcessIsWatched, Held, DogChecks, Kept
<1>5. EveryProcessIsWatched'
  BY DEF Inv, TypeOK, NotBuilt, HolderInv, EveryProcessIsWatched, Held, DogChecks, Kept
<1> QED BY <1>1, <1>2, <1>3, <1>4, <1>5 DEF Inv

LEMMA IdleExpiresStep ==
  ASSUME Inv, NEW g \in Gen, IdleExpires(g)
  PROVE  Inv'
<1>1. TypeOK'
  BY SMTT(30) DEF Inv, TypeOK, IdleExpires
<1>2. NotBuilt'
  BY DEF Inv, TypeOK, NotBuilt, HolderInv, IdleExpires
<1>3. HolderInv'
  BY DEF Inv, TypeOK, HolderInv, IdleExpires
<1>4. LifecycleMatchesChild'
  BY DEF Inv, TypeOK, NotBuilt, HolderInv, LifecycleMatchesChild, EveryProcessIsWatched, Held, IdleExpires
<1>5. EveryProcessIsWatched'
  BY DEF Inv, TypeOK, NotBuilt, HolderInv, EveryProcessIsWatched, Held, IdleExpires
<1> QED BY <1>1, <1>2, <1>3, <1>4, <1>5 DEF Inv

LEMMA ServeStep ==
  ASSUME Inv, NEW g \in Gen, Serve(g)
  PROVE  Inv'
<1>1. TypeOK'
  BY DEF Inv, TypeOK, Serve
<1>2. NotBuilt'
  BY DEF Inv, TypeOK, NotBuilt, HolderInv, Serve
<1>3. HolderInv'
  BY DEF Inv, TypeOK, HolderInv, Serve
<1>4. LifecycleMatchesChild'
  BY SMTT(30) DEF Inv, TypeOK, NotBuilt, HolderInv, LifecycleMatchesChild, EveryProcessIsWatched, Held, Serve
<1>5. EveryProcessIsWatched'
  BY DEF Inv, TypeOK, NotBuilt, HolderInv, EveryProcessIsWatched, Held, Serve
<1> QED BY <1>1, <1>2, <1>3, <1>4, <1>5 DEF Inv

LEMMA CrashStep ==
  ASSUME Inv, NEW g \in Gen, Crash(g)
  PROVE  Inv'
<1>1. TypeOK'
  BY DEF Inv, TypeOK, Crash
<1>2. NotBuilt'
  BY DEF Inv, TypeOK, NotBuilt, HolderInv, Crash
<1>3. HolderInv'
  BY DEF Inv, TypeOK, HolderInv, Crash
<1>4. LifecycleMatchesChild'
  BY SMTT(30) DEF Inv, TypeOK, NotBuilt, HolderInv, LifecycleMatchesChild, EveryProcessIsWatched, Held, Crash
<1>5. EveryProcessIsWatched'
  BY DEF Inv, TypeOK, NotBuilt, HolderInv, EveryProcessIsWatched, Held, Crash
<1> QED BY <1>1, <1>2, <1>3, <1>4, <1>5 DEF Inv

LEMMA ReplaceProviderStep ==
  ASSUME Inv, ReplaceProvider
  PROVE  Inv'
<1>1. TypeOK'
  BY DEF Inv, TypeOK, ReplaceProvider, Kept
<1>2. NotBuilt'
  BY DEF Inv, TypeOK, NotBuilt, HolderInv, ReplaceProvider, Kept
<1>3. HolderInv'
  <2> SUFFICES ASSUME NEW c \in Caller
               PROVE  LET g == gen[c] IN
                        /\ pc[c] = "spawn" => child'[g] = "none" /\ lifecycle'[g] = "starting"
                        /\ pc[c] \in {"probe", "health"} =>
                             child'[g] # "none" /\ lifecycle'[g] = "starting"
                        /\ pc[c] = "request" => child'[g] # "none" /\ lifecycle'[g] = "busy"
    BY DEF HolderInv, ReplaceProvider
  <2>1. gen[c] \in Gen /\ gen[c] # current + 1
    BY DEF Inv, TypeOK, NotBuilt
  <2>2. lifecycle'[gen[c]] = lifecycle[gen[c]]
    BY <2>1 DEF Inv, TypeOK, ReplaceProvider
  <2>3. pc[c] # "idle" => child'[gen[c]] = child[gen[c]]
    BY <2>1 DEF ReplaceProvider, Kept, Held
  <2> QED BY <2>2, <2>3 DEF Inv, HolderInv
<1>4. LifecycleMatchesChild'
  BY DEF Inv, TypeOK, NotBuilt, HolderInv, LifecycleMatchesChild, EveryProcessIsWatched, Held, ReplaceProvider, Kept
<1>5. EveryProcessIsWatched'
  BY DEF Inv, TypeOK, NotBuilt, HolderInv, EveryProcessIsWatched, Held, ReplaceProvider, Kept
<1> QED BY <1>1, <1>2, <1>3, <1>4, <1>5 DEF Inv

(* A step that leaves the variables alone keeps it. *)
LEMMA StutterStep == Inv /\ UNCHANGED vars => Inv'
<1> SUFFICES ASSUME Inv, UNCHANGED vars PROVE Inv'
  OBVIOUS
<1>1. TypeOK' /\ NotBuilt' /\ HolderInv'
  BY DEF Inv, TypeOK, NotBuilt, HolderInv, vars
<1>2. LifecycleMatchesChild' /\ EveryProcessIsWatched'
  BY DEF Inv, LifecycleMatchesChild, EveryProcessIsWatched, Held, vars
<1> QED BY <1>1, <1>2 DEF Inv

LEMMA StepInv == Inv /\ [Next]_vars => Inv'
<1> SUFFICES ASSUME Inv, [Next]_vars PROVE Inv'
  OBVIOUS
<1>1. ASSUME NEW c \in Caller, Query(c) \/ Run(c) \/ StartupExpires(c)
      PROVE  Inv'
  BY <1>1, QueryStep, AcquireStep, SpawnFailsStep, SpawnStep, TryWaitStep, HealthOkStep,
     HealthFailsStep, StartupExpiresStep, RequestOkStep, RequestErrStep, LeaveStep DEF Run
<1>2. ASSUME NEW g \in Gen,
             DogWakes(g) \/ DogChecks(g) \/ IdleExpires(g) \/ Serve(g) \/ Crash(g)
      PROVE  Inv'
  BY <1>2, DogWakesStep, DogChecksStep, IdleExpiresStep, ServeStep, CrashStep
<1>3. CASE ReplaceProvider
  BY <1>3, ReplaceProviderStep
<1>4. CASE UNCHANGED vars
  BY <1>4, StutterStep
<1> QED BY <1>1, <1>2, <1>3, <1>4 DEF Next

(* What run() and the watchdogs keep of every provider                     *)
(* (providers/text.rs, LlamafileLocalProvider).                            *)
THEOREM Invariance == Spec => []Inv
BY InitInv, StepInv, PTL DEF Spec

-----------------------------------------------------------------------------
(* Every variable has its type, and a mutex is held exactly by the caller  *)
(* inside the runtime block (providers/text.rs, LlamafileLocalProvider).   *)
THEOREM TypeCorrect == Spec => []TypeOK
<1>1. Inv => TypeOK
  BY DEF Inv
<1> QED BY <1>1, Invariance, PTL

(* Between two runs "ready" is said exactly of a provider with a process   *)
(* (providers/text.rs, run and the watchdog).                              *)
THEOREM LifecycleIsTrue == Spec => []LifecycleMatchesChild
<1>1. Inv => LifecycleMatchesChild
  BY DEF Inv
<1> QED BY <1>1, Invariance, PTL

(* No process outlives its provider, none is without a watchdog between    *)
(* runs, and no flag stands for a watchdog that is gone (providers/text.rs,*)
(* maybe_start_watchdog).                                                  *)
THEOREM NoneUnwatched == Spec => []EveryProcessIsWatched
<1>1. Inv => EveryProcessIsWatched
  BY DEF Inv
<1> QED BY <1>1, Invariance, PTL

(* Only the holder of the mutex itself may lose or drop the process: the   *)
(* watchdog waits, and a replaced provider lives on while it is in use.    *)
LEMMA HeldKeepsItsProcess ==
  ASSUME Inv, [Next]_vars, NEW g \in Gen, lock[g] # None, lock'[g] = lock[g], child[g] # "none"
  PROVE  child'[g] # "none"
<1>1. PICK c \in Caller : lock[g] = c /\ pc[c] \in Holding /\ gen[c] = g
  BY DEF Inv, TypeOK
<1>2. ASSUME NEW d \in Caller, Query(d) \/ StartupExpires(d) \/ Acquire(d) \/ SpawnFails(d)
             \/ Spawn(d) \/ HealthOk(d) \/ RequestOk(d)
      PROVE  child'[g] # "none"
  BY <1>2, SMTT(30) DEF Inv, TypeOK, Query, StartupExpires, Acquire, SpawnFails, Spawn, HealthOk, RequestOk
<1>3. ASSUME NEW d \in Caller, TryWait(d) \/ HealthFails(d) \/ RequestErr(d)
      PROVE  child'[g] # "none"
  <2>1. CASE d = c
    BY <1>1, <1>3, <2>1 DEF Inv, TypeOK, TryWait, HealthFails, RequestErr
  <2>2. CASE d # c
    <3>1. gen[d] # g
      BY <1>1, <1>3, <2>2 DEF Inv, TypeOK, TryWait, HealthFails, RequestErr
    <3>2. child' = child \/ child' = [child EXCEPT ![gen[d]] = "none"]
      BY <1>3 DEF TryWait, HealthFails, RequestErr
    <3>3. child'[g] = child[g]
      BY <3>1, <3>2, SMTT(30) DEF Inv, TypeOK
    <3> QED BY <3>3
  <2> QED BY <2>1, <2>2
<1>4. ASSUME NEW d \in Caller, Leave(d)
      PROVE  child'[g] # "none"
  BY <1>1, <1>4 DEF Inv, TypeOK, Leave, Kept, Held
<1>5. ASSUME NEW h \in Gen,
             DogWakes(h) \/ IdleExpires(h) \/ Serve(h) \/ Crash(h)
      PROVE  child'[g] # "none"
  <2>1. \/ child' = child
        \/ \E v \in {"dead", "serving"} : child' = [child EXCEPT ![h] = v]
    BY <1>5 DEF DogWakes, IdleExpires, Serve, Crash
  <2>2. child \in [Gen -> {"none", "booting", "serving", "dead"}]
    BY DEF Inv, TypeOK
  <2> QED BY <2>1, <2>2
<1>6. ASSUME NEW h \in Gen, DogChecks(h)
      PROVE  child'[g] # "none"
  BY <1>1, <1>6 DEF Inv, TypeOK, DogChecks, Kept, Held
<1>7. CASE ReplaceProvider
  BY <1>1, <1>7 DEF Inv, TypeOK, ReplaceProvider, Kept, Held
<1>8. CASE UNCHANGED vars
  BY <1>8 DEF vars
<1> QED BY <1>2, <1>3, <1>4, <1>5, <1>6, <1>7, <1>8 DEF Next, Run

(* No watchdog, settings write or other caller takes a process from a      *)
(* request that is using it (providers/text.rs; app.rs, the replacement).  *)
THEOREM InUseIsKept == Spec => NeverStoppedInUse
<1>1. Inv /\ [Next]_vars =>
        [\A g \in Gen : lock[g] # None /\ lock'[g] = lock[g] /\ child[g] # "none"
           => child'[g] # "none"]_vars
  BY HeldKeepsItsProcess
<1> QED BY <1>1, Invariance, PTL DEF Spec, NeverStoppedInUse
=============================================================================
