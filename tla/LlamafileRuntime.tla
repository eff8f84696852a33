-------------------------- MODULE LlamafileRuntime --------------------------
(***************************************************************************)
(* The lazily started llamafile process of the text provider               *)
(* (core/src/providers/text.rs, LlamafileLocalProvider): callers that run  *)
(* requests under the runtime mutex, the watchdog tasks that stop an idle  *)
(* process, the process itself, and the replacement of the provider by a   *)
(* settings write (core/src/app.rs), after which callers that hold the old *)
(* one finish on it.                                                       *)
(*                                                                         *)
(* A step is what runs between two awaits; under the mutex only the holder *)
(* of lock[g] changes child, idle and watchdog of provider g.              *)
(***************************************************************************)
EXTENDS Naturals

CONSTANTS
  Caller,     \* connection tasks that may have a text query in flight
  None,       \* no holder of a mutex
  Configs,    \* initial lifecycles a configuration may lead to
  MaxGen,     \* bound: providers built in one run of the core
  MaxSpawns   \* bound: processes spawned in one run of the core

Gen      == 1 .. MaxGen
Inert    == {"disabled", "not_configured"}
Initials == Inert \cup {"configured"}
Listening == {"configured", "starting", "ready", "busy", "failed", "stopped"}

ASSUME ConstantsAssumption ==
  /\ None \notin Caller
  /\ MaxGen \in Nat \ {0} /\ MaxSpawns \in Nat
  /\ Configs \subseteq Initials

VARIABLES
  current,    \* the provider in App.text_provider; 1 .. current were built
  child,      \* per provider: the process behind state.child
  idle,       \* state.last_used lies idle_timeout_seconds back
  watchdog,   \* state.watchdog_running
  lifecycle,  \* LlamafileInner.lifecycle
  lock,       \* holder of LlamafileInner.state across awaits
  asleep,     \* watchdog tasks of a provider in sleep(check_interval)
  waiting,    \* watchdog tasks that upgraded their Weak and want the lock
  pc, gen,    \* per caller: where it is, the provider it cloned
  late,       \* per caller: startup_timeout_seconds have passed
  spawns      \* processes spawned so far

vars == <<current, child, idle, watchdog, lifecycle, lock, asleep, waiting,
          pc, gen, late, spawns>>

Init ==
  /\ current   = 1
  /\ child     = [g \in Gen |-> "none"]
  /\ idle      = [g \in Gen |-> FALSE]
  /\ watchdog  = [g \in Gen |-> FALSE]
  /\ \E l \in Configs : lifecycle = [g \in Gen |-> l]
  /\ lock      = [g \in Gen |-> None]
  /\ asleep    = [g \in Gen |-> 0]
  /\ waiting   = [g \in Gen |-> 0]
  /\ pc        = [c \in Caller |-> "idle"]
  /\ gen       = [c \in Caller |-> 1]
  /\ late      = [c \in Caller |-> FALSE]
  /\ spawns    = 0

-----------------------------------------------------------------------------
(* Arc<LlamafileInner> is held by the resolver in use, by callers and by   *)
(* watchdogs past their upgrade; with the last one the process is killed   *)
(* (kill_on_drop).                                                         *)
Held(g, cur, at, w) ==
  \/ g = cur
  \/ w[g] > 0
  \/ \E c \in Caller : at[c] # "idle" /\ gen[c] = g

Kept(procs, cur, at, w) ==
  [g \in Gen |-> IF Held(g, cur, at, w) THEN procs[g] ELSE "none"]

Alive(g) == child[g] \in {"booting", "serving"}

(* All providers of one run probe the same port of 127.0.0.1.              *)
PortAnswers == \E g \in Gen : child[g] = "serving"

Lifecycle(g, l) == lifecycle' = [lifecycle EXCEPT ![g] = l]
Goto(c, l)      == pc' = [pc EXCEPT ![c] = l]
Release(c)      == lock' = [lock EXCEPT ![gen[c]] = None] /\ Goto(c, "rest")

-----------------------------------------------------------------------------
(* run(), on a connection's task.                                          *)

(* current_resolver clones the Arc; a disabled or unconfigured provider    *)
(* refuses at once.                                                        *)
Query(c) ==
  /\ pc[c] = "idle"
  /\ gen' = [gen EXCEPT ![c] = current]
  /\ Goto(c, IF lifecycle[current] \in Inert THEN "rest" ELSE "want")
  /\ UNCHANGED <<current, child, idle, watchdog, lifecycle, lock, asleep,
                 waiting, late, spawns>>

(* state.lock().await: without a process spawn one, else post at once.     *)
Acquire(c) ==
  LET g == gen[c]
  IN /\ pc[c] = "want"
     /\ lock[g] = None
     /\ lock' = [lock EXCEPT ![g] = c]
     /\ late' = [late EXCEPT ![c] = FALSE]
     /\ IF child[g] = "none" THEN Goto(c, "spawn") /\ Lifecycle(g, "starting")
                             ELSE Goto(c, "request") /\ Lifecycle(g, "busy")
     /\ UNCHANGED <<current, child, idle, watchdog, asleep, waiting, gen, spawns>>

SpawnFails(c) ==
  /\ pc[c] = "spawn"
  /\ Lifecycle(gen[c], "failed")
  /\ Release(c)
  /\ UNCHANGED <<current, child, idle, watchdog, asleep, waiting, gen, late, spawns>>

Spawn(c) ==
  /\ pc[c] = "spawn"
  /\ spawns < MaxSpawns
  /\ spawns' = spawns + 1
  /\ child' = [child EXCEPT ![gen[c]] = "booting"]
  /\ idle' = [idle EXCEPT ![gen[c]] = FALSE]
  /\ Goto(c, "probe")
  /\ UNCHANGED <<current, watchdog, lifecycle, lock, asleep, waiting, gen, late>>

(* The readiness loop: an early exit of the process ends it ...            *)
TryWait(c) ==
  /\ pc[c] = "probe"
  /\ IF Alive(gen[c])
     THEN Goto(c, "health") /\ UNCHANGED <<child, lifecycle, lock>>
     ELSE /\ Release(c)
          /\ Lifecycle(gen[c], "failed")
          /\ child' = [child EXCEPT ![gen[c]] = "none"]
  /\ UNCHANGED <<current, idle, watchdog, asleep, waiting, gen, late, spawns>>

(* ... a 200 from /health, whoever serves the port, makes it Ready and, on *)
(* return to run(), Busy ...                                               *)
HealthOk(c) ==
  /\ pc[c] = "health"
  /\ PortAnswers
  /\ idle' = [idle EXCEPT ![gen[c]] = FALSE]
  /\ Lifecycle(gen[c], "busy")
  /\ Goto(c, "request")
  /\ UNCHANGED <<current, child, watchdog, lock, asleep, waiting, gen, late, spawns>>

(* Mutant: the loop never looks at the clock.                              *)
HealthFails_Forever(c) ==
  /\ pc[c] = "health"
  /\ Goto(c, "probe")
  /\ UNCHANGED <<current, child, idle, watchdog, lifecycle, lock, asleep, waiting,
                 gen, late, spawns>>

(* ... and no answer repeats it until startup_timeout_seconds are over.    *)
HealthFails(c) ==
  /\ pc[c] = "health"
  /\ IF late[c]
     THEN /\ Release(c)
          /\ Lifecycle(gen[c], "failed")
          /\ child' = [child EXCEPT ![gen[c]] = "none"]
     ELSE Goto(c, "probe") /\ UNCHANGED <<child, lifecycle, lock>>
  /\ UNCHANGED <<current, idle, watchdog, asleep, waiting, gen, late, spawns>>

StartupExpires(c) ==
  /\ pc[c] \in {"probe", "health"}
  /\ ~ late[c]
  /\ late' = [late EXCEPT ![c] = TRUE]
  /\ UNCHANGED <<current, child, idle, watchdog, lifecycle, lock, asleep, waiting,
                 pc, gen, spawns>>

(* post_completion returns: on success the process is fresh and has a      *)
(* watchdog, on any error (connect, status, timeout, empty) it is killed.  *)
RequestOk(c) ==
  LET g == gen[c]
  IN /\ pc[c] = "request"
     /\ PortAnswers
     /\ idle' = [idle EXCEPT ![g] = FALSE]
     /\ Lifecycle(g, "ready")
     /\ watchdog' = [watchdog EXCEPT ![g] = TRUE]
     /\ asleep' = [asleep EXCEPT ![g] = IF watchdog[g] THEN @ ELSE @ + 1]
     /\ Release(c)
     /\ UNCHANGED <<current, child, waiting, gen, late, spawns>>

(* Mutant: the broken process is kept for the next request.                *)
RequestErr_KeepsChild(c) ==
  LET g == gen[c]
  IN /\ pc[c] = "request"
     /\ Lifecycle(g, "failed")
     /\ watchdog' = [watchdog EXCEPT ![g] = FALSE]
     /\ Release(c)
     /\ UNCHANGED <<current, child, idle, asleep, waiting, gen, late, spawns>>

RequestErr(c) ==
  LET g == gen[c]
  IN /\ pc[c] = "request"
     /\ Lifecycle(g, "failed")
     /\ child' = [child EXCEPT ![g] = "none"]
     /\ watchdog' = [watchdog EXCEPT ![g] = FALSE]
     /\ Release(c)
     /\ UNCHANGED <<current, idle, asleep, waiting, gen, late, spawns>>

(* The resolver goes on with the rest of the chain and is let go of.       *)
Leave(c) ==
  /\ pc[c] = "rest"
  /\ Goto(c, "idle")
  /\ child' = Kept(child, current, pc', waiting)
  /\ UNCHANGED <<current, idle, watchdog, lifecycle, lock, asleep, waiting, gen,
                 late, spawns>>

-----------------------------------------------------------------------------
(* The watchdog tasks.                                                     *)

(* sleep(check_interval), then weak.upgrade().                             *)
DogWakes(g) ==
  /\ asleep[g] > 0
  /\ asleep' = [asleep EXCEPT ![g] = @ - 1]
  /\ waiting' = IF Held(g, current, pc, waiting)
                THEN [waiting EXCEPT ![g] = @ + 1] ELSE waiting
  /\ UNCHANGED <<current, child, idle, watchdog, lifecycle, lock, pc, gen, late, spawns>>

(* Mutants: the flag outlives the watchdog; a dead process is spared; the  *)
(* task does not take the mutex.                                           *)
DogChecks_KeepsFlag(g) ==
  /\ waiting[g] > 0
  /\ lock[g] = None
  /\ waiting' = [waiting EXCEPT ![g] = @ - 1]
  /\ LET stops  == child[g] # "none" /\ idle[g]
         leaves == stops \/ child[g] = "none"
     IN /\ asleep' = [asleep EXCEPT ![g] = IF leaves THEN @ ELSE @ + 1]
        /\ lifecycle' = [lifecycle EXCEPT ![g] = IF stops THEN "stopped" ELSE @]
        /\ child' = Kept([child EXCEPT ![g] = IF stops THEN "none" ELSE @],
                         current, pc, waiting')
  /\ UNCHANGED <<current, idle, watchdog, lock, pc, gen, late, spawns>>

DogChecks_SparesDead(g) ==
  /\ waiting[g] > 0
  /\ lock[g] = None
  /\ waiting' = [waiting EXCEPT ![g] = @ - 1]
  /\ LET stops  == child[g] = "serving" /\ idle[g]
         leaves == stops \/ child[g] = "none"
     IN /\ watchdog' = [watchdog EXCEPT ![g] = IF leaves THEN FALSE ELSE @]
        /\ asleep' = [asleep EXCEPT ![g] = IF leaves THEN @ ELSE @ + 1]
        /\ lifecycle' = [lifecycle EXCEPT ![g] = IF stops THEN "stopped" ELSE @]
        /\ child' = Kept([child EXCEPT ![g] = IF stops THEN "none" ELSE @],
                         current, pc, waiting')
  /\ UNCHANGED <<current, idle, lock, pc, gen, late, spawns>>

DogChecks_NoMutex(g) ==
  /\ waiting[g] > 0
  /\ waiting' = [waiting EXCEPT ![g] = @ - 1]
  /\ LET stops  == child[g] # "none" /\ idle[g]
         leaves == stops \/ child[g] = "none"
     IN /\ watchdog' = [watchdog EXCEPT ![g] = IF leaves THEN FALSE ELSE @]
        /\ asleep' = [asleep EXCEPT ![g] = IF leaves THEN @ ELSE @ + 1]
        /\ lifecycle' = [lifecycle EXCEPT ![g] = IF stops THEN "stopped" ELSE @]
        /\ child' = Kept([child EXCEPT ![g] = IF stops THEN "none" ELSE @],
                         current, pc, waiting')
  /\ UNCHANGED <<current, idle, lock, pc, gen, late, spawns>>

(* Under the mutex: without a process, or with one that was idle too long  *)
(* and is stopped, the task ends and clears its flag; else it sleeps on.   *)
DogChecks(g) ==
  /\ waiting[g] > 0
  /\ lock[g] = None
  /\ waiting' = [waiting EXCEPT ![g] = @ - 1]
  /\ LET stops  == child[g] # "none" /\ idle[g]
         leaves == stops \/ child[g] = "none"
     IN /\ watchdog' = [watchdog EXCEPT ![g] = IF leaves THEN FALSE ELSE @]
        /\ asleep' = [asleep EXCEPT ![g] = IF leaves THEN @ ELSE @ + 1]
        /\ lifecycle' = [lifecycle EXCEPT ![g] = IF stops THEN "stopped" ELSE @]
        /\ child' = Kept([child EXCEPT ![g] = IF stops THEN "none" ELSE @],
                         current, pc, waiting')
  /\ UNCHANGED <<current, idle, lock, pc, gen, late, spawns>>

-----------------------------------------------------------------------------
(* The clock, the process and the settings.                                *)

IdleExpires(g) ==
  /\ child[g] # "none"
  /\ ~ idle[g]
  /\ idle' = [idle EXCEPT ![g] = TRUE]
  /\ UNCHANGED <<current, child, watchdog, lifecycle, lock, asleep, waiting, pc,
                 gen, late, spawns>>

(* A process gets the port only while no other one has it.                 *)
Serve(g) ==
  /\ child[g] = "booting"
  /\ child' = [child EXCEPT ![g] = IF PortAnswers THEN "dead" ELSE "serving"]
  /\ UNCHANGED <<current, idle, watchdog, lifecycle, lock, asleep, waiting, pc,
                 gen, late, spawns>>

Crash(g) ==
  /\ Alive(g)
  /\ child' = [child EXCEPT ![g] = "dead"]
  /\ UNCHANGED <<current, idle, watchdog, lifecycle, lock, asleep, waiting, pc,
                 gen, late, spawns>>

(* Any text-provider settings write builds a fresh resolver, and with it a *)
(* fresh provider, and drops the old Arc.                                  *)
ReplaceProvider ==
  /\ current < MaxGen
  /\ current' = current + 1
  /\ \E l \in Configs : Lifecycle(current + 1, l)
  /\ child' = Kept(child, current + 1, pc, waiting)
  /\ UNCHANGED <<idle, watchdog, lock, asleep, waiting, pc, gen, late, spawns>>

-----------------------------------------------------------------------------
Run(c) ==
  \/ Acquire(c) \/ SpawnFails(c) \/ Spawn(c) \/ TryWait(c) \/ HealthOk(c)
  \/ HealthFails(c) \/ RequestOk(c) \/ RequestErr(c) \/ Leave(c)

Next ==
  \/ \E c \in Caller : Query(c) \/ Run(c) \/ StartupExpires(c)
  \/ \E g \in Gen : DogWakes(g) \/ DogChecks(g) \/ IdleExpires(g) \/ Serve(g) \/ Crash(g)
  \/ ReplaceProvider

Spec == Init /\ [][Next]_vars

(* Timers fire, every HTTP call and spawn returns (each has a timeout),    *)
(* and tokio's mutex is FIFO: who waits for it gets it. Nobody has to      *)
(* query, and no process has to come up or to answer.                      *)
Fairness ==
  /\ \A c \in Caller : /\ WF_vars(Run(c)) /\ SF_vars(Acquire(c))
                       /\ WF_vars(StartupExpires(c))
  /\ \A g \in Gen : /\ WF_vars(DogWakes(g)) /\ SF_vars(DogChecks(g))
                    /\ WF_vars(IdleExpires(g))

FairSpec == Spec /\ Fairness

-----------------------------------------------------------------------------
(* Properties.                                                             *)

PCs == {"idle", "want", "spawn", "probe", "health", "request", "rest"}
Holding == {"spawn", "probe", "health", "request"}

(* Every variable has its type, and a mutex is held exactly by the caller  *)
(* inside the runtime block of its provider.                               *)
TypeOK ==
  /\ current \in Gen
  /\ child \in [Gen -> {"none", "booting", "serving", "dead"}]
  /\ idle \in [Gen -> BOOLEAN]
  /\ watchdog \in [Gen -> BOOLEAN]
  /\ lifecycle \in [Gen -> Inert \cup Listening]
  /\ lock \in [Gen -> Caller \cup {None}]
  /\ asleep \in [Gen -> Nat]
  /\ waiting \in [Gen -> Nat]
  /\ pc \in [Caller -> PCs]
  /\ gen \in [Caller -> Gen]
  /\ late \in [Caller -> BOOLEAN]
  /\ spawns \in 0 .. MaxSpawns
  /\ \A c \in Caller, g \in Gen : lock[g] = c <=> pc[c] \in Holding /\ gen[c] = g

(* What get_status shows between two runs is true of the process slot:     *)
(* "ready" exactly when there is a process to post to, and a failed,       *)
(* stopped or fresh provider has none, so that its next run spawns.        *)
LifecycleMatchesChild ==
  \A g \in 1 .. current : lock[g] = None /\ Held(g, current, pc, waiting) =>
    /\ child[g] # "none" <=> lifecycle[g] = "ready"
    /\ lifecycle[g] \notin {"starting", "busy"}

(* No process is left without somebody to stop it: its provider is still  *)
(* the current one or in use, and outside a run a process means the flag   *)
(* is set, and a set flag that a watchdog task is alive.                   *)
EveryProcessIsWatched ==
  \A g \in Gen :
    /\ child[g] # "none" => Held(g, current, pc, waiting)
    /\ Held(g, current, pc, waiting) =>
         /\ lock[g] = None /\ child[g] # "none" => watchdog[g]
         /\ watchdog[g] => asleep[g] + waiting[g] > 0

(* The watchdog takes no process from a running request.                   *)
NeverStoppedInUse ==
  [][\A g \in Gen : lock[g] # None /\ lock'[g] = lock[g] /\ child[g] # "none"
       => child'[g] # "none"]_vars

(* Every query that got past the refusal comes to an end, whatever the     *)
(* process does and however many others want the mutex.                    *)
EveryRunReturns == \A c \in Caller : pc[c] = "want" ~> pc[c] = "idle"

(* A process that is kept for ever is used again and again.                *)
UnusedProcessStops ==
  \A g \in Gen :
    <>[](child[g] # "none") => []<>(\E c \in Caller : gen[c] = g /\ pc[c] = "request")

=============================================================================
