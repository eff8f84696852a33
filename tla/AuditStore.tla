----------------------------- MODULE AuditStore -----------------------------
(***************************************************************************)
(* The audit ring of the core (core/src/audit/store.rs): record() draws an *)
(* id and a timestamp from atomics and the clock before it takes the lock  *)
(* of the ring; list_recent() copies the end of the ring under the lock.   *)
(* Handlers and waiter tasks on all threads record concurrently.           *)
(***************************************************************************)
EXTENDS Naturals, Sequences, FiniteSets

CONSTANTS
  Recorder,    \* threads of control that record events
  Requested,   \* the capacity SMOLIT_AUDIT_MAX_EVENTS asks for
  DefaultMax,  \* DEFAULT_MAX_EVENTS
  HardMax,     \* HARD_MAX_EVENTS
  MaxEvents    \* bound: events recorded in one run of the core

ASSUME BoundsAssumption ==
  /\ Requested \in Nat /\ MaxEvents \in Nat
  /\ DefaultMax \in Nat \ {0} /\ HardMax \in Nat /\ DefaultMax <= HardMax

(* clamp_capacity.                                                         *)
ClampCapacity(n) ==
  IF n = 0 THEN DefaultMax ELSE IF n > HardMax THEN HardMax ELSE n

Capacity == ClampCapacity(Requested)

Event == [id : Nat \ {0}, by : Recorder]

VARIABLES
  counter,  \* AuditStore.counter
  built,    \* per writer: id of the event it built and has not pushed, or 0
  ring,     \* AuditInner.events
  pushed    \* history: every event pushed, in the order of the lock

auditVars == <<counter, built, ring, pushed>>

AuditInit ==
  /\ counter = 0
  /\ built   = [w \in Recorder |-> 0]
  /\ ring    = <<>>
  /\ pushed  = <<>>

(* build_event: counter.fetch_add(1), then the clock.                      *)
BuildEvent(w) ==
  /\ built[w] = 0
  /\ counter < MaxEvents
  /\ counter' = counter + 1
  /\ built' = [built EXCEPT ![w] = counter + 1]
  /\ UNCHANGED <<ring, pushed>>

(* The events left after pop_front has run while the ring was full.        *)
Evict(s) ==
  IF Len(s) < Capacity THEN s ELSE SubSeq(s, Len(s) - Capacity + 2, Len(s))

(* Mutant: the newest event is put in front.                               *)
Push_Front(w) ==
  /\ built[w] # 0
  /\ LET e == [id |-> built[w], by |-> w]
     IN /\ ring' = <<e>> \o Evict(ring)
        /\ pushed' = Append(pushed, e)
  /\ built' = [built EXCEPT ![w] = 0]
  /\ UNCHANGED counter

(* record, under the lock.                                                 *)
Push(w) ==
  /\ built[w] # 0
  /\ LET e == [id |-> built[w], by |-> w]
     IN /\ ring' = Append(Evict(ring), e)
        /\ pushed' = Append(pushed, e)
  /\ built' = [built EXCEPT ![w] = 0]
  /\ UNCHANGED counter

(* list_recent as handle_audit_recent calls it, the limit capped.          *)
LastOf(s, n) == SubSeq(s, Len(s) - n + 1, Len(s))

ListRecent_Oldest(limit) ==
  LET bounded == IF limit > HardMax THEN HardMax ELSE limit
  IN SubSeq(ring, 1, IF bounded > Len(ring) THEN Len(ring) ELSE bounded)

ListRecent(limit) ==
  LET bounded == IF limit > HardMax THEN HardMax ELSE limit
  IN LastOf(ring, IF bounded > Len(ring) THEN Len(ring) ELSE bounded)

AuditNext == \E w \in Recorder : BuildEvent(w) \/ Push(w)

AuditSpec == AuditInit /\ [][AuditNext]_auditVars

-----------------------------------------------------------------------------
(* Properties.                                                             *)

(* The counter, the ids and the ring keep their types; the ring never      *)
(* outgrows its clamped capacity.                                          *)
AuditTypeOK ==
  /\ counter \in Nat
  /\ built \in [Recorder -> Nat]
  /\ ring \in Seq(Event)
  /\ pushed \in Seq(Event)
  /\ Len(ring) <= Capacity

(* What audit_recent answers is the end of the history, as long as the     *)
(* limit, the capacity and the history allow: nothing but the oldest       *)
(* events is ever lost, and none is repeated or moved.                     *)
AnswersTheLatest ==
  \A limit \in 0 .. HardMax + 1 :
    LET answer == ListRecent(limit)
    IN /\ answer = LastOf(pushed, Len(answer))
       /\ \/ Len(answer) = limit
          \/ limit > Len(answer) /\ Len(answer) \in {Capacity, Len(pushed)}

(* Every id that was drawn belongs to one pushed event or to one writer    *)
(* that is about to push it.                                               *)
Ids(s) == {s[n].id : n \in DOMAIN s}
IdsAccountedFor ==
  /\ \A m, n \in DOMAIN pushed : pushed[m].id = pushed[n].id => m = n
  /\ \A w \in Recorder : built[w] # 0 =>
       /\ built[w] \notin Ids(pushed)
       /\ \A v \in Recorder : v # w => built[v] # built[w]
  /\ 1 .. counter = (Ids(pushed) \cup {built[w] : w \in Recorder}) \ {0}

(* The chain a single handler or waiter task records reads in its order,   *)
(* whatever other threads record in between; ids grow along it.            *)
ChainInOrder ==
  \A m, n \in DOMAIN ring :
    m < n /\ ring[m].by = ring[n].by => ring[m].id < ring[n].id

-----------------------------------------------------------------------------
(* The inductive invariant: the ring is the end of the history, position   *)
(* by position, and a writer's events are in order in the history and      *)
(* before the one it has built.                                            *)
RingInv ==
  /\ Len(ring) = IF Len(pushed) < Capacity THEN Len(pushed) ELSE Capacity
  /\ \A n \in 1 .. Len(ring) : ring[n] = pushed[Len(pushed) - Len(ring) + n]

OrderInv ==
  /\ \A m, n \in DOMAIN pushed :
       m < n /\ pushed[m].by = pushed[n].by => pushed[m].id < pushed[n].id
  /\ \A n \in DOMAIN pushed : \A w \in Recorder :
       pushed[n].by = w /\ built[w] # 0 => pushed[n].id < built[w]

AuditInv == AuditTypeOK /\ RingInv /\ IdsAccountedFor /\ OrderInv
=============================================================================
