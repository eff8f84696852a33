---------------------------- MODULE StoreProofs ----------------------------
(***************************************************************************)
(* Theorems about what the core stores, for every value of the constants.  *)
(*                                                                         *)
(* Part one: AuditStore, for every number of threads that record, every    *)
(* capacity asked for and every length of the history.                     *)
(*                                                                         *)
(* Part two: SettingsStore, for any bodies, lengths and inodes, when one   *)
(* connection writes the file: the file is whole at every instant, Ok      *)
(* means stored, and the system calls implement the abstract register.     *)
(*                                                                         *)
(* The two share nothing: they are in one module as the two stores of the  *)
(* core.                                                                   *)
(***************************************************************************)
EXTENDS AuditStore, SettingsStore, SequenceTheorems, TLAPS

(***************************************************************************)
(* Part one: the audit ring                                                *)
(***************************************************************************)

USE BoundsAssumption

(* Whatever the environment asks for, the ring holds at least one event    *)
(* and at most HARD_MAX_EVENTS.                                            *)
THEOREM CapacityClamped == Capacity \in 1 .. HardMax
  BY DEF Capacity, ClampCapacity

(* The end of a sequence, position by position.                            *)
LEMMA LastOfProperties ==
  ASSUME NEW s \in Seq(Event), NEW n \in 0 .. Len(s)
  PROVE  /\ LastOf(s, n) \in Seq(Event)
         /\ Len(LastOf(s, n)) = n
         /\ \A i \in 1 .. n : LastOf(s, n)[i] = s[Len(s) - n + i]
  <1>1. /\ Len(s) \in Nat
        /\ \A i \in Len(s) - n + 1 .. Len(s) : s[i] \in Event
    BY LenProperties
  <1> QED
    BY <1>1, SubSeqProperties DEF LastOf

(* What eviction leaves is the end of the ring, with room for one event.   *)
LEMMA EvictProperties ==
  ASSUME NEW s \in Seq(Event), Len(s) <= Capacity
  PROVE  /\ Evict(s) \in Seq(Event)
         /\ Len(Evict(s)) = IF Len(s) < Capacity THEN Len(s) ELSE Capacity - 1
         /\ \A i \in 1 .. Len(Evict(s)) : Evict(s)[i] = s[Len(s) - Len(Evict(s)) + i]
  <1>1. Len(s) \in Nat /\ Capacity \in Nat \ {0}
    BY LenProperties, CapacityClamped
  <1>2. CASE Len(s) < Capacity
    BY <1>1, <1>2 DEF Evict
  <1>3. CASE ~ (Len(s) < Capacity)
    <2>1. Len(s) - (Capacity - 1) + 1 = Len(s) - Capacity + 2
      BY <1>1
    <2>2. Evict(s) = LastOf(s, Capacity - 1)
      BY <1>3, <2>1 DEF Evict, LastOf
    <2>3. Capacity - 1 \in 0 .. Len(s)
      BY <1>1, <1>3
    <2>4. /\ Evict(s) \in Seq(Event)
          /\ Len(Evict(s)) = Capacity - 1
          /\ \A i \in 1 .. Capacity - 1 : Evict(s)[i] = s[Len(s) - (Capacity - 1) + i]
      <3> DEFINE n == Capacity - 1
      <3>1. n \in 0 .. Len(s) /\ Evict(s) = LastOf(s, n)
        BY <2>2, <2>3
      <3> HIDE DEF n
      <3>2. /\ Evict(s) \in Seq(Event)
            /\ Len(Evict(s)) = n
            /\ \A i \in 1 .. n : Evict(s)[i] = s[Len(s) - n + i]
        BY <3>1, LastOfProperties
      <3> QED
        BY <3>2 DEF n
    <2> QED
      BY <1>3, <2>4
  <1> QED
    BY <1>2, <1>3

-----------------------------------------------------------------------------
LEMMA AuditInitInv == AuditInit => AuditInv
  BY CapacityClamped DEF AuditInit, AuditInv, AuditTypeOK, RingInv, IdsAccountedFor, Ids, OrderInv

(* A drawn id is new: it follows every pushed and every other drawn id.    *)
LEMMA BuildEventStep ==
  ASSUME NEW w \in Recorder, AuditInv, BuildEvent(w)
  PROVE  AuditInv'
  <1>1. /\ built[w] = 0
        /\ counter' = counter + 1
        /\ built' = [built EXCEPT ![w] = counter + 1]
        /\ UNCHANGED <<ring, pushed>>
    BY DEF BuildEvent
  <1>2. /\ \A v \in Recorder : built[v] <= counter
        /\ \A n \in DOMAIN pushed : pushed[n].id <= counter
    <2>1. 1 .. counter = (Ids(pushed) \cup {built[v] : v \in Recorder}) \ {0}
      BY DEF AuditInv, IdsAccountedFor
    <2>2. \A v \in Recorder : built[v] \in Nat
      BY DEF AuditInv, AuditTypeOK
    <2>3. \A n \in DOMAIN pushed : pushed[n].id \in Ids(pushed) /\ pushed[n].id # 0
      <3>1. \A n \in DOMAIN pushed : pushed[n] \in Event
        BY LenProperties DEF AuditInv, AuditTypeOK
      <3> QED
        BY <3>1 DEF Ids, Event
    <2> QED
      BY <2>1, <2>2, <2>3 DEF AuditInv, AuditTypeOK
  <1>3. AuditTypeOK' /\ RingInv'
    BY <1>1 DEF AuditInv, AuditTypeOK, RingInv
  <1>4. IdsAccountedFor'
    <2>1. Ids(pushed)' = Ids(pushed)
      BY <1>1 DEF Ids
    <2>2. \A v \in Recorder : built'[v] # 0 =>
            /\ built'[v] \notin Ids(pushed)
            /\ \A u \in Recorder : u # v => built'[u] # built'[v]
      BY <1>1, <1>2 DEF AuditInv, AuditTypeOK, IdsAccountedFor, Ids
    <2>3. 1 .. counter' = (Ids(pushed) \cup {built'[v] : v \in Recorder}) \ {0}
      <3>1. \A x : x \in {built'[v] : v \in Recorder} <=>
                     x = counter + 1 \/ \E v \in Recorder \ {w} : x = built[v]
        BY <1>1 DEF AuditInv, AuditTypeOK
      <3>2. \A x : x # 0 => (x \in {built[v] : v \in Recorder} <=>
                     \E v \in Recorder \ {w} : x = built[v])
        BY <1>1
      <3>3. 1 .. counter = (Ids(pushed) \cup {built[v] : v \in Recorder}) \ {0}
        BY DEF AuditInv, IdsAccountedFor
      <3>4. counter \in Nat /\ 1 .. counter' = 1 .. counter \cup {counter + 1}
        BY <1>1 DEF AuditInv, AuditTypeOK
      <3>5. \A x : x \in 1 .. counter <=>
                     x # 0 /\ (x \in Ids(pushed) \/ x \in {built[v] : v \in Recorder})
        BY <3>3
      <3>6. counter + 1 # 0 /\ \A x : x \in 1 .. counter' <=> x \in 1 .. counter \/ x = counter + 1
        BY <3>4
      <3>7. \A x : x \in 1 .. counter' <=>
                     x # 0 /\ (x \in Ids(pushed) \/ x \in {built'[v] : v \in Recorder})
        BY <3>1, <3>2, <3>5, <3>6
      <3> QED
        BY <3>7
    <2> QED
      BY <1>1, <2>1, <2>2, <2>3 DEF AuditInv, IdsAccountedFor
  <1>5. OrderInv'
    <2>1. \A n \in DOMAIN pushed : pushed[n].id \in Nat
      <3>1. \A n \in DOMAIN pushed : pushed[n] \in Event
        BY LenProperties DEF AuditInv, AuditTypeOK
      <3> QED
        BY <3>1 DEF Event
    <2>2. ASSUME NEW n \in DOMAIN pushed, NEW v \in Recorder,
                 pushed[n].by = v, built'[v] # 0
          PROVE  pushed[n].id < built'[v]
      <3>1. CASE v = w
        BY <1>1, <1>2, <2>1, <3>1 DEF AuditInv, AuditTypeOK
      <3>2. CASE v # w
        BY <1>1, <2>2, <3>2 DEF AuditInv, AuditTypeOK, OrderInv
      <3> QED
        BY <3>1, <3>2
    <2> QED
      BY <1>1, <2>2 DEF AuditInv, OrderInv
  <1> QED
    BY <1>3, <1>4, <1>5 DEF AuditInv

LEMMA PushStep ==
  ASSUME NEW w \in Recorder, AuditInv, Push(w)
  PROVE  AuditInv'
  <1> DEFINE e == [id |-> built[w], by |-> w]
  <1>1. /\ e \in Event
        /\ ring' = Append(Evict(ring), e)
        /\ pushed' = Append(pushed, e)
        /\ built' = [built EXCEPT ![w] = 0]
        /\ built[w] # 0
        /\ UNCHANGED counter
    BY DEF AuditInv, AuditTypeOK, Push, Event
  <1> HIDE DEF e
  <1>2. /\ Len(pushed) \in Nat /\ Len(pushed') = Len(pushed) + 1
        /\ \A n \in 1 .. Len(pushed) : pushed'[n] = pushed[n]
        /\ pushed'[Len(pushed) + 1] = e
        /\ pushed' \in Seq(Event)
        /\ DOMAIN pushed = 1 .. Len(pushed)
        /\ DOMAIN pushed' = 1 .. Len(pushed) + 1
    BY <1>1, LenProperties DEF AuditInv, AuditTypeOK
  <1>3. AuditTypeOK' /\ RingInv'
    <2>1. /\ Evict(ring) \in Seq(Event)
          /\ Len(Evict(ring)) = IF Len(ring) < Capacity THEN Len(ring) ELSE Capacity - 1
          /\ \A i \in 1 .. Len(Evict(ring)) :
               Evict(ring)[i] = ring[Len(ring) - Len(Evict(ring)) + i]
          /\ Len(ring) \in Nat /\ Capacity \in Nat \ {0} /\ Len(ring) <= Capacity
      BY EvictProperties, LenProperties, CapacityClamped DEF AuditInv, AuditTypeOK
    <2>2. /\ ring' \in Seq(Event)
          /\ Len(ring') = Len(Evict(ring)) + 1
          /\ \A i \in 1 .. Len(Evict(ring)) : ring'[i] = Evict(ring)[i]
          /\ ring'[Len(ring')] = e
      BY <1>1, <2>1
    <2>3. AuditTypeOK'
      BY <1>1, <1>2, <2>1, <2>2 DEF AuditInv, AuditTypeOK, Capacity
    <2> DEFINE kept == Len(Evict(ring))
    <2>3a. /\ kept \in Nat /\ kept <= Len(ring) /\ Len(ring) <= Len(pushed)
           /\ Len(pushed') - Len(ring') = Len(pushed) - kept
      BY <1>2, <2>1, <2>2 DEF AuditInv, RingInv
    <2>4. Len(ring') = IF Len(pushed') < Capacity THEN Len(pushed') ELSE Capacity
      BY <1>2, <2>1, <2>2 DEF AuditInv, RingInv
    <2>5. ASSUME NEW n \in 1 .. Len(ring')
          PROVE  ring'[n] = pushed'[Len(pushed') - Len(ring') + n]
      <3>1. CASE n = Len(ring')
        <4>1. Len(pushed') - Len(ring') + n = Len(pushed) + 1
          BY <1>2, <2>2, <2>3a, <3>1
        <4> QED
          BY <1>2, <2>2, <3>1, <4>1
      <3>2. CASE n # Len(ring')
        <4>1. n \in 1 .. kept
          BY <2>2, <2>3a, <3>2
        <4> DEFINE k == Len(ring) - kept + n
        <4>2. k \in 1 .. Len(ring) /\ Len(pushed) - Len(ring) + k = Len(pushed) - kept + n
          BY <1>2, <2>1, <2>3a, <4>1
        <4>3. ring'[n] = ring[k]
          BY <2>1, <2>2, <4>1
        <4>4. ring[k] = pushed[Len(pushed) - Len(ring) + k]
          BY <4>2 DEF AuditInv, RingInv
        <4>5. Len(pushed) - kept + n \in 1 .. Len(pushed)
          BY <1>2, <2>1, <2>3a, <4>1
        <4>6. pushed'[Len(pushed) - kept + n] = pushed[Len(pushed) - kept + n]
          BY <1>2, <4>5
        <4> QED
          BY <2>3a, <4>2, <4>3, <4>4, <4>6
      <3> QED
        BY <3>1, <3>2
    <2> QED
      BY <2>3, <2>4, <2>5 DEF RingInv, Capacity
  <1>4. IdsAccountedFor'
    <2>1. Ids(pushed)' = Ids(pushed) \cup {built[w]}
      <3>1. e.id = built[w]
        BY DEF e
      <3>2. 1 .. Len(pushed) + 1 = 1 .. Len(pushed) \cup {Len(pushed) + 1}
        BY <1>2
      <3>3. \A x : x \in Ids(pushed)' <=> x \in Ids(pushed) \/ x = e.id
        BY <1>2, <3>2 DEF Ids
      <3> QED
        BY <3>1, <3>3
    <2>2. built[w] \notin Ids(pushed) /\ \A v \in Recorder : v # w => built[v] # built[w]
      BY <1>1 DEF AuditInv, IdsAccountedFor
    <2>3. \A m, n \in DOMAIN pushed' : pushed'[m].id = pushed'[n].id => m = n
      <3>1. \A m \in DOMAIN pushed : pushed'[m].id \in Ids(pushed)
        BY <1>2 DEF Ids
      <3>2. pushed'[Len(pushed) + 1].id \notin Ids(pushed)
        BY <1>2, <2>2 DEF e
      <3> QED
        BY <1>2, <3>1, <3>2 DEF AuditInv, IdsAccountedFor
    <2>4. \A v \in Recorder : built'[v] # 0 =>
            /\ built'[v] \notin Ids(pushed)'
            /\ \A u \in Recorder : u # v => built'[u] # built'[v]
      BY <1>1, <2>1, <2>2 DEF AuditInv, AuditTypeOK, IdsAccountedFor
    <2>5. 1 .. counter' = (Ids(pushed)' \cup {built'[v] : v \in Recorder}) \ {0}
      <3>1. \A x : x # 0 => (x \in {built'[v] : v \in Recorder} <=>
                     \E v \in Recorder \ {w} : x = built[v])
        BY <1>1 DEF AuditInv, AuditTypeOK
      <3>2. 1 .. counter = (Ids(pushed) \cup {built[v] : v \in Recorder}) \ {0}
        BY DEF AuditInv, IdsAccountedFor
      <3> QED
        BY <1>1, <2>1, <3>1, <3>2
    <2> QED
      BY <2>3, <2>4, <2>5 DEF IdsAccountedFor
  <1>5. OrderInv'
    <2>1. ASSUME NEW m \in DOMAIN pushed', NEW n \in DOMAIN pushed',
                 m < n, pushed'[m].by = pushed'[n].by
          PROVE  pushed'[m].id < pushed'[n].id
      <3>1. m \in DOMAIN pushed /\ pushed'[m] = pushed[m]
        BY <1>2, <2>1
      <3>2. CASE n \in DOMAIN pushed
        BY <1>2, <2>1, <3>1, <3>2 DEF AuditInv, OrderInv
      <3>3. CASE n = Len(pushed) + 1
        <4>1. pushed'[n] = e /\ e.id = built[w] /\ e.by = w
          BY <1>2, <3>3 DEF e
        <4> QED
          BY <1>1, <2>1, <3>1, <4>1 DEF AuditInv, OrderInv
      <3> QED
        BY <1>2, <3>2, <3>3
    <2>2. ASSUME NEW n \in DOMAIN pushed', NEW v \in Recorder,
                 pushed'[n].by = v, built'[v] # 0
          PROVE  pushed'[n].id < built'[v]
      <3>1. v # w /\ built'[v] = built[v]
        <4>1. built'[w] = 0
          BY <1>1 DEF AuditInv, AuditTypeOK
        <4> QED
          BY <1>1, <2>2, <4>1 DEF AuditInv, AuditTypeOK
      <3>2. n # Len(pushed) + 1
        BY <1>2, <2>2, <3>1 DEF e
      <3>3. n \in DOMAIN pushed /\ pushed'[n] = pushed[n]
        BY <1>2, <3>2
      <3> QED
        BY <2>2, <3>1, <3>3 DEF AuditInv, OrderInv
    <2> QED
      BY <2>1, <2>2 DEF OrderInv
  <1> QED
    BY <1>3, <1>4, <1>5 DEF AuditInv

LEMMA AuditNextInv == AuditInv /\ [AuditNext]_auditVars => AuditInv'
  <1>1. ASSUME AuditInv, UNCHANGED auditVars
        PROVE  AuditInv'
    <2>1. UNCHANGED <<counter, built, ring, pushed>>
      BY <1>1 DEF auditVars
    <2>2. AuditTypeOK' /\ RingInv' /\ OrderInv'
      BY <1>1, <2>1 DEF AuditInv, AuditTypeOK, RingInv, OrderInv
    <2>3. IdsAccountedFor'
      BY <1>1, <2>1 DEF AuditInv, IdsAccountedFor, Ids
    <2> QED
      BY <2>2, <2>3 DEF AuditInv
  <1>2. ASSUME AuditInv, NEW w \in Recorder, BuildEvent(w) \/ Push(w)
        PROVE  AuditInv'
    BY <1>2, BuildEventStep, PushStep
  <1> QED
    BY <1>1, <1>2 DEF AuditNext

(* The ring holds the last entries pushed, each thread's in order          *)
(* (audit/store.rs, record).                                               *)
THEOREM AuditInvariance == AuditSpec => []AuditInv
  BY AuditInitInv, AuditNextInv, PTL DEF AuditSpec

(* The store keeps its types and its bound.                                *)
THEOREM TypeCorrect == AuditSpec => []AuditTypeOK
  <1>1. AuditInv => AuditTypeOK
    BY DEF AuditInv
  <1> QED
    BY <1>1, AuditInvariance, PTL

(* No id is lost and none is given to two events.                          *)
THEOREM EveryIdOnce == AuditSpec => []IdsAccountedFor
  <1>1. AuditInv => IdsAccountedFor
    BY DEF AuditInv
  <1> QED
    BY <1>1, AuditInvariance, PTL

(* audit_recent answers with the end of the history, whatever the limit.   *)
THEOREM LatestAnswered == AuditSpec => []AnswersTheLatest
  <1>1. ASSUME AuditInv, NEW limit \in 0 .. HardMax + 1
        PROVE  LET answer == ListRecent(limit)
               IN /\ answer = LastOf(pushed, Len(answer))
                  /\ \/ Len(answer) = limit
                     \/ limit > Len(answer) /\ Len(answer) \in {Capacity, Len(pushed)}
    <2> DEFINE bounded == IF limit > HardMax THEN HardMax ELSE limit
               n == IF bounded > Len(ring) THEN Len(ring) ELSE bounded
               answer == ListRecent(limit)
    <2>1. /\ ring \in Seq(Event) /\ pushed \in Seq(Event)
          /\ Len(ring) \in Nat /\ Len(pushed) \in Nat /\ Capacity \in 1 .. HardMax
          /\ Len(ring) <= Len(pushed) /\ Len(ring) <= Capacity
          /\ Len(ring) \in {Capacity, Len(pushed)}
      BY <1>1, LenProperties, CapacityClamped DEF AuditInv, AuditTypeOK, RingInv
    <2>2. n \in 0 .. Len(ring) /\ answer = LastOf(ring, n)
      BY <2>1 DEF ListRecent
    <2>3. n = limit \/ (limit > n /\ n = Len(ring))
      BY <2>1
    <2> HIDE DEF n, answer
    <2>4. /\ answer \in Seq(Event) /\ Len(answer) = n
          /\ \A i \in 1 .. n : answer[i] = ring[Len(ring) - n + i]
      BY <2>1, <2>2, LastOfProperties
    <2>5. /\ LastOf(pushed, n) \in Seq(Event) /\ Len(LastOf(pushed, n)) = n
          /\ \A i \in 1 .. n : LastOf(pushed, n)[i] = pushed[Len(pushed) - n + i]
      BY <2>1, <2>2, LastOfProperties
    <2>6. \A i \in 1 .. n : answer[i] = LastOf(pushed, n)[i]
      <3> SUFFICES ASSUME NEW i \in 1 .. n
                   PROVE  answer[i] = LastOf(pushed, n)[i]
        OBVIOUS
      <3> DEFINE k == Len(ring) - n + i
      <3>1. k \in 1 .. Len(ring) /\ Len(pushed) - Len(ring) + k = Len(pushed) - n + i
        BY <2>1, <2>2
      <3>2. ring[k] = pushed[Len(pushed) - Len(ring) + k]
        BY <1>1, <3>1 DEF AuditInv, RingInv
      <3> QED
        BY <2>4, <2>5, <3>1, <3>2
    <2>7. answer = LastOf(pushed, n)
      BY <2>4, <2>5, <2>6, SeqEqual
    <2> QED
      BY <2>1, <2>3, <2>4, <2>7 DEF answer
  <1>2. AuditInv => AnswersTheLatest
    BY <1>1 DEF AnswersTheLatest
  <1> QED
    BY <1>2, AuditInvariance, PTL

(* A task's chain reads in its order.                                      *)
THEOREM ChainsOrdered == AuditSpec => []ChainInOrder
  <1>1. ASSUME AuditInv
        PROVE  ChainInOrder
    <2>1. Len(ring) \in Nat /\ Len(pushed) \in Nat /\ Len(ring) <= Len(pushed)
          /\ DOMAIN ring = 1 .. Len(ring) /\ DOMAIN pushed = 1 .. Len(pushed)
      BY <1>1, LenProperties, CapacityClamped DEF AuditInv, AuditTypeOK, RingInv
    <2>2. SUFFICES ASSUME NEW m \in DOMAIN ring, NEW n \in DOMAIN ring,
                          m < n, ring[m].by = ring[n].by
                   PROVE  ring[m].id < ring[n].id
      BY DEF ChainInOrder
    <2> DEFINE shift == Len(pushed) - Len(ring)
    <2>3. /\ shift + m \in DOMAIN pushed /\ shift + n \in DOMAIN pushed
          /\ shift + m < shift + n
      BY <2>1, <2>2
    <2>4. ring[m] = pushed[shift + m] /\ ring[n] = pushed[shift + n]
      BY <1>1, <2>1 DEF AuditInv, RingInv
    <2> QED
      BY <1>1, <2>2, <2>3, <2>4 DEF AuditInv, OrderInv
  <1> QED
    BY <1>1, AuditInvariance, PTL

HIDE BoundsAssumption

(***************************************************************************)
(* Part two: an override file                                              *)
(***************************************************************************)

(* One connection, as the shipped user interface opens. *)
SingleWriter == \A v, w \in Writer : v = w

USE SizeAssumption, DefaultAssumption, DataAssumption, InodeAssumption

LEMMA InitInv == Init => IInv
  BY DEF Init, IInv, TypeOK, FileIsWhole, Apart, OwnTmp, Closed, Data, Steps

(* The conjuncts besides TypeOK under one name per step of a writer. *)
LEMMA TypeStep == ASSUME IInv, Next PROVE TypeOK'
<1> USE DEF IInv, TypeOK, Data, Steps
<1>1. CASE Crash
  BY <1>1 DEF Crash
<1>2. ASSUME NEW w \in Writer, Step(w) PROVE TypeOK'
  <2>1. CASE \E b \in Body : BeginSave(w, b)
    BY <2>1 DEF BeginSave
  <2>2. CASE BeginReset(w)
    BY <2>2 DEF BeginReset
  <2>3. CASE RemoveTarget(w)
    BY <2>3 DEF RemoveTarget
  <2>4. CASE CreateTmp(w)
    BY <2>4 DEF CreateTmp, Truncated
  <2>5. CASE WriteBody(w)
    BY <2>5 DEF WriteBody, Overwritten, OwnTmp
  <2>6. CASE RenameTmp(w)
    BY <2>6 DEF RenameTmp
  <2>7. CASE SaveFails(w)
    <3>1. CASE pc[w] = "write"
      BY <2>7, <3>1 DEF SaveFails, PartlyWritten, OwnTmp
    <3>2. CASE pc[w] # "write"
      BY <2>7, <3>2 DEF SaveFails
    <3> QED BY <3>1, <3>2
  <2> QED BY <1>2, <2>1, <2>2, <2>3, <2>4, <2>5, <2>6, <2>7 DEF Step
<1> QED BY <1>1, <1>2 DEF Next

LEMMA FileStep == ASSUME SingleWriter, IInv, Next PROVE (FileIsWhole /\ Apart)'
<1> USE DEF IInv, TypeOK, FileIsWhole, Apart, OwnTmp, Closed
<1>1. CASE Crash
  BY <1>1 DEF Crash
<1>2. ASSUME NEW w \in Writer, Step(w) PROVE (FileIsWhole /\ Apart)'
  <2>1. CASE \E b \in Body : BeginSave(w, b)
    BY <2>1 DEF BeginSave
  <2>2. CASE BeginReset(w)
    BY <2>2 DEF BeginReset
  <2>3. CASE RemoveTarget(w)
    BY <2>3 DEF RemoveTarget
  <2>4. CASE CreateTmp(w)
    BY <2>4 DEF CreateTmp, Unused
  <2>5. CASE WriteBody(w)
    BY <2>5 DEF WriteBody
  <2>6. CASE RenameTmp(w)
    <3>1. content'[target'].data = body[w]
      BY <2>6 DEF RenameTmp
    <3>2. tmp' = None /\ target' # None
      BY <2>6 DEF RenameTmp
    <3> QED BY <3>1, <3>2
  <2>7. CASE SaveFails(w)
    <3>1. target' = target /\ tmp' = tmp
      BY <2>7 DEF SaveFails
    <3>2. CASE pc[w] = "write"
      <4>1. target # None => target # fd[w]
        BY <3>2
      <4>2. target # None => content'[target] = content[target]
        BY <2>7, <3>2, <4>1 DEF SaveFails
      <4> QED BY <3>1, <4>2
    <3>3. CASE pc[w] # "write"
      BY <2>7, <3>1, <3>3 DEF SaveFails
    <3> QED BY <3>2, <3>3
  <2> QED BY <1>2, <2>1, <2>2, <2>3, <2>4, <2>5, <2>6, <2>7 DEF Step
<1> QED BY <1>1, <1>2 DEF Next

LEMMA TmpStep == ASSUME SingleWriter, IInv, Next PROVE (OwnTmp /\ Closed)'
<1> USE DEF IInv, TypeOK, OwnTmp, Closed, SingleWriter
<1>1. CASE Crash
  BY <1>1 DEF Crash
<1>2. ASSUME NEW w \in Writer, Step(w) PROVE (OwnTmp /\ Closed)'
  <2>1. CASE \E b \in Body : BeginSave(w, b)
    BY <2>1 DEF BeginSave, Busy
  <2>2. CASE BeginReset(w)
    BY <2>2 DEF BeginReset, Busy
  <2>3. CASE RemoveTarget(w)
    BY <2>3 DEF RemoveTarget
  <2>4. CASE CreateTmp(w)
    BY <2>4 DEF CreateTmp, Truncated
  <2>5. CASE WriteBody(w)
    BY <2>5 DEF WriteBody, Overwritten, Truncated
  <2>6. CASE RenameTmp(w)
    BY <2>6 DEF RenameTmp
  <2>7. CASE SaveFails(w)
    BY <2>7 DEF SaveFails
  <2> QED BY <1>2, <2>1, <2>2, <2>3, <2>4, <2>5, <2>6, <2>7 DEF Step
<1> QED BY <1>1, <1>2 DEF Next

LEMMA StepInv == ASSUME SingleWriter, IInv, [Next]_vars PROVE IInv'
<1>1. CASE Next
  BY <1>1, TypeStep, FileStep, TmpStep DEF IInv
<1>2. CASE UNCHANGED vars
  BY <1>2 DEF vars, IInv, TypeOK, FileIsWhole, Apart, OwnTmp, Closed
<1> QED BY <1>1, <1>2

(* The invariant of one writer: the temporary file is its alone. *)
THEOREM Invariance == ASSUME SingleWriter PROVE Spec => []IInv
<1>1. SingleWriter
  OBVIOUS
<1>2. IInv /\ [Next]_vars => IInv'
  BY <1>1, StepInv
<1> QED BY InitInv, <1>2, PTL DEF Spec

(* Whenever the core dies, the next start reads a complete document. *)
THEOREM Whole == ASSUME SingleWriter PROVE Spec => []FileIsWhole
<1>1. IInv => FileIsWhole
  BY DEF IInv
<1> QED BY Invariance, <1>1, PTL

(* Ok from a save means that its body is what the next start loads. *)
THEOREM Stored == ASSUME SingleWriter PROVE Spec => OkMeansStored
<1>1. ASSUME IInv, [Next]_vars
      PROVE  \A w \in Writer : (pc[w] = "rename" /\ pc'[w] = "saved") => Loaded' = body[w]
  <2> USE <1>1
  <2> SUFFICES ASSUME NEW w \in Writer, pc[w] = "rename", pc'[w] = "saved"
               PROVE  Loaded' = body[w]
    OBVIOUS
  <2>1. RenameTmp(w)
    <3>1. CASE UNCHANGED vars
      BY <3>1 DEF vars
    <3>2. CASE Crash
      BY <3>2 DEF Crash
    <3>3. ASSUME NEW v \in Writer, Step(v) PROVE RenameTmp(w)
      <4> USE DEF IInv, TypeOK
      <4>1. ~\E b \in Body : BeginSave(v, b)
        BY DEF BeginSave, Busy
      <4>2. ~BeginReset(v) /\ ~RemoveTarget(v) /\ ~CreateTmp(v)
        BY DEF BeginReset, RemoveTarget, CreateTmp, Busy
      <4>3. ~WriteBody(v) /\ ~SaveFails(v)
        BY DEF WriteBody, SaveFails
      <4>4. RenameTmp(v) => v = w
        BY DEF RenameTmp
      <4> QED BY <3>3, <4>1, <4>2, <4>3, <4>4 DEF Step
    <3> QED BY <1>1, <3>1, <3>2, <3>3 DEF Next
  <2> QED BY <1>1, <2>1 DEF RenameTmp, Loaded, IInv, TypeOK, OwnTmp
<1> QED BY Invariance, <1>1, PTL DEF Spec, OkMeansStored

LEMMA LoadedType == ASSUME TypeOK PROVE Loaded \in Body \cup {None}
  BY DEF TypeOK, Loaded

LEMMA RegisterInit == ASSUME Init PROVE Register!Init
<1>1. TypeOK
  BY InitInv DEF IInv
<1>2. \A w \in Writer : ~Busy(w)
  BY DEF Init, Busy
<1> QED BY <1>1, <1>2, LoadedType DEF Register!Init

LEMMA RegisterStep ==
  ASSUME SingleWriter, IInv, IInv', [Next]_vars
  PROVE  [Register!Next]_(Register!vars)
<1> USE DEF IInv
<1> DEFINE A == [w \in Writer |-> IF Busy(w) THEN body[w] ELSE None]
<1>1. CASE UNCHANGED vars
  BY <1>1 DEF vars, Register!vars, Loaded, Busy
<1>2. CASE Crash
  <2>1. Loaded' = Loaded
    BY <1>2 DEF Crash, Loaded
  <2>2. A' = [w \in Writer |-> None]
    BY <1>2 DEF Crash, Busy
  <2> QED BY <2>1, <2>2 DEF Register!Next, Register!Die
<1>3. ASSUME NEW w \in Writer, Step(w) PROVE [Register!Next]_(Register!vars)
  <2>0. \A v \in Writer : v = w
    BY DEF SingleWriter
  <2>a. A = [v \in Writer |-> IF Busy(w) THEN body[w] ELSE None]
    BY <2>0
  <2>b. A' = [v \in Writer |-> IF Busy(w)' THEN body'[w] ELSE None]
    BY <2>0 DEF Busy
  <2>c. \A x : [A EXCEPT ![w] = x] = [v \in Writer |-> x]
    BY <2>0
  <2>1. ASSUME NEW b \in Body, BeginSave(w, b) PROVE Register!Ask(w, b)
    <3>1. Loaded' = Loaded
      BY <2>1 DEF BeginSave, Loaded
    <3>2. ~Busy(w) /\ Busy(w)' /\ body'[w] = b
      BY <2>1 DEF BeginSave, Busy, TypeOK
    <3>3. A[w] = None /\ A' = [A EXCEPT ![w] = b]
      BY <3>2, <2>a, <2>b, <2>c
    <3> QED BY <3>1, <3>3 DEF Register!Ask
  <2>2. CASE BeginReset(w)
    <3>1. Loaded' = Loaded
      BY <2>2 DEF BeginReset, Loaded
    <3>2. ~Busy(w) /\ Busy(w)' /\ body'[w] = Default
      BY <2>2 DEF BeginReset, Busy, TypeOK
    <3>3. A[w] = None /\ A' = [A EXCEPT ![w] = Default]
      BY <3>2, <2>a, <2>b, <2>c
    <3>4. Register!Ask(w, Default)
      BY <3>1, <3>3 DEF Register!Ask
    <3> QED BY <3>4 DEF Register!Next
  <2>3. CASE RemoveTarget(w)
    <3>1. Busy(w) /\ Busy(w)' /\ body' = body
      BY <2>3 DEF RemoveTarget, Busy, TypeOK
    <3>2. A' = A /\ A[w] = body[w] /\ body[w] # None
      BY <3>1, <2>a, <2>b DEF TypeOK
    <3>3. Loaded' = Loaded \/ Loaded' = None
      BY <2>3 DEF RemoveTarget, Loaded
    <3>4. CASE Loaded' = None
      BY <3>2, <3>4 DEF Register!Next, Register!Remove
    <3>5. CASE Loaded' = Loaded
      BY <3>2, <3>5 DEF Register!vars
    <3> QED BY <3>3, <3>4, <3>5
  <2>4. CASE CreateTmp(w)
    <3>1. Busy(w) /\ Busy(w)' /\ body' = body
      BY <2>4 DEF CreateTmp, Busy, TypeOK
    <3>2. Loaded' = Loaded
      BY <2>4 DEF CreateTmp, Unused, Loaded, Apart, TypeOK
    <3>3. A' = A
      BY <3>1, <2>a, <2>b
    <3> QED BY <3>2, <3>3 DEF Register!vars
  <2>5. CASE WriteBody(w)
    <3>1. Busy(w) /\ Busy(w)' /\ body' = body
      BY <2>5 DEF WriteBody, Busy, TypeOK
    <3>2. target' = target /\ (target # None => target # fd[w])
      BY <2>5 DEF WriteBody, OwnTmp, Apart
    <3>3. target # None => content'[target] = content[target]
      BY <2>5, <3>2 DEF WriteBody, TypeOK
    <3>4. A' = A
      BY <3>1, <2>a, <2>b
    <3>5. Loaded' = Loaded
      BY <3>2, <3>3 DEF Loaded
    <3> QED BY <3>4, <3>5 DEF Register!vars
  <2>6. CASE RenameTmp(w)
    <3>1. Busy(w) /\ ~Busy(w)'
      BY <2>6 DEF RenameTmp, Busy, TypeOK
    <3>2. Loaded' = body[w]
      BY <2>6 DEF RenameTmp, Loaded, OwnTmp, TypeOK
    <3>3. A[w] = body[w] /\ A[w] # None /\ A' = [A EXCEPT ![w] = None]
      BY <3>1, <2>a, <2>b, <2>c DEF TypeOK
    <3>4. Register!Commit(w)
      BY <3>2, <3>3 DEF Register!Commit
    <3> QED BY <3>4 DEF Register!Next
  <2>7. CASE SaveFails(w)
    <3>1. Busy(w) /\ ~Busy(w)'
      BY <2>7 DEF SaveFails, Busy, TypeOK
    <3>2. target' = target /\ (target # None => content'[target] = content[target])
      <4>1. CASE pc[w] = "write"
        <5>1. target # None => target # fd[w]
          BY <4>1 DEF OwnTmp, Apart
        <5> QED BY <2>7, <4>1, <5>1 DEF SaveFails, TypeOK
      <4>2. CASE pc[w] # "write"
        BY <2>7, <4>2 DEF SaveFails
      <4> QED BY <4>1, <4>2
    <3>3. Loaded' = Loaded
      BY <3>2 DEF Loaded
    <3>4. A[w] # None /\ A' = [A EXCEPT ![w] = None]
      BY <3>1, <2>a, <2>b, <2>c DEF TypeOK
    <3>5. Register!GiveUp(w)
      BY <3>3, <3>4 DEF Register!GiveUp
    <3> QED BY <3>5 DEF Register!Next
  <2>8. CASE \E b \in Body : BeginSave(w, b)
    BY <2>8, <2>1 DEF Register!Next
  <2> QED BY <1>3, <2>2, <2>3, <2>4, <2>5, <2>6, <2>7, <2>8 DEF Step
<1> QED BY <1>1, <1>2, <1>3 DEF Next

(* For one connection create, write, sync and rename, with every failure   *)
(* and crash between them, are one atomic replacement of the override.     *)
THEOREM StoreImplementsRegister == ASSUME SingleWriter PROVE Spec => ImplementsRegister
<1>0. SingleWriter
  OBVIOUS
<1>1. IInv /\ IInv' /\ [Next]_vars => [Register!Next]_(Register!vars)
  BY <1>0, RegisterStep
<1> QED BY Invariance, RegisterInit, <1>1, PTL DEF Spec, ImplementsRegister, Register!Spec
=============================================================================
