------------------------ MODULE ApprovalFlowProofs ------------------------
(***************************************************************************)
(* Machine-checked safety of ApprovalFlow for every set of commands and    *)
(* connections, every bound on ids and every policy: IInv and, over it,    *)
(* ReportsInv are inductive and imply the safety properties the runs check,*)
(* and each step is one of ApprovalGate or invisible to it.                *)
(***************************************************************************)
EXTENDS ApprovalFlow, Integers, TLAPS

-----------------------------------------------------------------------------
(***************************************************************************)
(* Trails and frames: sequences that only grow at their end.               *)
(***************************************************************************)
LEMMA Longer ==
  ASSUME NEW S, NEW s \in Seq(S), NEW e \in Seq(S)
  PROVE  /\ s \o e \in Seq(S)
         /\ DOMAIN (s \o e) = 1 .. Len(s) + Len(e)
         /\ Len(s \o e) = Len(s) + Len(e)
         /\ \A n \in 1 .. Len(s) : (s \o e)[n] = s[n]
         /\ \A n \in 1 .. Len(e) : (s \o e)[Len(s) + n] = e[n]
  OBVIOUS

(* Each element of the longer sequence is an old one or an added one.      *)
LEMMA OldOrAdded ==
  ASSUME NEW S, NEW s \in Seq(S), NEW e \in Seq(S), NEW n \in DOMAIN (s \o e)
  PROVE  \/ n \in DOMAIN s /\ n <= Len(s) /\ (s \o e)[n] = s[n]
         \/ /\ n \notin DOMAIN s /\ n > Len(s)
            /\ n - Len(s) \in DOMAIN e /\ (s \o e)[n] = e[n - Len(s)]
  <1>1. /\ n \in Int /\ 1 <= n /\ n <= Len(s) + Len(e)
        /\ Len(s) \in Nat /\ Len(e) \in Nat
        /\ DOMAIN s = 1 .. Len(s) /\ DOMAIN e = 1 .. Len(e)
    BY Longer
  <1>2. CASE n <= Len(s)
    BY <1>1, <1>2, Longer
  <1>3. CASE n > Len(s)
    <2>1. n - Len(s) \in 1 .. Len(e) /\ Len(s) + (n - Len(s)) = n
      BY <1>1, <1>3
    <2>2. (s \o e)[Len(s) + (n - Len(s))] = e[n - Len(s)]
      BY <2>1, Longer
    <2> QED BY <1>1, <1>3, <2>1, <2>2
  <1> QED BY <1>1, <1>2, <1>3

(* Quiet parts make a quiet whole; a part that closes, behind a quiet one, *)
(* closes the whole.                                                       *)
LEMMA QuietLonger ==
  ASSUME NEW s \in Seq(Frames), NEW e \in Seq(Frames), Quiet(s), Quiet(e)
  PROVE  Quiet(s \o e)
  BY OldOrAdded DEF Quiet

LEMMA ClosesLonger ==
  ASSUME NEW s \in Seq(Frames), NEW e \in Seq(Frames), Quiet(s), NEW last, ClosesWith(e, last)
  PROVE  ClosesWith(s \o e, last)
  <1> DEFINE r == s \o e
  <1>1. Len(e) \in Nat /\ Len(e) > 0 /\ Len(s) \in Nat /\ DOMAIN e = 1 .. Len(e)
    BY DEF ClosesWith
  <1>2. Len(r) = Len(s) + Len(e) /\ DOMAIN r = 1 .. Len(s) + Len(e) /\ r[Len(s) + Len(e)] = e[Len(e)]
    BY <1>1, Longer
  <1>3. ASSUME NEW n \in 1 .. Len(r) - 1
        PROVE  r[n] \notin TerminalFrames
    <2>1. n \in DOMAIN r /\ n \in Int /\ n < Len(s) + Len(e)
      BY <1>1, <1>2
    <2>2. \/ n \in DOMAIN s /\ r[n] = s[n]
          \/ n > Len(s) /\ n - Len(s) \in DOMAIN e /\ r[n] = e[n - Len(s)]
      BY <2>1, OldOrAdded
    <2>3. n > Len(s) => n - Len(s) \in 1 .. Len(e) - 1
      BY <1>1, <2>1
    <2> HIDE DEF r
    <2> QED BY <2>2, <2>3 DEF Quiet, ClosesWith
  <1>4. r # <<>> /\ r[Len(r)] = last
    BY <1>1, <1>2 DEF ClosesWith
  <1> HIDE DEF r
  <1>5. ClosesWith(r, last)
    BY <1>3, <1>4 DEF ClosesWith
  <1> QED BY <1>5 DEF r

(* Short sequences and their types.                                        *)
LEMMA Tuple1 == ASSUME NEW S, NEW a \in S PROVE <<a>> \in Seq(S)
  OBVIOUS
LEMMA Tuple2 == ASSUME NEW S, NEW a \in S, NEW b \in S PROVE <<a, b>> \in Seq(S)
  OBVIOUS
LEMMA Tuple4 ==
  ASSUME NEW S, NEW a \in S, NEW b \in S, NEW c \in S, NEW d \in S
  PROVE  <<a, b, c, d>> \in Seq(S)
  OBVIOUS
LEMMA Tuple5 ==
  ASSUME NEW S, NEW a \in S, NEW b \in S, NEW c \in S, NEW d \in S, NEW e \in S
  PROVE  <<a, b, c, d, e>> \in Seq(S)
  OBVIOUS

(* The frames of a run end with its terminal frame.                        *)
LEMMA RunFramesClose ==
  ASSUME NEW result \in {"completed", "failed"}
  PROVE  /\ RunFrames(result) \in Seq(Frames)
         /\ Terminal(result) \in TerminalFrames /\ Terminal(result) # "action_cancelled"
         /\ ClosesWith(RunFrames(result), Terminal(result))
  <1>0. {"action_started", "action_step", "action_verification", "action_completed",
         "action_failed"} \subseteq Frames
    BY DEF Frames, TerminalFrames
  <1>1. CASE result = "completed"
    <2> DEFINE f == <<"action_started", "action_step", "action_step",
                      "action_verification", "action_completed">>
    <2>1. RunFrames(result) = f /\ Terminal(result) = "action_completed"
      BY <1>1 DEF RunFrames, Terminal
    <2>2. f \in Seq(Frames)
      BY <1>0, Tuple5
    <2>3. Len(f) = 5 /\ f[5] = "action_completed"
      OBVIOUS
    <2>4. \A n \in 1 .. 4 : f[n] \in {"action_started", "action_step", "action_verification"}
      OBVIOUS
    <2>5. ClosesWith(f, "action_completed")
      <3> HIDE DEF f
      <3> QED BY <2>3, <2>4 DEF ClosesWith, TerminalFrames
    <2> HIDE DEF f
    <2> QED BY <2>1, <2>2, <2>5 DEF TerminalFrames
  <1>2. CASE result = "failed"
    <2> DEFINE f == <<"action_started", "action_step", "action_step", "action_failed">>
    <2>1. RunFrames(result) = f /\ Terminal(result) = "action_failed"
      BY <1>2 DEF RunFrames, Terminal
    <2>2. f \in Seq(Frames)
      BY <1>0, Tuple4
    <2>3. Len(f) = 4 /\ f[4] = "action_failed"
      OBVIOUS
    <2>4. \A n \in 1 .. 3 : f[n] \in {"action_started", "action_step"}
      OBVIOUS
    <2>5. ClosesWith(f, "action_failed")
      <3> HIDE DEF f
      <3> QED BY <2>3, <2>4 DEF ClosesWith, TerminalFrames
    <2> HIDE DEF f
    <2> QED BY <2>1, <2>2, <2>5 DEF TerminalFrames
  <1> QED BY <1>1, <1>2

(* What is left of an entry's result is a word of the vocabulary.          *)
LEMMA EntryIs ==
  ASSUME NEW event \in Fields!AuditKind, NEW result
  PROVE  /\ Entry(event, result) \in Entries
         /\ Entry(event, result).event = event
         /\ Entry(event, result).result =
             IF result \in {"approved", "denied", "expired", "completed", "failed",
                            "cancelled", "rejected", "capability_guard_denied"}
             THEN result ELSE "none"
  BY DEF Entries, Entry, Fields!sanitize_result, Fields!KNOWN_RESULTS

-----------------------------------------------------------------------------

(* Names of value sets and of tuples of variables are expanded everywhere; *)
(* each leaf names the invariants and the action it uses.                  *)
USE ConstantsAssumption
USE DEF client_vars, gate_vars, task_vars, out_vars, Goto, Id, UserDecisions,
        Decisions, Sources, InteractionKinds, PlanKinds, AllKinds, PCs,
        AwaitingAnswer, BeforeGate, AfterVerdict, Entering, Inside, Senders

LEMMA InitIInv == Init => IInv
  BY DEF Init, IInv, TypeOK, IdsInv, RegistryInv, HandInv, SenderInv, SlotInv,
         VerdictInv, EffectInv, RxAlive

-----------------------------------------------------------------------------
(* The delivery of an answer - registry, hands, channels - is untouched by *)
(* a step that leaves these variables alone and moves no command into or   *)
(* out of the span in which it waits.                                      *)
LEMMA DeliveryFrame ==
  ASSUME TypeOK, RegistryInv, HandInv, SenderInv, SlotInv,
         UNCHANGED <<registry, hand, accepted, apr, slot>>,
         \A u \in Task :
           /\ pc'[u] \in BeforeGate => pc[u] \in BeforeGate
           /\ pc'[u] \in AwaitingAnswer <=> pc[u] \in AwaitingAnswer
           /\ pc'[u] = "elapsed" <=> pc[u] = "elapsed"
  PROVE  RegistryInv' /\ HandInv' /\ SenderInv' /\ SlotInv'
  <1>1. RegistryInv'
    BY DEF TypeOK, RegistryInv
  <1>2. HandInv'
    BY DEF TypeOK, HandInv
  <1>3. \A u \in Task : RxAlive(u)' <=> RxAlive(u)
    BY DEF RxAlive
  <1>4. SenderInv'
    BY <1>3 DEF TypeOK, SenderInv, SenderAlive
  <1>5. SlotInv'
    BY DEF SlotInv, RxAlive
  <1> QED
    BY <1>1, <1>2, <1>4, <1>5

-----------------------------------------------------------------------------
(* Dispatch, on the connection's task.                                     *)

LEMMA RefuseInteractionStep ==
  ASSUME NEW t \in Task, NEW k \in Kinds, IInv, RefuseInteraction(t, k)
  PROVE  IInv'
  <1>1. TypeOK'
    BY DEF IInv, TypeOK, RefuseInteraction
  <1>2. IdsInv'
    BY DEF IInv, TypeOK, IdsInv, RefuseInteraction
  <1>3. RegistryInv' /\ HandInv' /\ SenderInv' /\ SlotInv'
    BY DeliveryFrame DEF IInv, TypeOK, RefuseInteraction
  <1>4. VerdictInv'
    BY DEF IInv, TypeOK, VerdictInv, RefuseInteraction
  <1>5. EffectInv'
    BY DEF IInv, TypeOK, IdsInv, VerdictInv, EffectInv, RefuseInteraction
  <1> QED
    BY <1>1, <1>2, <1>3, <1>4, <1>5 DEF IInv

LEMMA DispatchInteractionStep ==
  ASSUME NEW t \in Task, NEW k \in Kinds, IInv, DispatchInteraction(t, k)
  PROVE  IInv'
  <1>1. TypeOK'
    BY DEF IInv, TypeOK, DispatchInteraction
  <1>2. IdsInv'
    BY DEF IInv, TypeOK, IdsInv, DispatchInteraction
  <1>3. RegistryInv' /\ HandInv' /\ SenderInv' /\ SlotInv'
    BY DeliveryFrame DEF IInv, TypeOK, DispatchInteraction
  <1>4. VerdictInv'
    BY DEF IInv, TypeOK, VerdictInv, DispatchInteraction
  <1>5. EffectInv'
    BY DEF IInv, TypeOK, IdsInv, VerdictInv, EffectInv, DispatchInteraction
  <1> QED
    BY <1>1, <1>2, <1>3, <1>4, <1>5 DEF IInv

LEMMA DispatchPlanStep ==
  ASSUME NEW t \in Task, NEW k \in Kinds, NEW r \in BOOLEAN, IInv, DispatchPlan(t, k, r)
  PROVE  IInv'
  <1>1. TypeOK'
    BY DEF IInv, TypeOK, DispatchPlan
  <1>2. IdsInv'
    BY DEF IInv, TypeOK, IdsInv, DispatchPlan
  <1>3. RegistryInv' /\ HandInv' /\ SenderInv' /\ SlotInv'
    BY DeliveryFrame DEF IInv, TypeOK, DispatchPlan
  <1>4. VerdictInv'
    BY DEF IInv, TypeOK, VerdictInv, DispatchPlan
  <1>5. EffectInv'
    BY DEF IInv, TypeOK, IdsInv, VerdictInv, EffectInv, DispatchPlan
  <1> QED
    BY <1>1, <1>2, <1>3, <1>4, <1>5 DEF IInv

LEMMA DispatchApprovalDemoStep ==
  ASSUME NEW t \in Task, NEW k \in Kinds, IInv, DispatchApprovalDemo(t, k)
  PROVE  IInv'
  <1>1. TypeOK'
    BY DEF IInv, TypeOK, DispatchApprovalDemo
  <1>2. IdsInv'
    BY DEF IInv, TypeOK, IdsInv, DispatchApprovalDemo
  <1>3. RegistryInv' /\ HandInv' /\ SenderInv' /\ SlotInv'
    BY DeliveryFrame DEF IInv, TypeOK, DispatchApprovalDemo
  <1>4. VerdictInv'
    BY DEF IInv, TypeOK, VerdictInv, DispatchApprovalDemo
  <1>5. EffectInv'
    BY DEF IInv, TypeOK, IdsInv, VerdictInv, EffectInv, DispatchApprovalDemo
  <1> QED
    BY <1>1, <1>2, <1>3, <1>4, <1>5 DEF IInv

-----------------------------------------------------------------------------
(* The gate and the waiter.                                                *)

LEMMA DrawApprovalIdStep ==
  ASSUME NEW t \in Task, IInv, DrawApprovalId(t)
  PROVE  IInv'
  <1>1. TypeOK'
    BY DEF IInv, TypeOK, DrawApprovalId
  <1>2. IdsInv'
    BY DEF IInv, TypeOK, IdsInv, DrawApprovalId
  <1>3. RegistryInv'
    BY DEF IInv, TypeOK, RegistryInv, DrawApprovalId
  <1>4. HandInv'
    BY DEF IInv, TypeOK, HandInv, DrawApprovalId
  <1>5. SenderInv'
    BY DEF IInv, TypeOK, SenderInv, DrawApprovalId, RxAlive, SenderAlive
  <1>6. SlotInv'
    BY DEF IInv, TypeOK, SlotInv, DrawApprovalId, RxAlive
  <1>7. VerdictInv'
    BY DEF IInv, TypeOK, VerdictInv, DrawApprovalId
  <1>8. EffectInv'
    BY DEF IInv, TypeOK, IdsInv, EffectInv, DrawApprovalId
  <1> QED
    BY <1>1, <1>2, <1>3, <1>4, <1>5, <1>6, <1>7, <1>8 DEF IInv

(* The id is new, so no other command's entry is overwritten.              *)
LEMMA RegisterStep ==
  ASSUME NEW t \in Task, IInv, Register(t)
  PROVE  IInv'
  <1>0. pc[t] = "numbered"
    BY DEF Register
  <1>1. apr[t] \in Id /\ slot[t] = "none" /\ accepted[t] = {}
    <2>1. apr[t] # 0 /\ apr[t] \in 0 .. MaxApprovals
      BY <1>0 DEF IInv, TypeOK, IdsInv
    <2>2. slot[t] = "none" /\ accepted[t] = {}
      BY <1>0 DEF IInv, SlotInv, RxAlive
    <2> QED
      BY <2>1, <2>2
  <1>2. registry[apr[t]] = NoOne
    <2>1. SUFFICES ASSUME registry[apr[t]] # NoOne
                   PROVE  FALSE
      OBVIOUS
    <2> DEFINE u == registry[apr[t]]
    <2>2. u \in Task /\ apr[u] = apr[t] /\ pc[u] \in AwaitingAnswer
      BY <1>1, <2>1 DEF IInv, TypeOK, RegistryInv
    <2>3. u = t
      BY <1>1, <2>2 DEF IInv, IdsInv
    <2> QED
      BY <1>0, <2>2, <2>3
  <1>3. TypeOK' /\ IdsInv'
    BY <1>1 DEF IInv, TypeOK, IdsInv, Register
  <1>4. RegistryInv'
    BY <1>1 DEF IInv, TypeOK, RegistryInv, Register
  <1>5. HandInv'
    BY DEF IInv, TypeOK, IdsInv, HandInv, Register
  <1>6. SenderInv'
    BY <1>1, <1>2 DEF IInv, TypeOK, SenderInv, Register, RxAlive, SenderAlive
  <1>7. SlotInv'
    BY DEF IInv, TypeOK, SlotInv, Register, RxAlive
  <1>8. VerdictInv' /\ EffectInv'
    BY DEF IInv, TypeOK, IdsInv, VerdictInv, EffectInv, Register
  <1> QED
    BY <1>3, <1>4, <1>5, <1>6, <1>7, <1>8 DEF IInv

LEMMA SpawnWaiterStep ==
  ASSUME NEW t \in Task, IInv, SpawnWaiter(t)
  PROVE  IInv'
  <1>1. TypeOK'
    BY DEF IInv, TypeOK, SpawnWaiter
  <1>2. IdsInv'
    BY DEF IInv, TypeOK, IdsInv, SpawnWaiter
  <1>3. RegistryInv' /\ HandInv' /\ SenderInv' /\ SlotInv'
    BY DeliveryFrame DEF IInv, TypeOK, SpawnWaiter
  <1>4. VerdictInv'
    BY DEF IInv, TypeOK, VerdictInv, SpawnWaiter
  <1>5. EffectInv'
    BY DEF IInv, TypeOK, IdsInv, VerdictInv, EffectInv, SpawnWaiter
  <1> QED
    BY <1>1, <1>2, <1>3, <1>4, <1>5 DEF IInv

LEMMA DeadlineStep ==
  ASSUME NEW t \in Task, IInv, Deadline(t)
  PROVE  IInv'
  <1>1. TypeOK'
    BY DEF IInv, TypeOK, Deadline
  <1>2. IdsInv'
    BY DEF IInv, TypeOK, IdsInv, Deadline
  <1>3. RegistryInv' /\ HandInv' /\ SenderInv' /\ SlotInv'
    BY DeliveryFrame DEF IInv, TypeOK, Deadline
  <1>4. VerdictInv'
    BY DEF IInv, TypeOK, VerdictInv, Deadline
  <1>5. EffectInv'
    BY DEF IInv, TypeOK, IdsInv, VerdictInv, EffectInv, Deadline
  <1> QED
    BY <1>1, <1>2, <1>3, <1>4, <1>5 DEF IInv

LEMMA PollPendingStep ==
  ASSUME NEW t \in Task, IInv, PollPending(t)
  PROVE  IInv'
  <1>1. TypeOK'
    BY DEF IInv, TypeOK, PollPending
  <1>2. IdsInv'
    BY DEF IInv, TypeOK, IdsInv, PollPending
  <1>3. RegistryInv' /\ HandInv' /\ SenderInv' /\ SlotInv'
    BY DeliveryFrame DEF IInv, TypeOK, PollPending
  <1>4. VerdictInv'
    BY DEF IInv, TypeOK, VerdictInv, PollPending
  <1>5. EffectInv'
    BY DEF IInv, TypeOK, IdsInv, VerdictInv, EffectInv, PollPending
  <1> QED
    BY <1>1, <1>2, <1>3, <1>4, <1>5 DEF IInv

LEMMA PollTimerPendingStep ==
  ASSUME NEW t \in Task, IInv, PollTimerPending(t)
  PROVE  IInv'
  <1>1. TypeOK'
    BY DEF IInv, TypeOK, PollTimerPending
  <1>2. IdsInv'
    BY DEF IInv, TypeOK, IdsInv, PollTimerPending
  <1>3. RegistryInv' /\ HandInv' /\ SenderInv' /\ SlotInv'
    BY DeliveryFrame DEF IInv, TypeOK, PollTimerPending
  <1>4. VerdictInv'
    BY DEF IInv, TypeOK, VerdictInv, PollTimerPending
  <1>5. EffectInv'
    BY DEF IInv, TypeOK, IdsInv, VerdictInv, EffectInv, PollTimerPending
  <1> QED
    BY <1>1, <1>2, <1>3, <1>4, <1>5 DEF IInv

(* A live receiver always has its value or a sender: the branch for a      *)
(* dropped sender is never taken.                                          *)
LEMMA PollReadyStep ==
  ASSUME NEW t \in Task, IInv, PollReady(t)
  PROVE  IInv'
  <1>1. slot[t] # "none"
    BY DEF IInv, SenderInv, PollReady, RxAlive
  <1>2. /\ slot[t] \in UserDecisions
        /\ accepted[t] = {slot[t]}
        /\ decision' = [decision EXCEPT ![t] = slot[t]]
        /\ source'   = [source EXCEPT ![t] = "user"]
        /\ slot'     = [slot EXCEPT ![t] = "none"]
        /\ pc[t] = "waiting"
        /\ pc' = [pc EXCEPT ![t] = "resolved"]
    BY <1>1 DEF IInv, TypeOK, SlotInv, PollReady, Resolve
  <1>3. /\ \A i \in Id : registry[i] # t
        /\ \A c \in Client : hand[c] # NoOne => hand[c].task # t
    BY <1>1 DEF IInv, RegistryInv, HandInv
  <1>4. TypeOK' /\ IdsInv'
    BY <1>2 DEF IInv, TypeOK, IdsInv, PollReady
  <1>5. RegistryInv'
    BY <1>2, <1>3 DEF IInv, TypeOK, RegistryInv, PollReady
  <1>6. HandInv'
    BY <1>2, <1>3 DEF IInv, TypeOK, HandInv, PollReady
  <1>7. SenderInv' /\ SlotInv'
    BY <1>2 DEF IInv, TypeOK, SenderInv, SlotInv, PollReady, RxAlive, SenderAlive
  <1>8. VerdictInv'
    BY <1>2 DEF IInv, TypeOK, VerdictInv, PollReady
  <1>9. EffectInv'
    BY <1>2 DEF IInv, TypeOK, IdsInv, VerdictInv, EffectInv, PollReady
  <1> QED
    BY <1>4, <1>5, <1>6, <1>7, <1>8, <1>9 DEF IInv

LEMMA PollTimerElapsedStep ==
  ASSUME NEW t \in Task, IInv, PollTimerElapsed(t)
  PROVE  IInv'
  <1>1. TypeOK' /\ IdsInv'
    BY DEF IInv, TypeOK, IdsInv, PollTimerElapsed
  <1>2. RegistryInv' /\ HandInv'
    BY DEF IInv, TypeOK, RegistryInv, HandInv, PollTimerElapsed
  <1>3. SenderInv' /\ SlotInv'
    BY DEF IInv, TypeOK, SenderInv, SlotInv, PollTimerElapsed, RxAlive, SenderAlive
  <1>4. VerdictInv' /\ EffectInv'
    BY DEF IInv, TypeOK, IdsInv, VerdictInv, EffectInv, PollTimerElapsed
  <1> QED
    BY <1>1, <1>2, <1>3, <1>4 DEF IInv

(* Only the command's own entry, or nothing, lies under its id.            *)
LEMMA TakeOwnEntryStep ==
  ASSUME NEW t \in Task, IInv, TakeOwnEntry(t)
  PROVE  IInv'
  <1>1. apr[t] \in Id /\ registry[apr[t]] \in {t, NoOne}
    BY DEF IInv, TypeOK, IdsInv, RegistryInv, TakeOwnEntry
  <1>2. TypeOK' /\ IdsInv'
    BY <1>1 DEF IInv, TypeOK, IdsInv, TakeOwnEntry, Resolve
  <1>3. RegistryInv'
    BY <1>1 DEF IInv, TypeOK, RegistryInv, TakeOwnEntry
  <1>4. HandInv'
    BY <1>1 DEF IInv, TypeOK, HandInv, TakeOwnEntry
  <1>5. SenderInv'
    BY <1>1 DEF IInv, TypeOK, SenderInv, TakeOwnEntry, RxAlive, SenderAlive
  <1>6. SlotInv'
    BY DEF IInv, TypeOK, SlotInv, TakeOwnEntry, RxAlive
  <1>7. VerdictInv' /\ EffectInv'
    BY DEF IInv, TypeOK, IdsInv, VerdictInv, EffectInv, TakeOwnEntry, Resolve
  <1> QED
    BY <1>2, <1>3, <1>4, <1>5, <1>6, <1>7 DEF IInv

-----------------------------------------------------------------------------
(* The connections that deliver answers.                                   *)

LEMMA RejectUnknownStep ==
  ASSUME NEW c \in Client, NEW i \in Id, IInv, RejectUnknown(c, i)
  PROVE  IInv'
  <1>1. TypeOK' /\ IdsInv' /\ VerdictInv' /\ EffectInv'
    BY DEF IInv, TypeOK, IdsInv, VerdictInv, EffectInv, RejectUnknown
  <1>2. RegistryInv' /\ HandInv' /\ SenderInv' /\ SlotInv'
    BY DeliveryFrame DEF IInv, RejectUnknown
  <1> QED
    BY <1>1, <1>2 DEF IInv

(* The sender moves from the registry into this one hand.                  *)
LEMMA TakeSenderStep ==
  ASSUME NEW c \in Client, NEW i \in Id, NEW d \in UserDecisions,
         IInv, TakeSender(c, i, d)
  PROVE  IInv'
  <1> DEFINE t == registry[i]
  <1>1. /\ t \in Task
        /\ apr[t] = i
        /\ pc[t] \in AwaitingAnswer
        /\ slot[t] = "none"
        /\ accepted[t] = {}
    BY DEF IInv, TypeOK, RegistryInv, TakeSender
  <1>2. \A e \in Client : hand[e] # NoOne => hand[e].task # t
    BY <1>1 DEF IInv, HandInv
  <1>3. /\ hand[c] = NoOne
        /\ [task |-> t, decision |-> d] \in Senders
        /\ [task |-> t, decision |-> d] # NoOne
        /\ hand' = [hand EXCEPT ![c] = [task |-> t, decision |-> d]]
        /\ registry' = [registry EXCEPT ![i] = NoOne]
        /\ UNCHANGED <<accepted, apr, slot, pc>>
    BY <1>1 DEF TakeSender
  <1>4. TypeOK' /\ IdsInv' /\ VerdictInv' /\ EffectInv'
    BY <1>1, <1>3 DEF IInv, TypeOK, IdsInv, VerdictInv, EffectInv, TakeSender
  <1>5. RegistryInv'
    BY <1>3 DEF IInv, TypeOK, RegistryInv
  <1>6. HandInv'
    <2>1. ASSUME NEW e \in Client, hand'[e] # NoOne
          PROVE  /\ hand'[e].task \in Task
                 /\ IF e = c THEN hand'[e].task = t
                    ELSE hand'[e] = hand[e] /\ hand[e].task # t
      BY <1>1, <1>2, <1>3, <2>1 DEF IInv, TypeOK
    <2>2. registry'[i] # t
      BY <1>1, <1>3 DEF IInv, TypeOK
    <2> QED
      BY <1>1, <1>3, <2>1, <2>2 DEF IInv, TypeOK, HandInv
  <1>7. SenderInv'
    <2>1. ASSUME NEW u \in Task, SenderAlive(u)
          PROVE  SenderAlive(u)'
      <3>1. CASE u = t
        BY <1>3, <3>1 DEF IInv, TypeOK, SenderAlive
      <3>2. CASE u # t
        BY <1>1, <1>3, <2>1, <3>2 DEF IInv, TypeOK, SenderAlive
      <3> QED
        BY <3>1, <3>2
    <2> QED
      BY <1>3, <2>1 DEF IInv, SenderInv, RxAlive
  <1>8. SlotInv'
    BY <1>3 DEF IInv, SlotInv, RxAlive
  <1> QED
    BY <1>4, <1>5, <1>6, <1>7, <1>8 DEF IInv

(* The channel of a taken sender is unused, so the value sent is the only  *)
(* one; after the receiver is gone nothing is written.                     *)
LEMMA SendDecisionStep ==
  ASSUME NEW c \in Client, IInv, SendDecision(c)
  PROVE  IInv'
  <1> DEFINE t == hand[c].task
             d == hand[c].decision
  <1>1. /\ t \in Task /\ d \in UserDecisions
        /\ hand[c] # NoOne
        /\ slot[t] = "none" /\ accepted[t] = {}
        /\ apr[t] \in Nat /\ apr[t] # 0
        /\ registry[apr[t]] # t
        /\ pc[t] \notin BeforeGate
        /\ \A e \in Client : e # c /\ hand[e] # NoOne => hand[e].task # t
    BY DEF IInv, TypeOK, HandInv, SendDecision
  <1>2. /\ hand' = [hand EXCEPT ![c] = NoOne]
        /\ UNCHANGED <<policy, approvalCounter, registry, apr, due, pc, kind, decision,
                       source, effects, outcome>>
    BY DEF SendDecision
  <1>3. \A e \in Client : hand'[e] # NoOne =>
           e # c /\ hand'[e] = hand[e] /\ hand'[e].task # t
    BY <1>1, <1>2 DEF IInv, TypeOK
  <1>4. \A u \in Task : RxAlive(u)' <=> RxAlive(u)
    BY <1>2 DEF RxAlive
  <1>5. CASE RxAlive(t)
    <2>1. /\ slot' = [slot EXCEPT ![t] = d]
          /\ accepted' = [accepted EXCEPT ![t] = {d}]
          /\ UNCHANGED rejected
      BY <1>1, <1>5 DEF SendDecision
    <2>2. TypeOK' /\ IdsInv' /\ EffectInv'
      BY <1>1, <1>2, <2>1 DEF IInv, TypeOK, IdsInv, EffectInv
    <2>3. RegistryInv'
      <3>1. \A i \in Id : registry[i] # t
        BY <1>1 DEF IInv, RegistryInv
      <3> QED
        BY <1>2, <2>1, <3>1 DEF IInv, TypeOK, RegistryInv
    <2>4. HandInv'
      BY <1>2, <1>3, <2>1 DEF IInv, TypeOK, HandInv
    <2>5. SenderInv'
      <3>1. ASSUME NEW u \in Task, u # t, SenderAlive(u)
            PROVE  SenderAlive(u)'
        BY <1>2, <3>1 DEF IInv, TypeOK, SenderAlive
      <3> QED
        BY <1>1, <1>4, <2>1, <3>1 DEF IInv, TypeOK, SenderInv
    <2>6. SlotInv'
      BY <1>1, <1>2, <1>4, <1>5, <2>1 DEF IInv, TypeOK, SlotInv
    <2>7. VerdictInv'
      <3>1. source[t] = "none"
        BY <1>1, <1>5 DEF IInv, TypeOK, VerdictInv, RxAlive
      <3> QED
        BY <1>2, <2>1, <3>1 DEF IInv, TypeOK, VerdictInv
    <2> QED
      BY <2>2, <2>3, <2>4, <2>5, <2>6, <2>7 DEF IInv
  <1>6. CASE ~ RxAlive(t)
    <2>1. /\ UNCHANGED <<slot, accepted>>
          /\ rejected' = rejected \cup {apr[t]}
      BY <1>6 DEF SendDecision
    <2>2. TypeOK' /\ IdsInv' /\ EffectInv' /\ VerdictInv'
      BY <1>1, <1>2, <2>1 DEF IInv, TypeOK, IdsInv, EffectInv, VerdictInv
    <2>3. RegistryInv'
      BY <1>2, <2>1 DEF IInv, RegistryInv
    <2>4. HandInv'
      BY <1>2, <1>3, <2>1 DEF IInv, TypeOK, HandInv
    <2>5. SenderInv'
      <3>1. ASSUME NEW u \in Task, u # t, SenderAlive(u)
            PROVE  SenderAlive(u)'
        BY <1>2, <3>1 DEF IInv, TypeOK, SenderAlive
      <3> QED
        BY <1>1, <1>4, <1>6, <2>1, <3>1 DEF IInv, TypeOK, SenderInv
    <2>6. SlotInv'
      BY <1>2, <1>4, <2>1 DEF IInv, SlotInv
    <2> QED
      BY <2>2, <2>3, <2>4, <2>5, <2>6 DEF IInv
  <1> QED
    BY <1>5, <1>6

-----------------------------------------------------------------------------
(* After the resolution: the answer's delivery is over.                    *)

LEMMA AnnounceResolutionStep ==
  ASSUME NEW t \in Task, IInv, AnnounceResolution(t)
  PROVE  IInv'
  <1>1. TypeOK'
    BY DEF IInv, TypeOK, AnnounceResolution
  <1>2. IdsInv'
    BY DEF IInv, TypeOK, IdsInv, AnnounceResolution
  <1>3. RegistryInv' /\ HandInv' /\ SenderInv' /\ SlotInv'
    BY DeliveryFrame DEF IInv, TypeOK, AnnounceResolution
  <1>4. VerdictInv'
    BY DEF IInv, TypeOK, VerdictInv, AnnounceResolution
  <1>5. EffectInv'
    BY DEF IInv, TypeOK, IdsInv, VerdictInv, EffectInv, AnnounceResolution
  <1> QED
    BY <1>1, <1>2, <1>3, <1>4, <1>5 DEF IInv

LEMMA RecordResolutionStep ==
  ASSUME NEW t \in Task, IInv, RecordResolution(t)
  PROVE  IInv'
  <1>1. TypeOK'
    BY DEF IInv, TypeOK, RecordResolution
  <1>2. IdsInv'
    BY DEF IInv, TypeOK, IdsInv, RecordResolution
  <1>3. RegistryInv' /\ HandInv' /\ SenderInv' /\ SlotInv'
    BY DeliveryFrame DEF IInv, TypeOK, RecordResolution
  <1>4. VerdictInv'
    BY DEF IInv, TypeOK, VerdictInv, RecordResolution
  <1>5. EffectInv'
    BY DEF IInv, TypeOK, IdsInv, VerdictInv, EffectInv, RecordResolution
  <1> QED
    BY <1>1, <1>2, <1>3, <1>4, <1>5 DEF IInv

LEMMA BroadcastCancelledStep ==
  ASSUME NEW t \in Task, IInv, BroadcastCancelled(t)
  PROVE  IInv'
  <1>1. TypeOK'
    BY DEF IInv, TypeOK, BroadcastCancelled
  <1>2. IdsInv'
    BY DEF IInv, TypeOK, IdsInv, BroadcastCancelled
  <1>3. RegistryInv' /\ HandInv' /\ SenderInv' /\ SlotInv'
    BY DeliveryFrame DEF IInv, TypeOK, BroadcastCancelled
  <1>4. VerdictInv'
    BY DEF IInv, TypeOK, VerdictInv, BroadcastCancelled
  <1>5. EffectInv'
    BY DEF IInv, TypeOK, IdsInv, VerdictInv, EffectInv, BroadcastCancelled
  <1> QED
    BY <1>1, <1>2, <1>3, <1>4, <1>5 DEF IInv

LEMMA RecordCancelledStep ==
  ASSUME NEW t \in Task, IInv, RecordCancelled(t)
  PROVE  IInv'
  <1>1. TypeOK'
    BY DEF IInv, TypeOK, RecordCancelled
  <1>2. IdsInv'
    BY DEF IInv, TypeOK, IdsInv, RecordCancelled
  <1>3. RegistryInv' /\ HandInv' /\ SenderInv' /\ SlotInv'
    BY DeliveryFrame DEF IInv, TypeOK, RecordCancelled
  <1>4. VerdictInv'
    BY DEF IInv, TypeOK, VerdictInv, RecordCancelled
  <1>5. EffectInv'
    BY DEF IInv, TypeOK, IdsInv, VerdictInv, EffectInv, RecordCancelled
  <1> QED
    BY <1>1, <1>2, <1>3, <1>4, <1>5 DEF IInv

LEMMA CallBackendStep ==
  ASSUME NEW t \in Task, IInv, CallBackend(t)
  PROVE  IInv'
  <1>1. TypeOK'
    <2>0. pc' = [pc EXCEPT ![t] = "backend"]
      BY DEF CallBackend
    <2>1. pc' \in [Task -> PCs]
      BY <2>0 DEF IInv, TypeOK
    <2>2. effects' \in [Task -> Nat]
      BY DEF IInv, TypeOK, CallBackend
    <2> QED
      BY <2>1, <2>2 DEF IInv, TypeOK, CallBackend
  <1>2. IdsInv'
    BY DEF IInv, TypeOK, IdsInv, CallBackend
  <1>3. RegistryInv' /\ HandInv' /\ SenderInv' /\ SlotInv'
    BY DeliveryFrame DEF IInv, TypeOK, CallBackend
  <1>4. VerdictInv'
    BY DEF IInv, TypeOK, VerdictInv, CallBackend
  <1>5. EffectInv'
    BY DEF IInv, TypeOK, IdsInv, VerdictInv, EffectInv, CallBackend
  <1> QED
    BY <1>1, <1>2, <1>3, <1>4, <1>5 DEF IInv

LEMMA BackendReturnsStep ==
  ASSUME NEW t \in Task, NEW r \in {"completed", "failed"}, IInv, BackendReturns(t, r)
  PROVE  IInv'
  <1>1. TypeOK'
    BY DEF IInv, TypeOK, BackendReturns
  <1>2. IdsInv'
    BY DEF IInv, TypeOK, IdsInv, BackendReturns
  <1>3. RegistryInv' /\ HandInv' /\ SenderInv' /\ SlotInv'
    BY DeliveryFrame DEF IInv, TypeOK, BackendReturns
  <1>4. VerdictInv'
    BY DEF IInv, TypeOK, VerdictInv, BackendReturns
  <1>5. EffectInv'
    BY DEF IInv, TypeOK, IdsInv, VerdictInv, EffectInv, BackendReturns
  <1> QED
    BY <1>1, <1>2, <1>3, <1>4, <1>5 DEF IInv

LEMMA RecordLifecycleStep ==
  ASSUME NEW t \in Task, IInv, RecordLifecycle(t)
  PROVE  IInv'
  <1> DEFINE next == IF Gated(t) THEN "recorded" ELSE "done"
  <1>0. /\ pc[t] = "returned"
        /\ pc' = [pc EXCEPT ![t] = next]
        /\ next \in {"recorded", "done"}
        /\ next = "recorded" => apr[t] # 0
        /\ UNCHANGED <<policy, client_vars, gate_vars, kind, decision, source, effects,
                       outcome>>
    BY DEF RecordLifecycle, Gated
  <1> HIDE DEF next
  <1>1. TypeOK'
    BY <1>0 DEF IInv, TypeOK
  <1>2. IdsInv'
    BY <1>0 DEF IInv, TypeOK, IdsInv
  <1>3. RegistryInv' /\ HandInv' /\ SenderInv' /\ SlotInv'
    BY <1>0, DeliveryFrame DEF IInv, TypeOK
  <1>4. VerdictInv'
    BY <1>0 DEF IInv, TypeOK, VerdictInv, EffectInv
  <1>5. EffectInv'
    BY <1>0 DEF IInv, TypeOK, IdsInv, VerdictInv, EffectInv
  <1> QED
    BY <1>1, <1>2, <1>3, <1>4, <1>5 DEF IInv

LEMMA BroadcastLifecycleStep ==
  ASSUME NEW t \in Task, IInv, BroadcastLifecycle(t)
  PROVE  IInv'
  <1>1. TypeOK'
    BY DEF IInv, TypeOK, BroadcastLifecycle
  <1>2. IdsInv'
    BY DEF IInv, TypeOK, IdsInv, BroadcastLifecycle
  <1>3. RegistryInv' /\ HandInv' /\ SenderInv' /\ SlotInv'
    BY DeliveryFrame DEF IInv, TypeOK, BroadcastLifecycle
  <1>4. VerdictInv'
    BY DEF IInv, TypeOK, VerdictInv, BroadcastLifecycle
  <1>5. EffectInv'
    BY DEF IInv, TypeOK, IdsInv, VerdictInv, EffectInv, BroadcastLifecycle
  <1> QED
    BY <1>1, <1>2, <1>3, <1>4, <1>5 DEF IInv

LEMMA StartPlanStep ==
  ASSUME NEW t \in Task, IInv, StartPlan(t)
  PROVE  IInv'
  <1>1. TypeOK'
    BY DEF IInv, TypeOK, StartPlan
  <1>2. IdsInv'
    BY DEF IInv, TypeOK, IdsInv, StartPlan
  <1>3. RegistryInv' /\ HandInv' /\ SenderInv' /\ SlotInv'
    BY DeliveryFrame DEF IInv, TypeOK, StartPlan
  <1>4. VerdictInv'
    BY DEF IInv, TypeOK, VerdictInv, StartPlan
  <1>5. EffectInv'
    BY DEF IInv, TypeOK, IdsInv, VerdictInv, EffectInv, StartPlan
  <1> QED
    BY <1>1, <1>2, <1>3, <1>4, <1>5 DEF IInv

LEMMA RecordPlanStartedStep ==
  ASSUME NEW t \in Task, IInv, RecordPlanStarted(t)
  PROVE  IInv'
  <1>1. TypeOK'
    BY DEF IInv, TypeOK, RecordPlanStarted
  <1>2. IdsInv'
    BY DEF IInv, TypeOK, IdsInv, RecordPlanStarted
  <1>3. RegistryInv' /\ HandInv' /\ SenderInv' /\ SlotInv'
    BY DeliveryFrame DEF IInv, TypeOK, RecordPlanStarted
  <1>4. VerdictInv'
    BY DEF IInv, TypeOK, VerdictInv, RecordPlanStarted
  <1>5. EffectInv'
    BY DEF IInv, TypeOK, IdsInv, VerdictInv, EffectInv, RecordPlanStarted
  <1> QED
    BY <1>1, <1>2, <1>3, <1>4, <1>5 DEF IInv

LEMMA StepPlanStep ==
  ASSUME NEW t \in Task, IInv, StepPlan(t)
  PROVE  IInv'
  <1>1. TypeOK'
    BY DEF IInv, TypeOK, StepPlan
  <1>2. IdsInv'
    BY DEF IInv, TypeOK, IdsInv, StepPlan
  <1>3. RegistryInv' /\ HandInv' /\ SenderInv' /\ SlotInv'
    BY DeliveryFrame DEF IInv, TypeOK, StepPlan
  <1>4. VerdictInv'
    BY DEF IInv, TypeOK, VerdictInv, StepPlan
  <1>5. EffectInv'
    BY DEF IInv, TypeOK, IdsInv, VerdictInv, EffectInv, StepPlan
  <1> QED
    BY <1>1, <1>2, <1>3, <1>4, <1>5 DEF IInv

LEMMA CompletePlanStep ==
  ASSUME NEW t \in Task, IInv, CompletePlan(t)
  PROVE  IInv'
  <1>1. TypeOK'
    BY DEF IInv, TypeOK, CompletePlan
  <1>2. IdsInv'
    BY DEF IInv, TypeOK, IdsInv, CompletePlan
  <1>3. RegistryInv' /\ HandInv' /\ SenderInv' /\ SlotInv'
    BY DeliveryFrame DEF IInv, TypeOK, CompletePlan
  <1>4. VerdictInv'
    BY DEF IInv, TypeOK, VerdictInv, CompletePlan
  <1>5. EffectInv'
    BY DEF IInv, TypeOK, IdsInv, VerdictInv, EffectInv, CompletePlan
  <1> QED
    BY <1>1, <1>2, <1>3, <1>4, <1>5 DEF IInv

LEMMA RecordPlanCompletedStep ==
  ASSUME NEW t \in Task, IInv, RecordPlanCompleted(t)
  PROVE  IInv'
  <1>1. TypeOK'
    BY DEF IInv, TypeOK, RecordPlanCompleted
  <1>2. IdsInv'
    BY DEF IInv, TypeOK, IdsInv, RecordPlanCompleted
  <1>3. RegistryInv' /\ HandInv' /\ SenderInv' /\ SlotInv'
    BY DeliveryFrame DEF IInv, TypeOK, RecordPlanCompleted
  <1>4. VerdictInv'
    BY DEF IInv, TypeOK, VerdictInv, RecordPlanCompleted
  <1>5. EffectInv'
    BY DEF IInv, TypeOK, IdsInv, VerdictInv, EffectInv, RecordPlanCompleted
  <1> QED
    BY <1>1, <1>2, <1>3, <1>4, <1>5 DEF IInv

-----------------------------------------------------------------------------
LEMMA StutterStep ==
  ASSUME IInv, UNCHANGED vars
  PROVE  IInv'
  <1>1. TypeOK' /\ IdsInv' /\ VerdictInv' /\ EffectInv'
    BY DEF IInv, TypeOK, IdsInv, VerdictInv, EffectInv, vars
  <1>2. RegistryInv' /\ HandInv' /\ SenderInv' /\ SlotInv'
    BY DeliveryFrame DEF IInv, vars
  <1> QED
    BY <1>1, <1>2 DEF IInv

(* Every step of every command and every connection preserves IInv.        *)
LEMMA NextIInv == IInv /\ [Next]_vars => IInv'
  <1> SUFFICES ASSUME IInv, [Next]_vars
               PROVE  IInv'
    OBVIOUS
  <1>1. CASE UNCHANGED vars
    BY <1>1, StutterStep
  <1>2. ASSUME NEW t \in Task, Dispatch(t)
        PROVE  IInv'
    BY <1>2, RefuseInteractionStep, DispatchInteractionStep, DispatchPlanStep,
       DispatchApprovalDemoStep DEF Dispatch
  <1>3. ASSUME NEW t \in Task, Gate(t) \/ Deadline(t)
        PROVE  IInv'
    BY <1>3, DrawApprovalIdStep, RegisterStep, SpawnWaiterStep, DeadlineStep DEF Gate
  <1>4. ASSUME NEW t \in Task, Waiter(t)
        PROVE  IInv'
    BY <1>4, PollReadyStep, PollPendingStep, PollTimerPendingStep,
       PollTimerElapsedStep, TakeOwnEntryStep DEF Waiter
  <1>5. ASSUME NEW t \in Task, Continuation(t)
        PROVE  IInv'
    BY <1>5, AnnounceResolutionStep, RecordResolutionStep, BroadcastCancelledStep,
       RecordCancelledStep, CallBackendStep, RecordLifecycleStep,
       BroadcastLifecycleStep, StartPlanStep, RecordPlanStartedStep, StepPlanStep,
       CompletePlanStep, RecordPlanCompletedStep DEF Continuation
  <1>6. ASSUME NEW t \in Task, Backend(t)
        PROVE  IInv'
    BY <1>6, BackendReturnsStep DEF Backend
  <1>7. ASSUME NEW c \in Client, Answer(c)
        PROVE  IInv'
    BY <1>7, RejectUnknownStep, TakeSenderStep, SendDecisionStep DEF Answer
  <1> QED
    BY <1>1, <1>2, <1>3, <1>4, <1>5, <1>6, <1>7 DEF Next

(* The inductive invariant holds in every reachable state of the gate.     *)
THEOREM Invariance == Spec => []IInv
  BY InitIInv, NextIInv, PTL DEF Spec

(* Every variable of the gate keeps its type.                              *)
THEOREM TypeCorrect == Spec => []TypeOK
  <1>1. IInv => TypeOK
    BY DEF IInv
  <1> QED
    BY <1>1, Invariance, PTL

-----------------------------------------------------------------------------
(* Control over autonomy, for every number of commands, connections and    *)
(* answers: run_approved and execute_demo_plan are entered only behind a   *)
(* user's acknowledged "approved", or where no gate was asked for.         *)
LEMMA IInvNeedsConsent == IInv => ExecutionNeedsConsent
  <1> SUFFICES ASSUME IInv, NEW t \in Task, effects[t] > 0
               PROVE  /\ effects[t] = 1
                      /\ kind[t] # "approval_demo"
                      /\ \/ /\ decision[t] = "approved"
                            /\ source[t] = "user"
                            /\ accepted[t] = {"approved"}
                         \/ /\ ~ Gated(t)
                            /\ kind[t] \in InteractionKinds => ~ policy.require_confirmation
    BY DEF ExecutionNeedsConsent
  <1>1. effects[t] = 1 /\ kind[t] # "approval_demo"
    BY DEF IInv, EffectInv
  <1>2. CASE decision[t] = "approved"
    <2>1. source[t] = "user"
      BY <1>2 DEF IInv, TypeOK, VerdictInv
    <2>2. accepted[t] = {"approved"}
      BY <1>2, <2>1 DEF IInv, VerdictInv
    <2> QED
      BY <1>1, <1>2, <2>1, <2>2
  <1>3. CASE decision[t] # "approved"
    BY <1>1, <1>3 DEF IInv, EffectInv, Gated
  <1> QED
    BY <1>2, <1>3

(* A command that asks is executed only after its own approval was given   *)
(* (app.rs, dispatch_interaction and await_and_continue).                  *)
THEOREM Consent == Spec => []ExecutionNeedsConsent
  BY Invariance, IInvNeedsConsent, PTL

(* Of any number of connections answering one approval, one is             *)
(* acknowledged.                                                           *)
THEOREM OneAnswer == Spec => []OneAnswerAcknowledged
  <1>1. IInv => OneAnswerAcknowledged
    BY DEF IInv, SlotInv, OneAnswerAcknowledged
  <1> QED
    BY <1>1, Invariance, PTL

(* A verdict is the acknowledged answer or the timeout; the dropped-sender *)
(* branch of the waiter is dead code.                                      *)
THEOREM VerdictSource == Spec => []VerdictHasItsSource
  <1>1. IInv => VerdictHasItsSource
    BY DEF IInv, VerdictInv, VerdictHasItsSource
  <1> QED
    BY <1>1, Invariance, PTL

(* The registry holds exactly the approvals an answer can still reach.     *)
THEOREM RegistryExact == Spec => []RegistryTracksWaiters
  <1>1. IInv => RegistryTracksWaiters
    BY DEF IInv, RegistryInv, SenderInv, RegistryTracksWaiters
  <1> QED
    BY <1>1, Invariance, PTL

-----------------------------------------------------------------------------
(* The step of the only action that acknowledges an answer happens before  *)
(* the verdict.                                                            *)
LEMMA AcknowledgedBeforeVerdict ==
  ASSUME IInv, [Next]_vars, NEW t \in Task, decision[t] # "none"
  PROVE  accepted'[t] = accepted[t]
  <1>1. CASE UNCHANGED <<hand, rejected, accepted>>
    BY <1>1
  <1>2. ASSUME NEW c \in Client, SendDecision(c)
        PROVE  accepted'[t] = accepted[t]
    <2>1. hand[c] # NoOne /\ hand[c].task \in Task
      BY <1>2 DEF IInv, TypeOK, SendDecision
    <2>2. CASE RxAlive(hand[c].task)
      <3>1. decision[hand[c].task] = "none"
        BY <2>1, <2>2 DEF IInv, VerdictInv, RxAlive
      <3> QED
        BY <1>2, <2>1, <3>1 DEF IInv, TypeOK, SendDecision
    <2>3. CASE ~ RxAlive(hand[c].task)
      BY <1>2, <2>3 DEF SendDecision
    <2> QED
      BY <2>2, <2>3
  <1>3. ASSUME NEW c \in Client, Answer(c)
        PROVE  accepted'[t] = accepted[t]
    BY <1>2, <1>3 DEF Answer, RejectUnknown, TakeSender
  <1>4. ASSUME NEW u \in Task,
               Dispatch(u) \/ Gate(u) \/ Deadline(u) \/ Waiter(u) \/ Backend(u)
        PROVE  UNCHANGED accepted
    BY <1>4 DEF Dispatch, Gate, Deadline, Waiter, Backend, RefuseInteraction,
       DispatchInteraction, DispatchPlan, DispatchApprovalDemo, DrawApprovalId,
       Register, SpawnWaiter, PollReady, PollPending, PollTimerPending,
       PollTimerElapsed, TakeOwnEntry, BackendReturns
  <1>5. ASSUME NEW u \in Task, Continuation(u)
        PROVE  UNCHANGED accepted
    BY <1>5 DEF Continuation, AnnounceResolution, RecordResolution,
       BroadcastCancelled, RecordCancelled, CallBackend, RecordLifecycle,
       BroadcastLifecycle, StartPlan, RecordPlanStarted, StepPlan, CompletePlan,
       RecordPlanCompleted
  <1> QED
    BY <1>1, <1>3, <1>4, <1>5 DEF Next, vars

(* A client is never told its answer counted once the approval is decided. *)
THEOREM VerdictIsFinal == Spec => NoAnswerAfterVerdict
  <1>1. IInv /\ [Next]_vars =>
          [\A t \in Task : decision[t] # "none" => accepted'[t] = accepted[t]]_vars
    BY AcknowledgedBeforeVerdict
  <1> QED
    BY <1>1, Invariance, PTL DEF Spec, NoAnswerAfterVerdict

-----------------------------------------------------------------------------
(***************************************************************************)
(* What is told of a command: its audit entries and its frames.  A step    *)
(* adds to what is told of one command only, at the end, so that what was  *)
(* before an entry stays before it.                                        *)
(***************************************************************************)
(* What of a command its reports depend on.                                *)
Same(u) ==
  /\ pc'[u] = pc[u] /\ kind'[u] = kind[u] /\ apr'[u] = apr[u]
  /\ decision'[u] = decision[u] /\ outcome'[u] = outcome[u]
  /\ audit'[u] = audit[u] /\ inline'[u] = inline[u] /\ wire'[u] = wire[u]

(* What a step of t leaves alone, and what it keeps of t itself.           *)
Rest(t) ==
  /\ DOMAIN audit' = Task /\ DOMAIN inline' = Task /\ DOMAIN wire' = Task
  /\ \A u \in Task \ {t} : Same(u)
Keeps(t) == kind'[t] = kind[t] /\ apr'[t] = apr[t] /\ decision'[t] = decision[t]

(* What a step leaves alone stays told.                                    *)
LEMMA SameTold ==
  ASSUME NEW u \in Task, Same(u), Told(u)
  PROVE  Told(u)'
  <1>1. PathInv(u)'
    BY DEF Same, Told, PathInv, Gated
  <1>2. TrailInv(u)'
    BY DEF Same, Told, TrailInv, Gated, AuditCloses, Verdict, Named, Unnamed
  <1>3. ReportInv(u)'
    BY DEF Same, Told, ReportInv, Gated, AuditCloses, Quiet
  <1>4. Gated(u)' => VerdictNamed(u)'
    BY DEF Same, Told, VerdictNamed, Gated, Verdict, Named, Unnamed
  <1>5. kind'[u] \in InteractionKinds => AuditedFirst(u)'
    BY DEF Same, Told, AuditedFirst
  <1> QED
    BY <1>1, <1>2, <1>3, <1>4, <1>5 DEF Same, Told

(* Before the gate's verdict is recorded nothing a reader could mistake    *)
(* has been told.                                                          *)
Early(t) ==
  /\ audit[t] \in Seq(Entries) /\ inline[t] \in Seq(Frames) /\ wire[t] \in Seq(Frames)
  /\ \A n \in DOMAIN audit[t] : audit[t][n].event \in Opening
  /\ Quiet(inline[t]) /\ Quiet(wire[t])

LEMMA EarlyTold ==
  ASSUME NEW t \in Task, Early(t)', PathInv(t)', 
         pc'[t] \in Unrecorded \cup {"direct", "starting"},
         pc'[t] \in {"direct", "starting"} => apr'[t] = 0
  PROVE  Told(t)'
  <1>1. TrailInv(t)'
    BY DEF Early, TrailInv, Gated, Unrecorded, Enacting
  <1>2. ReportInv(t)'
    BY DEF Early, ReportInv, Unrecorded, Reported
  <1>3. VerdictNamed(t)'
    BY DEF Early, VerdictNamed, Opening
  <1>4. AuditedFirst(t)'
    BY DEF Early, AuditedFirst, Quiet, TerminalFrames
  <1> QED
    BY <1>1, <1>2, <1>3, <1>4 DEF Early, Told

(* Every command is that early until its verdict is recorded.              *)
LEMMA ToldEarly ==
  ASSUME NEW t \in Task, Told(t), pc[t] \in Unrecorded
  PROVE  Early(t)
  BY DEF Told, TrailInv, ReportInv, Early, Unrecorded, Reported

LEMMA EarlyGrows ==
  ASSUME NEW t \in Task, Early(t), NEW a \in Seq(Entries), NEW i \in Seq(Frames),
         NEW w \in Seq(Frames), Quiet(i), Quiet(w),
         \A n \in DOMAIN a : a[n].event \in Opening,
         audit'[t] \in {audit[t], audit[t] \o a},
         inline'[t] \in {inline[t], inline[t] \o i},
         wire'[t] \in {wire[t], wire[t] \o w}
  PROVE  Early(t)'
  <1>1. audit'[t] \in Seq(Entries) /\ inline'[t] \in Seq(Frames) /\ wire'[t] \in Seq(Frames)
    <2>1. audit[t] \o a \in Seq(Entries)
      BY Longer DEF Early
    <2>2. inline[t] \o i \in Seq(Frames)
      BY Longer DEF Early
    <2>3. wire[t] \o w \in Seq(Frames)
      BY Longer DEF Early
    <2> QED BY <2>1, <2>2, <2>3 DEF Early
  <1>2. \A n \in DOMAIN audit'[t] : audit'[t][n].event \in Opening
    <2>1. CASE audit'[t] = audit[t]
      BY <2>1 DEF Early
    <2>2. CASE audit'[t] = audit[t] \o a
      BY <2>2, OldOrAdded DEF Early
    <2> QED BY <2>1, <2>2
  <1>3. Quiet(inline'[t]) /\ Quiet(wire'[t])
    <2>1. Quiet(inline[t] \o i)
      BY QuietLonger DEF Early
    <2>2. Quiet(wire[t] \o w)
      BY QuietLonger DEF Early
    <2> QED BY <2>1, <2>2 DEF Early
  <1> QED
    BY <1>1, <1>2, <1>3 DEF Early

(* Entries behind a recorded verdict keep the trail's promise when none of *)
(* them is a second verdict and they carry the first.                      *)
LEMMA NamedGrows ==
  ASSUME NEW t \in Task, audit[t] \in Seq(Entries), NEW e \in Seq(Entries),
         audit'[t] = audit[t] \o e, Keeps(t), VerdictNamed(t),
         \E n \in DOMAIN audit[t] : audit[t][n] = Verdict(t),
         \A n \in DOMAIN e :
           /\ e[n].event # "approval_resolved"
           /\ e[n].event = "action_cancelled" => e[n].result = Named(t)
           /\ e[n].event = "action_started" => decision[t] = "approved"
  PROVE  VerdictNamed(t)'
  <1> DEFINE s == audit[t]
             r == audit[t] \o e
  <1>1. Verdict(t)' = Verdict(t) /\ Named(t)' = Named(t) /\ decision'[t] = decision[t]
    BY DEF Keeps, Verdict, Named, Unnamed
  <1>2. PICK v \in DOMAIN s : s[v] = Verdict(t)
    OBVIOUS
  <1>3. /\ Len(s) \in Nat /\ DOMAIN s = 1 .. Len(s) /\ DOMAIN r \subseteq Int
        /\ \A m \in 1 .. Len(s) : r[m] = s[m]
    BY Longer
  <1>4. \A n \in DOMAIN r :
          \/ n \in DOMAIN s /\ n <= Len(s) /\ r[n] = s[n]
          \/ n > Len(s) /\ n - Len(s) \in DOMAIN e /\ r[n] = e[n - Len(s)]
    BY OldOrAdded
  <1> HIDE DEF r
  <1>5. ASSUME NEW n \in DOMAIN r, n <= Len(s), r[n] = s[n], n \in DOMAIN s
        PROVE  /\ r[n].event = "approval_resolved" =>
                    /\ r[n] = Verdict(t)
                    /\ \A m \in 1 .. n - 1 : r[m].event # "approval_resolved"
               /\ r[n].event = "action_cancelled" =>
                    r[n].result = Named(t) /\ \E m \in 1 .. n - 1 : r[m] = Verdict(t)
               /\ r[n].event = "action_started" =>
                    decision[t] = "approved" /\ \E m \in 1 .. n - 1 : r[m] = Verdict(t)
    <2>1. \A m \in 1 .. n - 1 : r[m] = s[m]
      BY <1>3, <1>5
    <2>2. /\ s[n].event = "approval_resolved" =>
               /\ s[n] = Verdict(t)
               /\ \A m \in 1 .. n - 1 : s[m].event # "approval_resolved"
          /\ s[n].event = "action_cancelled" =>
               s[n].result = Named(t) /\ \E m \in 1 .. n - 1 : s[m] = Verdict(t)
          /\ s[n].event = "action_started" =>
               decision[t] = "approved" /\ \E m \in 1 .. n - 1 : s[m] = Verdict(t)
      BY <1>5, Zenon DEF VerdictNamed
    <2> HIDE DEF s
    <2>3. \A x : (\E m \in 1 .. n - 1 : s[m] = x) => (\E m \in 1 .. n - 1 : r[m] = x)
      BY <2>1
    <2>4. (\A m \in 1 .. n - 1 : s[m].event # "approval_resolved")
             => (\A m \in 1 .. n - 1 : r[m].event # "approval_resolved")
      BY <2>1
    <2> QED BY <1>5, <2>2, <2>3, <2>4
  <1>6. ASSUME NEW n \in DOMAIN r, n > Len(s), n - Len(s) \in DOMAIN e, r[n] = e[n - Len(s)]
        PROVE  /\ r[n].event # "approval_resolved"
               /\ r[n].event = "action_cancelled" =>
                    r[n].result = Named(t) /\ \E m \in 1 .. n - 1 : r[m] = Verdict(t)
               /\ r[n].event = "action_started" =>
                    decision[t] = "approved" /\ \E m \in 1 .. n - 1 : r[m] = Verdict(t)
    <2>1. v \in 1 .. n - 1 /\ r[v] = Verdict(t)
      BY <1>2, <1>3, <1>6
    <2> QED BY <1>6, <2>1
  <1>7. audit'[t] = r
    BY DEF r
  <1> QED
    BY <1>1, <1>4, <1>5, <1>6, <1>7 DEF VerdictNamed
-----------------------------------------------------------------------------
(* One lemma per step that says something, one for all the silent ones.    *)
LEMMA SilentStep ==
  ASSUME NEW t \in Task, TypeOK, ReportsInv, Rest(t), pc[t] \in Unrecorded,
         pc'[t] \in Unrecorded, kind'[t] \in AllKinds, UNCHANGED out_vars
  PROVE  ReportsInv'
  <1>1. Early(t)
    BY ToldEarly DEF ReportsInv
  <1>2. Early(t)'
    BY <1>1 DEF Early, Quiet
  <1>3. PathInv(t)'
    BY DEF PathInv, Unrecorded
  <1>4. Told(t)'
    BY <1>2, <1>3, EarlyTold DEF Unrecorded
  <1> QED
    BY <1>4, SameTold DEF ReportsInv, Rest

LEMMA SilentStepOf ==
  ASSUME NEW t \in Task, IInv, ReportsInv,
         \/ \E k \in Kinds : DispatchApprovalDemo(t, k)
         \/ DrawApprovalId(t) \/ Register(t) \/ Deadline(t) \/ Waiter(t)
  PROVE  ReportsInv'
  <1>0. TypeOK /\ DOMAIN audit = Task /\ DOMAIN inline = Task /\ DOMAIN wire = Task
    BY DEF IInv, ReportsInv
  <1>p. pc[t] # "idle" => kind[t] \in AllKinds
    BY DEF ReportsInv, Told, PathInv
  <1>1. CASE \E k \in Kinds : DispatchApprovalDemo(t, k)
    <2>1. /\ Rest(t) /\ pc[t] \in Unrecorded /\ pc'[t] \in Unrecorded
          /\ kind'[t] \in AllKinds /\ UNCHANGED out_vars
      BY <1>0, <1>1 DEF TypeOK, Rest, Same, DispatchApprovalDemo, Unrecorded
    <2> QED BY <1>0, <2>1, SilentStep
  <1>2. CASE DrawApprovalId(t) \/ Register(t) \/ Deadline(t)
    <2>1. /\ Rest(t) /\ pc[t] \in Unrecorded /\ pc'[t] \in Unrecorded
          /\ kind'[t] \in AllKinds /\ UNCHANGED out_vars
      BY <1>0, <1>p, <1>2 DEF TypeOK, Rest, Same, DrawApprovalId, Register, Deadline, Unrecorded
    <2> QED BY <1>0, <2>1, SilentStep
  <1>3. CASE PollReady(t) \/ TakeOwnEntry(t)
    <2>1. /\ Rest(t) /\ pc[t] \in Unrecorded /\ pc'[t] \in Unrecorded
          /\ kind'[t] \in AllKinds /\ UNCHANGED out_vars
      BY <1>0, <1>p, <1>3 DEF TypeOK, Rest, Same, PollReady, TakeOwnEntry, Resolve, Unrecorded
    <2> QED BY <1>0, <2>1, SilentStep
  <1>4. CASE PollPending(t) \/ PollTimerPending(t) \/ PollTimerElapsed(t)
    <2>1. /\ Rest(t) /\ pc[t] \in Unrecorded /\ pc'[t] \in Unrecorded
          /\ kind'[t] \in AllKinds /\ UNCHANGED out_vars
      BY <1>0, <1>p, <1>4 DEF TypeOK, Rest, Same, PollPending, PollTimerPending,
         PollTimerElapsed, Unrecorded
    <2> QED BY <1>0, <2>1, SilentStep
  <1> QED
    BY <1>1, <1>2, <1>3, <1>4 DEF Waiter

(* The two entries every command but the approval demo starts with.        *)
LEMMA ReceivedIs ==
  /\ Received \in Seq(Entries)
  /\ \A n \in DOMAIN Received : Received[n].event \in Opening
  <1>1. /\ Entry("ipc_command_received", "none") \in Entries
        /\ Entry("action_planned", "none") \in Entries
        /\ Entry("ipc_command_received", "none").event \in Opening
        /\ Entry("action_planned", "none").event \in Opening
    BY EntryIs DEF Fields!AuditKind, Opening
  <1>2. \A a, b : \A n \in DOMAIN <<a, b>> : <<a, b>>[n] \in {a, b}
    OBVIOUS
  <1> QED BY <1>1, <1>2, Tuple2 DEF Received

(* One more entry, or one more frame.                                      *)
LEMMA OneIs ==
  ASSUME NEW x
  PROVE  /\ Len(<<x>>) = 1 /\ DOMAIN <<x>> = {1} /\ <<x>>[1] = x
         /\ \A S : x \in S => <<x>> \in Seq(S)
  OBVIOUS

(* One frame that ends nothing, and one that does.                         *)
LEMMA QuietOne ==
  ASSUME NEW f \in Frames \ TerminalFrames
  PROVE  <<f>> \in Seq(Frames) /\ Quiet(<<f>>)
  BY OneIs DEF Quiet

LEMMA CloseOne ==
  ASSUME NEW f \in TerminalFrames
  PROVE  <<f>> \in Seq(Frames) /\ ClosesWith(<<f>>, f)
  <1>1. f \in Frames
    BY DEF Frames
  <1> DEFINE s == <<f>>
  <1>2. Len(s) = 1 /\ s[1] = f /\ s \in Seq(Frames)
    BY <1>1, OneIs
  <1> HIDE DEF s
  <1>3. ClosesWith(s, f)
    BY <1>2 DEF ClosesWith
  <1> QED BY <1>2, <1>3 DEF s

LEMMA DispatchStep ==
  ASSUME NEW t \in Task, NEW k \in Kinds, IInv, ReportsInv,
         DispatchInteraction(t, k) \/ \E r \in BOOLEAN : DispatchPlan(t, k, r)
  PROVE  ReportsInv'
  <1>0. TypeOK /\ DOMAIN audit = Task /\ DOMAIN inline = Task /\ DOMAIN wire = Task
    BY DEF IInv, ReportsInv
  <1>1. /\ Rest(t) /\ pc[t] = "idle" /\ kind'[t] = k /\ k \in AllKinds /\ apr'[t] = apr[t]
        /\ \/ k \in InteractionKinds /\ pc'[t] \in {"gated", "direct"}
           \/ k \in PlanKinds /\ pc'[t] \in {"gated", "starting"}
        /\ audit'[t] = audit[t] \o Received
        /\ inline'[t] = inline[t] \o <<"action_planned">> /\ wire'[t] = wire[t]
    BY <1>0 DEF TypeOK, Rest, Same, DispatchInteraction, DispatchPlan, Audit, Inline
  <1>2. Early(t)
    BY <1>1, ToldEarly DEF ReportsInv, Unrecorded
  <1>3. <<"action_planned">> \in Seq(Frames) /\ Quiet(<<"action_planned">>)
    BY QuietOne DEF Frames, TerminalFrames
  <1>4. Early(t)'
    BY <1>1, <1>2, <1>3, ReceivedIs, EarlyGrows
  <1>5. apr'[t] = 0
    BY <1>1 DEF IInv, IdsInv
  <1>6. PathInv(t)'
    BY <1>1 DEF PathInv
  <1>7. Told(t)'
    BY <1>1, <1>4, <1>5, <1>6, EarlyTold DEF Unrecorded
  <1> QED
    BY <1>1, <1>7, SameTold DEF ReportsInv, Rest

LEMMA SpawnWaiterTells ==
  ASSUME NEW t \in Task, IInv, ReportsInv, SpawnWaiter(t)
  PROVE  ReportsInv'
  <1>0. TypeOK /\ DOMAIN audit = Task /\ DOMAIN inline = Task /\ DOMAIN wire = Task
    BY DEF IInv, ReportsInv
  <1> DEFINE a == <<Entry("approval_requested", "none")>>
             i == <<"approval_requested">>
  <1>1. /\ Rest(t) /\ pc[t] = "registered" /\ pc'[t] = "waiting" /\ kind'[t] = kind[t]
        /\ audit'[t] \in {audit[t], audit[t] \o a}
        /\ inline'[t] = inline[t] \o i /\ wire'[t] = wire[t]
    BY <1>0 DEF TypeOK, Rest, Same, SpawnWaiter, Audit, Inline
  <1>2. Early(t)
    BY <1>1, ToldEarly DEF ReportsInv, Unrecorded
  <1>3. i \in Seq(Frames) /\ Quiet(i)
    BY QuietOne DEF Frames, TerminalFrames
  <1>4. a \in Seq(Entries) /\ \A n \in DOMAIN a : a[n].event \in Opening
    <2>1. Entry("approval_requested", "none") \in Entries
          /\ Entry("approval_requested", "none").event \in Opening
      BY EntryIs DEF Fields!AuditKind, Opening
    <2> QED BY <2>1, OneIs
  <1> HIDE DEF a, i
  <1>5. Early(t)'
    BY <1>1, <1>2, <1>3, <1>4, EarlyGrows
  <1>6. PathInv(t)'
    BY <1>1 DEF ReportsInv, Told, PathInv
  <1>7. Told(t)'
    BY <1>1, <1>5, <1>6, EarlyTold DEF Unrecorded
  <1> QED
    BY <1>1, <1>7, SameTold DEF ReportsInv, Rest

LEMMA AnnounceTells ==
  ASSUME NEW t \in Task, IInv, ReportsInv, AnnounceResolution(t)
  PROVE  ReportsInv'
  <1>0. TypeOK /\ DOMAIN audit = Task /\ DOMAIN inline = Task /\ DOMAIN wire = Task
    BY DEF IInv, ReportsInv
  <1> DEFINE w == <<"approval_resolved">>
  <1>1. /\ Rest(t) /\ pc[t] = "resolved" /\ kind'[t] = kind[t]
        /\ pc'[t] = IF kind[t] = "approval_demo" THEN "done" ELSE "announced"
        /\ audit'[t] = audit[t] /\ inline'[t] = inline[t] /\ wire'[t] = wire[t] \o w
    BY <1>0 DEF TypeOK, Rest, Same, AnnounceResolution, Broadcast
  <1>2. Early(t)
    BY <1>1, ToldEarly DEF ReportsInv, Unrecorded
  <1>3. w \in Seq(Frames) /\ Quiet(w)
    BY QuietOne DEF Frames, TerminalFrames
  <1> HIDE DEF w
  <1>4. <<>> \in Seq(Entries) /\ \A n \in DOMAIN <<>> : <<>>[n].event \in Opening
    OBVIOUS
  <1>5. Early(t)'
    BY <1>1, <1>2, <1>3, <1>4, EarlyGrows
  <1>6. PathInv(t)'
    BY <1>1 DEF ReportsInv, Told, PathInv
  <1>7. CASE pc'[t] = "announced"
    <2>1. Told(t)'
      BY <1>5, <1>6, <1>7, EarlyTold DEF Unrecorded
    <2> QED BY <1>1, <2>1, SameTold DEF ReportsInv, Rest
  <1>8. CASE kind[t] = "approval_demo"
    <2>1. pc'[t] = "done" /\ kind'[t] = "approval_demo"
      BY <1>1, <1>8
    <2>2. TrailInv(t)' /\ ReportInv(t)'
      BY <2>1 DEF TrailInv, ReportInv, Unrecorded, Enacting, Reported
    <2>3. VerdictNamed(t)'
      BY <1>5 DEF Early, VerdictNamed, Opening
    <2>4. Told(t)'
      BY <1>5, <1>6, <2>1, <2>2, <2>3 DEF Early, Told
    <2> QED BY <1>1, <2>4, SameTold DEF ReportsInv, Rest
  <1> QED
    BY <1>1, <1>7, <1>8
-----------------------------------------------------------------------------
(* A trail that grows still holds what it held.                            *)
LEMMA AuditGrows ==
  ASSUME NEW t \in Task, audit[t] \in Seq(Entries), NEW e \in Seq(Entries),
         audit'[t] = audit[t] \o e, Keeps(t)
  PROVE  /\ audit'[t] \in Seq(Entries)
         /\ AuditedFirst(t) /\ wire'[t] = wire[t] => AuditedFirst(t)'
         /\ (\E n \in DOMAIN audit[t] : audit[t][n] = Verdict(t))
              => (\E n \in DOMAIN audit[t] : audit[t][n] = Verdict(t))'
  <1> DEFINE s == audit[t]
             r == audit[t] \o e
  <1>1. r \in Seq(Entries) /\ \A n \in DOMAIN s : n \in DOMAIN r /\ r[n] = s[n]
    BY Longer
  <1>2. audit'[t] = r
    OBVIOUS
  <1> HIDE DEF r
  <1>3. Verdict(t)' = Verdict(t)
    BY DEF Keeps, Verdict, Named, Unnamed
  <1> QED
    BY <1>1, <1>2, <1>3 DEF AuditedFirst

(* The last of the added entries is the last entry.                        *)
LEMMA AuditEnds ==
  ASSUME NEW t \in Task, audit[t] \in Seq(Entries), NEW e \in Seq(Entries), Len(e) > 0,
         audit'[t] = audit[t] \o e
  PROVE  audit'[t] # <<>> /\ audit'[t][Len(audit'[t])].event = e[Len(e)].event
  <1>1. Len(audit[t] \o e) = Len(audit[t]) + Len(e) /\ Len(audit[t]) \in Nat /\ Len(e) \in Nat
    BY Longer
  <1>2. (audit[t] \o e)[Len(audit[t]) + Len(e)] = e[Len(e)] /\ audit[t] \o e # <<>>
    BY <1>1, Longer
  <1> QED
    BY <1>1, <1>2

(* A refused interaction closes inline, and the trail says so.             *)
LEMMA RefuseTells ==
  ASSUME NEW t \in Task, NEW k \in Kinds, IInv, ReportsInv, RefuseInteraction(t, k)
  PROVE  ReportsInv'
  <1>0. TypeOK /\ DOMAIN audit = Task /\ DOMAIN inline = Task /\ DOMAIN wire = Task
    BY DEF IInv, ReportsInv
  <1> DEFINE x == Entry("action_failed", "failed")
             e == Received \o <<x>>
             f == <<"action_planned", "action_started", "action_failed">>
  <1>1. /\ Rest(t) /\ pc[t] = "idle" /\ pc'[t] = "done" /\ kind'[t] \in InteractionKinds
        /\ apr'[t] = apr[t] /\ audit'[t] = audit[t] \o e
        /\ inline'[t] = inline[t] \o f /\ wire'[t] = wire[t]
    BY <1>0 DEF TypeOK, Rest, Same, RefuseInteraction, Audit, Inline
  <1>2. Early(t)
    BY <1>1, ToldEarly DEF ReportsInv, Unrecorded
  <1>3. x \in Entries /\ x.event = "action_failed"
    BY EntryIs DEF Fields!AuditKind
  <1> HIDE DEF x
  <1>4. e \in Seq(Entries) /\ Len(e) > 0 /\ e[Len(e)] = x
    <2>1. <<x>> \in Seq(Entries) /\ Len(<<x>>) = 1 /\ <<x>>[1] = x
      BY <1>3, OneIs
    <2>2. Len(Received) \in Nat /\ Len(e) = Len(Received) + 1 /\ e[Len(Received) + 1] = x
          /\ e \in Seq(Entries)
      BY <2>1, ReceivedIs, Longer
    <2> HIDE DEF e
    <2> QED BY <2>2
  <1>5. f \in Seq(Frames) /\ ClosesWith(f, "action_failed")
    <2>1. Len(f) = 3 /\ f[1] = "action_planned" /\ f[2] = "action_started" /\ f[3] = "action_failed"
      OBVIOUS
    <2>2. f \in Seq(Frames)
      <3>1. {"action_planned", "action_started", "action_failed"} \subseteq Frames
        BY DEF Frames, TerminalFrames
      <3>2. \A S : \A a, b, c \in S : <<a, b, c>> \in Seq(S)
        OBVIOUS
      <3> QED BY <3>1, <3>2
    <2> HIDE DEF f
    <2>3. ClosesWith(f, "action_failed")
      BY <2>1 DEF ClosesWith, TerminalFrames
    <2> QED BY <2>2, <2>3
  <1> HIDE DEF e, f
  <1>6. audit'[t] \in Seq(Entries) /\ AuditCloses(t, "action_failed")'
    <2>1. audit[t] \in Seq(Entries)
      BY <1>2 DEF Early
    <2>2. audit'[t] \in Seq(Entries)
      BY <1>1, <1>4, <2>1, Longer
    <2>3. audit'[t] # <<>> /\ audit'[t][Len(audit'[t])].event = "action_failed"
      BY <1>1, <1>3, <1>4, <2>1, AuditEnds
    <2> QED BY <2>2, <2>3 DEF AuditCloses
  <1>7. /\ inline'[t] \in Seq(Frames) /\ ClosesWith(inline'[t], "action_failed")
        /\ wire'[t] \in Seq(Frames) /\ Quiet(wire'[t])
    BY <1>1, <1>2, <1>5, ClosesLonger, Longer DEF Early
  <1>8. ~ Gated(t)'
    BY <1>1 DEF IInv, IdsInv, Gated
  <1>9. PathInv(t)' /\ TrailInv(t)'
    BY <1>1 DEF PathInv, TrailInv, Unrecorded, Enacting
  <1>10. ReportInv(t)'
    <2>1. "action_failed" \in TerminalFrames /\ "action_failed" # "action_cancelled"
      BY DEF TerminalFrames
    <2> QED BY <1>1, <1>6, <1>7, <1>8, <2>1 DEF ReportInv, Reported
  <1>11. AuditedFirst(t)'
    BY <1>7 DEF AuditedFirst, Quiet, TerminalFrames
  <1>12. Told(t)'
    BY <1>6, <1>7, <1>8, <1>9, <1>10, <1>11 DEF Told
  <1> QED
    BY <1>1, <1>12, SameTold DEF ReportsInv, Rest

(* The word recorded for the verdict is the one the vocabulary leaves.     *)
LEMMA RecordResolutionTells ==
  ASSUME NEW t \in Task, IInv, ReportsInv, RecordResolution(t)
  PROVE  ReportsInv'
  <1>0. TypeOK /\ DOMAIN audit = Task /\ DOMAIN inline = Task /\ DOMAIN wire = Task
    BY DEF IInv, ReportsInv
  <1> DEFINE x == Entry("approval_resolved", ResolutionResult(t))
             s == audit[t]
             r == audit[t] \o <<x>>
  <1>1. /\ Rest(t) /\ Keeps(t) /\ pc[t] = "announced"
        /\ pc'[t] = IF decision[t] # "approved" THEN "cancelling"
                    ELSE IF kind[t] \in InteractionKinds THEN "running" ELSE "starting"
        /\ audit'[t] = r /\ inline'[t] = inline[t] /\ wire'[t] = wire[t]
    BY <1>0 DEF TypeOK, Rest, Same, Keeps, RecordResolution, Audit
  <1>2. Early(t)
    BY <1>1, ToldEarly DEF ReportsInv, Unrecorded
  <1>3. decision[t] \in Decisions /\ kind[t] \in AllKinds /\ kind[t] # "approval_demo" /\ apr[t] # 0
    BY <1>0, <1>1 DEF IInv, TypeOK, VerdictInv, EffectInv, IdsInv, ReportsInv, Told, PathInv
  <1>4. x \in Entries /\ x = Verdict(t)
    <2>1. "approval_resolved" \in Fields!AuditKind
      BY DEF Fields!AuditKind
    <2>2. x \in Entries
      BY <2>1, EntryIs
    <2>3. x = Verdict(t)
      BY <1>3 DEF Verdict, Named, Unnamed, ResolutionResult, Entry, Fields!sanitize_result,
         Fields!KNOWN_RESULTS
    <2> QED BY <2>2, <2>3
  <1> HIDE DEF x
  <1>5. /\ <<x>> \in Seq(Entries) /\ r \in Seq(Entries) /\ Len(s) \in Nat /\ DOMAIN s = 1 .. Len(s)
        /\ DOMAIN r = 1 .. Len(s) + 1 /\ r[Len(s) + 1] = x
        /\ \A n \in 1 .. Len(s) : r[n] = s[n]
    BY <1>2, <1>4, OneIs, Longer DEF Early
  <1> HIDE DEF r
  <1>6. Verdict(t)' = Verdict(t) /\ Gated(t)' = Gated(t) /\ Gated(t)
    BY <1>1, <1>3 DEF Keeps, Verdict, Named, Unnamed, Gated
  <1>7. PathInv(t)'
    BY <1>1, <1>3, <1>6 DEF PathInv, Keeps
  <1>8. TrailInv(t)'
    BY <1>1, <1>4, <1>5, <1>6 DEF TrailInv, Unrecorded
  <1>9. ReportInv(t)'
    BY <1>1, <1>2 DEF Early, ReportInv, Reported, Quiet
  <1>10. VerdictNamed(t)'
    <2>1. \A n \in 1 .. Len(s) : r[n].event \in Opening
      BY <1>2, <1>5 DEF Early
    <2>2. \A n \in DOMAIN r : n \in 1 .. Len(s) \/ (n = Len(s) + 1 /\ r[n] = Verdict(t))
      BY <1>4, <1>5
    <2>3. Verdict(t).event = "approval_resolved"
      BY DEF Verdict
    <2> HIDE DEF s
    <2> QED BY <1>1, <1>5, <1>6, <2>1, <2>2, <2>3 DEF VerdictNamed, Opening
  <1>11. AuditedFirst(t)'
    BY <1>1, <1>2 DEF AuditedFirst, Early, Quiet, TerminalFrames
  <1>12. Told(t)'
    BY <1>1, <1>2, <1>5, <1>6, <1>7, <1>8, <1>9, <1>10, <1>11 DEF Told, Early
  <1> QED
    BY <1>1, <1>12, SameTold DEF ReportsInv, Rest
-----------------------------------------------------------------------------
(* Steps that add one frame, or none, to what others see, and no entry.    *)
LEMMA FrameStep ==
  ASSUME NEW t \in Task, IInv, ReportsInv, Rest(t), Keeps(t),
         pc[t] \in {"cancelling", "running", "direct", "backend", "starting", "stepping",
                    "completing"},
         NEW w \in Seq(Frames),
         audit'[t] = audit[t], inline'[t] = inline[t], wire'[t] \in {wire[t], wire[t] \o w},
         PathInv(t)',
         Gated(t) /\ pc'[t] \in Enacting => pc[t] \in Enacting,
         \/ pc'[t] \in {"backend", "returned", "started", "completing"} /\ Quiet(w)
         \/ pc'[t] = "cancelled" /\ wire'[t] = wire[t] \o w /\ ClosesWith(w, "action_cancelled")
              /\ \A n \in DOMAIN w : w[n] = "action_cancelled"
         \/ pc'[t] = "completed" /\ wire'[t] = wire[t] \o w /\ ClosesWith(w, "action_completed")
              /\ kind[t] \in PlanKinds
  PROVE  ReportsInv'
  <1>1. /\ Told(t) /\ audit[t] \in Seq(Entries) /\ inline[t] \in Seq(Frames)
        /\ wire[t] \in Seq(Frames) /\ Quiet(inline[t]) /\ Quiet(wire[t])
    BY DEF ReportsInv, Told, ReportInv, Reported
  <1>2. wire[t] \o w \in Seq(Frames)
    BY <1>1, Longer
  <1>3. wire'[t] \in Seq(Frames)
    BY <1>1, <1>2
  <1>4. Gated(t)' = Gated(t) /\ Verdict(t)' = Verdict(t) /\ Named(t)' = Named(t)
        /\ decision'[t] = decision[t] /\ kind'[t] = kind[t]
    BY DEF Keeps, Gated, Verdict, Named, Unnamed
  <1>5. TrailInv(t)'
    BY <1>1, <1>4 DEF Told, TrailInv, Unrecorded
  <1>6. Gated(t)' => VerdictNamed(t)'
    BY <1>1, <1>4 DEF Told, VerdictNamed
  <1>7. CASE pc'[t] \in {"backend", "returned", "started", "completing"} /\ Quiet(w)
    <2>1. Quiet(wire[t] \o w)
      BY <1>1, <1>7, QuietLonger
    <2>2. Quiet(wire'[t]) /\ Quiet(inline'[t])
      BY <1>1, <2>1
    <2>3. ReportInv(t)'
      BY <1>7, <2>2 DEF ReportInv, Reported
    <2>4. AuditedFirst(t)'
      BY <2>2 DEF AuditedFirst, Quiet, TerminalFrames
    <2>5. Told(t)'
      BY <1>1, <1>3, <1>5, <1>6, <2>3, <2>4 DEF Told
    <2> QED BY <2>5, SameTold DEF ReportsInv, Rest
  <1>8. CASE pc'[t] = "cancelled" /\ wire'[t] = wire[t] \o w /\ ClosesWith(w, "action_cancelled")
              /\ \A n \in DOMAIN w : w[n] = "action_cancelled"
    <2>1. ClosesWith(wire'[t], "action_cancelled")
      BY <1>1, <1>8, ClosesLonger
    <2>2. ReportInv(t)'
      BY <1>1, <1>8, <2>1 DEF ReportInv, Reported
    <2>3. \A n \in DOMAIN wire'[t] : wire'[t][n] \notin {"action_completed", "action_failed"}
      BY <1>1, <1>8, OldOrAdded DEF Quiet, TerminalFrames
    <2>4. AuditedFirst(t)'
      BY <2>3 DEF AuditedFirst
    <2>5. Told(t)'
      BY <1>1, <1>3, <1>5, <1>6, <2>2, <2>4 DEF Told
    <2> QED BY <2>5, SameTold DEF ReportsInv, Rest
  <1>9. CASE pc'[t] = "completed" /\ wire'[t] = wire[t] \o w /\ ClosesWith(w, "action_completed")
              /\ kind[t] \in PlanKinds
    <2>1. ClosesWith(wire'[t], "action_completed")
      BY <1>1, <1>9, ClosesLonger
    <2>2. ReportInv(t)'
      BY <1>1, <1>9, <2>1 DEF ReportInv, Reported
    <2>3. kind'[t] \notin InteractionKinds
      BY <1>4, <1>9
    <2>4. Told(t)'
      BY <1>1, <1>3, <1>5, <1>6, <2>2, <2>3 DEF Told
    <2> QED BY <2>4, SameTold DEF ReportsInv, Rest
  <1> QED
    BY <1>7, <1>8, <1>9

LEMMA FrameStepOf ==
  ASSUME NEW t \in Task, IInv, ReportsInv,
         \/ BroadcastCancelled(t) \/ CallBackend(t) \/ Backend(t)
         \/ StartPlan(t) \/ StepPlan(t) \/ CompletePlan(t)
  PROVE  ReportsInv'
  <1>0. TypeOK /\ DOMAIN audit = Task /\ DOMAIN inline = Task /\ DOMAIN wire = Task
    BY DEF IInv, ReportsInv
  <1>p. PathInv(t)
    BY DEF ReportsInv, Told
  <1>g. Gated(t) => pc[t] # "direct"
    BY DEF IInv, IdsInv, Gated
  <1>q. <<>> \in Seq(Frames) /\ Quiet(<<>>)
    BY DEF Quiet
  <1>1. CASE BroadcastCancelled(t)
    <2> DEFINE w == <<"action_cancelled">>
    <2>1. /\ Rest(t) /\ Keeps(t) /\ pc[t] = "cancelling" /\ pc'[t] = "cancelled"
          /\ audit'[t] = audit[t] /\ inline'[t] = inline[t] /\ wire'[t] = wire[t] \o w
      BY <1>0, <1>1 DEF TypeOK, Rest, Same, Keeps, BroadcastCancelled, Broadcast
    <2>2. w \in Seq(Frames) /\ ClosesWith(w, "action_cancelled")
      BY CloseOne DEF TerminalFrames
    <2>3. \A n \in DOMAIN w : w[n] = "action_cancelled"
      BY OneIs
    <2>4. PathInv(t)'
      BY <1>p, <2>1 DEF PathInv, Keeps, Gated
    <2> HIDE DEF w
    <2> QED BY <2>1, <2>2, <2>3, <2>4, FrameStep DEF Enacting
  <1>2. CASE CallBackend(t)
    <2>1. /\ Rest(t) /\ Keeps(t) /\ pc[t] \in {"running", "direct"} /\ pc'[t] = "backend"
          /\ audit'[t] = audit[t] /\ inline'[t] = inline[t] /\ wire'[t] = wire[t]
      BY <1>0, <1>2 DEF TypeOK, Rest, Same, Keeps, CallBackend
    <2>2. PathInv(t)'
      BY <1>p, <2>1 DEF PathInv, Keeps, Gated
    <2> QED BY <1>g, <1>q, <2>1, <2>2, FrameStep DEF Enacting
  <1>3. CASE Backend(t)
    <2>1. /\ Rest(t) /\ Keeps(t) /\ pc[t] = "backend" /\ pc'[t] = "returned"
          /\ outcome'[t] \in {"completed", "failed"}
          /\ audit'[t] = audit[t] /\ inline'[t] = inline[t] /\ wire'[t] = wire[t]
      BY <1>0, <1>3 DEF TypeOK, Rest, Same, Keeps, Backend, BackendReturns
    <2>2. PathInv(t)'
      BY <1>p, <2>1 DEF PathInv, Keeps, Gated
    <2> QED BY <1>q, <2>1, <2>2, FrameStep DEF Enacting
  <1>4. CASE StartPlan(t) \/ StepPlan(t)
    <2>1. PICK f \in {"action_started", "action_step"} :
            /\ Rest(t) /\ Keeps(t)
            /\ \/ pc[t] = "starting" /\ pc'[t] = "started"
               \/ pc[t] = "stepping" /\ pc'[t] = "completing"
            /\ audit'[t] = audit[t] /\ inline'[t] = inline[t] /\ wire'[t] = wire[t] \o <<f>>
      BY <1>0, <1>4 DEF TypeOK, Rest, Same, Keeps, StartPlan, StepPlan, Broadcast
    <2>2. <<f>> \in Seq(Frames) /\ Quiet(<<f>>)
      BY QuietOne DEF Frames, TerminalFrames
    <2>3. PathInv(t)'
      BY <1>p, <2>1 DEF PathInv, Keeps, Gated
    <2> QED BY <2>1, <2>2, <2>3, FrameStep DEF Enacting
  <1>5. CASE CompletePlan(t)
    <2> DEFINE w == <<"action_completed">>
    <2>1. /\ Rest(t) /\ Keeps(t) /\ pc[t] = "completing" /\ pc'[t] = "completed"
          /\ audit'[t] = audit[t] /\ inline'[t] = inline[t] /\ wire'[t] = wire[t] \o w
      BY <1>0, <1>5 DEF TypeOK, Rest, Same, Keeps, CompletePlan, Broadcast
    <2>2. w \in Seq(Frames) /\ ClosesWith(w, "action_completed")
      BY CloseOne DEF TerminalFrames
    <2>3. PathInv(t)' /\ kind[t] \in PlanKinds
      BY <1>p, <2>1 DEF PathInv, Keeps, Gated
    <2> HIDE DEF w
    <2> QED BY <2>1, <2>2, <2>3, FrameStep DEF Enacting
  <1> QED
    BY <1>1, <1>2, <1>3, <1>4, <1>5
-----------------------------------------------------------------------------
(* Steps that add entries behind the recorded verdict.                     *)
LEMMA EntryStep ==
  ASSUME NEW t \in Task, IInv, ReportsInv, Rest(t), Keeps(t),
         pc[t] \in {"cancelled", "returned", "started", "completed"},
         NEW e \in Seq(Entries), audit'[t] = audit[t] \o e,
         \A n \in DOMAIN e :
           /\ e[n].event # "approval_resolved"
           /\ e[n].event = "action_cancelled" => e[n].result = Named(t)
           /\ Gated(t) /\ e[n].event = "action_started" => decision[t] = "approved"
  PROVE  /\ audit'[t] \in Seq(Entries)
         /\ Gated(t)' => VerdictNamed(t)'
         /\ kind'[t] \in InteractionKinds /\ wire'[t] = wire[t] => AuditedFirst(t)'
         /\ Gated(t)' = Gated(t)
         /\ Gated(t)' => (\E n \in DOMAIN audit[t] : audit[t][n] = Verdict(t))'
  <1>1. Told(t) /\ audit[t] \in Seq(Entries)
    BY DEF ReportsInv, Told
  <1>2. Gated(t)' = Gated(t) /\ kind'[t] = kind[t]
    BY DEF Keeps, Gated
  <1>3. Gated(t) => \E n \in DOMAIN audit[t] : audit[t][n] = Verdict(t)
    BY <1>1 DEF Told, TrailInv, Enacting
  <1>4. Gated(t)' => VerdictNamed(t)'
    BY <1>1, <1>2, <1>3, NamedGrows DEF Told
  <1>5. kind[t] \in InteractionKinds => AuditedFirst(t)
    BY <1>1 DEF Told
  <1> QED
    BY <1>1, <1>2, <1>3, <1>4, <1>5, AuditGrows

LEMMA RecordCancelledTells ==
  ASSUME NEW t \in Task, IInv, ReportsInv, RecordCancelled(t)
  PROVE  ReportsInv'
  <1>0. TypeOK /\ DOMAIN audit = Task /\ DOMAIN inline = Task /\ DOMAIN wire = Task
    BY DEF IInv, ReportsInv
  <1> DEFINE x == Entry("action_cancelled", Named(t))
             e == <<x>>
  <1>1. /\ Rest(t) /\ Keeps(t) /\ pc[t] = "cancelled" /\ pc'[t] = "done"
        /\ audit'[t] = audit[t] \o e /\ inline'[t] = inline[t] /\ wire'[t] = wire[t]
    BY <1>0 DEF TypeOK, Rest, Same, Keeps, RecordCancelled, Audit, Named
  <1>2. Told(t) /\ Gated(t) /\ decision[t] # "approved" /\ kind[t] \in AllKinds
        /\ audit[t] \in Seq(Entries)
    BY <1>1 DEF ReportsInv, Told, PathInv
  <1>3. decision[t] \in Decisions
    BY <1>0, <1>1 DEF IInv, TypeOK, VerdictInv
  <1>4. x \in Entries /\ x.event = "action_cancelled" /\ x.result = Named(t)
    <2>1. "action_cancelled" \in Fields!AuditKind
      BY DEF Fields!AuditKind
    <2>2. Named(t) \in {"denied", "cancelled", "expired", "approved"}
      BY <1>3 DEF Named
    <2> QED BY <2>1, <2>2, EntryIs
  <1> HIDE DEF x
  <1>5. e \in Seq(Entries) /\ Len(e) = 1 /\ DOMAIN e = {1} /\ e[1] = x
    BY <1>4, OneIs
  <1> HIDE DEF e
  <1>6. /\ audit'[t] \in Seq(Entries)
        /\ VerdictNamed(t)'
        /\ kind'[t] \in InteractionKinds => AuditedFirst(t)'
        /\ Gated(t)'
    BY <1>1, <1>2, <1>4, <1>5, EntryStep DEF Enacting
  <1>7. audit'[t] # <<>> /\ audit'[t][Len(audit'[t])].event = "action_cancelled"
    <2>1. Len(e) > 0 /\ e[Len(e)].event = "action_cancelled"
      BY <1>4, <1>5
    <2> QED BY <1>1, <1>2, <1>5, <2>1, AuditEnds
  <1>8. Quiet(inline[t]) /\ ClosesWith(wire[t], "action_cancelled")
    BY <1>1, <1>2 DEF Told, ReportInv
  <1>9. PathInv(t)' /\ TrailInv(t)'
    BY <1>1, <1>2 DEF PathInv, TrailInv, Keeps, Unrecorded, Enacting
  <1>10. ReportInv(t)'
    <2>1. "action_cancelled" \in TerminalFrames /\ decision'[t] # "approved"
      BY <1>1, <1>2 DEF TerminalFrames, Keeps
    <2> QED BY <1>1, <1>6, <1>7, <1>8, <2>1 DEF ReportInv, Reported, AuditCloses
  <1>11. Told(t)'
    BY <1>1, <1>2, <1>6, <1>9, <1>10 DEF Told
  <1> QED
    BY <1>1, <1>11, SameTold DEF ReportsInv, Rest

LEMMA RecordLifecycleTells ==
  ASSUME NEW t \in Task, IInv, ReportsInv, RecordLifecycle(t)
  PROVE  ReportsInv'
  <1>0. TypeOK /\ DOMAIN audit = Task /\ DOMAIN inline = Task /\ DOMAIN wire = Task
    BY DEF IInv, ReportsInv
  <1> DEFINE x == Entry("action_started", "none")
             y == Entry(Terminal(outcome[t]), outcome[t])
             e == <<x, y>>
             last == Terminal(outcome[t])
             f == RunFrames(outcome[t])
  <1>1. /\ Rest(t) /\ Keeps(t) /\ pc[t] = "returned" /\ outcome'[t] = outcome[t]
        /\ pc'[t] = IF Gated(t) THEN "recorded" ELSE "done"
        /\ audit'[t] = audit[t] \o e
        /\ inline'[t] = IF Gated(t) THEN inline[t] ELSE inline[t] \o f
        /\ wire'[t] = wire[t]
    BY <1>0 DEF TypeOK, Rest, Same, Keeps, RecordLifecycle, Audit, Inline, Lifecycle
  <1>2. /\ Told(t) /\ audit[t] \in Seq(Entries) /\ outcome[t] \in {"completed", "failed"}
        /\ kind[t] \in InteractionKinds
        /\ inline[t] \in Seq(Frames) /\ Quiet(inline[t])
        /\ wire[t] \in Seq(Frames) /\ Quiet(wire[t])
    BY <1>1 DEF ReportsInv, Told, PathInv, ReportInv, Reported
  <1>3. Gated(t) => decision[t] = "approved"
    BY <1>1 DEF IInv, EffectInv, Gated
  <1>4. last \in {"action_completed", "action_failed"}
    BY <1>2 DEF Terminal
  <1>5. x \in Entries /\ x.event = "action_started" /\ y \in Entries /\ y.event = last
    BY <1>4, EntryIs DEF Fields!AuditKind
  <1>6. f \in Seq(Frames) /\ ClosesWith(f, last) /\ last \in TerminalFrames
        /\ last # "action_cancelled"
    BY <1>2, RunFramesClose
  <1> HIDE DEF x, y, last, f
  <1>7. e \in Seq(Entries) /\ Len(e) = 2 /\ DOMAIN e = 1 .. 2 /\ e[1] = x /\ e[2] = y
    <2>1. e \in Seq(Entries)
      BY <1>5, Tuple2
    <2> QED BY <2>1
  <1> HIDE DEF e
  <1>8. \A n \in DOMAIN e :
          /\ e[n].event # "approval_resolved" /\ e[n].event # "action_cancelled"
          /\ Gated(t) /\ e[n].event = "action_started" => decision[t] = "approved"
    BY <1>3, <1>4, <1>5, <1>7
  <1>9. /\ audit'[t] \in Seq(Entries)
        /\ Gated(t)' => VerdictNamed(t)'
        /\ kind'[t] \in InteractionKinds => AuditedFirst(t)'
        /\ Gated(t)' = Gated(t)
        /\ Gated(t)' => (\E n \in DOMAIN audit[t] : audit[t][n] = Verdict(t))'
    BY <1>1, <1>7, <1>8, EntryStep DEF Enacting
  <1>10. audit'[t] # <<>> /\ audit'[t][Len(audit'[t])].event = last
    <2>1. Len(e) > 0 /\ e[Len(e)].event = last
      BY <1>5, <1>7
    <2> QED BY <1>1, <1>2, <1>7, <2>1, AuditEnds
  <1>11. inline[t] \o f \in Seq(Frames) /\ ClosesWith(inline[t] \o f, last)
    BY <1>2, <1>6, ClosesLonger, Longer
  <1>12. PathInv(t)'
    BY <1>1, <1>2 DEF PathInv, Keeps
  <1>13. TrailInv(t)'
    <2>1. last = Terminal(outcome[t])
      BY DEF last
    <2>2. (Terminal(outcome[t]))' = last
      BY <1>1, <2>1 DEF Terminal
    <2>3. pc'[t] \in {"recorded", "done"} /\ Verdict(t)' = Verdict(t)
      BY <1>1 DEF Keeps, Verdict, Named, Unnamed
    <2> QED BY <1>9, <1>10, <2>2, <2>3 DEF TrailInv, Unrecorded, AuditCloses
  <1>14. ReportInv(t)'
    <2>1. CASE Gated(t)
      BY <1>1, <1>2, <2>1 DEF ReportInv, Reported
    <2>2. CASE ~ Gated(t)
      <3>1. /\ pc'[t] = "done" /\ ClosesWith(inline'[t], last) /\ Quiet(wire'[t])
            /\ ~ Gated(t)'
        BY <1>1, <1>2, <1>9, <1>11, <2>2
      <3> QED BY <1>6, <1>10, <3>1 DEF ReportInv, Reported, AuditCloses
    <2> QED BY <2>1, <2>2
  <1>15. Told(t)'
    BY <1>1, <1>2, <1>9, <1>11, <1>12, <1>13, <1>14 DEF Told
  <1> QED
    BY <1>1, <1>15, SameTold DEF ReportsInv, Rest

(* The run's result is in the trail when its frames are sent.              *)
LEMMA BroadcastLifecycleTells ==
  ASSUME NEW t \in Task, IInv, ReportsInv, BroadcastLifecycle(t)
  PROVE  ReportsInv'
  <1>0. TypeOK /\ DOMAIN audit = Task /\ DOMAIN inline = Task /\ DOMAIN wire = Task
    BY DEF IInv, ReportsInv
  <1> DEFINE last == Terminal(outcome[t])
             f == RunFrames(outcome[t])
             s == wire[t]
             r == wire[t] \o f
  <1>1. /\ Rest(t) /\ Keeps(t) /\ pc[t] = "recorded" /\ pc'[t] = "done"
        /\ audit'[t] = audit[t] /\ inline'[t] = inline[t] /\ wire'[t] = r
    BY <1>0 DEF TypeOK, Rest, Same, Keeps, BroadcastLifecycle, Broadcast
  <1>2. /\ Told(t) /\ audit[t] \in Seq(Entries) /\ outcome[t] \in {"completed", "failed"}
        /\ kind[t] \in InteractionKinds
        /\ inline[t] \in Seq(Frames) /\ Quiet(inline[t])
        /\ wire[t] \in Seq(Frames) /\ Quiet(wire[t])
        /\ AuditCloses(t, last)
    BY <1>1 DEF ReportsInv, Told, PathInv, ReportInv, TrailInv, Reported
  <1>3. Gated(t) /\ decision[t] = "approved"
    BY <1>1 DEF IInv, EffectInv, IdsInv, Gated
  <1>4. f \in Seq(Frames) /\ ClosesWith(f, last) /\ last \in TerminalFrames
        /\ last # "action_cancelled"
    BY <1>2, RunFramesClose
  <1> HIDE DEF last, f
  <1>5. r \in Seq(Frames) /\ ClosesWith(r, last)
    BY <1>2, <1>4, ClosesLonger, Longer
  <1>6. Len(audit[t]) \in DOMAIN audit[t] /\ audit[t][Len(audit[t])].event = last
    <2> DEFINE a == audit[t]
    <2>1. a \in Seq(Entries) /\ a # <<>> /\ a[Len(a)].event = last
      BY <1>2 DEF AuditCloses
    <2> HIDE DEF a
    <2>2. Len(a) \in DOMAIN a
      BY <2>1
    <2> QED BY <2>1, <2>2 DEF a
  <1>7. \A n \in DOMAIN r : r[n] \in TerminalFrames => r[n] = last
    <2>1. Len(r) \in Nat /\ DOMAIN r = 1 .. Len(r)
      BY <1>5
    <2> HIDE DEF r
    <2>2. \A n \in DOMAIN r : n \in 1 .. Len(r) - 1 \/ n = Len(r)
      BY <2>1
    <2> QED BY <1>5, <2>2 DEF ClosesWith
  <1> HIDE DEF r
  <1>8. AuditedFirst(t)'
    BY <1>1, <1>6, <1>7 DEF AuditedFirst, TerminalFrames
  <1>9. Gated(t)' /\ decision'[t] = "approved" /\ Verdict(t)' = Verdict(t) /\ Named(t)' = Named(t)
    BY <1>1, <1>3 DEF Keeps, Gated, Verdict, Named, Unnamed
  <1>10. PathInv(t)' /\ TrailInv(t)'
    BY <1>1, <1>2 DEF PathInv, TrailInv, Keeps, Unrecorded, Enacting
  <1>11. ReportInv(t)'
    <2>1. audit'[t] # <<>> /\ audit'[t][Len(audit'[t])].event = last
      BY <1>1, <1>2 DEF AuditCloses
    <2>2. pc'[t] = "done" /\ Quiet(inline'[t]) /\ ClosesWith(wire'[t], last)
      BY <1>1, <1>2, <1>5
    <2> QED BY <1>4, <1>9, <2>1, <2>2 DEF ReportInv, Reported, AuditCloses
  <1>12. VerdictNamed(t)'
    BY <1>1, <1>2, <1>3, <1>9 DEF Told, VerdictNamed
  <1>13. Told(t)'
    BY <1>1, <1>2, <1>5, <1>8, <1>10, <1>11, <1>12 DEF Told
  <1> QED
    BY <1>1, <1>13, SameTold DEF ReportsInv, Rest

LEMMA PlanRecordTells ==
  ASSUME NEW t \in Task, IInv, ReportsInv, RecordPlanStarted(t) \/ RecordPlanCompleted(t)
  PROVE  ReportsInv'
  <1>0. TypeOK /\ DOMAIN audit = Task /\ DOMAIN inline = Task /\ DOMAIN wire = Task
    BY DEF IInv, ReportsInv
  <1>1. PICK x \in {Entry("action_started", "none"), Entry("action_completed", "completed")} :
          /\ Rest(t) /\ Keeps(t)
          /\ \/ pc[t] = "started" /\ pc'[t] = "stepping"
             \/ pc[t] = "completed" /\ pc'[t] = "done" /\ x = Entry("action_completed", "completed")
          /\ audit'[t] = audit[t] \o <<x>> /\ inline'[t] = inline[t] /\ wire'[t] = wire[t]
    <2>1. CASE RecordPlanStarted(t)
      BY <1>0, <2>1 DEF TypeOK, Rest, Same, Keeps, RecordPlanStarted, Audit
    <2>2. CASE RecordPlanCompleted(t)
      BY <1>0, <2>2 DEF TypeOK, Rest, Same, Keeps, RecordPlanCompleted, Audit
    <2> QED BY <2>1, <2>2
  <1> DEFINE e == <<x>>
  <1>2. /\ Told(t) /\ audit[t] \in Seq(Entries) /\ kind[t] \in PlanKinds
        /\ inline[t] \in Seq(Frames) /\ wire[t] \in Seq(Frames) /\ Quiet(inline[t])
    BY <1>1 DEF ReportsInv, Told, PathInv, ReportInv, Reported
  <1>3. Gated(t) => decision[t] = "approved"
    BY <1>1 DEF IInv, EffectInv, Gated
  <1>4. x \in Entries /\ x.event \in {"action_started", "action_completed"}
    BY EntryIs DEF Fields!AuditKind
  <1>5. x = Entry("action_completed", "completed") => x.event = "action_completed"
    BY EntryIs DEF Fields!AuditKind
  <1>6. e \in Seq(Entries) /\ Len(e) = 1 /\ DOMAIN e = {1} /\ e[1] = x
    BY <1>4, OneIs
  <1> HIDE DEF e
  <1>7. audit'[t] = audit[t] \o e
    BY <1>1 DEF e
  <1>8. /\ audit'[t] \in Seq(Entries)
        /\ Gated(t)' => VerdictNamed(t)'
        /\ Gated(t)' = Gated(t)
        /\ Gated(t)' => (\E n \in DOMAIN audit[t] : audit[t][n] = Verdict(t))'
    BY <1>1, <1>3, <1>4, <1>6, <1>7, EntryStep DEF Enacting
  <1>9. audit'[t] # <<>> /\ audit'[t][Len(audit'[t])].event = x.event
    <2>1. Len(e) > 0 /\ e[Len(e)].event = x.event
      BY <1>6
    <2> QED BY <1>2, <1>6, <1>7, <2>1, AuditEnds
  <1>10. PathInv(t)' /\ TrailInv(t)'
    <2>1. pc'[t] \in {"stepping", "done"}
      BY <1>1
    <2> QED BY <1>1, <1>2, <1>8, <2>1 DEF PathInv, TrailInv, Keeps, Unrecorded
  <1>11. CASE pc[t] = "started"
    <2>1. ReportInv(t)'
      BY <1>1, <1>2, <1>11 DEF Told, ReportInv, Reported
    <2>2. Told(t)'
      BY <1>1, <1>2, <1>8, <1>10, <2>1 DEF Told, Keeps
    <2> QED BY <1>1, <2>2, SameTold DEF ReportsInv, Rest
  <1>12. CASE pc[t] = "completed"
    <2>1. ClosesWith(wire[t], "action_completed") /\ pc'[t] = "done" /\ x.event = "action_completed"
      BY <1>1, <1>2, <1>5, <1>12 DEF Told, ReportInv
    <2>2. "action_completed" \in TerminalFrames /\ (Gated(t)' => decision'[t] = "approved")
      BY <1>1, <1>3, <1>8 DEF TerminalFrames, Keeps
    <2>3. ReportInv(t)'
      BY <1>1, <1>2, <1>9, <2>1, <2>2 DEF ReportInv, Reported, AuditCloses
    <2>4. Told(t)'
      BY <1>1, <1>2, <1>8, <1>10, <2>3 DEF Told, Keeps
    <2> QED BY <1>1, <2>4, SameTold DEF ReportsInv, Rest
  <1> QED
    BY <1>1, <1>11, <1>12

-----------------------------------------------------------------------------
LEMMA InitReports == Init => ReportsInv
  <1> SUFFICES ASSUME Init
               PROVE  ReportsInv
    OBVIOUS
  <1>1. ASSUME NEW t \in Task
        PROVE  Told(t)
    <2>1. /\ audit[t] = <<>> /\ inline[t] = <<>> /\ wire[t] = <<>>
          /\ pc[t] = "idle" /\ kind[t] = "none" /\ apr[t] = 0
      BY DEF Init
    <2>2. <<>> \in Seq(Entries) /\ <<>> \in Seq(Frames) /\ DOMAIN <<>> = {}
      OBVIOUS
    <2>3. PathInv(t) /\ TrailInv(t)
      BY <2>1, <2>2 DEF PathInv, TrailInv, Gated
    <2>4. ReportInv(t)
      BY <2>1, <2>2 DEF ReportInv, Reported, Quiet
    <2> QED BY <2>1, <2>2, <2>3, <2>4 DEF Told, Gated
  <1> QED
    BY <1>1 DEF Init, ReportsInv

(* Stuttering, and the connections, which tell nothing.                    *)
LEMMA NothingTold ==
  ASSUME ReportsInv, UNCHANGED <<pc, kind, apr, decision, outcome, out_vars>>
  PROVE  ReportsInv'
  BY SameTold DEF ReportsInv, Same

LEMMA NextReports == IInv /\ ReportsInv /\ [Next]_vars => ReportsInv'
  <1> SUFFICES ASSUME IInv, ReportsInv, [Next]_vars
               PROVE  ReportsInv'
    OBVIOUS
  <1>1. CASE UNCHANGED vars
    BY <1>1, NothingTold DEF vars
  <1>2. ASSUME NEW t \in Task, Dispatch(t)
        PROVE  ReportsInv'
    BY <1>2, RefuseTells, DispatchStep, SilentStepOf DEF Dispatch
  <1>3. ASSUME NEW t \in Task, Gate(t) \/ Deadline(t) \/ Waiter(t)
        PROVE  ReportsInv'
    BY <1>3, SilentStepOf, SpawnWaiterTells DEF Gate
  <1>4. ASSUME NEW t \in Task, Continuation(t) \/ Backend(t)
        PROVE  ReportsInv'
    BY <1>4, AnnounceTells, RecordResolutionTells, FrameStepOf, RecordCancelledTells,
       RecordLifecycleTells, BroadcastLifecycleTells, PlanRecordTells DEF Continuation
  <1>5. ASSUME NEW c \in Client, Answer(c)
        PROVE  ReportsInv'
    BY <1>5, NothingTold DEF Answer, RejectUnknown, TakeSender, SendDecision
  <1> QED
    BY <1>1, <1>2, <1>3, <1>4, <1>5 DEF Next

(* What has been told of a command agrees with where it is.                *)
THEOREM Reports == Spec => []ReportsInv
  BY InitReports, NextReports, Invariance, PTL DEF Spec

(* Who reads only the audit trail of a gated command learns its verdict,   *)
(* once, before any start or cancellation, and in the audit's own words    *)
(* (record_approval_resolution and the lifecycle records of app.rs).       *)
THEOREM TrailNamesVerdict == Spec => []AuditNamesTheVerdict
  <1>1. ReportsInv => AuditNamesTheVerdict
    BY DEF ReportsInv, Told, AuditNamesTheVerdict
  <1> QED
    BY <1>1, Reports, PTL

(* A crash in the broadcast never leaves the audit blind on an interaction *)
(* that ran.                                                               *)
THEOREM AuditComesFirst == Spec => []AuditedBeforeBroadcast
  <1>1. ReportsInv => AuditedBeforeBroadcast
    BY DEF ReportsInv, Told, AuditedBeforeBroadcast
  <1> QED
    BY <1>1, Reports, PTL

(* Of two parts of which one is quiet and the other closes, exactly one    *)
(* frame is terminal.                                                      *)
LEMMA OneTerminal ==
  ASSUME NEW s \in Seq(Frames), NEW e \in Seq(Frames), NEW last \in TerminalFrames,
         \/ ClosesWith(s, last) /\ Quiet(e)
         \/ Quiet(s) /\ ClosesWith(e, last)
  PROVE  \E n \in DOMAIN (s \o e) :
           /\ (s \o e)[n] = last
           /\ \A m \in DOMAIN (s \o e) : (s \o e)[m] \in TerminalFrames <=> m = n
  <1> DEFINE r == s \o e
  <1>1. /\ Len(s) \in Nat /\ Len(e) \in Nat /\ Len(r) = Len(s) + Len(e)
        /\ DOMAIN s = 1 .. Len(s) /\ DOMAIN e = 1 .. Len(e) /\ DOMAIN r = 1 .. Len(r)
        /\ \A n \in 1 .. Len(s) : r[n] = s[n]
        /\ r \in Seq(Frames)
    BY Longer
  <1>2. \A n \in DOMAIN r :
          \/ n \in DOMAIN s /\ n <= Len(s) /\ r[n] = s[n]
          \/ n > Len(s) /\ n - Len(s) \in DOMAIN e /\ r[n] = e[n - Len(s)]
    BY OldOrAdded
  <1>3. CASE ClosesWith(s, last) /\ Quiet(e)
    <2>1. Len(s) > 0 /\ s[Len(s)] = last
      BY <1>1, <1>3 DEF ClosesWith
    <2> HIDE DEF r
    <2>2. Len(s) \in DOMAIN r /\ r[Len(s)] = last
      BY <1>1, <2>1
    <2>3. \A m \in DOMAIN r : r[m] \in TerminalFrames => m = Len(s)
      BY <1>1, <1>2, <1>3 DEF ClosesWith, Quiet
    <2> QED BY <2>2, <2>3 DEF r
  <1>4. CASE Quiet(s) /\ ClosesWith(e, last)
    <2>1. ClosesWith(r, last)
      BY <1>4, ClosesLonger
    <2> HIDE DEF r
    <2>2. Len(r) \in DOMAIN r /\ r[Len(r)] = last
      BY <1>1, <2>1 DEF ClosesWith
    <2>3. \A m \in DOMAIN r : m = Len(r) \/ m \in 1 .. Len(r) - 1
      BY <1>1
    <2>4. \A m \in DOMAIN r : r[m] \in TerminalFrames => m = Len(r)
      BY <2>1, <2>3 DEF ClosesWith
    <2> QED BY <2>2, <2>4 DEF r
  <1> QED
    BY <1>3, <1>4

LEMMA ReportsAreOne == ReportsInv => ReportsAgree
  <1> SUFFICES ASSUME ReportsInv, NEW t \in Task, pc[t] = "done", kind[t] # "approval_demo"
               PROVE  LET frames == inline[t] \o wire[t]
                      IN \E n \in DOMAIN frames :
                           /\ \A m \in DOMAIN frames : frames[m] \in TerminalFrames <=> m = n
                           /\ audit[t][Len(audit[t])].event = frames[n]
                           /\ frames[n] = "action_cancelled" <=>
                                 Gated(t) /\ decision[t] # "approved"
    BY DEF ReportsAgree
  <1>1. inline[t] \in Seq(Frames) /\ wire[t] \in Seq(Frames)
    BY DEF ReportsInv, Told
  <1>2. PICK last \in TerminalFrames :
          /\ \/ ClosesWith(inline[t], last) /\ Quiet(wire[t])
             \/ Quiet(inline[t]) /\ ClosesWith(wire[t], last)
          /\ audit[t][Len(audit[t])].event = last
          /\ last = "action_cancelled" <=> Gated(t) /\ decision[t] # "approved"
    BY DEF ReportsInv, Told, ReportInv, AuditCloses
  <1> DEFINE r == inline[t] \o wire[t]
  <1>3. PICK n \in DOMAIN r :
           /\ r[n] = last
           /\ \A m \in DOMAIN r : r[m] \in TerminalFrames <=> m = n
    <2>1. \/ ClosesWith(inline[t], last) /\ Quiet(wire[t])
          \/ Quiet(inline[t]) /\ ClosesWith(wire[t], last)
      BY <1>2
    <2> QED BY ONLY <1>1, <2>1, OneTerminal, Zenon
  <1> HIDE DEF r
  <1>4. /\ \A m \in DOMAIN r : r[m] \in TerminalFrames <=> m = n
        /\ audit[t][Len(audit[t])].event = r[n]
        /\ r[n] = "action_cancelled" <=> Gated(t) /\ decision[t] # "approved"
    BY <1>2, <1>3
  <1> QED BY <1>4 DEF r

(* A finished command has shown exactly one terminal frame, to whom it     *)
(* may concern, and its audit trail ends with the same event.              *)
THEOREM OneReport == Spec => []ReportsAgree
  BY ReportsAreOne, Reports, PTL

-----------------------------------------------------------------------------
(***************************************************************************)
(* ApprovalFlow implements ApprovalGate: each step of a command or a       *)
(* connection is one step of the abstract gate or invisible to it. The     *)
(* invariant supplies the facts about the state a step starts from and     *)
(* ends in.                                                                *)
(***************************************************************************)
(* The four phases in the terms the invariant speaks of.                   *)
Settled(t) == decision[t] # "none"
Open(t)    == decision[t] = "none" /\ apr[t] # 0 /\ pc[t] \in AwaitingAnswer
Free(t)    == /\ decision[t] = "none" /\ apr[t] = 0 /\ pc[t] \notin AwaitingAnswer
              /\ pc[t] \in {"direct", "starting"} \/ effects[t] > 0
Idle(t)    == /\ decision[t] = "none" /\ pc[t] \notin AwaitingAnswer
              /\ apr[t] # 0 \/ (pc[t] \notin {"direct", "starting"} /\ ~ effects[t] > 0)

LEMMA PhaseCases ==
  ASSUME NEW t \in Task
  PROVE  /\ Settled(t) => GatePhase(t) = "settled"
         /\ Open(t) => GatePhase(t) = "open"
         /\ Free(t) => GatePhase(t) = "free"
         /\ Idle(t) => GatePhase(t) = "idle"
  BY DEF GatePhase, Gated, Settled, Open, Free, Idle

LEMMA PhaseCasesPrime ==
  ASSUME NEW t \in Task
  PROVE  /\ Settled(t)' => GatePhase(t)' = "settled"
         /\ Open(t)' => GatePhase(t)' = "open"
         /\ Free(t)' => GatePhase(t)' = "free"
         /\ Idle(t)' => GatePhase(t)' = "idle"
  BY DEF GatePhase, Gated, Settled, Open, Free, Idle

(* A step of command t leaves what the gate sees of the others.            *)
StepOf(t) ==
  /\ \E q : pc' = [pc EXCEPT ![t] = q]
  /\ \E q : apr' = [apr EXCEPT ![t] = q]
  /\ \E q : decision' = [decision EXCEPT ![t] = q]
  /\ \E q : effects' = [effects EXCEPT ![t] = q]

LEMMA OtherPhases ==
  ASSUME NEW t \in Task, NEW u \in Task, TypeOK, u # t, StepOf(t)
  PROVE  GatePhase(u)' = GatePhase(u) /\ effects'[u] = effects[u]
  BY DEF TypeOK, GatePhase, Gated, StepOf

(* A step of t that changes neither its phase, nor its consent or verdict, *)
(* nor whether its executor was entered, is invisible.                     *)
LEMMA Invisible ==
  ASSUME NEW t \in Task, TypeOK, StepOf(t), UNCHANGED <<accepted, decision, effects>>,
         GatePhase(t)' = GatePhase(t)
  PROVE  UNCHANGED AG!vars
  <1>1. \A u \in Task : GatePhase(u)' = GatePhase(u)
    BY OtherPhases
  <1> QED
    BY <1>1 DEF AG!vars

LEMMA OpenStep ==
  ASSUME NEW t \in Task, TypeOK, StepOf(t), UNCHANGED <<accepted, decision, effects>>,
         GatePhase(t) = "idle", GatePhase(t)' \in {"open", "free"}
  PROVE  AG!Next
  <1>1. \A u \in Task : u # t => GatePhase(u)' = GatePhase(u)
    BY OtherPhases
  <1>2. CASE GatePhase(t)' = "open"
    <2>1. AG!Open(t)
      BY <1>1, <1>2 DEF AG!Open
    <2> QED
      BY <2>1 DEF AG!Next
  <1>3. CASE GatePhase(t)' = "free"
    <2>1. AG!Bypass(t)
      BY <1>1, <1>3 DEF AG!Bypass
    <2> QED
      BY <2>1 DEF AG!Next
  <1> QED
    BY <1>2, <1>3

LEMMA SettleStep ==
  ASSUME NEW t \in Task, TypeOK, StepOf(t), UNCHANGED <<accepted, effects>>,
         NEW v \in accepted[t] \cup {"timed_out"}, decision' = [decision EXCEPT ![t] = v],
         GatePhase(t) = "open", GatePhase(t)' = "settled"
  PROVE  AG!Next
  <1>1. \A u \in Task : u # t => GatePhase(u)' = GatePhase(u)
    BY OtherPhases
  <1>2. AG!Settle(t)
    BY <1>1 DEF AG!Settle
  <1> QED
    BY <1>2 DEF AG!Next

LEMMA ExecuteStep ==
  ASSUME NEW t \in Task, TypeOK, StepOf(t), UNCHANGED <<accepted, decision>>,
         effects[t] = 0, effects' = [effects EXCEPT ![t] = 1],
         GatePhase(t)' = GatePhase(t),
         \/ GatePhase(t) = "free"
         \/ GatePhase(t) = "settled" /\ decision[t] = "approved"
  PROVE  AG!Next
  <1>1. \A u \in Task : u # t => GatePhase(u)' = GatePhase(u) /\ effects'[u] = effects[u]
    BY OtherPhases
  <1>2. [u \in Task |-> GatePhase(u)]' = [u \in Task |-> GatePhase(u)]
    BY <1>1
  <1>3. AG!Execute(t)
    BY <1>2 DEF AG!Execute
  <1> QED
    BY <1>3 DEF AG!Next

-----------------------------------------------------------------------------
(* Dispatch: invisible, except a run that needs no gate, which is free.    *)

LEMMA DispatchMaps ==
  ASSUME NEW t \in Task, IInv, IInv', Dispatch(t)
  PROVE  AG!Next \/ UNCHANGED AG!vars
  <1>t. TypeOK /\ TypeOK'
    BY DEF IInv
  <1>m. PICK to \in {"gated", "direct", "starting", "done"} :
          Goto(t, "idle", to) /\ UNCHANGED <<accepted, gate_vars, decision, effects>>
    <2>1. PICK k \in Kinds : \/ RefuseInteraction(t, k) \/ DispatchInteraction(t, k)
                            \/ \E r \in BOOLEAN : DispatchPlan(t, k, r)
                            \/ DispatchApprovalDemo(t, k)
      BY DEF Dispatch
    <2>2. CASE RefuseInteraction(t, k)
      BY <2>2 DEF RefuseInteraction
    <2>3. CASE DispatchInteraction(t, k)
      BY <2>3 DEF DispatchInteraction
    <2>4. CASE \E r \in BOOLEAN : DispatchPlan(t, k, r)
      BY <2>4 DEF DispatchPlan
    <2>5. CASE DispatchApprovalDemo(t, k)
      BY <2>5 DEF DispatchApprovalDemo
    <2> QED
      BY <2>1, <2>2, <2>3, <2>4, <2>5
  <1>s. UNCHANGED apr
    BY <1>m
  <1>1. /\ TypeOK /\ TypeOK' /\ StepOf(t)
        /\ pc[t] = "idle" /\ pc'[t] \in {"gated", "direct", "starting", "done"}
        /\ UNCHANGED <<accepted, decision, effects, apr>>
    <2>1. pc' = [pc EXCEPT ![t] = to] /\ pc[t] = "idle" /\ pc'[t] = to
      BY <1>t, <1>m DEF TypeOK
    <2>2. /\ apr' = [apr EXCEPT ![t] = apr[t]]
          /\ decision' = [decision EXCEPT ![t] = decision[t]]
          /\ effects' = [effects EXCEPT ![t] = effects[t]]
      BY <1>t, <1>m, <1>s DEF TypeOK
    <2>3. StepOf(t)
      BY <2>1, <2>2 DEF StepOf
    <2> QED
      BY <1>t, <1>m, <1>s, <2>1, <2>3
  <1>2. decision[t] = "none" /\ effects[t] = 0 /\ apr[t] = 0
    BY <1>1 DEF IInv, VerdictInv, EffectInv, IdsInv
  <1>3. Idle(t)
    BY <1>1, <1>2 DEF Idle
  <1>4. CASE pc'[t] \in {"gated", "done"}
    <2>1. Idle(t)'
      BY <1>1, <1>2, <1>4 DEF Idle
    <2> QED
      BY <1>1, <1>3, <2>1, PhaseCases, PhaseCasesPrime, Invisible
  <1>5. CASE pc'[t] \in {"direct", "starting"}
    <2>1. Free(t)'
      BY <1>1, <1>2, <1>5 DEF Free
    <2> QED
      BY <1>1, <1>3, <2>1, PhaseCases, PhaseCasesPrime, OpenStep
  <1> QED
    BY <1>1, <1>4, <1>5

(* The gate opens when its id is registered.                               *)
LEMMA GateMaps ==
  ASSUME NEW t \in Task, IInv, IInv', Gate(t)
  PROVE  AG!Next \/ UNCHANGED AG!vars
  <1>1. /\ TypeOK /\ TypeOK' /\ StepOf(t)
        /\ UNCHANGED <<accepted, decision, effects>>
    BY DEF IInv, TypeOK, StepOf, Gate, DrawApprovalId, Register, SpawnWaiter
  <1>2. CASE DrawApprovalId(t)
    <2>1. pc[t] = "gated" /\ pc'[t] = "numbered"
      BY <1>2 DEF IInv, TypeOK, DrawApprovalId
    <2>2. decision[t] = "none" /\ effects[t] = 0
      BY <2>1 DEF IInv, VerdictInv, EffectInv
    <2>3. Idle(t) /\ Idle(t)'
      BY <1>1, <2>1, <2>2 DEF Idle
    <2> QED
      BY <1>1, <2>3, PhaseCases, PhaseCasesPrime, Invisible
  <1>3. CASE Register(t)
    <2>1. pc[t] = "numbered" /\ pc'[t] = "registered" /\ apr'[t] = apr[t]
      BY <1>3 DEF IInv, TypeOK, Register
    <2>2. decision[t] = "none" /\ effects[t] = 0 /\ apr[t] # 0
      BY <2>1 DEF IInv, VerdictInv, EffectInv, IdsInv
    <2>3. Idle(t) /\ Open(t)'
      BY <1>1, <2>1, <2>2 DEF Idle, Open
    <2> QED
      BY <1>1, <2>3, PhaseCases, PhaseCasesPrime, OpenStep
  <1>4. CASE SpawnWaiter(t)
    <2>1. pc[t] = "registered" /\ pc'[t] = "waiting" /\ apr'[t] = apr[t]
      BY <1>4 DEF IInv, TypeOK, SpawnWaiter
    <2>2. decision[t] = "none" /\ apr[t] # 0
      BY <2>1 DEF IInv, VerdictInv, IdsInv
    <2>3. Open(t) /\ Open(t)'
      BY <1>1, <2>1, <2>2 DEF Open
    <2> QED
      BY <1>1, <2>3, PhaseCases, PhaseCasesPrime, Invisible
  <1> QED
    BY <1>2, <1>3, <1>4 DEF Gate

(* Polling and the clock are invisible; the gate settles with the value in *)
(* the channel, which was acknowledged, or with the timeout.               *)
LEMMA WaiterMaps ==
  ASSUME NEW t \in Task, IInv, IInv', Deadline(t) \/ Waiter(t)
  PROVE  AG!Next \/ UNCHANGED AG!vars
  <1>0. TypeOK /\ TypeOK'
    BY DEF IInv
  <1>1. /\ TypeOK /\ TypeOK' /\ StepOf(t) /\ UNCHANGED <<accepted, effects, apr>>
        /\ pc[t] \in AwaitingAnswer
    <2>1. /\ pc \in [Task -> PCs]
          /\ decision \in [Task -> Decisions \cup {"none"}]
          /\ apr = [apr EXCEPT ![t] = apr[t]]
          /\ decision = [decision EXCEPT ![t] = decision[t]]
          /\ effects = [effects EXCEPT ![t] = effects[t]]
      BY <1>0 DEF TypeOK
    <2>2. StepOf(t)
      BY <2>1 DEF StepOf, Waiter, Deadline, PollReady, PollPending,
         PollTimerPending, PollTimerElapsed, TakeOwnEntry, Resolve
    <2>3. UNCHANGED <<accepted, effects, apr>> /\ pc[t] \in AwaitingAnswer
      BY DEF Waiter, Deadline, PollReady, PollPending, PollTimerPending,
         PollTimerElapsed, TakeOwnEntry
    <2> QED
      BY <1>0, <2>2, <2>3
  <1>2. Open(t)
    BY <1>1 DEF IInv, VerdictInv, IdsInv, Open
  <1>3. CASE Deadline(t) \/ PollPending(t) \/ PollTimerPending(t) \/ PollTimerElapsed(t)
    <2>1. UNCHANGED decision /\ pc'[t] \in AwaitingAnswer
      BY <1>1, <1>3 DEF TypeOK, Deadline, PollPending, PollTimerPending, PollTimerElapsed
    <2>2. Open(t)'
      BY <1>1, <1>2, <2>1 DEF Open
    <2> QED
      BY <1>1, <1>2, <2>1, <2>2, PhaseCases, PhaseCasesPrime, Invisible
  <1>4. CASE PollReady(t)
    <2>1. slot[t] # "none"
      BY <1>4 DEF IInv, SenderInv, PollReady, RxAlive
    <2>2. decision' = [decision EXCEPT ![t] = slot[t]] /\ slot[t] \in accepted[t]
      BY <1>4, <2>1 DEF IInv, SlotInv, PollReady, Resolve
    <2>3. Settled(t)'
      BY <1>1, <2>1, <2>2 DEF TypeOK, Settled
    <2> QED
      BY <1>1, <1>2, <2>2, <2>3, PhaseCases, PhaseCasesPrime, SettleStep
  <1>5. CASE TakeOwnEntry(t)
    <2>1. decision' = [decision EXCEPT ![t] = "timed_out"]
      BY <1>5 DEF TakeOwnEntry, Resolve
    <2>2. Settled(t)'
      BY <1>1, <2>1 DEF TypeOK, Settled
    <2> QED
      BY <1>1, <1>2, <2>1, <2>2, PhaseCases, PhaseCasesPrime, SettleStep
  <1> QED
    BY <1>3, <1>4, <1>5 DEF Waiter

(* The executor is entered once, from an approving verdict or a free run;  *)
(* every other step after the verdict is invisible.                        *)
LEMMA EnterMaps ==
  ASSUME NEW t \in Task, IInv, IInv', CallBackend(t) \/ StartPlan(t)
  PROVE  AG!Next
  <1>1. /\ TypeOK /\ TypeOK' /\ StepOf(t) /\ UNCHANGED <<accepted, decision, apr>>
        /\ effects' = [effects EXCEPT ![t] = @ + 1]
        /\ pc[t] \in Entering /\ pc'[t] \in {"backend", "started"}
    <2>1. TypeOK /\ TypeOK'
      BY DEF IInv
    <2>2. PICK q \in {"backend", "started"} :
            /\ pc[t] \in Entering /\ pc' = [pc EXCEPT ![t] = q]
            /\ effects' = [effects EXCEPT ![t] = @ + 1]
            /\ UNCHANGED <<accepted, decision, apr>>
      BY DEF CallBackend, StartPlan
    <2>3. pc'[t] = q
      BY <2>1, <2>2 DEF TypeOK
    <2>4. apr' = [apr EXCEPT ![t] = apr[t]] /\ decision' = [decision EXCEPT ![t] = decision[t]]
      BY <2>1, <2>2 DEF TypeOK
    <2>5. StepOf(t)
      BY <2>2, <2>4 DEF StepOf
    <2> QED
      BY <2>1, <2>2, <2>3, <2>5
  <1>2. effects[t] = 0 /\ (decision[t] = "approved" \/ (decision[t] = "none" /\ apr[t] = 0))
    <2>1. pc[t] \in Entering
      BY <1>1
    <2>2. effects[t] = 0
      BY <2>1 DEF IInv, EffectInv
    <2>3. decision[t] = "approved" \/ (decision[t] = "none" /\ apr[t] = 0)
      BY <2>1 DEF IInv, EffectInv
    <2> QED
      BY <2>2, <2>3
  <1>3. effects' = [effects EXCEPT ![t] = 1]
    BY <1>1, <1>2
  <1>4. CASE decision[t] = "approved"
    <2>1. Settled(t) /\ Settled(t)'
      BY <1>1, <1>4 DEF Settled
    <2> QED
      BY <1>1, <1>2, <1>3, <1>4, <2>1, PhaseCases, PhaseCasesPrime, ExecuteStep
  <1>5. CASE decision[t] = "none" /\ apr[t] = 0
    <2>1. pc[t] \in {"direct", "starting"}
      BY <1>1, <1>5 DEF IInv, IdsInv
    <2>2. effects'[t] = 1
      BY <1>1, <1>3 DEF TypeOK
    <2>3. Free(t)
      BY <1>5, <2>1 DEF Free
    <2>4. Free(t)'
      BY <1>1, <1>5, <2>2 DEF Free
    <2> QED
      BY <1>1, <1>2, <1>3, <2>3, <2>4, PhaseCases, PhaseCasesPrime, ExecuteStep
  <1> QED
    BY <1>2, <1>4, <1>5

LEMMA AfterVerdictMaps ==
  ASSUME NEW t \in Task, IInv, IInv',
         Backend(t) \/ (Continuation(t) /\ ~ CallBackend(t) /\ ~ StartPlan(t))
  PROVE  UNCHANGED AG!vars
  <1>1. /\ TypeOK /\ TypeOK' /\ StepOf(t) /\ UNCHANGED <<accepted, decision, effects, apr>>
        /\ pc[t] \in AfterVerdict \cup Inside
        /\ pc'[t] \notin AwaitingAnswer
    <2>1. CASE Backend(t)
      <3>1. /\ pc[t] = "backend" /\ pc' = [pc EXCEPT ![t] = "returned"]
            /\ UNCHANGED <<accepted, decision, effects, apr>>
        BY <2>1 DEF Backend, BackendReturns
      <3>2. pc'[t] = "returned"
        BY <3>1 DEF IInv, TypeOK
      <3>3. apr' = [apr EXCEPT ![t] = apr[t]]
        BY <3>1 DEF IInv, TypeOK
      <3>4. decision' = [decision EXCEPT ![t] = decision[t]]
        BY <3>1 DEF IInv, TypeOK
      <3>5. effects' = [effects EXCEPT ![t] = effects[t]]
        BY <3>1 DEF IInv, TypeOK
      <3>6. StepOf(t)
        BY <3>1, <3>3, <3>4, <3>5 DEF StepOf
      <3> QED
        BY <3>1, <3>2, <3>6 DEF IInv
    <2>2. CASE AnnounceResolution(t) \/ RecordResolution(t) \/ BroadcastCancelled(t)
               \/ RecordCancelled(t)
      BY <2>2 DEF IInv, TypeOK, StepOf, AnnounceResolution, RecordResolution,
         BroadcastCancelled, RecordCancelled
    <2>3. CASE RecordLifecycle(t) \/ BroadcastLifecycle(t)
      BY <2>3 DEF IInv, TypeOK, StepOf, RecordLifecycle, BroadcastLifecycle
    <2>4. CASE RecordPlanStarted(t) \/ StepPlan(t) \/ CompletePlan(t)
               \/ RecordPlanCompleted(t)
      BY <2>4 DEF IInv, TypeOK, StepOf, RecordPlanStarted, StepPlan, CompletePlan,
         RecordPlanCompleted
    <2> QED
      BY <2>1, <2>2, <2>3, <2>4 DEF Continuation
  <1>2. CASE decision[t] # "none"
    <2>1. Settled(t) /\ Settled(t)'
      BY <1>1, <1>2 DEF Settled
    <2> QED
      BY <1>1, <2>1, PhaseCases, PhaseCasesPrime, Invisible
  <1>3. CASE decision[t] = "none"
    <2>1. pc[t] \in Inside
      BY <1>1, <1>3 DEF IInv, VerdictInv
    <2>2. effects[t] = 1 /\ apr[t] = 0
      BY <1>3, <2>1 DEF IInv, EffectInv
    <2>3. Free(t)
      BY <1>3, <2>1, <2>2 DEF Free
    <2>4. Free(t)'
      BY <1>1, <1>3, <2>2 DEF Free
    <2> QED
      BY <1>1, <2>3, <2>4, PhaseCases, PhaseCasesPrime, Invisible
  <1> QED
    BY <1>2, <1>3

(* A delivered answer is the first and only consent of an open gate.       *)
LEMMA AnswerMaps ==
  ASSUME NEW c \in Client, IInv, Answer(c)
  PROVE  AG!Next \/ UNCHANGED AG!vars
  <1>1. UNCHANGED <<pc, apr, decision, effects>>
    BY DEF Answer, RejectUnknown, TakeSender, SendDecision
  <1>2. \A u \in Task : GatePhase(u)' = GatePhase(u)
    BY <1>1 DEF GatePhase, Gated
  <1>3. CASE UNCHANGED accepted
    BY <1>1, <1>2, <1>3 DEF AG!vars
  <1>4. CASE SendDecision(c) /\ ~ UNCHANGED accepted
    <2> DEFINE t == hand[c].task
               d == hand[c].decision
    <2>1. t \in Task /\ d \in UserDecisions /\ accepted[t] = {} /\ apr[t] # 0
      BY <1>4 DEF IInv, TypeOK, HandInv, SendDecision
    <2>2. RxAlive(t) /\ accepted' = [accepted EXCEPT ![t] = @ \cup {d}]
      BY <1>4 DEF SendDecision
    <2>3. accepted' = [accepted EXCEPT ![t] = {d}]
      BY <2>1, <2>2
    <2>4. Open(t)
      BY <2>1, <2>2 DEF IInv, VerdictInv, Open, RxAlive
    <2>5. GatePhase(t) = "open"
      BY <2>1, <2>4, PhaseCases
    <2>6. [u \in Task |-> GatePhase(u)]' = [u \in Task |-> GatePhase(u)]
      BY <1>2
    <2>7. AG!Answer(t)
      <3> HIDE DEF t, d
      <3> QED
        BY <1>1, <2>1, <2>3, <2>5, <2>6 DEF AG!Answer, AG!UserDecisions
    <2> QED
      BY <2>1, <2>7 DEF AG!Next
  <1> QED
    BY <1>3, <1>4 DEF Answer, RejectUnknown, TakeSender

-----------------------------------------------------------------------------
LEMMA InitMaps == Init => AG!Init
  BY DEF Init, AG!Init, GatePhase, Gated

LEMMA NextMaps ==
  ASSUME IInv, IInv', [Next]_vars
  PROVE  [AG!Next]_AG!vars
  <1>1. CASE UNCHANGED vars
    BY <1>1 DEF vars, AG!vars, GatePhase, Gated
  <1>2. ASSUME NEW t \in Task,
               Dispatch(t) \/ Gate(t) \/ Deadline(t) \/ Waiter(t) \/ Continuation(t) \/ Backend(t)
        PROVE  AG!Next \/ UNCHANGED AG!vars
    BY <1>2, DispatchMaps, GateMaps, WaiterMaps, EnterMaps, AfterVerdictMaps
  <1>3. ASSUME NEW c \in Client, Answer(c)
        PROVE  AG!Next \/ UNCHANGED AG!vars
    BY <1>3, AnswerMaps
  <1> QED
    BY <1>1, <1>2, <1>3 DEF Next

(* What the core does with an approval is what ApprovalGate promises: one  *)
(* acknowledged answer at most, one verdict that is that answer or the     *)
(* timeout, one execution at most and only behind an approving verdict or  *)
(* without a gate.                                                         *)
THEOREM FlowImplementsGate == Spec => ImplementsGate
  <1>1. IInv /\ IInv' /\ [Next]_vars => [AG!Next]_AG!vars
    BY NextMaps
  <1> QED
    BY <1>1, InitMaps, Invariance, PTL DEF Spec, ImplementsGate, AG!Spec
=============================================================================
