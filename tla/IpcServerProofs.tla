-------------------------- MODULE IpcServerProofs --------------------------
(***************************************************************************)
(* Machine-checked properties of IpcServer for every number of clients,    *)
(* every chain, every capacity of the broadcast channel and every number   *)
(* of requests.                                                            *)
(***************************************************************************)
EXTENDS IpcServer, SequenceTheorems, TLAPS

-----------------------------------------------------------------------------
(* Frames and chains                                                       *)

LEMMA FrameOf ==
  ASSUME NEW f \in Frame
  PROVE  f.of = <<f.of[1], f.of[2]>> /\ f.of[1] \in Caller /\ f.of[2] \in Nat
BY DEF Frame, Answers, Speeches

LEMMA AnswerFrame ==
  ASSUME NEW f \in Frame, ~IsSpeech(f)
  PROVE  f = [t |-> f.t, of |-> f.of] /\ ~IsAuto(f) /\ NamesItsVoice(f)
BY DEF Frame, Answers, Speeches, IsSpeech, IsAuto, NamesItsVoice

LEMMA SpeechFrame ==
  ASSUME NEW f \in Frame, IsSpeech(f)
  PROVE  f \in Speeches /\ f.auto \in BOOLEAN /\ ~IsTerminal(f) /\ NamesItsVoice(f)
BY DEF Frame, Answers, Speeches, IsSpeech, IsTerminal

LEMMA EverySpeech ==
  ASSUME NEW f \in Speeches
  PROVE  f \in Frame /\ IsSpeech(f) /\ f.auto \in BOOLEAN
BY DEF Frame, Speeches, IsSpeech

AnswerTypes ==
  {"pong", "planned", "thinking", "heard", "response", "completed", "error", "failed"}

(* One frame per type, of one request.                                     *)
LEMMA FrameMade ==
  ASSUME NEW type \in AnswerTypes, NEW k \in Caller, NEW n \in Nat,
         NEW f, f = [t |-> type, of |-> <<k, n>>]
  PROVE  /\ f \in Frame /\ f.t = type /\ f.of = <<k, n>>
         /\ ~IsSpeech(f) /\ ~IsAuto(f)
         /\ IsTerminal(f) <=> type \in {"completed", "failed", "pong"}
  <1>1. f \in Frame /\ f.t = type /\ f.of = <<k, n>>
    BY DEF Frame, Answers, AnswerTypes
  <1>2. ~IsSpeech(f)
    BY <1>1 DEF IsSpeech, AnswerTypes
  <1> QED BY <1>1, <1>2 DEF IsAuto, IsTerminal

LEMMA FramesMade ==
  ASSUME NEW types \in Seq(AnswerTypes), NEW k \in Caller, NEW n \in Nat,
         NEW fs, fs = Frames(k, n, types)
  PROVE  /\ fs \in Seq(Frame) /\ Len(fs) = Len(types)
         /\ \A i \in 1..Len(types) :
              /\ fs[i].t = types[i] /\ fs[i].of = <<k, n>>
              /\ ~IsSpeech(fs[i]) /\ ~IsAuto(fs[i])
              /\ IsTerminal(fs[i]) <=> types[i] \in {"completed", "failed", "pong"}
  <1>1. fs = [i \in 1..Len(types) |-> [t |-> types[i], of |-> <<k, n>>]] /\ Len(types) \in Nat
    BY DEF Frames
  <1>2. \A i \in 1..Len(types) : types[i] \in AnswerTypes /\ fs[i] = [t |-> types[i], of |-> <<k, n>>]
    BY <1>1
  <1>3. \A i \in 1..Len(types) :
          /\ fs[i] \in Frame /\ fs[i].t = types[i] /\ fs[i].of = <<k, n>>
          /\ ~IsSpeech(fs[i]) /\ ~IsAuto(fs[i])
          /\ IsTerminal(fs[i]) <=> types[i] \in {"completed", "failed", "pong"}
    <2> TAKE i \in 1..Len(types)
    <2>1. PICK type \in AnswerTypes : type = types[i] /\ fs[i] = [t |-> type, of |-> <<k, n>>]
      BY <1>2, Zenon
    <2>2. PICK f : f = fs[i]
      OBVIOUS
    <2>3. f = [t |-> type, of |-> <<k, n>>]
      BY <2>1, <2>2, Zenon
    <2>4. /\ f \in Frame /\ f.t = type /\ f.of = <<k, n>>
          /\ ~IsSpeech(f) /\ ~IsAuto(f)
          /\ IsTerminal(f) <=> type \in {"completed", "failed", "pong"}
      BY <2>3, FrameMade
    <2> QED BY <2>1, <2>2, <2>4, Zenon
  <1>4. fs \in [1..Len(types) -> Frame]
    BY <1>1, <1>3
  <1>5. fs \in Seq(Frame)
    BY <1>1, <1>4, SeqDef
  <1>6. Len(fs) = Len(types)
    BY <1>1, <1>5, LenProperties
  <1> QED BY <1>3, <1>5, <1>6, Zenon

LEMMA Chains ==
  ASSUME NEW a \in Axis
  PROVE  /\ Len(Chain[a]) \in Nat \ {0} /\ DOMAIN Chain[a] = 1..Len(Chain[a])
         /\ \A i \in 1..Len(Chain[a]) : Chain[a][i] \in ToSet(Chain[a]) /\ Chain[a][i] # None
         /\ Primary(a) \in ToSet(Chain[a])
  <1>1. Chain[a] \in Seq(ToSet(Chain[a])) /\ Chain[a] # <<>> /\ None \notin ToSet(Chain[a])
    BY ChainAssumption
  <1> QED BY <1>1 DEF Primary

-----------------------------------------------------------------------------
(* What a step leaves alone                                                *)

ClientInv(c) == CollectedInv(c) /\ WireInv(c) /\ ToldInv(c)

LEMMA StillClient ==
  ASSUME TypeOK, NEW c \in Client, ClientInv(c),
         link'[c] = "ended" <=> link[c] = "ended",
         kind'[c] = kind[c], nth'[c] = nth[c], at'[c] = at[c],
         out'[c] = out[c], wire'[c] = wire[c], log' = log,
         next'[c] \in Nat, next'[c] >= next[c]
  PROVE  ClientInv(c)'
  <1>1. CollectedInv(c)'
    BY DEF ClientInv, CollectedInv, Complete, Current
  <1>2. WireInv(c)'
    <2>1. next[c] \in Nat
      BY DEF TypeOK
    <2>2. \A i \in DOMAIN wire[c] : InTransit(c, i)' <=> InTransit(c, i)
      BY DEF InTransit
    <2>3. \A i \in DOMAIN wire[c] : ClosedFrom(c, i)' <=> ClosedFrom(c, i)
      BY DEF ClosedFrom
    <2>4. Current(c)' = Current(c)
      BY DEF Current
    <2> SUFFICES ASSUME NEW i \in DOMAIN wire[c]
                 PROVE  LET f == wire[c][i] IN
                        IF IsAuto(f) THEN \E p \in 1..(next'[c] - 1) : log[p] = f
                        ELSE /\ f.of[1] = c /\ f.of[2] <= nth[c]
                             /\ IsSpeech(f) => \A p \in DOMAIN log : log[p].of # f.of
                             /\ link[c] # "ended" =>
                                  IF f.of = Current(c) /\ at[c] # "idle"
                                  THEN InTransit(c, i) ELSE ClosedFrom(c, i)
      BY <2>2, <2>3, <2>4 DEF WireInv
    <2> QED BY <2>1 DEF ClientInv, WireInv
  <1>3. ToldInv(c)'
    BY DEF ClientInv, ToldInv, Current
  <1> QED BY <1>1, <1>2, <1>3 DEF ClientInv

LEMMA StillCaller ==
  ASSUME NEW k \in Caller, CastInv(k),
         kind'[k] = kind[k], nth'[k] = nth[k], at'[k] = at[k], casts'[k] = casts[k],
         k \in Client => (link'[k] = "ended" <=> link[k] = "ended"), log' = log
  PROVE  CastInv(k)'
BY DEF CastInv, Current

LEMMA StillWire ==
  ASSUME AnswersAreWhole, SpeechFollowsItsAnswer, SpeechIsPaired, wire' = wire
  PROVE  AnswersAreWhole' /\ SpeechFollowsItsAnswer' /\ SpeechIsPaired'
BY DEF AnswersAreWhole, IsAnswer, SpeechFollowsItsAnswer, SpeechIsPaired

LEMMA StillLog ==
  ASSUME LogInv, log' = log
  PROVE  LogInv'
BY DEF LogInv

(* A step of a caller that does not speak.                                 *)
LEMMA StillSpeaker ==
  ASSUME SpeakerInv, crossed \subseteq Caller, NEW k \in Caller, at[k] # "spoken", at'[k] # "spoken",
         active' = active, crossed' = crossed,
         \A d \in Caller \ {k} : at'[d] = at[d] /\ tries'[d] = tries[d]
  PROVE  SpeakerInv'
  <1>1. \A d \in crossed : at'[d] = "spoken"
    BY DEF SpeakerInv
  <1> QED BY <1>1 DEF SpeakerInv

-----------------------------------------------------------------------------
(* Collecting an answer                                                    *)

(* What a handler may add to the answer of k, going on at place: frames of *)
(* the request, the last of which closes it if that is what place is for.  *)
MayAdd(k, fs) ==
  /\ fs \in Seq(Frame)
  /\ \A i \in 1..Len(fs) :
       /\ fs[i].of = Current(k)' /\ ~IsAuto(fs[i])
       /\ IsTerminal(fs[i]) <=> Complete(k)' /\ i = Len(fs)
       /\ IsSpeech(fs[i]) => kind'[k] = "speak" /\ at'[k] = "send"
       /\ \A j \in 1..Len(fs) :
            i < j /\ IsSpeech(fs[i]) /\ IsSpeech(fs[j]) => fs[i].t = "started" /\ fs[j].t = "ended"
  /\ Complete(k)' => fs # <<>> /\ (at'[k] # "send" => fs[Len(fs)].t = "completed")

LEMMA Shifted ==
  ASSUME NEW a \in Nat, NEW b \in Nat, NEW n, n = a + b, NEW i \in (a + 1)..(a + b)
  PROVE  i = n <=> i - a = b
OBVIOUS

(* Nothing of a request is on the socket before its answer is complete.    *)
LEMMA Collecting ==
  ASSUME TypeOK, NEW c \in Client, ClientInv(c), CastInv(c), NEW fs, MayAdd(c, fs),
         \/ at[c] = "idle" /\ nth'[c] = nth[c] + 1
         \/ /\ at[c] \in Axis \cup {"spoken"} /\ ~Complete(c)
            /\ nth'[c] = nth[c] /\ kind'[c] = kind[c],
         out'[c] = out[c] \o fs, at'[c] # "idle",
         link'[c] = link[c], log' = log, wire'[c] = wire[c], next'[c] = next[c]
  PROVE  out'[c] \in Seq(Frame) /\ ClientInv(c)'
  <1> DEFINE o == out[c]
  <1>1. o \in Seq(Frame) /\ fs \in Seq(Frame) /\ Len(o) \in Nat /\ Len(fs) \in Nat
    <2>1. out \in [Caller -> Seq(Frame)] /\ c \in Caller
      BY DEF TypeOK, Caller
    <2>2. o \in Seq(Frame) /\ fs \in Seq(Frame)
      BY <2>1 DEF MayAdd
    <2> QED BY <2>2, LenProperties
  <1>2. /\ out'[c] \in Seq(Frame) /\ Len(out'[c]) = Len(o) + Len(fs)
        /\ DOMAIN out'[c] = 1..(Len(o) + Len(fs))
        /\ \A i \in 1..Len(o) : out'[c][i] = o[i]
        /\ \A i \in (Len(o) + 1)..(Len(o) + Len(fs)) :
             out'[c][i] = fs[i - Len(o)] /\ i - Len(o) \in 1..Len(fs)
    BY <1>1, ConcatProperties
  <1>3. \A i \in 1..Len(o) :
          o[i].of = Current(c)' /\ ~IsAuto(o[i]) /\ ~IsTerminal(o[i]) /\ ~IsSpeech(o[i])
    <2>1. CASE at[c] = "idle"
      BY <2>1, <1>1 DEF TypeOK
    <2>2. CASE at[c] # "idle"
      <3>1. at[c] # "send" /\ ~Complete(c) /\ Current(c)' = Current(c)
        BY <2>2 DEF Axis, Current
      <3> QED BY <3>1, <1>1 DEF ClientInv, CollectedInv
    <2> QED BY <2>1, <2>2
  <1>4. CollectedInv(c)'
    <2>1. ASSUME NEW i \in DOMAIN out'[c]
          PROVE  /\ out'[c][i].of = Current(c)' /\ ~IsAuto(out'[c][i])
                 /\ IsTerminal(out'[c][i]) <=> Complete(c)' /\ i = Len(out'[c])
                 /\ IsSpeech(out'[c][i]) =>
                      i > Len(o) /\ kind'[c] = "speak" /\ at'[c] = "send"
      <3>1. CASE i <= Len(o)
        <4>1. out'[c][i] = o[i] /\ i \in 1..Len(o)
          BY <1>1, <1>2, <3>1
        <4>2. Complete(c)' => i # Len(out'[c])
          BY <1>1, <1>2, <3>1, EmptySeq DEF MayAdd
        <4> QED BY <4>1, <4>2, <1>3
      <3>2. CASE i > Len(o)
        <4>1. i \in (Len(o) + 1)..(Len(o) + Len(fs)) /\ Len(out'[c]) = Len(o) + Len(fs)
          BY <1>1, <1>2, <3>2
        <4>2. out'[c][i] = fs[i - Len(o)] /\ i - Len(o) \in 1..Len(fs)
          BY <4>1, <1>2
        <4>3. i = Len(out'[c]) <=> i - Len(o) = Len(fs)
          BY <4>1, <1>1, Shifted
        <4>4. PICK j \in 1..Len(fs) : j = i - Len(o)
          BY <4>2
        <4>5. /\ fs[j].of = Current(c)' /\ ~IsAuto(fs[j])
              /\ IsTerminal(fs[j]) <=> Complete(c)' /\ j = Len(fs)
              /\ IsSpeech(fs[j]) => kind'[c] = "speak" /\ at'[c] = "send"
          BY DEF MayAdd
        <4>6. out'[c][i] = fs[j] /\ (i = Len(out'[c]) <=> j = Len(fs))
          BY <4>2, <4>3, <4>4
        <4> QED BY <4>5, <4>6, <3>2
      <3> QED BY <3>1, <3>2, <1>1, <1>2
    <2>2. ASSUME NEW i \in DOMAIN out'[c], NEW j \in DOMAIN out'[c], i < j,
                 IsSpeech(out'[c][i]), IsSpeech(out'[c][j])
          PROVE  out'[c][i].t = "started" /\ out'[c][j].t = "ended"
      <3>1. i > Len(o) /\ j > Len(o)
        BY <2>1, <2>2
      <3>2. /\ out'[c][i] = fs[i - Len(o)] /\ i - Len(o) \in 1..Len(fs)
            /\ out'[c][j] = fs[j - Len(o)] /\ j - Len(o) \in 1..Len(fs)
            /\ i - Len(o) < j - Len(o)
        BY <1>1, <1>2, <2>2, <3>1
      <3> QED BY <3>2, <2>2 DEF MayAdd
    <2>3. ASSUME Complete(c)'
          PROVE  out'[c] # <<>> /\ (at'[c] # "send" => out'[c][Len(out'[c])].t = "completed")
      <3>1. Len(fs) > 0 /\ Len(out'[c]) > 0
        BY <1>1, <1>2, <2>3, EmptySeq DEF MayAdd
      <3>2. out'[c][Len(out'[c])] = fs[Len(fs)]
        BY <1>1, <1>2, <3>1
      <3> QED BY <2>3, <3>1, <3>2 DEF MayAdd
    <2> QED BY <2>1, <2>2, <2>3 DEF CollectedInv
  <1>5. \A i \in DOMAIN wire[c] : ~IsAuto(wire[c][i]) =>
          /\ wire[c][i].of[1] = c /\ wire[c][i].of[2] <= nth'[c]
          /\ IsSpeech(wire[c][i]) => \A p \in DOMAIN log : log[p].of # wire[c][i].of
          /\ link[c] # "ended" => wire[c][i].of # Current(c)' /\ ClosedFrom(c, i)
    <2> TAKE i \in DOMAIN wire[c]
    <2> HAVE ~IsAuto(wire[c][i])
    <2>1. /\ wire[c][i].of[1] = c /\ wire[c][i].of[2] <= nth[c]
          /\ IsSpeech(wire[c][i]) => \A p \in DOMAIN log : log[p].of # wire[c][i].of
          /\ link[c] # "ended" =>
               IF wire[c][i].of = Current(c) /\ at[c] # "idle" THEN InTransit(c, i) ELSE ClosedFrom(c, i)
      BY DEF ClientInv, WireInv
    <2>2. wire[c][i].of[2] \in Nat /\ nth[c] \in Nat
      <3>1. wire \in [Client -> Seq(Frame)] /\ nth \in [Caller -> Nat] /\ c \in Caller
        BY DEF TypeOK, Caller
      <3>2. wire[c][i] \in Frame
        BY <3>1
      <3> QED BY <3>1, <3>2, FrameOf
    <2>3. at[c] # "send" /\ ~InTransit(c, i)
      BY DEF Axis, InTransit
    <2>4. link[c] # "ended" => ClosedFrom(c, i) /\ (at[c] = "idle" \/ wire[c][i].of # Current(c))
      BY <2>1, <2>3
    <2>5. CASE at[c] = "idle"
      <3>1. wire[c][i].of[2] # nth'[c] /\ wire[c][i].of[2] <= nth'[c]
        BY <2>1, <2>2, <2>5 DEF Axis
      <3>2. wire[c][i].of # Current(c)'
        BY <3>1 DEF Current
      <3> QED BY <2>1, <2>4, <3>1, <3>2
    <2>6. CASE at[c] # "idle"
      <3>1. nth'[c] = nth[c] /\ Current(c)' = Current(c)
        BY <2>6 DEF Current
      <3> QED BY <2>1, <2>4, <2>6, <3>1
    <2> QED BY <2>5, <2>6
  <1>6. WireInv(c)'
    <2>1. \A i \in DOMAIN wire[c] : ClosedFrom(c, i)' <=> ClosedFrom(c, i)
      BY DEF ClosedFrom
    <2>2. \A i \in DOMAIN wire[c] :
            IsAuto(wire[c][i]) => \E p \in 1..(next[c] - 1) : log[p] = wire[c][i]
      BY DEF ClientInv, WireInv
    <2> SUFFICES ASSUME NEW i \in DOMAIN wire[c]
                 PROVE  LET f == wire[c][i] IN
                        IF IsAuto(f) THEN \E p \in 1..(next[c] - 1) : log[p] = f
                        ELSE /\ f.of[1] = c /\ f.of[2] <= nth'[c]
                             /\ IsSpeech(f) => \A p \in DOMAIN log : log[p].of # f.of
                             /\ link[c] # "ended" =>
                                  IF f.of = Current(c)' /\ at'[c] # "idle"
                                  THEN InTransit(c, i)' ELSE ClosedFrom(c, i)
      BY <2>1 DEF WireInv
    <2> QED BY <1>5, <2>2
  <1>7. ToldInv(c)'
    <2>1. at[c] \notin {"cast", "send"}
      BY DEF Axis
    <2> QED BY <2>1 DEF ClientInv, ToldInv
  <1> QED BY <1>2, <1>4, <1>6, <1>7 DEF ClientInv

-----------------------------------------------------------------------------
(* Steps of a handler that broadcast nothing                               *)

Inside(k) ==
  /\ \A d \in Caller \ {k} : kind'[d] = kind[d] /\ nth'[d] = nth[d] /\ at'[d] = at[d]
                             /\ out'[d] = out[d] /\ casts'[d] = casts[d]
  /\ \A c \in Client \ {k} : link'[c] = link[c] /\ wire'[c] = wire[c] /\ next'[c] = next[c]
  /\ log' = log

LEMMA OthersStill ==
  ASSUME ServerInv, NEW k, Inside(k)
  PROVE  /\ \A d \in Caller \ {k} : CastInv(d)'
         /\ \A c \in Client \ {k} : ClientInv(c)'
  <1>1. ASSUME NEW d \in Caller \ {k} PROVE CastInv(d)'
    BY <1>1, StillCaller DEF ServerInv, Inside
  <1>2. ASSUME NEW c \in Client \ {k} PROVE ClientInv(c)'
    <2>1. c \in Caller \ {k} /\ c \in Client /\ ClientInv(c) /\ TypeOK
      BY DEF Caller, ServerInv, ClientInv
    <2>2. next[c] \in Nat
      BY <2>1 DEF TypeOK
    <2> QED BY <2>1, <2>2, StillClient DEF Inside
  <1> QED BY <1>1, <1>2

(* What is left to show for a step inside the handler of k.                *)
LEMMA HandlerKeeps ==
  ASSUME ServerInv, NEW k \in Caller, Inside(k), wire' = wire,
         TypeOK', SpeakerInv', CastInv(k)', k \in Client => ClientInv(k)'
  PROVE  ServerInv'
  <1>1. (\A d \in Caller : CastInv(d)') /\ (\A c \in Client : ClientInv(c)')
    BY OthersStill
  <1>2. LogInv'
    BY StillLog DEF ServerInv, Inside
  <1>3. AnswersAreWhole' /\ SpeechFollowsItsAnswer' /\ SpeechIsPaired'
    BY StillWire DEF ServerInv
  <1> QED BY <1>1, <1>2, <1>3 DEF ServerInv, ClientInv

LEMMA TryNextKeeps ==
  ASSUME ServerInv, NEW k \in Caller, TryNext(k)
  PROVE  ServerInv'
  <1>1. /\ TypeOK /\ CastInv(k) /\ SpeakerInv /\ (k \in Client => ClientInv(k))
        /\ at[k] \in Axis /\ tries[k] \in Nat /\ tries[k] < Len(Chain[at[k]])
        /\ tries' = [tries EXCEPT ![k] = tries[k] + 1]
        /\ UNCHANGED <<setup, link, inbox, kind, nth, at, out, casts, active, crossed, log, next, wire>>
    BY DEF TryNext, ServerInv, ClientInv, TypeOK
  <1>2. Inside(k)
    BY <1>1 DEF Inside
  <1>3. TypeOK'
    <2>1. tries' \in [Caller -> Nat]
      BY <1>1 DEF TypeOK
    <2>2. \A d \in Caller : at[d] \in Axis => tries'[d] \in DOMAIN Chain[at[d]]
      <3> SUFFICES ASSUME NEW d \in Caller, at[d] \in Axis
                   PROVE  tries'[d] \in 1..Len(Chain[at[d]])
        BY Chains
      <3>1. tries[d] \in 1..Len(Chain[at[d]]) /\ Len(Chain[at[d]]) \in Nat
        BY <1>1, Chains DEF TypeOK
      <3>2. tries'[d] = IF d = k THEN tries[d] + 1 ELSE tries[d]
        BY <1>1 DEF TypeOK
      <3>3. d = k => tries[d] < Len(Chain[at[d]])
        BY <1>1
      <3> QED BY <3>1, <3>2, <3>3
    <2> QED BY <1>1, <2>1, <2>2 DEF TypeOK
  <1>4. SpeakerInv'
    BY <1>1, StillSpeaker DEF Axis, TypeOK
  <1>5. CastInv(k)'
    BY <1>1, StillCaller
  <1>6. k \in Client => ClientInv(k)'
    <2>1. k \in Client => next[k] \in Nat
      BY <1>1 DEF TypeOK
    <2> QED BY <1>1, <2>1, StillClient
  <1> QED BY <1>1, <1>2, <1>3, <1>4, <1>5, <1>6, HandlerKeeps

(* The parts of Reply: an answer is collected for a client alone.          *)
LEMMA Replied ==
  ASSUME TypeOK, NEW k \in Caller, NEW fs, Reply(k, fs), k \in Client => out'[k] \in Seq(Frame)
  PROVE  /\ out' \in [Caller -> Seq(Frame)] /\ out'[Console] = <<>>
         /\ \A d \in Caller \ {k} : out'[d] = out[d]
         /\ k = Console => out' = out
  BY ConsoleAssumption DEF Reply, TypeOK, Caller

LEMMA RepliedHere ==
  ASSUME TypeOK, NEW c \in Client, NEW fs, Reply(c, fs)
  PROVE  out'[c] = out[c] \o fs
  BY ConsoleAssumption DEF Reply, TypeOK, Caller

LEMMA MayAddFrames ==
  ASSUME NEW k \in Caller, NEW n \in Nat, NEW types \in Seq(AnswerTypes), Current(k)' = <<k, n>>,
         \A i \in 1..Len(types) :
           types[i] \in {"completed", "failed", "pong"} <=> Complete(k)' /\ i = Len(types),
         Complete(k)' => types # <<>> /\ (at'[k] # "send" => types[Len(types)] = "completed")
  PROVE  MayAdd(k, Frames(k, n, types))
  <1>1. PICK fs : fs = Frames(k, n, types)
    OBVIOUS
  <1>2. /\ fs \in Seq(Frame) /\ Len(fs) = Len(types)
        /\ \A i \in 1..Len(types) :
             /\ fs[i].t = types[i] /\ fs[i].of = <<k, n>>
             /\ ~IsSpeech(fs[i]) /\ ~IsAuto(fs[i])
             /\ IsTerminal(fs[i]) <=> types[i] \in {"completed", "failed", "pong"}
    BY <1>1, FramesMade
  <1>3. Len(types) \in Nat /\ (types # <<>> => Len(types) > 0)
    BY EmptySeq
  <1>4. Complete(k)' => fs # <<>> /\ (at'[k] # "send" => fs[Len(fs)].t = "completed")
    <2> HAVE Complete(k)'
    <2>1. Len(types) \in 1..Len(types) /\ fs # <<>>
      BY <1>2, <1>3
    <2>2. fs[Len(types)].t = types[Len(types)]
      BY <1>2, <2>1
    <2> QED BY <1>2, <2>1, <2>2
  <1>5. \A i \in 1..Len(types) :
          /\ fs[i].of = Current(k)' /\ ~IsAuto(fs[i]) /\ ~IsSpeech(fs[i])
          /\ IsTerminal(fs[i]) <=> Complete(k)' /\ i = Len(types)
    BY <1>2
  <1>6. MayAdd(k, fs)
    BY <1>2, <1>4, <1>5 DEF MayAdd
  <1> QED BY <1>1, <1>6

(* The places of a handler that has begun and has not come to its end.     *)
LEMMA Midway ==
  ASSUME ServerInv, NEW k \in Caller, NEW place, at' = [at EXCEPT ![k] = place],
         at[k] \in {"stt", "text"}, place \in {"text", "tts", Finish(k)},
         tries' = [tries EXCEPT ![k] = 1] \/ (tries' = tries /\ place = Finish(k)),
         NEW types \in Seq(AnswerTypes), ReplyTypes(k, types),
         \A i \in 1..Len(types) : types[i] \in {"completed", "failed", "pong"} <=>
           place # "text" /\ i = Len(types),
         place # "text" => types # <<>> /\ (place = "tts" => types[Len(types)] = "completed"),
         UNCHANGED <<setup, link, inbox, kind, nth, casts, active, crossed, log, next, wire>>
  PROVE  ServerInv'
  <1> DEFINE fs == Frames(k, nth[k], types)
  <1>1. /\ TypeOK /\ CastInv(k) /\ SpeakerInv /\ (k \in Client => ClientInv(k))
        /\ kind[k] # "speak" /\ nth[k] \in Nat /\ Current(k)' = <<k, nth[k]>> /\ kind' = kind
    <2>1. TypeOK /\ CastInv(k) /\ SpeakerInv /\ (k \in Client => ClientInv(k))
      BY DEF ServerInv, ClientInv
    <2>2. kind[k] # "speak"
      BY <2>1 DEF CastInv
    <2>3. nth[k] \in Nat
      BY <2>1 DEF TypeOK
    <2> QED BY <2>1, <2>2, <2>3 DEF Current
  <1>2. at'[k] = place /\ Reply(k, fs) /\ (k \in Client => place # "idle")
    BY <1>1, ConsoleAssumption DEF ReplyTypes, TypeOK, Finish
  <1>3. k \in Client => (Complete(k)' <=> place # "text")
    BY <1>1, <1>2, ConsoleAssumption DEF Complete, Finish
  <1>4. k \in Client => out'[k] \in Seq(Frame) /\ ClientInv(k)'
    <2> HAVE k \in Client
    <2>1. MayAdd(k, fs)
      <3>1. Finish(k) = "send" /\ (Complete(k)' <=> place # "text")
        BY <1>3, ConsoleAssumption DEF Finish
      <3>2. \A i \in 1..Len(types) :
              types[i] \in {"completed", "failed", "pong"} <=> Complete(k)' /\ i = Len(types)
        BY <3>1
      <3>3. Complete(k)' => types # <<>> /\ (at'[k] # "send" => types[Len(types)] = "completed")
        BY <1>2, <3>1
      <3> QED BY <1>1, <3>2, <3>3, MayAddFrames
    <2>2. out'[k] = out[k] \o fs
      BY <1>1, <1>2, RepliedHere
    <2>3. at[k] \in Axis \cup {"spoken"} /\ ~Complete(k)
      BY DEF Axis, Complete
    <2> HIDE DEF fs
    <2> QED BY <1>1, <1>2, <2>1, <2>2, <2>3, Collecting
  <1>5. /\ out' \in [Caller -> Seq(Frame)] /\ out'[Console] = <<>>
        /\ \A d \in Caller \ {k} : out'[d] = out[d]
    BY <1>1, <1>2, <1>4, Replied
  <1>6. Inside(k)
    BY <1>1, <1>5 DEF Inside, TypeOK
  <1>7. TypeOK'
    <2>1. at' \in [Caller -> Axis \cup {"idle", "spoken", "cast", "send"}] /\ at'[Console] # "send"
      BY <1>1, ConsoleAssumption DEF TypeOK, Axis, Finish, Caller
    <2>2. tries' \in [Caller -> Nat]
      <3>1. tries \in [Caller -> Nat]
        BY <1>1 DEF TypeOK
      <3> QED BY <3>1
    <2>3. \A d \in Caller : at'[d] \in Axis => tries'[d] \in DOMAIN Chain[at'[d]]
      <3> SUFFICES ASSUME NEW d \in Caller, at'[d] \in Axis
                   PROVE  tries'[d] \in DOMAIN Chain[at'[d]]
        OBVIOUS
      <3>1. CASE d = k
        <4>1. at'[d] = place /\ place # Finish(k)
          BY <1>2, <3>1 DEF Finish, Axis
        <4>2. tries'[d] = 1
          BY <1>1, <3>1, <4>1 DEF TypeOK
        <4> QED BY <4>2, Chains
      <3>2. CASE d # k
        <4>1. at'[d] = at[d] /\ tries'[d] = tries[d]
          BY <1>1, <3>2 DEF TypeOK
        <4> QED BY <4>1, <1>1 DEF TypeOK
      <3> QED BY <3>1, <3>2
    <2>4. \A c \in Client : at'[c] = "idle" => out'[c] = <<>>
      BY <1>1, <1>2, <1>5 DEF TypeOK, Caller
    <2>5. \A d \in Caller : at'[d] = "cast" <=> casts[d] # <<>>
      BY <1>1, <1>2 DEF TypeOK, Finish
    <2>6. /\ setup' \in Setups /\ link' \in [Client -> {"new", "up", "cut", "stuck", "ended"}]
          /\ inbox' \in [Client -> Seq(Kind)] /\ kind' \in [Caller -> Kind] /\ nth' \in [Caller -> Nat]
          /\ casts' \in [Caller -> Seq(Speeches)] /\ active' \in Speakers \cup {None}
          /\ crossed' \subseteq Caller /\ log' \in Seq(Speeches)
          /\ next' \in [Client -> 1..(Len(log') + 1)] /\ wire' \in [Client -> Seq(Frame)]
          /\ casts' = casts
      BY <1>1 DEF TypeOK
    <2> QED BY <1>5, <2>1, <2>2, <2>3, <2>4, <2>5, <2>6 DEF TypeOK
  <1>8. SpeakerInv'
    <2>1. at'[k] # "spoken" /\ at[k] # "spoken"
      BY <1>2 DEF Finish
    <2>2. \A d \in Caller \ {k} : at'[d] = at[d] /\ tries'[d] = tries[d]
      BY <1>1 DEF TypeOK
    <2> QED BY <1>1, <2>1, <2>2, StillSpeaker DEF TypeOK
  <1>9. CastInv(k)'
    <2>1. casts[k] = <<>>
      BY <1>1 DEF TypeOK
    <2>2. \A p \in DOMAIN log : log[p].of[1] = k => log[p].of[2] <= nth[k] /\ log[p].of # Current(k)
      BY <1>1 DEF CastInv
    <2>3. k \in Client => link[k] # "ended"
      BY <1>1 DEF CastInv
    <2> QED BY <1>1, <1>2, <2>1, <2>2, <2>3 DEF CastInv, Current
  <1> QED BY <1>1, <1>4, <1>6, <1>7, <1>8, <1>9, HandlerKeeps

LEMMA HeardKeeps ==
  ASSUME ServerInv, NEW k \in Caller, Heard(k)
  PROVE  ServerInv'
  <1>1. PICK types : types = <<"heard", "thinking">>
    OBVIOUS
  <1>2. /\ types \in Seq(AnswerTypes) /\ Len(types) = 2
        /\ \A i \in 1..2 : types[i] \notin {"completed", "failed", "pong"}
    BY <1>1 DEF AnswerTypes
  <1>3. /\ at[k] \in {"stt", "text"} /\ at' = [at EXCEPT ![k] = "text"]
        /\ tries' = [tries EXCEPT ![k] = 1] /\ ReplyTypes(k, types)
        /\ UNCHANGED <<setup, link, inbox, kind, nth, casts, active, crossed, log, next, wire>>
    BY <1>1 DEF Heard, Succeeds
  <1> QED BY <1>2, <1>3, Midway

LEMMA AnsweredKeeps ==
  ASSUME ServerInv, NEW k \in Caller, Answered(k)
  PROVE  ServerInv'
  <1>1. PICK types : types = <<"response", "completed">>
    OBVIOUS
  <1>2. /\ types \in Seq(AnswerTypes) /\ Len(types) = 2 /\ types # <<>>
        /\ types[2] = "completed"
        /\ \A i \in 1..2 : types[i] \in {"completed", "failed", "pong"} <=> i = 2
    BY <1>1 DEF AnswerTypes
  <1>3. PICK place \in {"tts", Finish(k)} : at' = [at EXCEPT ![k] = place]
    BY DEF Answered
  <1>4. place # "text"
    BY DEF Finish
  <1>5. /\ at[k] \in {"stt", "text"}
        /\ tries' = [tries EXCEPT ![k] = 1] /\ ReplyTypes(k, types)
        /\ UNCHANGED <<setup, link, inbox, kind, nth, casts, active, crossed, log, next, wire>>
    BY <1>1 DEF Answered, Succeeds
  <1>6. /\ \A i \in 1..Len(types) : types[i] \in {"completed", "failed", "pong"} <=>
             place # "text" /\ i = Len(types)
        /\ types[Len(types)] = "completed"
    BY <1>2, <1>4
  <1> QED BY <1>2, <1>3, <1>5, <1>6, Midway

LEMMA GivesUpKeeps ==
  ASSUME ServerInv, NEW k \in Caller, GivesUp(k)
  PROVE  ServerInv'
  <1>1. PICK types : types = <<"error", "failed">>
    OBVIOUS
  <1>2. /\ types \in Seq(AnswerTypes) /\ Len(types) = 2 /\ types # <<>>
        /\ \A i \in 1..2 : types[i] \in {"completed", "failed", "pong"} <=> i = 2
    BY <1>1 DEF AnswerTypes
  <1>3. at[k] \in {"stt", "text"} /\ Finish(k) # "text" /\ Finish(k) # "tts"
    BY DEF GivesUp, Exhausts, Finish
  <1>4. /\ at' = [at EXCEPT ![k] = Finish(k)] /\ tries' = tries /\ ReplyTypes(k, types)
        /\ UNCHANGED <<setup, link, inbox, kind, nth, casts, active, crossed, log, next, wire>>
    BY <1>1 DEF GivesUp
  <1>5. PICK place : place = Finish(k)
    OBVIOUS
  <1>6. /\ place \in {"text", "tts", Finish(k)} /\ at' = [at EXCEPT ![k] = place]
        /\ \A i \in 1..Len(types) : types[i] \in {"completed", "failed", "pong"} <=>
              place # "text" /\ i = Len(types)
        /\ place # "text" =>
              types # <<>> /\ (place = "tts" => types[Len(types)] = "completed")
        /\ tries' = [tries EXCEPT ![k] = 1] \/ (tries' = tries /\ place = Finish(k))
    BY <1>2, <1>3, <1>4, <1>5
  <1> QED BY <1>2, <1>3, <1>4, <1>6, Midway

(* The chain of speech programs has ended.                                 *)
LEMMA SpokenKeeps ==
  ASSUME ServerInv, NEW k \in Caller, Spoken(k)
  PROVE  ServerInv'
  <1>1. /\ TypeOK /\ CastInv(k) /\ SpeakerInv /\ (k \in Client => ClientInv(k))
        /\ at[k] = "tts" /\ Current(k)' = Current(k)
        /\ at' = [at EXCEPT ![k] = IF k = Console /\ kind[k] = "speak" THEN "idle" ELSE "spoken"]
        /\ crossed' = crossed \cup {j \in Caller \ {k} : at[j] = "spoken"}
        /\ UNCHANGED <<setup, link, inbox, kind, nth, out, casts, log, next, wire>>
    BY DEF Spoken, Succeeds, Exhausts, ServerInv, ClientInv, Current
  <1>2. Inside(k)
    BY <1>1 DEF Inside, TypeOK
  <1>3. /\ tries' \in [Caller -> Nat] /\ \A d \in Caller \ {k} : tries'[d] = tries[d]
        /\ active' \in Speakers \cup {None}
        /\ active' = IF tries'[k] \in DOMAIN Chain["tts"] THEN Chain["tts"][tries'[k]] ELSE None
    <2>1. /\ tries \in [Caller -> Nat] /\ tries[k] \in 1..Len(Chain["tts"])
          /\ Len(Chain["tts"]) \in Nat /\ DOMAIN Chain["tts"] = 1..Len(Chain["tts"])
          /\ \A i \in 1..Len(Chain["tts"]) : Chain["tts"][i] \in Speakers
      BY <1>1, Chains DEF TypeOK, Axis, Speakers
    <2>2. CASE active' = Chain["tts"][tries[k]] /\ tries' = tries
      BY <2>1, <2>2
    <2>3. CASE /\ tries[k] = Len(Chain["tts"]) /\ active' = None
               /\ tries' = [tries EXCEPT ![k] = tries[k] + 1]
      <3>1. tries'[k] = Len(Chain["tts"]) + 1
        BY <2>1, <2>3
      <3>2. tries'[k] \notin DOMAIN Chain["tts"]
        BY <2>1, <3>1
      <3> QED BY <2>1, <2>3, <3>2
    <2> QED BY <2>2, <2>3 DEF Spoken, Exhausts
  <1>4. at'[k] \in {"idle", "spoken"} /\ (k \in Client => at'[k] = "spoken")
    BY <1>1, ConsoleAssumption DEF TypeOK
  <1>5. \A d \in Caller \ {k} : at'[d] = at[d]
    BY <1>1 DEF TypeOK
  <1>6. TypeOK'
    <2>1. at' \in [Caller -> Axis \cup {"idle", "spoken", "cast", "send"}]
      BY <1>1 DEF TypeOK
    <2>2. \A d \in Caller : at'[d] \in Axis => tries'[d] \in DOMAIN Chain[at'[d]]
      BY <1>1, <1>3, <1>4, <1>5 DEF TypeOK, Axis
    <2>3. (\A c \in Client : at'[c] = "idle" => out[c] = <<>>) /\ at'[Console] # "send"
      BY <1>1, <1>4, <1>5 DEF TypeOK, Caller
    <2>4. \A d \in Caller : at'[d] = "cast" <=> casts[d] # <<>>
      BY <1>1, <1>4, <1>5 DEF TypeOK
    <2>5. crossed' \subseteq Caller
      BY <1>1 DEF TypeOK
    <2> QED BY <1>1, <1>3, <2>1, <2>2, <2>3, <2>4, <2>5 DEF TypeOK
  <1>7. SpeakerInv'
    <2>1. ASSUME NEW d \in crossed'
          PROVE  at'[d] = "spoken"
      <3>1. at[d] = "spoken" /\ d # k /\ d \in Caller
        BY <1>1 DEF SpeakerInv, TypeOK
      <3> QED BY <3>1, <1>5
    <2>2. ASSUME NEW d \in Caller \ crossed', at'[d] = "spoken"
          PROVE  active' = IF tries'[d] \in DOMAIN Chain["tts"] THEN Chain["tts"][tries'[d]] ELSE None
      <3>1. d = k
        BY <1>1, <1>5, <2>2
      <3> QED BY <3>1, <1>3
    <2> QED BY <2>1, <2>2 DEF SpeakerInv
  <1>8. CastInv(k)'
    <2>1. casts[k] = <<>> /\ (k \in Client => link[k] # "ended")
      BY <1>1 DEF TypeOK, CastInv
    <2>2. \A p \in DOMAIN log : log[p].of[1] = k => log[p].of[2] <= nth[k] /\ log[p].of # Current(k)
      BY <1>1 DEF CastInv
    <2>3. k = Console /\ at'[k] = "spoken" => kind[k] # "speak"
      BY <1>1 DEF TypeOK
    <2> QED BY <1>1, <1>4, <2>1, <2>2, <2>3 DEF CastInv
  <1>9. k \in Client => ClientInv(k)'
    <2> HAVE k \in Client
    <2>1. Complete(k)' <=> Complete(k)
      BY <1>1, <1>4 DEF Complete
    <2>2. at'[k] = "spoken" /\ (Complete(k) => kind[k] # "speak")
      BY <1>1, <1>4 DEF Complete
    <2>3. CollectedInv(k)'
      BY <1>1, <2>1, <2>2 DEF ClientInv, CollectedInv
    <2>4. WireInv(k)'
      <3>1. \A i \in DOMAIN wire[k] : (ClosedFrom(k, i)' <=> ClosedFrom(k, i)) /\ ~InTransit(k, i)
        BY <1>1 DEF ClosedFrom, InTransit
      <3>2. \A i \in DOMAIN wire[k] :
              LET f == wire[k][i] IN
              IF IsAuto(f) THEN \E p \in 1..(next[k] - 1) : log[p] = f
              ELSE /\ f.of[1] = k /\ f.of[2] <= nth[k]
                   /\ IsSpeech(f) => \A p \in DOMAIN log : log[p].of # f.of
                   /\ link[k] # "ended" => ~(f.of = Current(k)) /\ ClosedFrom(k, i)
        BY <1>1, <3>1 DEF ClientInv, WireInv
      <3> QED BY <1>1, <3>1, <3>2 DEF WireInv
    <2>5. ToldInv(k)'
      BY <1>1, <2>2 DEF ClientInv, ToldInv
    <2> QED BY <2>3, <2>4, <2>5 DEF ClientInv
  <1> QED BY <1>1, <1>2, <1>6, <1>7, <1>8, <1>9, HandlerKeeps

(* The frames of a speech.                                                 *)
LEMMA SpeechMade ==
  ASSUME TypeOK, NEW k \in Caller, NEW t \in {"started", "ended"}, NEW by \in Speakers,
         t = "ended" => Voice(k) \in {None, by}, NEW f, f = Speech(t, k, by)
  PROVE  /\ f \in Speeches /\ f.t = t /\ f.of = Current(k) /\ (f.auto <=> kind[k] # "speak")
         /\ IsSpeech(f) /\ (IsAuto(f) <=> kind[k] # "speak") /\ ~IsTerminal(f) /\ f \in Frame
  <1>1. Voice(k) \in Speakers \cup {None} /\ nth[k] \in Nat
    <2>1. tries[k] \in DOMAIN Chain["tts"] => Chain["tts"][tries[k]] \in Speakers
      BY Chains DEF Axis, Speakers
    <2>2. Primary("tts") \in Speakers
      BY Chains DEF Axis, Speakers
    <2> QED BY <2>1, <2>2 DEF Voice, TypeOK
  <1>2. f = [t |-> t, of |-> <<k, nth[k]>>, auto |-> kind[k] # "speak", by |-> by, voice |-> Voice(k)]
    BY DEF Speech
  <1>3. NamesItsVoice(f)
    BY <1>2 DEF NamesItsVoice
  <1>4. f \in Speeches
    BY <1>1, <1>2, <1>3 DEF Speeches
  <1>5. f.t = t /\ f.of = Current(k)
    BY <1>2 DEF Current
  <1>6. f.auto <=> kind[k] # "speak"
    <2>1. f.auto = (kind[k] # "speak")
      BY <1>2
    <2> QED BY <2>1
  <1>7. IsSpeech(f) /\ ~IsTerminal(f) /\ f \in Frame
    BY <1>4, <1>5 DEF IsSpeech, IsTerminal, Frame
  <1>8. IsAuto(f) <=> kind[k] # "speak"
    BY <1>6, <1>7 DEF IsAuto
  <1> QED BY <1>4, <1>5, <1>6, <1>7, <1>8

LEMMA NameSpeakerKeeps ==
  ASSUME ServerInv, NEW k \in Caller, NameSpeaker(k)
  PROVE  ServerInv'
  <1>1. /\ TypeOK /\ CastInv(k) /\ SpeakerInv /\ (k \in Client => ClientInv(k))
        /\ at[k] = "spoken" /\ Current(k)' = Current(k)
        /\ crossed' = crossed \ {k} /\ tries' = [tries EXCEPT ![k] = 1]
        /\ UNCHANGED <<setup, link, inbox, kind, nth, active, log, next, wire>>
    BY DEF NameSpeaker, ServerInv, ClientInv, Current
  <1> DEFINE by == IF active = None THEN Primary("tts") ELSE active
  <1>2. by \in Speakers /\ Primary("tts") \in Speakers /\ Voice(k) \in {None, by}
    <2>1. Primary("tts") \in Speakers
      BY Chains DEF Axis, Speakers
    <2>2. by \in Speakers
      BY <1>1, <2>1 DEF TypeOK
    <2>3. CASE k \in crossed
      BY <2>1, <2>2, <2>3 DEF Voice
    <2>4. CASE k \notin crossed
      <3>1. active = IF tries[k] \in DOMAIN Chain["tts"] THEN Chain["tts"][tries[k]] ELSE None
        BY <1>1, <2>4 DEF SpeakerInv
      <3>2. tries[k] \in DOMAIN Chain["tts"] => Chain["tts"][tries[k]] # None
        BY Chains DEF Axis
      <3> QED BY <2>1, <2>2, <2>4, <3>1, <3>2 DEF Voice
    <2> QED BY <2>3, <2>4
  <1>3. PICK s, e : s = Speech("started", k, Primary("tts")) /\ e = Speech("ended", k, by)
    OBVIOUS
  <1> HIDE DEF by
  <1>4. /\ s \in Speeches /\ s.t = "started" /\ s.of = Current(k) /\ (s.auto <=> kind[k] # "speak")
        /\ IsSpeech(s) /\ (IsAuto(s) <=> kind[k] # "speak") /\ ~IsTerminal(s) /\ s \in Frame
    BY <1>1, <1>2, <1>3, SpeechMade
  <1>5. /\ e \in Speeches /\ e.t = "ended" /\ e.of = Current(k) /\ (e.auto <=> kind[k] # "speak")
        /\ IsSpeech(e) /\ (IsAuto(e) <=> kind[k] # "speak") /\ ~IsTerminal(e) /\ e \in Frame
    BY <1>1, <1>2, <1>3, SpeechMade
  <1>6. PICK place \in {"send", "cast"} :
          /\ at' = [at EXCEPT ![k] = place]
          /\ place = "send" <=> kind[k] = "speak"
          /\ place = "send" =>
               /\ \E types \in {<<"completed">>, <<"error", "failed">>} :
                    Reply(k, <<s, e>> \o Frames(k, nth[k], types))
               /\ casts' = casts
          /\ place = "cast" => casts' = [casts EXCEPT ![k] = <<s, e>>] /\ out' = out
    <2>1. CASE kind[k] = "speak"
      BY <1>3, <2>1 DEF NameSpeaker, by
    <2>2. CASE kind[k] # "speak"
      BY <1>3, <2>2 DEF NameSpeaker, by
    <2> QED BY <2>1, <2>2
  <1>7. at'[k] = place /\ (\A d \in Caller \ {k} : at'[d] = at[d]) /\ (place = "send" => k \in Client)
    BY <1>1, <1>6 DEF TypeOK, CastInv, Caller
  <1>8. ASSUME k \in Client, place = "send"
        PROVE  out'[k] \in Seq(Frame) /\ ClientInv(k)'
    <2>1. PICK types \in {<<"completed">>, <<"error", "failed">>} :
            Reply(k, <<s, e>> \o Frames(k, nth[k], types))
      BY <1>6, <1>8
    <2>2. /\ types \in Seq(AnswerTypes) /\ Len(types) \in Nat \ {0}
          /\ \A i \in 1..Len(types) : types[i] \in {"completed", "failed", "pong"} <=> i = Len(types)
      <3>1. CASE types = <<"completed">>
        BY <3>1 DEF AnswerTypes
      <3>2. CASE types = <<"error", "failed">>
        BY <3>2 DEF AnswerTypes
      <3> QED BY <2>1, <3>1, <3>2
    <2>3. PICK ans : ans = Frames(k, nth[k], types)
      OBVIOUS
    <2>4. /\ ans \in Seq(Frame) /\ Len(ans) = Len(types)
          /\ \A i \in 1..Len(types) :
               /\ ans[i].of = <<k, nth[k]>> /\ ~IsSpeech(ans[i]) /\ ~IsAuto(ans[i])
               /\ IsTerminal(ans[i]) <=> types[i] \in {"completed", "failed", "pong"}
      <3>1. nth[k] \in Nat
        BY <1>1 DEF TypeOK
      <3> QED BY <2>2, <2>3, <3>1, FramesMade
    <2>5. PICK fs : fs = <<s, e>> \o ans
      OBVIOUS
    <2>6. /\ fs \in Seq(Frame) /\ Len(fs) = 2 + Len(ans) /\ fs[1] = s /\ fs[2] = e
          /\ \A i \in 3..Len(fs) : fs[i] = ans[i - 2] /\ i - 2 \in 1..Len(ans)
      BY <1>4, <1>5, <2>2, <2>4, <2>5
    <2>7. \A i \in 1..Len(fs) :
            \/ i = 1 /\ fs[i] = s
            \/ i = 2 /\ fs[i] = e
            \/ i > 2 /\ \E j \in 1..Len(ans) : fs[i] = ans[j] /\ (i = Len(fs) <=> j = Len(ans))
      <3> TAKE i \in 1..Len(fs)
      <3>1. CASE i > 2
        <4>1. i \in 3..Len(fs) /\ i - 2 \in 1..Len(ans) /\ fs[i] = ans[i - 2]
          BY <2>2, <2>4, <2>6, <3>1
        <4>2. i = Len(fs) <=> i - 2 = Len(ans)
          BY <2>2, <2>4, <2>6, <4>1
        <4> QED BY <3>1, <4>1, <4>2
      <3>2. CASE ~(i > 2)
        BY <2>6, <3>2
      <3> QED BY <3>1, <3>2
    <2>8. /\ Complete(k)' /\ at'[k] = "send" /\ kind'[k] = "speak" /\ kind[k] = "speak"
      BY <1>1, <1>6, <1>7, <1>8 DEF Complete
    <2>9. \A i \in 1..Len(fs) :
            /\ fs[i].of = Current(k) /\ ~IsAuto(fs[i])
            /\ IsTerminal(fs[i]) <=> i = Len(fs)
            /\ IsSpeech(fs[i]) => (i = 1 /\ fs[i] = s) \/ (i = 2 /\ fs[i] = e)
      <3> TAKE i \in 1..Len(fs)
      <3>1. Len(fs) # 1 /\ Len(fs) # 2
        BY <2>2, <2>4, <2>6
      <3>2. CASE i = 1 /\ fs[i] = s
        <4>1. i # Len(fs)
          BY <3>1, <3>2
        <4>2. ~IsAuto(s)
          BY <1>4, <2>8
        <4>3. ~IsTerminal(fs[i]) /\ fs[i].of = Current(k) /\ ~IsAuto(fs[i])
          BY <1>4, <4>2, <3>2, Zenon
        <4> QED BY <4>1, <4>3, <3>2
      <3>3. CASE i = 2 /\ fs[i] = e
        <4>1. i # Len(fs)
          BY <3>1, <3>3
        <4>2. ~IsAuto(e)
          BY <1>5, <2>8
        <4>3. ~IsTerminal(fs[i]) /\ fs[i].of = Current(k) /\ ~IsAuto(fs[i])
          BY <1>5, <4>2, <3>3, Zenon
        <4> QED BY <4>1, <4>3, <3>3
      <3>4. ASSUME NEW j \in 1..Len(ans), fs[i] = ans[j], i = Len(fs) <=> j = Len(ans)
            PROVE  /\ fs[i].of = Current(k) /\ ~IsAuto(fs[i])
                   /\ IsTerminal(fs[i]) <=> i = Len(fs)
                   /\ ~IsSpeech(fs[i])
        <4>1. /\ ans[j].of = Current(k) /\ ~IsSpeech(ans[j]) /\ ~IsAuto(ans[j])
              /\ IsTerminal(ans[j]) <=> j = Len(ans)
          BY <2>2, <2>4 DEF Current
        <4> QED BY <3>4, <4>1
      <3> QED BY <2>7, <3>2, <3>3, <3>4
    <2>10. MayAdd(k, fs)
      <3>1. \A i, j \in 1..Len(fs) : i < j /\ IsSpeech(fs[i]) /\ IsSpeech(fs[j]) =>
              fs[i].t = "started" /\ fs[j].t = "ended"
        BY <1>4, <1>5, <2>9
      <3>2. fs # <<>>
        BY <2>2, <2>4, <2>6
      <3> QED BY <1>1, <2>6, <2>8, <2>9, <3>1, <3>2 DEF MayAdd
    <2>11. out'[k] = out[k] \o fs /\ ~Complete(k) /\ at[k] \in Axis \cup {"spoken"}
      BY <1>1, <1>8, <2>1, <2>3, <2>5, <2>8, RepliedHere DEF Complete
    <2> QED BY <1>1, <1>8, <2>8, <2>10, <2>11, Collecting
  <1>9. ASSUME place = "cast", k \in Client
        PROVE  ClientInv(k)'
    <2>1. /\ kind[k] # "speak" /\ out' = out /\ at'[k] = "cast"
          /\ Complete(k)' <=> Complete(k)
      BY <1>1, <1>6, <1>9, <1>7 DEF Complete
    <2>2. CollectedInv(k)'
      BY <1>1, <1>9, <2>1 DEF ClientInv, CollectedInv
    <2>3. WireInv(k)'
      <3>1. \A i \in DOMAIN wire[k] : (ClosedFrom(k, i)' <=> ClosedFrom(k, i)) /\ ~InTransit(k, i)
        BY <1>1, <1>9 DEF ClosedFrom, InTransit
      <3>2. \A i \in DOMAIN wire[k] :
              LET f == wire[k][i] IN
              IF IsAuto(f) THEN \E p \in 1..(next[k] - 1) : log[p] = f
              ELSE /\ f.of[1] = k /\ f.of[2] <= nth[k]
                   /\ IsSpeech(f) => \A p \in DOMAIN log : log[p].of # f.of
                   /\ link[k] # "ended" => ~(f.of = Current(k)) /\ ClosedFrom(k, i)
        BY <1>1, <1>9, <3>1 DEF ClientInv, WireInv
      <3> QED BY <1>1, <1>9, <3>1, <3>2 DEF WireInv
    <2>4. ToldInv(k)'
      BY <1>1, <1>9, <2>1 DEF ClientInv, ToldInv
    <2> QED BY <2>2, <2>3, <2>4 DEF ClientInv
  <1>10. /\ out' \in [Caller -> Seq(Frame)] /\ out'[Console] = <<>>
         /\ \A d \in Caller \ {k} : out'[d] = out[d]
    <2>1. CASE place = "send"
      BY <1>1, <1>6, <1>8, <2>1, Replied
    <2>2. CASE place = "cast"
      BY <1>1, <1>6, <2>2 DEF TypeOK
    <2> QED BY <2>1, <2>2
  <1>11. /\ casts' \in [Caller -> Seq(Speeches)] /\ (\A d \in Caller \ {k} : casts'[d] = casts[d])
         /\ casts'[k] = IF place = "cast" THEN <<s, e>> ELSE <<>>
    <2>1. casts \in [Caller -> Seq(Speeches)] /\ casts[k] = <<>>
      BY <1>1 DEF TypeOK
    <2>2. <<s, e>> \in Seq(Speeches)
      BY <1>4, <1>5
    <2> QED BY <1>6, <2>1, <2>2
  <1>12. Inside(k)
    BY <1>1, <1>7, <1>10, <1>11 DEF Inside
  <1>13. TypeOK'
    <2>1. at' \in [Caller -> Axis \cup {"idle", "spoken", "cast", "send"}]
      BY <1>1, <1>6 DEF TypeOK
    <2>2. tries' \in [Caller -> Nat]
      <3>1. tries \in [Caller -> Nat]
        BY <1>1 DEF TypeOK
      <3> QED BY <1>1, <3>1
    <2>3. \A d \in Caller : at'[d] \in Axis => tries'[d] \in DOMAIN Chain[at'[d]]
      BY <1>1, <1>7 DEF TypeOK, Axis
    <2>4. (\A c \in Client : at'[c] = "idle" => out'[c] = <<>>) /\ at'[Console] # "send"
      BY <1>1, <1>7, <1>10, ConsoleAssumption DEF TypeOK, Caller
    <2>5. \A d \in Caller : at'[d] = "cast" <=> casts'[d] # <<>>
      <3>1. casts'[k] # <<>> <=> place = "cast"
        BY <1>6, <1>11
      <3> QED BY <1>1, <1>7, <1>11, <3>1 DEF TypeOK
    <2>6. crossed' \subseteq Caller
      BY <1>1 DEF TypeOK
    <2> QED BY <1>1, <1>10, <1>11, <2>1, <2>2, <2>3, <2>4, <2>5, <2>6 DEF TypeOK
  <1>14. SpeakerInv'
    <2>1. at'[k] # "spoken" /\ \A d \in Caller \ {k} : tries'[d] = tries[d]
      BY <1>1, <1>7 DEF TypeOK
    <2>2. \A d \in crossed' : at'[d] = "spoken"
      BY <1>1, <1>7 DEF SpeakerInv, TypeOK
    <2>3. ASSUME NEW d \in Caller \ crossed', at'[d] = "spoken"
          PROVE  active' = IF tries'[d] \in DOMAIN Chain["tts"] THEN Chain["tts"][tries'[d]] ELSE None
      <3>1. d \in Caller \ crossed /\ d # k /\ at[d] = "spoken"
        BY <1>1, <1>7, <2>1, <2>3
      <3> QED BY <1>1, <2>1, <3>1 DEF SpeakerInv
    <2> QED BY <2>2, <2>3 DEF SpeakerInv
  <1>15. CastInv(k)'
    <2>1. k \in Client => link[k] # "ended"
      BY <1>1 DEF CastInv
    <2>2. \A p \in DOMAIN log : log[p].of[1] = k => log[p].of[2] <= nth[k] /\ log[p].of # Current(k)
      BY <1>1 DEF CastInv
    <2>3. /\ Len(casts'[k]) <= 2
          /\ \A i \in DOMAIN casts'[k] :
               /\ casts'[k][i].of = Current(k) /\ casts'[k][i].auto
               /\ casts'[k][i].t = IF i = Len(casts'[k]) THEN "ended" ELSE "started"
      <3>1. CASE place = "cast"
        <4>1. casts'[k] = <<s, e>>
          BY <1>11, <3>1
        <4>2. Len(casts'[k]) = 2 /\ DOMAIN casts'[k] = 1..2 /\ casts'[k][1] = s /\ casts'[k][2] = e
          BY <4>1
        <4>3. s.auto /\ e.auto
          BY <1>4, <1>5, <1>6, <3>1
        <4> QED BY <1>4, <1>5, <4>2, <4>3
      <3>2. CASE place = "send"
        BY <1>11, <3>2
      <3> QED BY <3>1, <3>2
    <2>4. at'[k] \in {"send", "cast"} /\ (at'[k] = "cast" => kind[k] # "speak")
      BY <1>6, <1>7
    <2> QED BY <1>1, <2>1, <2>2, <2>3, <2>4 DEF CastInv
  <1> QED BY <1>1, <1>6, <1>8, <1>9, <1>12, <1>13, <1>14, <1>15, HandlerKeeps

(* A request is taken up.                                                  *)
LEMMA BeginKeeps ==
  ASSUME ServerInv, NEW k \in Caller, NEW r \in Kind, Begin(k, r),
         k = Console => Accepts(r) /\ r # "ping",
         k \in Client => link[k] # "ended",
         inbox' \in [Client -> Seq(Kind)], UNCHANGED <<setup, link, next, wire>>
  PROVE  ServerInv'
  <1> DEFINE place == IF Accepts(r) THEN FirstStage[r] ELSE "send"
             types == IF Accepts(r) THEN Opening[r] ELSE <<"planned", "error", "failed">>
             fs == Frames(k, nth[k] + 1, types)
  <1>1. /\ TypeOK /\ CastInv(k) /\ SpeakerInv /\ (k \in Client => ClientInv(k)) /\ at[k] = "idle"
        /\ kind' = [kind EXCEPT ![k] = r] /\ nth' = [nth EXCEPT ![k] = nth[k] + 1]
        /\ tries' = [tries EXCEPT ![k] = 1] /\ at' = [at EXCEPT ![k] = place]
        /\ Reply(k, fs) /\ UNCHANGED <<casts, active, crossed, log>>
    BY DEF Begin, ServerInv, ClientInv
  <1>2. /\ place \in {"send", "stt", "text", "tts"}
        /\ place = "tts" => r = "speak"
        /\ place \in {"stt", "text"} => r # "speak"
        /\ k = Console => place # "send"
    BY DEF FirstStage, Kind
  <1>3. /\ types \in Seq(AnswerTypes) /\ Len(types) \in Nat \ {0}
        /\ \A i \in 1..Len(types) :
             types[i] \in {"completed", "failed", "pong"} <=> place = "send" /\ i = Len(types)
    <2>1. CASE ~Accepts(r)
      <3>1. types = <<"planned", "error", "failed">> /\ place = "send"
        BY <2>1
      <3> HIDE DEF types, place
      <3> QED BY <3>1 DEF AnswerTypes
    <2>2. CASE Accepts(r) /\ r = "ping"
      <3>1. types = <<"pong">> /\ place = "send"
        BY <2>2 DEF Opening, FirstStage
      <3> HIDE DEF types, place
      <3> QED BY <3>1 DEF AnswerTypes
    <2>3. CASE Accepts(r) /\ r = "query"
      <3>1. types = <<"planned", "thinking">> /\ place = "text"
        BY <2>3 DEF Opening, FirstStage
      <3> HIDE DEF types, place
      <3> QED BY <3>1 DEF AnswerTypes
    <2>4. CASE Accepts(r) /\ r \in {"voice", "speak"}
      <3>1. types = <<"planned">> /\ place # "send"
        BY <2>4 DEF Opening, FirstStage
      <3> HIDE DEF types, place
      <3> QED BY <3>1 DEF AnswerTypes
    <2> QED BY <2>1, <2>2, <2>3, <2>4 DEF Kind
  <1> HIDE DEF types, place
  <1>4. /\ kind'[k] = r /\ nth'[k] = nth[k] + 1 /\ nth[k] \in Nat /\ tries'[k] = 1 /\ at'[k] = place
        /\ \A d \in Caller \ {k} :
             kind'[d] = kind[d] /\ nth'[d] = nth[d] /\ tries'[d] = tries[d] /\ at'[d] = at[d]
    BY <1>1 DEF TypeOK
  <1>5. Complete(k)' <=> place = "send"
    BY <1>2, <1>4 DEF Complete
  <1>6. k \in Client => out'[k] \in Seq(Frame) /\ ClientInv(k)'
    <2> HAVE k \in Client
    <2>1. MayAdd(k, fs)
      <3>1. Current(k)' = <<k, nth[k] + 1>>
        BY <1>4 DEF Current
      <3>2. \A i \in 1..Len(types) :
              types[i] \in {"completed", "failed", "pong"} <=> Complete(k)' /\ i = Len(types)
        BY <1>3, <1>5
      <3>3. types # <<>> /\ (Complete(k)' => at'[k] = "send")
        BY <1>3, <1>4, <1>5
      <3> QED BY <1>3, <1>4, <3>1, <3>2, <3>3, MayAddFrames
    <2>2. out'[k] = out[k] \o fs
      BY <1>1, RepliedHere
    <2>3. at'[k] # "idle"
      BY <1>2, <1>4
    <2> HIDE DEF fs
    <2> QED BY <1>1, <1>4, <2>1, <2>2, <2>3, Collecting
  <1>7. /\ out' \in [Caller -> Seq(Frame)] /\ out'[Console] = <<>>
        /\ \A d \in Caller \ {k} : out'[d] = out[d]
    BY <1>1, <1>6, Replied
  <1>8. Inside(k)
    BY <1>1, <1>4, <1>7 DEF Inside
  <1>9. TypeOK'
    <2>1. /\ kind' \in [Caller -> Kind] /\ nth' \in [Caller -> Nat] /\ tries' \in [Caller -> Nat]
      <3>1. kind \in [Caller -> Kind] /\ nth \in [Caller -> Nat] /\ tries \in [Caller -> Nat]
        BY <1>1 DEF TypeOK
      <3> QED BY <1>1, <1>4, <3>1
    <2>2. at' \in [Caller -> Axis \cup {"idle", "spoken", "cast", "send"}]
      <3>1. at \in [Caller -> Axis \cup {"idle", "spoken", "cast", "send"}]
        BY <1>1 DEF TypeOK
      <3> QED BY <1>1, <1>2, <3>1 DEF Axis
    <2>3. \A d \in Caller : at'[d] \in Axis => tries'[d] \in DOMAIN Chain[at'[d]]
      <3> SUFFICES ASSUME NEW d \in Caller, at'[d] \in Axis
                   PROVE  tries'[d] \in DOMAIN Chain[at'[d]]
        OBVIOUS
      <3>1. CASE d = k
        BY <1>4, <3>1, Chains
      <3>2. CASE d # k
        BY <1>1, <1>4, <3>2 DEF TypeOK
      <3> QED BY <3>1, <3>2
    <2>4. (\A c \in Client : at'[c] = "idle" => out'[c] = <<>>) /\ at'[Console] # "send"
      <3>1. \A c \in Client : at[c] = "idle" => out[c] = <<>>
        BY <1>1 DEF TypeOK
      <3>2. at[Console] # "send" /\ Console \in Caller
        BY <1>1 DEF TypeOK, Caller
      <3>3. at'[k] # "idle" /\ (k = Console => at'[k] # "send")
        BY <1>2, <1>4
      <3>4. ASSUME NEW c \in Client, at'[c] = "idle" PROVE out'[c] = <<>>
        <4>1. c \in Caller \ {k}
          BY <3>3, <3>4 DEF Caller
        <4> QED BY <1>4, <1>7, <3>1, <3>4, <4>1
      <3>5. at'[Console] # "send"
        BY <1>4, <3>2, <3>3
      <3> QED BY <3>4, <3>5
    <2>5. \A d \in Caller : at'[d] = "cast" <=> casts[d] # <<>>
      BY <1>1, <1>2, <1>4 DEF TypeOK
    <2> QED BY <1>1, <1>7, <2>1, <2>2, <2>3, <2>4, <2>5 DEF TypeOK
  <1>10. SpeakerInv'
    BY <1>1, <1>2, <1>4, StillSpeaker DEF TypeOK
  <1>11. CastInv(k)'
    <2>1. casts[k] = <<>>
      BY <1>1 DEF TypeOK
    <2>2. \A p \in DOMAIN log : log[p].of[1] = k => log[p].of[2] <= nth'[k] /\ log[p].of # Current(k)'
      <3> TAKE p \in DOMAIN log
      <3> HAVE log[p].of[1] = k
      <3>1. log[p].of[2] <= nth[k]
        BY <1>1 DEF CastInv
      <3>2. log[p].of[2] \in Nat
        <4>1. log[p] \in Speeches
          BY <1>1 DEF TypeOK
        <4> QED BY <4>1, EverySpeech, FrameOf
      <3>3. log[p].of[2] # nth'[k] /\ log[p].of[2] <= nth'[k]
        BY <1>4, <3>1, <3>2
      <3> QED BY <3>3 DEF Current
    <2>3. k \in Client => link'[k] # "ended"
      OBVIOUS
    <2>4. /\ at'[k] \in {"stt", "text", "cast"} => kind'[k] # "speak"
          /\ at'[k] # "spoken" /\ casts' = casts /\ log' = log
      BY <1>1, <1>2, <1>4
    <2> QED BY <2>1, <2>2, <2>3, <2>4 DEF CastInv
  <1> QED BY <1>1, <1>6, <1>8, <1>9, <1>10, <1>11, HandlerKeeps

LEMMA ReadKeeps ==
  ASSUME ServerInv, NEW c \in Client, Read(c)
  PROVE  ServerInv'
  <1>1. TypeOK /\ c \in Caller /\ c # Console
    BY ConsoleAssumption DEF ServerInv, Caller
  <1>2. inbox[c] \in Seq(Kind) /\ inbox[c] # <<>> /\ inbox \in [Client -> Seq(Kind)]
    BY <1>1 DEF Read, TypeOK
  <1>3. Head(inbox[c]) \in Kind /\ Tail(inbox[c]) \in Seq(Kind)
    BY <1>2
  <1>4. inbox' \in [Client -> Seq(Kind)]
    BY <1>2, <1>3 DEF Read
  <1>5. Begin(c, Head(inbox[c])) /\ link[c] # "ended" /\ UNCHANGED <<setup, link, next, wire>>
    BY DEF Read
  <1> QED BY <1>1, <1>3, <1>4, <1>5, BeginKeeps

LEMMA ReadLineKeeps ==
  ASSUME ServerInv, ReadLine
  PROVE  ServerInv'
  <1>1. PICK r \in Asks[Console] : Accepts(r) /\ Begin(Console, r)
    BY DEF ReadLine
  <1>2. Console \in Caller /\ r \in Kind /\ r # "ping"
    BY <1>1, AsksAssumption DEF Caller
  <1>3. inbox' \in [Client -> Seq(Kind)]
    BY DEF ReadLine, ServerInv, TypeOK
  <1>4. Console \notin Client /\ UNCHANGED <<setup, link, next, wire>>
    BY ConsoleAssumption DEF ReadLine
  <1> QED BY <1>1, <1>2, <1>3, <1>4, BeginKeeps

-----------------------------------------------------------------------------
(* A frame is broadcast                                                    *)

LEMMA OneOrTwo ==
  ASSUME NEW n \in Nat, n <= 2, n # 0
  PROVE  n \in {1, 2}
OBVIOUS

LEMMA CastKeeps ==
  ASSUME ServerInv, NEW k \in Caller, Cast(k)
  PROVE  ServerInv'
  <1> DEFINE f == Head(casts[k])
             last == Len(log) + 1
  <1>1. /\ TypeOK /\ CastInv(k) /\ SpeakerInv /\ LogInv /\ (k \in Client => ClientInv(k))
        /\ at[k] = "cast" /\ kind[k] # "speak" /\ (k \in Client => link[k] # "ended")
        /\ log' = Append(log, f) /\ casts' = [casts EXCEPT ![k] = Tail(casts[k])]
        /\ at' = [at EXCEPT ![k] = IF Len(casts[k]) = 1 THEN Finish(k) ELSE "cast"]
        /\ Current(k)' = Current(k) /\ Current(k) = <<k, nth[k]>>
        /\ UNCHANGED <<setup, link, inbox, kind, nth, tries, out, active, crossed, next, wire>>
    BY DEF Cast, ServerInv, ClientInv, CastInv, Current
  <1>2. /\ casts \in [Caller -> Seq(Speeches)] /\ casts[k] \in Seq(Speeches)
        /\ Len(casts[k]) \in {1, 2} /\ log \in Seq(Speeches) /\ Len(log) \in Nat
        /\ DOMAIN casts[k] = 1..Len(casts[k])
    <2>1. casts[k] \in Seq(Speeches) /\ casts[k] # <<>> /\ Len(casts[k]) <= 2
      BY <1>1 DEF TypeOK, CastInv
    <2>2. Len(casts[k]) \in {1, 2} /\ DOMAIN casts[k] = 1..Len(casts[k])
      <3>1. Len(casts[k]) \in Nat /\ DOMAIN casts[k] = 1..Len(casts[k])
        BY <2>1, LenProperties
      <3>2. Len(casts[k]) # 0
        BY <2>1, EmptySeq
      <3> QED BY <2>1, <3>1, <3>2, OneOrTwo
    <2>3. casts \in [Caller -> Seq(Speeches)] /\ log \in Seq(Speeches)
      BY <1>1 DEF TypeOK
    <2> QED BY <2>1, <2>2, <2>3, LenProperties
  <1>3. /\ f = casts[k][1] /\ f \in Speeches /\ f.of = Current(k) /\ f.auto
        /\ f.t = IF Len(casts[k]) = 1 THEN "ended" ELSE "started"
    <2>1. f = casts[k][1] /\ 1 \in DOMAIN casts[k]
      BY <1>2
    <2> QED BY <1>1, <1>2, <2>1 DEF CastInv
  <1>4. /\ Tail(casts[k]) \in Seq(Speeches) /\ Len(Tail(casts[k])) = Len(casts[k]) - 1
        /\ DOMAIN Tail(casts[k]) = 1..(Len(casts[k]) - 1)
        /\ \A i \in 1..(Len(casts[k]) - 1) : Tail(casts[k])[i] = casts[k][i + 1]
    <2>1. casts[k] # <<>>
      BY <1>1 DEF TypeOK
    <2> QED BY <1>2, <2>1, HeadTailProperties, LenProperties
  <1> HIDE DEF f
  <1>5. /\ log' \in Seq(Speeches) /\ Len(log') = last /\ DOMAIN log' = 1..last
        /\ last \in Nat /\ log'[last] = f /\ DOMAIN log = 1..Len(log)
        /\ \A p \in DOMAIN log : log'[p] = log[p] /\ p \in DOMAIN log' /\ p < last
        /\ \A p \in DOMAIN log' : p \in DOMAIN log \/ p = last
    BY <1>1, <1>2, <1>3
  <1> HIDE DEF last
  <1>6. /\ f \in Frame /\ IsSpeech(f) /\ IsAuto(f) /\ f.of = <<k, nth[k]>> /\ f.of[1] = k
    BY <1>1, <1>3, EverySpeech DEF IsAuto
  <1>7. /\ casts'[k] = Tail(casts[k]) /\ (\A d \in Caller \ {k} : casts'[d] = casts[d])
        /\ casts' \in [Caller -> Seq(Speeches)]
        /\ at'[k] = (IF Len(casts[k]) = 1 THEN Finish(k) ELSE "cast")
        /\ \A d \in Caller \ {k} : at'[d] = at[d]
    BY <1>1, <1>2, <1>4 DEF TypeOK
  <1>8. Finish(k) \in {"idle", "send"} /\ (Finish(k) = "idle" <=> k = Console)
    BY DEF Finish
  <1>9. TypeOK'
    <2>1. at' \in [Caller -> Axis \cup {"idle", "spoken", "cast", "send"}]
      <3>1. at \in [Caller -> Axis \cup {"idle", "spoken", "cast", "send"}]
        BY <1>1 DEF TypeOK
      <3> QED BY <1>1, <1>8, <3>1
    <2>2. \A d \in Caller : at'[d] \in Axis => tries[d] \in DOMAIN Chain[at'[d]]
      BY <1>1, <1>7, <1>8 DEF TypeOK, Axis
    <2>3. \A c \in Client : at'[c] = "idle" => out[c] = <<>>
      <3> SUFFICES ASSUME NEW c \in Client, at'[c] = "idle" PROVE out[c] = <<>>
        OBVIOUS
      <3>1. c # k /\ c \in Caller
        BY <1>7, <1>8, ConsoleAssumption DEF Caller
      <3> QED BY <1>1, <1>7, <3>1 DEF TypeOK
    <2>4. at'[Console] # "send"
      BY <1>1, <1>7, <1>8 DEF TypeOK, Caller
    <2>5. \A d \in Caller : at'[d] = "cast" <=> casts'[d] # <<>>
      <3> SUFFICES ASSUME NEW d \in Caller PROVE at'[d] = "cast" <=> casts'[d] # <<>>
        OBVIOUS
      <3>1. CASE d = k
        <4>1. Tail(casts[k]) # <<>> <=> Len(casts[k]) = 2
          BY <1>2, <1>4, EmptySeq
        <4> QED BY <1>2, <1>7, <1>8, <3>1, <4>1
      <3>2. CASE d # k
        BY <1>1, <1>7, <3>2 DEF TypeOK
      <3> QED BY <3>1, <3>2
    <2>6. next \in [Client -> 1..(Len(log') + 1)]
      <3>1. next \in [Client -> 1..(Len(log) + 1)]
        BY <1>1 DEF TypeOK
      <3>2. \A c \in Client : next[c] \in 1..(Len(log') + 1)
        BY <1>2, <1>5, <3>1 DEF last
      <3> QED BY <3>1, <3>2
    <2> QED BY <1>1, <1>5, <1>7, <2>1, <2>2, <2>3, <2>4, <2>5, <2>6 DEF TypeOK
  <1>10. SpeakerInv'
    <2>1. at'[k] # "spoken" /\ at[k] # "spoken"
      BY <1>1, <1>7, <1>8
    <2> QED BY <1>1, <1>7, <2>1, StillSpeaker DEF TypeOK
  <1>11. \A p \in DOMAIN log : log[p].of = Current(k) => Len(casts[k]) = 1 /\ log[p].t = "started"
    <2> TAKE p \in DOMAIN log
    <2> HAVE log[p].of = Current(k)
    <2>1. log[p].of[1] = k
      BY <1>1
    <2> QED BY <1>1, <2>1 DEF CastInv
  <1>12. LogInv'
    <2>1. ASSUME NEW p \in DOMAIN log', NEW q \in DOMAIN log', p < q, log'[p].of = log'[q].of
          PROVE  log'[p].t = "started" /\ log'[q].t = "ended"
      <3>1. p \in DOMAIN log /\ log'[p] = log[p]
        BY <1>5, <2>1
      <3>2. CASE q \in DOMAIN log
        BY <1>1, <1>5, <2>1, <3>1, <3>2 DEF LogInv
      <3>3. CASE q = last
        <4>1. log[p].of = Current(k)
          BY <1>3, <1>5, <2>1, <3>1, <3>3
        <4> QED BY <1>3, <1>5, <1>11, <3>1, <3>3, <4>1
      <3> QED BY <1>5, <3>2, <3>3
    <2>2. \A p \in DOMAIN log' : log'[p].auto
      BY <1>1, <1>3, <1>5 DEF LogInv
    <2> QED BY <2>1, <2>2 DEF LogInv
  <1>13. ASSUME NEW d \in Caller
         PROVE  CastInv(d)'
    <2>1. CASE d # k
      <3>1. CastInv(d) /\ d \in Caller \ {k}
        BY <2>1, <1>13 DEF ServerInv
      <3>2. \A p \in DOMAIN log' : log'[p].of[1] = d => p \in DOMAIN log /\ log'[p] = log[p]
        BY <1>5, <1>6, <2>1
      <3>3. /\ kind'[d] = kind[d] /\ nth'[d] = nth[d] /\ at'[d] = at[d] /\ casts'[d] = casts[d]
            /\ link' = link /\ Current(d)' = Current(d)
        BY <1>1, <1>7, <3>1 DEF Current
      <3> QED BY <3>1, <3>2, <3>3 DEF CastInv
    <2>2. CASE d = k
      <3>1. /\ at'[k] \in {"cast", "idle", "send"} /\ (k \in Client => at'[k] = "send" \/ at'[k] = "cast")
            /\ at'[k] = "cast" => Len(casts[k]) = 2
        BY <1>2, <1>7, <1>8, ConsoleAssumption
      <3>2. /\ Len(casts'[k]) <= 2
            /\ \A i \in DOMAIN casts'[k] :
                 /\ casts'[k][i].of = Current(k) /\ casts'[k][i].auto
                 /\ casts'[k][i].t = IF i = Len(casts'[k]) THEN "ended" ELSE "started"
        <4>1. Len(casts'[k]) = Len(casts[k]) - 1 /\ DOMAIN casts'[k] = 1..(Len(casts[k]) - 1)
          BY <1>4, <1>7
        <4>2. ASSUME NEW i \in DOMAIN casts'[k]
              PROVE  i = 1 /\ Len(casts[k]) = 2 /\ casts'[k][1] = casts[k][2]
          <5>1. CASE Len(casts[k]) = 1
            BY <4>1, <4>2, <5>1
          <5>2. CASE Len(casts[k]) = 2
            <6>1. i = 1 /\ 1 \in 1..(Len(casts[k]) - 1)
              BY <4>1, <4>2, <5>2
            <6>2. casts'[k][1] = casts[k][1 + 1]
              BY <1>4, <1>7, <6>1
            <6> QED BY <5>2, <6>1, <6>2
          <5> QED BY <1>2, <5>1, <5>2
        <4>3. Len(casts[k]) = 2 =>
                casts[k][2].of = Current(k) /\ casts[k][2].auto /\ casts[k][2].t = "ended"
          BY <1>1, <1>2 DEF CastInv
        <4>4. Len(casts'[k]) <= 2 /\ (Len(casts[k]) = 2 => Len(casts'[k]) = 1)
          <5>1. CASE Len(casts[k]) = 1
            BY <4>1, <5>1
          <5>2. CASE Len(casts[k]) = 2
            BY <4>1, <5>2
          <5> QED BY <1>2, <5>1, <5>2
        <4> QED BY <4>2, <4>3, <4>4
      <3>3. ASSUME NEW p \in DOMAIN log', log'[p].of[1] = k
            PROVE  /\ log'[p].of[2] <= nth[k]
                   /\ log'[p].of = Current(k) /\ at'[k] = "cast" =>
                        Len(casts'[k]) = 1 /\ log'[p].t = "started"
        <4>1. CASE p \in DOMAIN log
          <5>1. log'[p] = log[p] /\ log[p].of[2] <= nth[k]
            BY <1>1, <1>5, <3>3, <4>1 DEF CastInv
          <5>2. log[p].of = Current(k) => at'[k] # "cast"
            BY <1>11, <3>1, <4>1
          <5> QED BY <5>1, <5>2
        <4>2. CASE p = last
          <5>1. log'[p] = f /\ f.of[2] = nth[k] /\ nth[k] \in Nat
            BY <1>1, <1>5, <1>6, <4>2 DEF TypeOK
          <5>2. at'[k] = "cast" => Len(casts'[k]) = 1 /\ f.t = "started"
            <6> HAVE at'[k] = "cast"
            <6>1. Len(casts[k]) = 2
              BY <3>1
            <6>2. Len(casts'[k]) = Len(casts[k]) - 1
              BY <1>4, <1>7
            <6> QED BY <1>3, <6>1, <6>2
          <5> QED BY <5>1, <5>2
        <4> QED BY <1>5, <4>1, <4>2
      <3>4. CastInv(k)'
        <4>1. k \in Client /\ link'[k] = "ended" => at'[k] = "idle"
          BY <1>1
        <4>2. \A p \in DOMAIN log' : log'[p].of[1] = k =>
                /\ log'[p].of[2] <= nth'[k]
                /\ log'[p].of = Current(k)' =>
                     /\ kind'[k] # "speak"
                     /\ \/ at'[k] \in {"idle", "send"}
                        \/ at'[k] = "cast" /\ Len(casts'[k]) = 1 /\ log'[p].t = "started"
          BY <1>1, <3>1, <3>3
        <4>3. /\ at'[k] \in {"stt", "text", "cast"} => kind'[k] # "speak"
              /\ k = Console /\ at'[k] = "spoken" => kind'[k] # "speak"
          BY <1>1
        <4> QED BY <1>1, <3>2, <4>1, <4>2, <4>3 DEF CastInv
      <3> QED BY <2>2, <3>4
    <2> QED BY <2>1, <2>2
  <1>14. ASSUME NEW c \in Client
         PROVE  ClientInv(c)'
    <2>1. /\ ClientInv(c) /\ CastInv(c) /\ c \in Caller
          /\ link'[c] = link[c] /\ kind'[c] = kind[c] /\ nth'[c] = nth[c]
          /\ out'[c] = out[c] /\ wire'[c] = wire[c] /\ next'[c] = next[c]
          /\ Current(c)' = Current(c)
          /\ at'[c] = at[c] \/ (c = k /\ at'[c] \in {"cast", "send"})
      BY <1>1, <1>7, <1>8, <1>14, ConsoleAssumption DEF ServerInv, ClientInv, Caller, Current
    <2>2. Complete(c)' <=> Complete(c)
      BY <1>1, <2>1 DEF Complete
    <2>3. CollectedInv(c)'
      BY <1>1, <2>1, <2>2 DEF ClientInv, CollectedInv
    <2>4. WireInv(c)'
      <3>1. \A i \in DOMAIN wire[c] :
              ClosedFrom(c, i)' <=> ClosedFrom(c, i)
        BY <2>1 DEF ClosedFrom
      <3>2. \A i \in DOMAIN wire[c] : at[c] = at'[c] => (InTransit(c, i)' <=> InTransit(c, i))
        BY <2>1 DEF InTransit
      <3>3. ASSUME NEW i \in DOMAIN wire[c], IsAuto(wire[c][i])
            PROVE  \E p \in 1..(next'[c] - 1) : log'[p] = wire[c][i]
        <4>1. PICK p \in 1..(next[c] - 1) : log[p] = wire[c][i]
          BY <2>1, <3>3 DEF ClientInv, WireInv
        <4>2. p \in DOMAIN log
          BY <1>1, <1>2, <1>5, <1>14 DEF TypeOK
        <4> QED BY <1>5, <2>1, <4>1, <4>2
      <3>4. ASSUME NEW i \in DOMAIN wire[c], ~IsAuto(wire[c][i])
            PROVE  /\ wire[c][i].of[1] = c /\ wire[c][i].of[2] <= nth[c]
                   /\ IsSpeech(wire[c][i]) => \A p \in DOMAIN log : log[p].of # wire[c][i].of
                   /\ link[c] # "ended" =>
                        IF wire[c][i].of = Current(c) /\ at[c] # "idle"
                        THEN InTransit(c, i) ELSE ClosedFrom(c, i)
        BY <2>1, <3>4 DEF ClientInv, WireInv
      <3>5. ASSUME NEW i \in DOMAIN wire[c], ~IsAuto(wire[c][i]), c = k
            PROVE  wire[c][i].of # Current(c)
        <4>1. link[c] # "ended" /\ at[c] = "cast" /\ ~InTransit(c, i)
          BY <1>1, <1>14, <3>5 DEF InTransit
        <4> QED BY <3>4, <3>5, <4>1
      <3>6. ASSUME NEW i \in DOMAIN wire[c], ~IsAuto(wire[c][i]), IsSpeech(wire[c][i]),
                   NEW p \in DOMAIN log'
            PROVE  log'[p].of # wire[c][i].of
        <4>1. CASE p \in DOMAIN log
          BY <1>5, <3>4, <3>6, <4>1
        <4>2. CASE p = last
          <5>1. log'[p].of = Current(k) /\ Current(k)[1] = k
            BY <1>1, <1>3, <1>5, <4>2
          <5>2. wire[c][i].of[1] = c
            BY <3>4, <3>6
          <5> QED BY <3>5, <3>6, <5>1, <5>2
        <4> QED BY <1>5, <4>1, <4>2
      <3>7. ASSUME NEW i \in DOMAIN wire[c], ~IsAuto(wire[c][i]), link[c] # "ended"
            PROVE  IF wire[c][i].of = Current(c) /\ at'[c] # "idle"
                   THEN InTransit(c, i)' ELSE ClosedFrom(c, i)'
        <4>1. CASE at'[c] = at[c]
          BY <3>1, <3>2, <3>4, <3>7, <4>1
        <4>2. CASE c = k
          BY <3>1, <3>4, <3>5, <3>7, <4>2
        <4> QED BY <2>1, <4>1, <4>2
      <3> QED BY <2>1, <3>3, <3>4, <3>6, <3>7 DEF WireInv
    <2>5. ToldInv(c)'
      <3> SUFFICES ASSUME link[c] # "ended", NEW p \in DOMAIN log', log'[p].of[1] = c
                   PROVE  \/ \E i \in DOMAIN wire[c] :
                                wire[c][i] = [t |-> "completed", of |-> log'[p].of]
                          \/ /\ log'[p].of = Current(c) /\ at'[c] \in {"cast", "send"}
                             /\ out[c][Len(out[c])].t = "completed"
        BY <2>1 DEF ToldInv
      <3>1. CASE p \in DOMAIN log
        <4>1. log'[p] = log[p]
          BY <1>5, <3>1
        <4> QED BY <2>1, <3>1, <4>1 DEF ClientInv, ToldInv
      <3>2. CASE p = last
        <4>1. c = k /\ log'[p].of = Current(c) /\ at'[c] \in {"cast", "send"}
          <5>1. log'[p] = f /\ c = k
            BY <1>5, <1>6, <3>2
          <5>2. at'[c] = at[c] \/ at'[c] \in {"cast", "send"}
            BY <2>1
          <5> QED BY <1>1, <1>3, <5>1, <5>2
        <4>2. Complete(c) /\ at[c] # "send"
          BY <1>1, <4>1 DEF Complete
        <4>3. out[c][Len(out[c])].t = "completed"
          BY <2>1, <4>2 DEF ClientInv, CollectedInv
        <4> QED BY <4>1, <4>3
      <3> QED BY <1>5, <3>1, <3>2
    <2> QED BY <2>3, <2>4, <2>5 DEF ClientInv
  <1>15. AnswersAreWhole' /\ SpeechFollowsItsAnswer' /\ SpeechIsPaired'
    BY <1>1, StillWire DEF ServerInv
  <1> QED BY <1>9, <1>10, <1>12, <1>13, <1>14, <1>15 DEF ServerInv, ClientInv

-----------------------------------------------------------------------------
(* Peers and the loop of a connection                                      *)

(* What changes neither a socket's frames nor the work of a handler.       *)
LEMMA BesidesKeeps ==
  ASSUME ServerInv, TypeOK', UNCHANGED <<setup, work, wire>>,
         \A c \in Client : link'[c] = "ended" <=> link[c] = "ended",
         \A c \in Client : next'[c] >= next[c]
  PROVE  ServerInv'
  <1>1. /\ TypeOK /\ SpeakerInv /\ LogInv /\ AnswersAreWhole /\ SpeechFollowsItsAnswer /\ SpeechIsPaired
        /\ UNCHANGED <<kind, nth, at, tries, out, casts, active, crossed, log, wire>>
    BY DEF ServerInv, work
  <1>2. SpeakerInv'
    BY <1>1 DEF SpeakerInv
  <1>3. ASSUME NEW k \in Caller PROVE CastInv(k)'
    BY <1>1, <1>3, StillCaller DEF ServerInv
  <1>4. ASSUME NEW c \in Client PROVE ClientInv(c)'
    <2>1. next'[c] \in Nat
      <3>1. next'[c] \in 1..(Len(log') + 1)
        BY <1>4 DEF TypeOK
      <3> QED BY <3>1
    <2>2. ClientInv(c) /\ next'[c] >= next[c] /\ (link'[c] = "ended" <=> link[c] = "ended")
      BY <1>4 DEF ServerInv, ClientInv
    <2> QED BY <1>1, <1>4, <2>1, <2>2, StillClient
  <1>5. LogInv' /\ AnswersAreWhole' /\ SpeechFollowsItsAnswer' /\ SpeechIsPaired'
    BY <1>1, StillLog, StillWire
  <1> QED BY <1>2, <1>3, <1>4, <1>5 DEF ServerInv, ClientInv

LEMMA PeerKeeps ==
  ASSUME ServerInv, NEW c \in Client, Peer(c)
  PROVE  ServerInv'
  <1>1. TypeOK /\ next \in [Client -> 1..(Len(log) + 1)] /\ Len(log) \in Nat
        /\ link \in [Client -> {"new", "up", "cut", "stuck", "ended"}]
        /\ inbox \in [Client -> Seq(Kind)]
    BY DEF ServerInv, TypeOK
  <1>2. CASE Connect(c)
    <2>1. link'[c] = "up" /\ link[c] = "new" /\ (\A d \in Client \ {c} : link'[d] = link[d])
          /\ link' \in [Client -> {"new", "up", "cut", "stuck", "ended"}]
      BY <1>1, <1>2 DEF Connect
    <2>2. next' \in [Client -> 1..(Len(log) + 1)] /\ \A d \in Client : next'[d] >= next[d]
      BY <1>1, <1>2 DEF Connect
    <2>3. UNCHANGED <<setup, inbox, work, wire>>
      BY <1>2 DEF Connect
    <2>4. TypeOK'
      BY <1>1, <2>1, <2>2, <2>3 DEF TypeOK, work
    <2> QED BY <2>1, <2>2, <2>3, <2>4, BesidesKeeps
  <1>3. CASE Ask(c)
    <2>1. PICK r \in Asks[c] : inbox' = [inbox EXCEPT ![c] = Append(@, r)]
      BY <1>3 DEF Ask
    <2>2. r \in Kind
      BY <2>1, AsksAssumption DEF Caller
    <2>3. inbox' \in [Client -> Seq(Kind)]
      BY <1>1, <2>1, <2>2
    <2>4. UNCHANGED <<setup, link, work, next, wire>>
      BY <1>3 DEF Ask
    <2>5. TypeOK'
      BY <1>1, <2>3, <2>4 DEF TypeOK, work
    <2>6. \A d \in Client : next'[d] >= next[d]
      BY <1>1, <2>4
    <2> QED BY <2>4, <2>5, <2>6, BesidesKeeps
  <1>4. CASE Leave(c)
    <2>1. link'[c] # "ended" /\ link[c] # "ended" /\ (\A d \in Client \ {c} : link'[d] = link[d])
          /\ link' \in [Client -> {"new", "up", "cut", "stuck", "ended"}]
      BY <1>1, <1>4 DEF Leave
    <2>2. UNCHANGED <<setup, inbox, work, next, wire>>
      BY <1>4 DEF Leave
    <2>3. TypeOK'
      BY <1>1, <2>1, <2>2 DEF TypeOK, work
    <2>4. \A d \in Client : next'[d] >= next[d]
      BY <1>1, <2>2
    <2> QED BY <2>1, <2>2, <2>3, <2>4, BesidesKeeps
  <1> QED BY <1>2, <1>3, <1>4 DEF Peer

LEMMA LaggedKeeps ==
  ASSUME ServerInv, NEW c \in Client, Lagged(c)
  PROVE  ServerInv'
  <1>1. TypeOK /\ next \in [Client -> 1..(Len(log) + 1)] /\ Len(log) \in Nat /\ Capacity \in Nat \ {0}
    BY CapacityAssumption DEF ServerInv, TypeOK
  <1>2. /\ next' = [next EXCEPT ![c] = Len(log) + 1 - Capacity]
        /\ Len(log) + 1 - next[c] > Capacity /\ UNCHANGED <<setup, link, inbox, work, wire>>
    BY DEF Lagged, Behind
  <1>3. /\ Len(log) + 1 - Capacity \in 1..(Len(log) + 1)
        /\ Len(log) + 1 - Capacity >= next[c]
    BY <1>1, <1>2
  <1>4. next' \in [Client -> 1..(Len(log) + 1)] /\ \A d \in Client : next'[d] >= next[d]
    BY <1>1, <1>2, <1>3
  <1>5. TypeOK'
    BY <1>1, <1>2, <1>4 DEF TypeOK, work
  <1> QED BY <1>2, <1>4, <1>5, BesidesKeeps

LEMMA EndKeeps ==
  ASSUME ServerInv, NEW c \in Client, End(c)
  PROVE  ServerInv'
  <1>1. /\ TypeOK /\ CastInv(c) /\ SpeakerInv /\ ClientInv(c) /\ c \in Caller /\ c # Console
        /\ at[c] \in {"send", "idle"}
        /\ link' = [link EXCEPT ![c] = "ended"] /\ at' = [at EXCEPT ![c] = "idle"]
        /\ out' = [out EXCEPT ![c] = <<>>] /\ inbox' = [inbox EXCEPT ![c] = <<>>]
        /\ UNCHANGED <<setup, kind, nth, tries, casts, active, crossed, log, next, wire>>
    BY ConsoleAssumption DEF End, ServerInv, ClientInv, Caller
  <1>2. /\ link'[c] = "ended" /\ at'[c] = "idle" /\ out'[c] = <<>>
        /\ \A d \in Caller \ {c} : at'[d] = at[d] /\ out'[d] = out[d]
        /\ \A d \in Client \ {c} : link'[d] = link[d]
    BY <1>1 DEF TypeOK
  <1>3. Inside(c)
    BY <1>1, <1>2 DEF Inside
  <1>4. TypeOK'
    <2>1. /\ link' \in [Client -> {"new", "up", "cut", "stuck", "ended"}]
          /\ inbox' \in [Client -> Seq(Kind)]
          /\ at' \in [Caller -> Axis \cup {"idle", "spoken", "cast", "send"}]
          /\ out' \in [Caller -> Seq(Frame)]
      <3>1. /\ link \in [Client -> {"new", "up", "cut", "stuck", "ended"}]
            /\ inbox \in [Client -> Seq(Kind)]
            /\ at \in [Caller -> Axis \cup {"idle", "spoken", "cast", "send"}]
            /\ out \in [Caller -> Seq(Frame)]
        BY <1>1 DEF TypeOK
      <3>2. <<>> \in Seq(Kind) /\ <<>> \in Seq(Frame)
        OBVIOUS
      <3> QED BY <1>1, <3>1, <3>2
    <2>2. \A d \in Caller : at'[d] \in Axis => tries[d] \in DOMAIN Chain[at'[d]]
      BY <1>1, <1>2 DEF TypeOK, Axis
    <2>3. \A d \in Client : at'[d] = "idle" => out'[d] = <<>>
      BY <1>1, <1>2 DEF TypeOK, Caller
    <2>4. at'[Console] # "send" /\ out'[Console] = <<>>
      BY <1>1, <1>2 DEF TypeOK, Caller
    <2>5. \A d \in Caller : at'[d] = "cast" <=> casts[d] # <<>>
      BY <1>1, <1>2 DEF TypeOK
    <2> QED BY <1>1, <2>1, <2>2, <2>3, <2>4, <2>5 DEF TypeOK
  <1>5. SpeakerInv'
    BY <1>1, <1>2, StillSpeaker DEF TypeOK
  <1>6. CastInv(c)'
    BY <1>1, <1>2 DEF CastInv, Current
  <1>7. ClientInv(c)'
    <2>1. CollectedInv(c)'
      BY <1>2 DEF CollectedInv, Complete
    <2>2. WireInv(c)'
      BY <1>1, <1>2 DEF ClientInv, WireInv
    <2>3. ToldInv(c)'
      BY <1>2 DEF ToldInv
    <2> QED BY <2>1, <2>2, <2>3 DEF ClientInv
  <1> QED BY <1>1, <1>3, <1>4, <1>5, <1>6, <1>7, HandlerKeeps

-----------------------------------------------------------------------------
(* A frame is written to a socket                                          *)

LEMMA Appended ==
  ASSUME NEW S, NEW s \in Seq(S), NEW x \in S, NEW s1, s1 = Append(s, x), NEW n, n = Len(s) + 1
  PROVE  /\ s1 \in Seq(S) /\ Len(s1) = n /\ DOMAIN s1 = 1..n /\ s1[n] = x
         /\ n \in Nat /\ Len(s) \in Nat /\ DOMAIN s = 1..Len(s)
         /\ \A i \in DOMAIN s : s1[i] = s[i] /\ i \in DOMAIN s1 /\ i < n
         /\ \A i \in DOMAIN s1 : i \in DOMAIN s \/ i = n
OBVIOUS

(* The three properties of one socket.                                     *)
Unbroken(w, i, j) ==
  IF w[i].of = w[j].of
    THEN ~IsTerminal(w[i]) /\ \A m \in i..j : w[m].of = w[i].of /\ ~IsAuto(w[m])
    ELSE w[i].of[2] < w[j].of[2] /\ \E m \in i..(j - 1) : w[m].of = w[i].of /\ IsTerminal(w[m])
WholeOn(c, w) ==
  \A i, j \in DOMAIN w : (i < j /\ IsAnswer(c, w[i]) /\ IsAnswer(c, w[j])) => Unbroken(w, i, j)
FollowsOn(c, w) ==
  \A j \in DOMAIN w : (IsAuto(w[j]) /\ w[j].of[1] = c) =>
    \E i \in 1..(j - 1) : w[i] = [t |-> "completed", of |-> w[j].of]
PairedOn(w) ==
  /\ \A i, j \in DOMAIN w : (i < j /\ IsSpeech(w[i]) /\ IsSpeech(w[j]) /\ w[i].of = w[j].of) =>
       w[i].t = "started" /\ w[j].t = "ended"
  /\ \A i \in DOMAIN w : NamesItsVoice(w[i])

(* The frame f may follow what is on the socket.                           *)
Continues(c, w, f) ==
  \A i \in DOMAIN w : IsAnswer(c, w[i]) /\ IsAnswer(c, f) =>
    IF w[i].of = f.of
      THEN ~IsTerminal(w[i]) /\ ~IsAuto(f) /\ \A m \in i..Len(w) : w[m].of = w[i].of /\ ~IsAuto(w[m])
      ELSE w[i].of[2] < f.of[2] /\ \E m \in i..Len(w) : w[m].of = w[i].of /\ IsTerminal(w[m])

LEMMA Sockets ==
  /\ AnswersAreWhole <=> \A c \in Client : WholeOn(c, wire[c])
  /\ SpeechFollowsItsAnswer <=> \A c \in Client : FollowsOn(c, wire[c])
  /\ SpeechIsPaired <=> \A c \in Client : PairedOn(wire[c])
  <1>1. AnswersAreWhole <=> \A c \in Client : WholeOn(c, wire[c])
    BY DEF AnswersAreWhole, WholeOn, Unbroken
  <1>2. SpeechFollowsItsAnswer <=> \A c \in Client : FollowsOn(c, wire[c])
    BY DEF SpeechFollowsItsAnswer, FollowsOn
  <1>3. SpeechIsPaired <=> \A c \in Client : PairedOn(wire[c])
    BY DEF SpeechIsPaired, PairedOn
  <1> QED BY <1>1, <1>2, <1>3

LEMMA NextSockets ==
  /\ AnswersAreWhole' <=> \A c \in Client : WholeOn(c, wire'[c])
  /\ SpeechFollowsItsAnswer' <=> \A c \in Client : FollowsOn(c, wire'[c])
  /\ SpeechIsPaired' <=> \A c \in Client : PairedOn(wire'[c])
  <1>1. AnswersAreWhole' <=> \A c \in Client : WholeOn(c, wire'[c])
    BY DEF AnswersAreWhole, WholeOn, Unbroken, IsAnswer
  <1>2. SpeechFollowsItsAnswer' <=> \A c \in Client : FollowsOn(c, wire'[c])
    BY DEF SpeechFollowsItsAnswer, FollowsOn
  <1>3. SpeechIsPaired' <=> \A c \in Client : PairedOn(wire'[c])
    BY DEF SpeechIsPaired, PairedOn
  <1> QED BY <1>1, <1>2, <1>3

LEMMA WholeAppended ==
  ASSUME NEW c \in Client, NEW w \in Seq(Frame), NEW f \in Frame, NEW w1, w1 = Append(w, f),
         WholeOn(c, w),
         Continues(c, w, f)
  PROVE  WholeOn(c, w1)
  <1>1. PICK last : last = Len(w) + 1
    OBVIOUS
  <1>2. /\ w1[last] = f /\ DOMAIN w1 = 1..last
        /\ last \in Nat /\ Len(w) \in Nat /\ DOMAIN w = 1..Len(w)
        /\ \A i \in DOMAIN w : w1[i] = w[i] /\ i \in DOMAIN w1 /\ i < last
        /\ \A i \in DOMAIN w1 : i \in DOMAIN w \/ i = last
    BY <1>1, Appended
  <1> SUFFICES ASSUME NEW i \in DOMAIN w1, NEW j \in DOMAIN w1,
                      i < j, IsAnswer(c, w1[i]), IsAnswer(c, w1[j])
               PROVE  Unbroken(w1, i, j)
    BY DEF WholeOn
  <1>3. i \in Nat /\ j \in Nat /\ i \in DOMAIN w /\ w1[i] = w[i]
    BY <1>2
  <1>4. CASE j \in DOMAIN w
    <2>1. w1[j] = w[j] /\ \A m \in i..j : m \in DOMAIN w /\ w1[m] = w[m]
      BY <1>2, <1>3, <1>4
    <2>2. Unbroken(w, i, j)
      BY <1>3, <1>4, <2>1 DEF WholeOn
    <2>3. CASE w[i].of = w[j].of
      BY <1>3, <2>1, <2>2, <2>3 DEF Unbroken
    <2>4. CASE w[i].of # w[j].of
      <3>1. PICK m \in i..(j - 1) : w[m].of = w[i].of /\ IsTerminal(w[m])
        BY <2>2, <2>4 DEF Unbroken
      <3>2. m \in i..j
        BY <1>3
      <3>3. w1[m] = w[m]
        BY <2>1, <3>2
      <3> QED BY <1>3, <2>1, <2>2, <2>4, <3>1, <3>3 DEF Unbroken
    <2> QED BY <2>3, <2>4
  <1>5. CASE j = last
    <2>1. w1[j] = f
      BY <1>2, <1>5
    <2>2. IF w[i].of = f.of
            THEN ~IsTerminal(w[i]) /\ ~IsAuto(f)
                 /\ \A m \in i..Len(w) : w[m].of = w[i].of /\ ~IsAuto(w[m])
            ELSE w[i].of[2] < f.of[2]
                 /\ \E m \in i..Len(w) : w[m].of = w[i].of /\ IsTerminal(w[m])
      BY <1>3, <2>1 DEF Continues
    <2>3. \A m \in i..Len(w) : w1[m] = w[m]
      BY <1>2, <1>3
    <2>4. CASE w[i].of = f.of
      <3>1. ASSUME NEW m \in i..j PROVE w1[m].of = w1[i].of /\ ~IsAuto(w1[m])
        <4>1. m \in i..Len(w) \/ m = last
          BY <1>1, <1>2, <1>3, <1>5
        <4>2. CASE m = last
          BY <1>2, <1>3, <2>2, <2>4, <4>2
        <4>3. CASE m \in i..Len(w)
          BY <1>3, <2>2, <2>3, <2>4, <4>3
        <4> QED BY <4>1, <4>2, <4>3
      <3> QED BY <1>3, <2>1, <2>2, <2>4, <3>1 DEF Unbroken
    <2>5. CASE w[i].of # f.of
      <3>1. PICK m \in i..Len(w) : w[m].of = w[i].of /\ IsTerminal(w[m])
        BY <2>2, <2>5
      <3>2. m \in i..(j - 1) /\ w1[m] = w[m]
        BY <1>1, <1>2, <1>3, <1>5, <2>3
      <3> QED BY <1>3, <2>1, <2>2, <2>5, <3>1, <3>2 DEF Unbroken
    <2> QED BY <2>4, <2>5
  <1> QED BY <1>2, <1>4, <1>5

LEMMA FollowsAppended ==
  ASSUME NEW c \in Client, NEW w \in Seq(Frame), NEW f \in Frame, NEW w1, w1 = Append(w, f),
         FollowsOn(c, w),
         IsAuto(f) /\ f.of[1] = c => \E i \in DOMAIN w : w[i] = [t |-> "completed", of |-> f.of]
  PROVE  FollowsOn(c, w1)
  <1>1. PICK last : last = Len(w) + 1
    OBVIOUS
  <1>2. /\ w1[last] = f /\ DOMAIN w1 = 1..last
        /\ last \in Nat /\ Len(w) \in Nat /\ DOMAIN w = 1..Len(w)
        /\ \A i \in DOMAIN w : w1[i] = w[i] /\ i \in DOMAIN w1 /\ i < last
        /\ \A i \in DOMAIN w1 : i \in DOMAIN w \/ i = last
    BY <1>1, Appended
  <1> SUFFICES ASSUME NEW j \in DOMAIN w1, IsAuto(w1[j]), w1[j].of[1] = c
               PROVE  \E i \in 1..(j - 1) : w1[i] = [t |-> "completed", of |-> w1[j].of]
    BY DEF FollowsOn
  <1>3. CASE j \in DOMAIN w
    <2>1. w1[j] = w[j]
      BY <1>2, <1>3
    <2>2. PICK i \in 1..(j - 1) : w[i] = [t |-> "completed", of |-> w[j].of]
      BY <1>3, <2>1 DEF FollowsOn
    <2>3. w1[i] = w[i]
      BY <1>2, <1>3
    <2> QED BY <2>1, <2>2, <2>3
  <1>4. CASE j = last
    <2>1. w1[j] = f
      BY <1>2, <1>4
    <2>2. PICK i \in DOMAIN w : w[i] = [t |-> "completed", of |-> f.of]
      BY <2>1
    <2>3. i \in 1..(j - 1) /\ w1[i] = w[i]
      BY <1>2, <1>4
    <2> QED BY <2>1, <2>2, <2>3
  <1> QED BY <1>2, <1>3, <1>4

LEMMA PairedAppended ==
  ASSUME NEW w \in Seq(Frame), NEW f \in Frame, NEW w1, w1 = Append(w, f), PairedOn(w),
         \A i \in DOMAIN w : IsSpeech(w[i]) /\ IsSpeech(f) /\ w[i].of = f.of =>
           w[i].t = "started" /\ f.t = "ended"
  PROVE  PairedOn(w1)
  <1>1. PICK last : last = Len(w) + 1
    OBVIOUS
  <1>2. /\ w1[last] = f /\ DOMAIN w1 = 1..last
        /\ last \in Nat /\ Len(w) \in Nat /\ DOMAIN w = 1..Len(w)
        /\ \A i \in DOMAIN w : w1[i] = w[i] /\ i \in DOMAIN w1 /\ i < last
        /\ \A i \in DOMAIN w1 : i \in DOMAIN w \/ i = last
    BY <1>1, Appended
  <1>3. NamesItsVoice(f)
    BY AnswerFrame, SpeechFrame
  <1>4. ASSUME NEW i \in DOMAIN w1 PROVE NamesItsVoice(w1[i])
    <2>1. CASE i \in DOMAIN w
      BY <1>2, <2>1 DEF PairedOn
    <2>2. CASE i = last
      BY <1>2, <1>3, <2>2
    <2> QED BY <1>2, <2>1, <2>2
  <1>5. ASSUME NEW i \in DOMAIN w1, NEW j \in DOMAIN w1, i < j,
               IsSpeech(w1[i]), IsSpeech(w1[j]), w1[i].of = w1[j].of
        PROVE  w1[i].t = "started" /\ w1[j].t = "ended"
    <2>1. i \in DOMAIN w /\ w1[i] = w[i]
      BY <1>2, <1>5
    <2>2. CASE j \in DOMAIN w
      <3>1. w1[j] = w[j]
        BY <1>2, <2>2
      <3> QED BY <1>5, <2>1, <2>2, <3>1 DEF PairedOn
    <2>3. CASE j = last
      <3>1. w1[j] = f
        BY <1>2, <2>3
      <3> QED BY <1>5, <2>1, <3>1
    <2> QED BY <1>2, <2>2, <2>3
  <1> QED BY <1>4, <1>5 DEF PairedOn

(* What writing a frame to the socket of c leaves of the others, and what  *)
(* is to be shown of this one.                                             *)
LEMMA WritingKeeps ==
  ASSUME ServerInv, NEW c \in Client, NEW f \in Frame,
         wire' = [wire EXCEPT ![c] = Append(wire[c], f)], link' = link, log' = log,
         \A d \in Caller \ {c} : kind'[d] = kind[d] /\ nth'[d] = nth[d] /\ at'[d] = at[d]
                                 /\ out'[d] = out[d] /\ casts'[d] = casts[d],
         \A d \in Client \ {c} : next'[d] = next[d],
         TypeOK', SpeakerInv', CastInv(c)', ClientInv(c)',
         Continues(c, wire[c], f),
         IsAuto(f) /\ f.of[1] = c =>
           \E i \in DOMAIN wire[c] : wire[c][i] = [t |-> "completed", of |-> f.of],
         \A i \in DOMAIN wire[c] : LET g == wire[c][i] IN
           IsSpeech(g) /\ IsSpeech(f) /\ g.of = f.of => g.t = "started" /\ f.t = "ended"
  PROVE  ServerInv'
  <1>1. TypeOK /\ AnswersAreWhole /\ SpeechFollowsItsAnswer /\ SpeechIsPaired
    BY DEF ServerInv
  <1>2. wire \in [Client -> Seq(Frame)] /\ next \in [Client -> 1..(Len(log) + 1)]
    BY <1>1 DEF TypeOK
  <1>3. PICK w : w = wire[c] /\ w \in Seq(Frame)
    BY <1>2
  <1>4. wire'[c] = Append(w, f) /\ \A d \in Client \ {c} : wire'[d] = wire[d] /\ d \in Caller \ {c}
    BY <1>2, <1>3 DEF Caller
  <1>5. ASSUME NEW d \in Caller PROVE CastInv(d)'
    <2>1. CASE d # c
      <3>1. d \in Caller \ {c} /\ CastInv(d)
        BY <2>1 DEF ServerInv
      <3> QED BY <3>1, StillCaller
    <2> QED BY <2>1
  <1>6. ASSUME NEW d \in Client PROVE ClientInv(d)'
    <2>1. CASE d # c
      <3>1. d \in Client \ {c} /\ d \in Caller \ {c} /\ ClientInv(d)
        BY <1>4, <2>1 DEF ServerInv, ClientInv
      <3>2. next[d] \in Nat
        BY <1>2
      <3>3. wire'[d] = wire[d]
        BY <1>4, <3>1
      <3> QED BY <1>1, <3>1, <3>2, <3>3, StillClient
    <2> QED BY <2>1
  <1>7. WholeOn(c, w) /\ FollowsOn(c, w) /\ PairedOn(w)
    BY <1>1, <1>3, Sockets
  <1>0. PICK w1 : w1 = wire'[c] /\ w1 = Append(w, f)
    BY <1>4
  <1>8. WholeOn(c, wire'[c])
    <2>1. Continues(c, w, f)
      BY <1>3
    <2>2. WholeOn(c, w1)
      BY <1>3, <1>0, <1>7, <2>1, WholeAppended
    <2> QED BY <1>0, <2>2
  <1>9. FollowsOn(c, wire'[c])
    <2>1. IsAuto(f) /\ f.of[1] = c => \E i \in DOMAIN w : w[i] = [t |-> "completed", of |-> f.of]
      BY <1>3
    <2>2. FollowsOn(c, w1)
      BY <1>3, <1>0, <1>7, <2>1, FollowsAppended
    <2> QED BY <1>0, <2>2
  <1>10. PairedOn(wire'[c])
    <2>1. \A i \in DOMAIN w : IsSpeech(w[i]) /\ IsSpeech(f) /\ w[i].of = f.of =>
            w[i].t = "started" /\ f.t = "ended"
      BY <1>3
    <2>2. PairedOn(w1)
      BY <1>3, <1>0, <1>7, <2>1, PairedAppended
    <2> QED BY <1>0, <2>2
  <1>11. ASSUME NEW d \in Client
         PROVE  WholeOn(d, wire'[d]) /\ FollowsOn(d, wire'[d]) /\ PairedOn(wire'[d])
    <2>1. CASE d # c
      <3>1. wire'[d] = wire[d]
        BY <1>4, <2>1
      <3> QED BY <1>1, <3>1, Sockets
    <2> QED BY <1>8, <1>9, <1>10, <2>1
  <1>12. LogInv'
    BY StillLog DEF ServerInv
  <1>13. AnswersAreWhole' /\ SpeechFollowsItsAnswer' /\ SpeechIsPaired'
    BY <1>11, NextSockets
  <1> QED BY <1>5, <1>6, <1>12, <1>13 DEF ServerInv, ClientInv

LEMMA Shrunk ==
  ASSUME NEW S, NEW o \in Seq(S), o # <<>>, NEW r, r = Tail(o), NEW f, f = Head(o), NEW n, n = Len(o)
  PROVE  /\ n \in Nat \ {0} /\ DOMAIN o = 1..n /\ f = o[1] /\ f \in S
         /\ r \in Seq(S) /\ Len(r) = n - 1 /\ DOMAIN r = 1..(n - 1)
         /\ \A i \in 1..(n - 1) : r[i] = o[i + 1] /\ i + 1 \in DOMAIN o
         /\ n = 1 => r = <<>>
  <1>1. n \in Nat \ {0} /\ DOMAIN o = 1..n /\ f = o[1] /\ f \in S
    OBVIOUS
  <1>2. r \in Seq(S) /\ Len(r) = n - 1 /\ DOMAIN r = 1..(n - 1)
    OBVIOUS
  <1>3. \A i \in 1..(n - 1) : r[i] = o[i + 1] /\ i + 1 \in DOMAIN o
    BY <1>1
  <1> QED BY <1>1, <1>2, <1>3, EmptySeq

(* What is closed stays closed.                                            *)
LEMMA StaysClosed ==
  ASSUME NEW c \in Client, wire[c] \in Seq(Frame), NEW f \in Frame,
         wire'[c] = Append(wire[c], f), NEW i \in DOMAIN wire[c], ClosedFrom(c, i)
  PROVE  ClosedFrom(c, i)'
  <1>1. PICK w : w = wire[c] /\ w \in Seq(Frame)
    OBVIOUS
  <1>2. PICK w1 : w1 = wire'[c] /\ w1 = Append(w, f)
    BY <1>1
  <1>3. PICK last : last = Len(w) + 1
    OBVIOUS
  <1>4. /\ Len(w1) = last /\ last \in Nat /\ Len(w) \in Nat /\ DOMAIN w = 1..Len(w)
        /\ \A j \in DOMAIN w : w1[j] = w[j]
    BY <1>1, <1>2, <1>3, Appended
  <1>5. PICK m \in i..Len(w) : w[m].of = w[i].of /\ IsTerminal(w[m])
    BY <1>1 DEF ClosedFrom
  <1>6. m \in i..Len(w1) /\ w1[m] = w[m] /\ w1[i] = w[i]
    BY <1>1, <1>3, <1>4, <1>5
  <1> QED BY <1>2, <1>5, <1>6 DEF ClosedFrom

LEMMA ForwardKeeps ==
  ASSUME ServerInv, NEW c \in Client, Forward(c)
  PROVE  ServerInv'
  <1>1. /\ TypeOK /\ SpeakerInv /\ LogInv /\ CastInv(c) /\ ClientInv(c) /\ c \in Caller
        /\ link[c] = "up" /\ at[c] = "idle" /\ Len(log) + 1 - next[c] \in 1..Capacity
        /\ wire' = [wire EXCEPT ![c] = Append(wire[c], log[next[c]])]
        /\ next' = [next EXCEPT ![c] = next[c] + 1]
        /\ UNCHANGED <<setup, link, inbox, kind, nth, at, tries, out, casts, active, crossed, log>>
    BY DEF Forward, Listening, Behind, ServerInv, ClientInv, Caller, work
  <1>2. /\ next \in [Client -> 1..(Len(log) + 1)] /\ wire \in [Client -> Seq(Frame)]
        /\ log \in Seq(Speeches) /\ out[c] = <<>>
    BY <1>1 DEF TypeOK
  <1>3. PICK n : n = next[c]
    OBVIOUS
  <1>4. n \in DOMAIN log /\ n \in Nat /\ DOMAIN log = 1..Len(log) /\ Len(log) \in Nat
    <2>1. n \in 1..(Len(log) + 1) /\ Len(log) + 1 - n >= 1 /\ Len(log) \in Nat /\ DOMAIN log = 1..Len(log)
      BY <1>1, <1>2, <1>3
    <2> QED BY <2>1
  <1>5. PICK f : f = log[n]
    OBVIOUS
  <1>6. f \in Speeches /\ f \in Frame /\ IsSpeech(f) /\ IsAuto(f) /\ ~IsAnswer(c, f)
    <2>1. f \in Speeches /\ f.auto
      BY <1>1, <1>2, <1>4, <1>5 DEF LogInv
    <2> QED BY <2>1, EverySpeech DEF IsAuto, IsAnswer
  <1>7. /\ wire' = [wire EXCEPT ![c] = Append(wire[c], f)] /\ next' = [next EXCEPT ![c] = n + 1]
        /\ wire[c] \in Seq(Frame)
    BY <1>1, <1>2, <1>3, <1>5
  <1>8. wire'[c] = Append(wire[c], f) /\ next'[c] = n + 1 /\ \A d \in Client \ {c} : next'[d] = next[d]
    BY <1>2, <1>7
  <1>9. TypeOK'
    <2>1. next' \in [Client -> 1..(Len(log) + 1)]
      BY <1>2, <1>4, <1>7
    <2>2. Append(wire[c], f) \in Seq(Frame)
      BY <1>6, <1>7
    <2>3. wire' \in [Client -> Seq(Frame)]
      BY <1>2, <1>7, <2>2
    <2> QED BY <1>1, <2>1, <2>3 DEF TypeOK
  <1>10. SpeakerInv' /\ CastInv(c)'
    BY <1>1, StillCaller DEF SpeakerInv
  <1>11. PICK w : w = wire[c] /\ w \in Seq(Frame)
    BY <1>7
  <1>12. PICK w1 : w1 = wire'[c] /\ w1 = Append(w, f)
    BY <1>8, <1>11
  <1>13. PICK last : last = Len(w) + 1
    OBVIOUS
  <1>14. /\ w1[last] = f /\ DOMAIN w1 = 1..last /\ DOMAIN w = 1..Len(w)
         /\ last \in Nat /\ Len(w) \in Nat
         /\ \A i \in DOMAIN w : w1[i] = w[i] /\ i \in DOMAIN w1
         /\ \A i \in DOMAIN w1 : i \in DOMAIN w \/ i = last
    BY <1>6, <1>11, <1>12, <1>13, Appended
  <1>15. \A i \in DOMAIN w :
           IF IsAuto(w[i]) THEN \E p \in 1..(n - 1) : log[p] = w[i]
           ELSE /\ w[i].of[1] = c /\ w[i].of[2] <= nth[c]
                /\ IsSpeech(w[i]) => \A p \in DOMAIN log : log[p].of # w[i].of
                /\ ClosedFrom(c, i)
    BY <1>1, <1>3, <1>11 DEF ClientInv, WireInv
  <1>16. ClientInv(c)'
    <2>1. CollectedInv(c)'
      BY <1>1 DEF ClientInv, CollectedInv, Complete, Current
    <2>2. WireInv(c)'
      <3>1. \A i \in DOMAIN w : ClosedFrom(c, i) => ClosedFrom(c, i)'
        BY <1>6, <1>7, <1>8, <1>11, StaysClosed
      <3>2. at'[c] = "idle" /\ log' = log /\ nth' = nth /\ next'[c] = n + 1
        BY <1>1, <1>8
      <3> SUFFICES ASSUME NEW i \in DOMAIN wire'[c]
                   PROVE  LET g == wire'[c][i] IN
                          IF IsAuto(g) THEN \E p \in 1..(next'[c] - 1) : log'[p] = g
                          ELSE /\ g.of[1] = c /\ g.of[2] <= nth'[c]
                               /\ IsSpeech(g) => \A p \in DOMAIN log' : log'[p].of # g.of
                               /\ ClosedFrom(c, i)'
        BY <3>2, Zenon DEF WireInv
      <3>0. i \in DOMAIN w1
        BY <1>12
      <3>3. CASE i \in DOMAIN w
        <4>1. PICK g : g = w[i] /\ g = wire'[c][i]
          BY <1>12, <1>14, <3>3
        <4>2. CASE IsAuto(g)
          <5>1. PICK p \in 1..(n - 1) : log[p] = g
            BY <1>15, <3>3, <4>1, <4>2
          <5>2. p \in 1..(next'[c] - 1)
            BY <1>4, <3>2
          <5> QED BY <3>2, <4>1, <4>2, <5>1, <5>2
        <4>3. CASE ~IsAuto(g)
          BY <1>15, <3>1, <3>2, <3>3, <4>1, <4>3
        <4> QED BY <4>2, <4>3
      <3>4. CASE i = last
        <4>1. n \in 1..(n + 1 - 1)
          BY <1>4
        <4> QED BY <1>5, <1>6, <1>12, <1>14, <3>2, <3>4, <4>1
      <3> QED BY <1>14, <3>0, <3>3, <3>4
    <2>3. ToldInv(c)'
      <3> SUFFICES ASSUME NEW p \in DOMAIN log, log[p].of[1] = c
                   PROVE  \E i \in DOMAIN w1 : w1[i] = [t |-> "completed", of |-> log[p].of]
        BY <1>1, <1>12 DEF ToldInv
      <3>1. PICK i \in DOMAIN w : w[i] = [t |-> "completed", of |-> log[p].of]
        BY <1>1, <1>11 DEF ClientInv, ToldInv
      <3> QED BY <1>14, <3>1
    <2> QED BY <2>1, <2>2, <2>3 DEF ClientInv
  <1>17. Continues(c, wire[c], f)
    BY <1>6 DEF Continues
  <1>18. f.of[1] = c => \E i \in DOMAIN wire[c] : wire[c][i] = [t |-> "completed", of |-> f.of]
    BY <1>1, <1>4, <1>5 DEF ClientInv, ToldInv
  <1>19. ASSUME NEW i \in DOMAIN w, IsSpeech(w[i]), w[i].of = f.of
         PROVE  w[i].t = "started" /\ f.t = "ended"
    <2>1. IsAuto(w[i])
      BY <1>4, <1>5, <1>15, <1>19
    <2>2. PICK p \in 1..(n - 1) : log[p] = w[i]
      BY <1>15, <2>1
    <2>3. p \in DOMAIN log /\ p < n
      BY <1>4
    <2> QED BY <1>1, <1>4, <1>5, <1>19, <2>2, <2>3 DEF LogInv
  <1>20. \A i \in DOMAIN wire[c] : LET g == wire[c][i] IN
           IsSpeech(g) /\ IsSpeech(f) /\ g.of = f.of => g.t = "started" /\ f.t = "ended"
    BY <1>11, <1>19
  <1> QED BY <1>1, <1>6, <1>7, <1>8, <1>9, <1>10, <1>16, <1>17, <1>18, <1>20, WritingKeeps

LEMMA SendKeeps ==
  ASSUME ServerInv, NEW c \in Client, Send(c)
  PROVE  ServerInv'
  <1>1. /\ TypeOK /\ SpeakerInv /\ CastInv(c) /\ ClientInv(c) /\ c \in Caller /\ c # Console
        /\ at[c] = "send" /\ link[c] # "ended" /\ Complete(c)
        /\ wire' = [wire EXCEPT ![c] = Append(wire[c], Head(out[c]))]
        /\ out' = [out EXCEPT ![c] = Tail(out[c])]
        /\ at' = [at EXCEPT ![c] = IF Len(out[c]) = 1 THEN "idle" ELSE "send"]
        /\ UNCHANGED <<setup, link, inbox, kind, nth, tries, casts, active, crossed, log, next>>
    BY ConsoleAssumption DEF Send, ServerInv, ClientInv, Caller, Complete
  <1>2. /\ wire \in [Client -> Seq(Frame)] /\ out \in [Caller -> Seq(Frame)]
        /\ at \in [Caller -> Axis \cup {"idle", "spoken", "cast", "send"}] /\ nth[c] \in Nat
        /\ next \in [Client -> 1..(Len(log) + 1)] /\ log \in Seq(Speeches)
    BY <1>1 DEF TypeOK
  <1>3. PICK o : o = out[c] /\ o \in Seq(Frame)
    BY <1>1, <1>2
  <1>4. PICK w : w = wire[c] /\ w \in Seq(Frame)
    BY <1>2
  <1>5. PICK f : f = Head(o)
    OBVIOUS
  <1>6. PICK r : r = Tail(o)
    OBVIOUS
  <1>7. PICK n : n = Len(o)
    OBVIOUS
  <1>8. o # <<>>
    BY <1>1, <1>3 DEF ClientInv, CollectedInv
  <1>9. /\ n \in Nat \ {0} /\ DOMAIN o = 1..n /\ f = o[1] /\ f \in Frame
        /\ r \in Seq(Frame) /\ Len(r) = n - 1 /\ DOMAIN r = 1..(n - 1)
        /\ \A i \in 1..(n - 1) : r[i] = o[i + 1] /\ i + 1 \in DOMAIN o
        /\ n = 1 => r = <<>>
    BY <1>3, <1>5, <1>6, <1>7, <1>8, Shrunk
  <1>10. /\ wire' = [wire EXCEPT ![c] = Append(wire[c], f)] /\ out' = [out EXCEPT ![c] = r]
         /\ at' = [at EXCEPT ![c] = IF n = 1 THEN "idle" ELSE "send"]
    BY <1>1, <1>3, <1>5, <1>6, <1>7
  <1>11. PICK w1 : w1 = wire'[c] /\ w1 = Append(w, f)
    BY <1>2, <1>4, <1>10
  <1>12. PICK last : last = Len(w) + 1
    OBVIOUS
  <1>13. /\ w1[last] = f /\ DOMAIN w1 = 1..last /\ Len(w1) = last /\ DOMAIN w = 1..Len(w)
         /\ last \in Nat /\ Len(w) \in Nat
         /\ \A i \in DOMAIN w : w1[i] = w[i] /\ i \in DOMAIN w1
         /\ \A i \in DOMAIN w1 : i \in DOMAIN w \/ i = last
    BY <1>4, <1>9, <1>11, <1>12, Appended
  <1>14. /\ out'[c] = r /\ at'[c] = (IF n = 1 THEN "idle" ELSE "send")
         /\ \A d \in Caller \ {c} : out'[d] = out[d] /\ at'[d] = at[d]
         /\ Current(c)' = Current(c)
    BY <1>1, <1>2, <1>10 DEF Current
  (* The frame that is written.                                            *)
  <1>15. /\ \A i \in DOMAIN o :
              /\ o[i].of = Current(c) /\ ~IsAuto(o[i])
              /\ IsTerminal(o[i]) <=> i = n
              /\ IsSpeech(o[i]) => kind[c] = "speak"
         /\ \A i, j \in DOMAIN o :
              i < j /\ IsSpeech(o[i]) /\ IsSpeech(o[j]) => o[i].t = "started" /\ o[j].t = "ended"
    BY <1>1, <1>3, <1>7 DEF ClientInv, CollectedInv
  <1>16. /\ f.of = Current(c) /\ ~IsAuto(f) /\ (IsTerminal(f) <=> n = 1)
         /\ IsSpeech(f) => kind[c] = "speak"
         /\ f.of[1] = c /\ f.of[2] = nth[c]
    <2>1. 1 \in DOMAIN o /\ (1 = n <=> n = 1)
      BY <1>9
    <2> QED BY <1>9, <1>15, <2>1 DEF Current
  <1>17. IsSpeech(f) => \A p \in DOMAIN log : log[p].of # f.of
    BY <1>1, <1>16 DEF CastInv
  (* What is already on the socket.                                        *)
  <1>18. \A i \in DOMAIN w :
           IF IsAuto(w[i]) THEN \E p \in 1..(next[c] - 1) : log[p] = w[i]
           ELSE /\ w[i].of[1] = c /\ w[i].of[2] <= nth[c]
                /\ IsSpeech(w[i]) => \A p \in DOMAIN log : log[p].of # w[i].of
                /\ IF w[i].of = Current(c) THEN InTransit(c, i) ELSE ClosedFrom(c, i)
    BY <1>1, <1>4 DEF ClientInv, WireInv
  <1>19. ASSUME NEW i \in DOMAIN w, ~IsAuto(w[i]), w[i].of = Current(c)
         PROVE  /\ ~IsTerminal(w[i])
                /\ \A m \in i..Len(w) : w[m].of = w[i].of /\ ~IsAuto(w[m])
                /\ \A j \in DOMAIN o :
                     IsSpeech(w[i]) /\ IsSpeech(o[j]) => w[i].t = "started" /\ o[j].t = "ended"
    BY <1>3, <1>4, <1>18, <1>19 DEF InTransit
  <1>20. TypeOK'
    <2>1. Append(wire[c], f) \in Seq(Frame) /\ r \in Seq(Frame)
      BY <1>4, <1>9
    <2>2. wire' \in [Client -> Seq(Frame)] /\ out' \in [Caller -> Seq(Frame)]
      BY <1>2, <1>10, <2>1
    <2>3. at' \in [Caller -> Axis \cup {"idle", "spoken", "cast", "send"}]
      BY <1>2, <1>10
    <2>4. \A d \in Caller : at'[d] \in Axis => tries[d] \in DOMAIN Chain[at'[d]]
      BY <1>1, <1>14 DEF TypeOK, Axis
    <2>5. \A d \in Client : at'[d] = "idle" => out'[d] = <<>>
      BY <1>1, <1>9, <1>14 DEF TypeOK, Caller
    <2>6. at'[Console] # "send" /\ out'[Console] = <<>>
      BY <1>1, <1>14 DEF TypeOK, Caller
    <2>7. \A d \in Caller : at'[d] = "cast" <=> casts[d] # <<>>
      BY <1>1, <1>14 DEF TypeOK
    <2> QED BY <1>1, <2>2, <2>3, <2>4, <2>5, <2>6, <2>7 DEF TypeOK
  <1>21. SpeakerInv'
    BY <1>1, <1>14, StillSpeaker DEF TypeOK
  <1>22. CastInv(c)'
    BY <1>1, <1>14 DEF CastInv, Current
  <1>23. CollectedInv(c)'
    <2>1. Complete(c)' <=> n # 1
      BY <1>14 DEF Complete
    <2>2. \A i \in DOMAIN r : i = Len(r) <=> i + 1 = n
      BY <1>9
    <2>3. ASSUME NEW i \in DOMAIN r
          PROVE  /\ r[i].of = Current(c) /\ ~IsAuto(r[i])
                 /\ IsTerminal(r[i]) <=> Complete(c)' /\ i = Len(r)
                 /\ IsSpeech(r[i]) => kind[c] = "speak" /\ at'[c] = "send"
                 /\ \A j \in DOMAIN r : i < j /\ IsSpeech(r[i]) /\ IsSpeech(r[j]) =>
                      r[i].t = "started" /\ r[j].t = "ended"
      <3>1. r[i] = o[i + 1] /\ i + 1 \in DOMAIN o /\ n # 1 /\ i \in Nat
        BY <1>9, <2>3
      <3>2. ASSUME NEW j \in DOMAIN r, i < j, IsSpeech(r[i]), IsSpeech(r[j])
            PROVE  r[i].t = "started" /\ r[j].t = "ended"
        <4>1. r[j] = o[j + 1] /\ j + 1 \in DOMAIN o /\ i + 1 < j + 1
          BY <1>9, <3>1, <3>2
        <4> QED BY <1>15, <3>1, <3>2, <4>1
      <3>3. IsTerminal(r[i]) <=> i + 1 = n
        BY <1>15, <3>1
      <3> QED BY <1>14, <1>15, <2>1, <2>2, <2>3, <3>1, <3>2, <3>3
    <2>4. ASSUME Complete(c)' PROVE r # <<>> /\ at'[c] = "send"
      BY <1>9, <1>14, <2>1, <2>4, EmptySeq
    <2>5. DOMAIN out'[c] = DOMAIN r /\ kind' = kind
      BY <1>1, <1>14
    <2> QED BY <1>14, <2>3, <2>4, <2>5 DEF CollectedInv
  <1>24. WireInv(c)'
    <2>1. log' = log /\ nth' = nth /\ next' = next /\ link' = link
      BY <1>1
    <2>2. ASSUME NEW i \in DOMAIN w1, ~IsAuto(w1[i])
          PROVE  IF w1[i].of = Current(c) /\ at'[c] # "idle"
                 THEN InTransit(c, i)' ELSE ClosedFrom(c, i)'
      <3>1. CASE w1[i].of # Current(c)
        <4>1. i \in DOMAIN w /\ w1[i] = w[i]
          BY <1>13, <1>16, <3>1
        <4>2. ClosedFrom(c, i)
          BY <1>18, <2>2, <3>1, <4>1
        <4>3. ClosedFrom(c, i)'
          BY <1>4, <1>9, <1>11, <4>1, <4>2, StaysClosed
        <4> QED BY <3>1, <4>3
      <3>2. CASE w1[i].of = Current(c) /\ n = 1
        <4>1. last \in i..Len(w1) /\ w1[last].of = w1[i].of /\ IsTerminal(w1[last])
          BY <1>13, <1>16, <3>2
        <4>2. ClosedFrom(c, i)'
          BY <1>11, <4>1 DEF ClosedFrom
        <4> QED BY <1>14, <3>2, <4>2
      <3>3. CASE w1[i].of = Current(c) /\ n # 1
        <4>1. at'[c] = "send" /\ ~IsTerminal(f)
          BY <1>14, <1>16, <3>3
        <4>2. ~IsTerminal(w1[i])
          BY <1>13, <1>19, <2>2, <3>3, <4>1
        <4>3. ASSUME NEW m \in i..Len(w1) PROVE w1[m].of = w1[i].of /\ ~IsAuto(w1[m])
          <5>1. CASE m = last
            BY <1>13, <1>16, <3>3, <5>1
          <5>2. CASE m # last
            <6>1. i \in DOMAIN w /\ w1[i] = w[i] /\ m \in i..Len(w) /\ w1[m] = w[m]
              <7>1. m \in 1..Len(w) /\ m \in i..Len(w) /\ i \in DOMAIN w
                BY <1>12, <1>13, <5>2
              <7> QED BY <1>13, <7>1
            <6> QED BY <1>19, <2>2, <3>3, <6>1
          <5> QED BY <5>1, <5>2
        <4>4. ASSUME NEW j \in DOMAIN r, IsSpeech(w1[i]), IsSpeech(r[j])
              PROVE  w1[i].t = "started" /\ r[j].t = "ended"
          <5>1. r[j] = o[j + 1] /\ j + 1 \in DOMAIN o /\ 1 \in DOMAIN o /\ 1 < j + 1
            BY <1>9
          <5>2. CASE i = last
            BY <1>9, <1>13, <1>15, <4>4, <5>1, <5>2
          <5>3. CASE i \in DOMAIN w
            <6>1. w1[i] = w[i]
              BY <1>13, <5>3
            <6> QED BY <1>19, <2>2, <3>3, <4>4, <5>1, <5>3, <6>1
          <5> QED BY <1>13, <5>2, <5>3
        <4>5. InTransit(c, i)'
          <5>1. wire'[c] = w1 /\ out'[c] = r
            BY <1>11, <1>14
          <5> QED BY <4>1, <4>2, <4>3, <4>4, <5>1 DEF InTransit
        <4> QED BY <3>3, <4>1, <4>5
      <3> QED BY <3>1, <3>2, <3>3
    <2>3. ASSUME NEW i \in DOMAIN w1, ~IsAuto(w1[i])
          PROVE  /\ w1[i].of[1] = c /\ w1[i].of[2] <= nth[c]
                 /\ IsSpeech(w1[i]) => \A p \in DOMAIN log : log[p].of # w1[i].of
      <3>1. CASE i = last
        BY <1>2, <1>13, <1>16, <1>17, <3>1
      <3>2. CASE i \in DOMAIN w
        <4>1. w1[i] = w[i]
          BY <1>13, <3>2
        <4> QED BY <1>18, <2>3, <3>2, <4>1
      <3> QED BY <1>13, <3>1, <3>2
    <2>4. ASSUME NEW i \in DOMAIN w1, IsAuto(w1[i])
          PROVE  \E p \in 1..(next[c] - 1) : log[p] = w1[i]
      <3>1. i \in DOMAIN w /\ w1[i] = w[i]
        BY <1>13, <1>16, <2>4
      <3> QED BY <1>18, <2>4, <3>1
    <2> SUFFICES ASSUME NEW i \in DOMAIN wire'[c]
                 PROVE  LET g == wire'[c][i] IN
                        IF IsAuto(g) THEN \E p \in 1..(next'[c] - 1) : log'[p] = g
                        ELSE /\ g.of[1] = c /\ g.of[2] <= nth'[c]
                             /\ IsSpeech(g) => \A p \in DOMAIN log' : log'[p].of # g.of
                             /\ link'[c] # "ended" =>
                                  IF g.of = Current(c)' /\ at'[c] # "idle"
                                  THEN InTransit(c, i)' ELSE ClosedFrom(c, i)'
      BY Zenon DEF WireInv
    <2>5. PICK g : g = wire'[c][i] /\ g = w1[i] /\ i \in DOMAIN w1
      BY <1>11
    <2>6. CASE IsAuto(g)
      BY <2>1, <2>4, <2>5, <2>6
    <2>7. CASE ~IsAuto(g)
      <3>1. IF g.of = Current(c)' /\ at'[c] # "idle" THEN InTransit(c, i)' ELSE ClosedFrom(c, i)'
        BY <1>14, <2>2, <2>5, <2>7
      <3> QED BY <2>1, <2>3, <2>5, <2>7, <3>1
    <2> QED BY <2>6, <2>7
  <1>25. ToldInv(c)'
    <2>0. log' = log /\ wire'[c] = w1 /\ out'[c] = r /\ Current(c)' = Current(c)
      BY <1>1, <1>11, <1>14
    <2> SUFFICES ASSUME NEW p \in DOMAIN log, log[p].of[1] = c
                 PROVE  \/ \E i \in DOMAIN w1 : w1[i] = [t |-> "completed", of |-> log[p].of]
                        \/ /\ log[p].of = Current(c) /\ at'[c] \in {"cast", "send"}
                           /\ r[Len(r)].t = "completed"
      BY <2>0 DEF ToldInv
    <2>1. CASE \E i \in DOMAIN w : w[i] = [t |-> "completed", of |-> log[p].of]
      BY <1>13, <2>1
    <2>2. CASE log[p].of = Current(c) /\ o[n].t = "completed" /\ n = 1
      <3>1. f.t = "completed" /\ f.of = log[p].of
        BY <1>9, <1>16, <2>2
      <3>2. f = [t |-> f.t, of |-> f.of]
        BY <1>9, <3>1, AnswerFrame DEF IsSpeech
      <3>3. last \in DOMAIN w1 /\ w1[last] = f
        BY <1>12, <1>13
      <3> QED BY <3>1, <3>2, <3>3
    <2>3. CASE log[p].of = Current(c) /\ o[n].t = "completed" /\ n # 1
      <3>1. n - 1 \in 1..(n - 1) /\ n - 1 + 1 = n
        BY <1>9, <2>3
      <3>2. r[Len(r)] = o[n]
        BY <1>9, <3>1
      <3> QED BY <1>14, <2>3, <3>2
    <2> QED BY <1>1, <1>3, <1>4, <1>7, <2>1, <2>2, <2>3 DEF ClientInv, ToldInv
  <1>26. Continues(c, wire[c], f)
    <2> SUFFICES ASSUME NEW i \in DOMAIN w, IsAnswer(c, w[i])
                 PROVE  IF w[i].of = f.of
                          THEN ~IsTerminal(w[i]) /\ ~IsAuto(f)
                               /\ \A m \in i..Len(w) : w[m].of = w[i].of /\ ~IsAuto(w[m])
                          ELSE w[i].of[2] < f.of[2]
                               /\ \E m \in i..Len(w) : w[m].of = w[i].of /\ IsTerminal(w[m])
      BY <1>4 DEF Continues
    <2>1. ~IsAuto(w[i])
      BY DEF IsAnswer
    <2>2. CASE w[i].of = f.of
      BY <1>16, <1>19, <2>1, <2>2
    <2>3. CASE w[i].of # f.of
      <3>1. PICK g \in Frame : g = w[i]
        BY <1>4
      <3>2. g.of = <<g.of[1], g.of[2]>> /\ g.of[2] \in Nat
        BY FrameOf
      <3>3. g.of[1] = c /\ g.of[2] <= nth[c] /\ ClosedFrom(c, i)
        BY <1>16, <1>18, <2>1, <2>3, <3>1
      <3>4. g.of[2] # nth[c]
        BY <1>16, <2>3, <3>1, <3>2, <3>3 DEF Current
      <3>5. g.of[2] < f.of[2]
        BY <1>2, <1>16, <3>2, <3>3, <3>4
      <3> QED BY <1>4, <2>3, <3>1, <3>3, <3>5 DEF ClosedFrom
    <2> QED BY <2>2, <2>3
  <1>27. \A i \in DOMAIN wire[c] : LET g == wire[c][i] IN
           IsSpeech(g) /\ IsSpeech(f) /\ g.of = f.of => g.t = "started" /\ f.t = "ended"
    <2> SUFFICES ASSUME NEW i \in DOMAIN w, IsSpeech(w[i]), IsSpeech(f), w[i].of = f.of
                 PROVE  w[i].t = "started" /\ f.t = "ended"
      BY <1>4
    <2>1. ~IsAuto(w[i])
      <3>1. SUFFICES ASSUME IsAuto(w[i]) PROVE FALSE
        OBVIOUS
      <3>2. PICK p \in 1..(next[c] - 1) : log[p] = w[i]
        BY <1>18, <3>1
      <3>3. p \in DOMAIN log
        <4>1. next[c] \in 1..(Len(log) + 1) /\ DOMAIN log = 1..Len(log) /\ Len(log) \in Nat
          BY <1>2
        <4> QED BY <4>1
      <3> QED BY <1>17, <3>2, <3>3
    <2>2. 1 \in DOMAIN o /\ f = o[1]
      BY <1>9
    <2> QED BY <1>16, <1>19, <2>1, <2>2
  <1>28. ClientInv(c)'
    BY <1>23, <1>24, <1>25 DEF ClientInv
  <1>29. /\ link' = link /\ log' = log /\ \A d \in Client \ {c} : next'[d] = next[d]
         /\ \A d \in Caller \ {c} : kind'[d] = kind[d] /\ nth'[d] = nth[d] /\ at'[d] = at[d]
                                   /\ out'[d] = out[d] /\ casts'[d] = casts[d]
    BY <1>1, <1>14
  <1>30. ~IsAuto(f) /\ f \in Frame /\ wire' = [wire EXCEPT ![c] = Append(wire[c], f)]
    BY <1>9, <1>10, <1>16
  <1> QED BY <1>20, <1>21, <1>22, <1>26, <1>27, <1>28, <1>29, <1>30, WritingKeeps

-----------------------------------------------------------------------------
(* The initial states, and every step                                      *)

LEMMA InitServes ==
  ASSUME Init PROVE ServerInv
  <1>1. TypeOK
    <2>1. /\ inbox \in [Client -> Seq(Kind)] /\ out \in [Caller -> Seq(Frame)]
          /\ casts \in [Caller -> Seq(Speeches)] /\ wire \in [Client -> Seq(Frame)]
          /\ log \in Seq(Speeches) /\ next \in [Client -> 1..(Len(log) + 1)]
      BY DEF Init
    <2>2. Console \in Caller /\ Client \subseteq Caller
      BY DEF Caller
    <2> QED BY <2>1, <2>2 DEF Init, TypeOK, Kind, Axis
  <1>2. SpeakerInv /\ LogInv
    BY DEF Init, SpeakerInv, LogInv
  <1>3. ASSUME NEW k \in Caller PROVE CastInv(k)
    BY DEF Init, CastInv
  <1>4. ASSUME NEW c \in Client PROVE CollectedInv(c) /\ WireInv(c) /\ ToldInv(c)
    BY DEF Init, CollectedInv, WireInv, ToldInv, Complete, Caller
  <1>5. AnswersAreWhole /\ SpeechFollowsItsAnswer /\ SpeechIsPaired
    BY DEF Init, AnswersAreWhole, SpeechFollowsItsAnswer, SpeechIsPaired
  <1> QED BY <1>1, <1>2, <1>3, <1>4, <1>5 DEF ServerInv

LEMMA StepServes ==
  ASSUME ServerInv, [Next]_vars PROVE ServerInv'
  <1>1. ASSUME NEW k \in Caller, Handler(k) PROVE ServerInv'
    BY <1>1, TryNextKeeps, HeardKeeps, AnsweredKeeps, GivesUpKeeps, SpokenKeeps, NameSpeakerKeeps,
       CastKeeps DEF Handler
  <1>2. ASSUME NEW c \in Client, Connection(c) \/ Peer(c) PROVE ServerInv'
    BY <1>2, ReadKeeps, SendKeeps, EndKeeps, ForwardKeeps, LaggedKeeps, PeerKeeps DEF Connection
  <1>3. ASSUME ReadLine PROVE ServerInv'
    BY <1>3, ReadLineKeeps
  <1>4. ASSUME UNCHANGED vars PROVE ServerInv'
    <2>1. UNCHANGED <<setup, link, inbox, work, next, wire>>
      BY <1>4 DEF vars
    <2>2. TypeOK'
      BY <2>1 DEF ServerInv, TypeOK, work
    <2>3. \A c \in Client : next'[c] >= next[c]
      <3>1. \A c \in Client : next[c] \in Nat
        BY DEF ServerInv, TypeOK
      <3> QED BY <2>1, <3>1
    <2> QED BY <2>1, <2>2, <2>3, BesidesKeeps
  <1> QED BY <1>1, <1>2, <1>3, <1>4 DEF Next

(* The invariant of the server: what its connections have collected, sent, *)
(* broadcast and have still to broadcast fits together at every moment.    *)
THEOREM ServerInvariant == Spec => []ServerInv
  BY InitServes, StepServes, PTL DEF Spec

(* On every socket the answers come whole and in the order of the requests,*)
(* whatever handlers, peers and the other connections do: handle_ws.       *)
THEOREM AnswersComeWhole == Spec => []AnswersAreWhole
  <1>1. ServerInv => AnswersAreWhole
    BY DEF ServerInv
  <1> QED BY ServerInvariant, <1>1, PTL

(* A client sees the speech of its answer after the answer, although it is *)
(* broadcast before the answer is written: maybe_auto_speak.               *)
THEOREM SpeechComesAfter == Spec => []SpeechFollowsItsAnswer
  <1>1. ServerInv => SpeechFollowsItsAnswer
    BY DEF ServerInv
  <1> QED BY ServerInvariant, <1>1, PTL

(* No socket carries the start of a speech after its end, or either twice, *)
(* and the end names who spoke unless another run has written the status.  *)
THEOREM SpeechComesInPairs == Spec => []SpeechIsPaired
  <1>1. ServerInv => SpeechIsPaired
    BY DEF ServerInv
  <1> QED BY ServerInvariant, <1>1, PTL
=============================================================================
