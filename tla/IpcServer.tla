----------------------------- MODULE IpcServer -----------------------------
(***************************************************************************)
(* The websocket server of core/src/ipc/server.rs and the requests that    *)
(* take time: submit_text, voice_once and speak_text, with the provider    *)
(* chains they run (providers/text.rs, stt.rs, tts.rs), the auto-speak     *)
(* that follows an answer, and the broadcast channel of app.rs that every  *)
(* connection forwards.                                                    *)
(*                                                                         *)
(* handle_ws is one loop per connection: it reads one frame, awaits the    *)
(* handler, writes all frames of the answer, and only when no frame is     *)
(* waiting to be read forwards one broadcast frame.  Connections run in    *)
(* parallel, as does the console loop of event_loop.rs, which uses the     *)
(* same App.                                                               *)
(*                                                                         *)
(* Left out: message texts, the gated commands (module ApprovalFlow), the  *)
(* settings handlers (AudioSettings and TextSettings; here the settings    *)
(* are fixed in setup), and the parts of a resolver's status no handler    *)
(* reads back.                                                             *)
(***************************************************************************)
EXTENDS Naturals, Sequences, SequencesExt

CONSTANTS
  Client,       \* websocket connections
  Console,      \* the console loop, a caller without a connection
  Chain,        \* axis -> its provider kinds, the primary first
  Setups,       \* the settings considered: [tts, stt, auto : BOOLEAN]
  Asks,         \* Caller -> the kinds of request it makes
  Leavers,      \* bound: clients that may close or stall their connection
  Capacity,     \* EVENTS_CHANNEL_CAPACITY
  MaxRequests,  \* bound: requests made over all callers
  None          \* no provider

Axis == {"stt", "text", "tts"}
Caller == Client \cup {Console}
Kind == {"ping", "query", "voice", "speak"}

ASSUME ConsoleAssumption == Console \notin Client
ASSUME ChainAssumption ==
  \A a \in Axis : Chain[a] \in Seq(ToSet(Chain[a])) /\ Chain[a] # <<>> /\ None \notin ToSet(Chain[a])
ASSUME AsksAssumption == Asks \in [Caller -> SUBSET Kind] /\ "ping" \notin Asks[Console]
ASSUME CapacityAssumption == Capacity \in Nat \ {0}

VARIABLES
  setup,     \* the settings of this behaviour
  link,      \* Client -> "new", "up", "cut" or "stuck" by the peer, "ended"
  inbox,     \* Client -> the requests its socket holds unread
  kind,      \* Caller -> the request it handles
  nth,       \* Caller -> how many requests it has begun
  at,        \* Caller -> where its handler is
  tries,     \* Caller -> the provider of the chain it awaits
  out,       \* Caller -> the frames of its answer collected so far
  casts,     \* Caller -> speech frames it still has to broadcast
  active,    \* the provider named in the tts resolver's shared status
  crossed,   \* callers whose speech another run has overwritten (history)
  log,       \* every frame sent on the broadcast channel
  next,      \* Client -> the position of log its receiver reads next
  wire       \* Client -> the frames written to its socket

work == <<kind, nth, at, tries, out, casts, active, crossed, log>>
vars == <<setup, link, inbox, work, next, wire>>

Primary(a) == Chain[a][1]

(* Frames name the request they belong to.  planned stands for the frames  *)
(* that open an action card (action_planned, _started and _step).          *)
Frames(k, n, types) == [i \in DOMAIN types |-> [t |-> types[i], of |-> <<k, n>>]]

(* auto tells the speech frames of maybe_auto_speak from those inside a    *)
(* speak_text answer.  voice is history: who really spoke, or None when    *)
(* another run has written the shared status before this one read it.      *)
Voice(k) ==
  IF k \in crossed THEN None
  ELSE IF tries[k] \in DOMAIN Chain["tts"] THEN Chain["tts"][tries[k]] ELSE Primary("tts")
Speech(t, k, by) ==
  [t |-> t, of |-> <<k, nth[k]>>, auto |-> kind[k] # "speak", by |-> by, voice |-> Voice(k)]

IsSpeech(f) == f.t \in {"started", "ended"}
IsAuto(f) == IsSpeech(f) /\ f.auto
IsTerminal(f) == f.t \in {"completed", "failed", "pong"}

Answers ==
  [ t  : {"pong", "planned", "thinking", "heard", "response", "completed", "error", "failed"},
    of : Caller \X Nat ]

(* The end of a speech names who spoke, the primary when none did, unless  *)
(* another caller's run has written the shared status between the end of   *)
(* the speech and the read.                                                *)
NamesItsVoice(f) == f.t = "ended" => f.voice \in {None, f.by}

Speakers == ToSet(Chain["tts"])
Speeches ==
  { f \in [ t : {"started", "ended"}, of : Caller \X Nat, auto : BOOLEAN,
            by : Speakers, voice : Speakers \cup {None} ] : NamesItsVoice(f) }
Frame == Answers \cup Speeches

TypeOK ==
  /\ setup \in Setups
  /\ link \in [Client -> {"new", "up", "cut", "stuck", "ended"}]
  /\ inbox \in [Client -> Seq(Kind)]
  /\ kind \in [Caller -> Kind]
  /\ nth \in [Caller -> Nat]
  /\ at \in [Caller -> Axis \cup {"idle", "spoken", "cast", "send"}]
  /\ tries \in [Caller -> Nat]
  /\ \A k \in Caller : at[k] \in Axis => tries[k] \in DOMAIN Chain[at[k]]
  /\ out \in [Caller -> Seq(Frame)]
  /\ \A c \in Client : at[c] = "idle" => out[c] = <<>>
  /\ at[Console] # "send" /\ out[Console] = <<>>
  /\ casts \in [Caller -> Seq(Speeches)]
  /\ \A k \in Caller : at[k] = "cast" <=> casts[k] # <<>>
  /\ active \in Speakers \cup {None}
  /\ crossed \subseteq Caller
  /\ log \in Seq(Speeches)
  /\ next \in [Client -> 1..(Len(log) + 1)]
  /\ wire \in [Client -> Seq(Frame)]

Init ==
  /\ setup \in Setups
  /\ link = [c \in Client |-> "new"]
  /\ inbox = [c \in Client |-> <<>>]
  /\ kind = [k \in Caller |-> "ping"]
  /\ nth = [k \in Caller |-> 0]
  /\ at = [k \in Caller |-> "idle"]
  /\ tries = [k \in Caller |-> 1]
  /\ out = [k \in Caller |-> <<>>]
  /\ casts = [k \in Caller |-> <<>>]
  /\ active = None
  /\ crossed = {}
  /\ log = <<>>
  /\ next = [c \in Client |-> 1]
  /\ wire = [c \in Client |-> <<>>]

-----------------------------------------------------------------------------
(***************************************************************************)
(* The peers                                                               *)
(***************************************************************************)

Requests == FoldFunction(+, 0, nth) + FoldFunction(LAMBDA q, s : Len(q) + s, 0, inbox)

(* A client connects; its receiver sees what is broadcast from now on. *)
Connect(c) ==
  /\ link[c] = "new"
  /\ link' = [link EXCEPT ![c] = "up"]
  /\ next' = [next EXCEPT ![c] = Len(log) + 1]
  /\ UNCHANGED <<setup, inbox, work, wire>>

(* The client writes a request to its socket, whatever the core is doing. *)
Ask(c) ==
  /\ link[c] = "up"
  /\ Requests < MaxRequests
  /\ \E r \in Asks[c] : inbox' = [inbox EXCEPT ![c] = Append(@, r)]
  /\ UNCHANGED <<setup, link, work, next, wire>>

(* The client closes its connection, or stops reading from it. *)
Leave(c) ==
  /\ c \in Leavers
  /\ link[c] = "up"
  /\ \E how \in {"cut", "stuck"} : link' = [link EXCEPT ![c] = how]
  /\ UNCHANGED <<setup, inbox, work, next, wire>>

-----------------------------------------------------------------------------
(***************************************************************************)
(* Handlers                                                                *)
(***************************************************************************)

(* Where a handler goes when its answer is complete. *)
Finish(k) == IF k = Console THEN "idle" ELSE "send"

Reply(k, frames) == out' = IF k = Console THEN out ELSE [out EXCEPT ![k] = @ \o frames]
ReplyTypes(k, types) == Reply(k, Frames(k, nth[k], types))

(* voice_once and speak_text are refused when the primary provider of      *)
(* their axis is not configured, whatever follows it in the chain.         *)
Accepts(r) == (r = "voice" => setup.stt) /\ (r = "speak" => setup.tts)

FirstStage == [ping |-> "send", query |-> "text", voice |-> "stt", speak |-> "tts"]
Opening == [ping  |-> <<"pong">>,    query |-> <<"planned", "thinking">>,
            voice |-> <<"planned">>, speak |-> <<"planned">>]

Begin(k, r) ==
  /\ at[k] = "idle"
  /\ kind' = [kind EXCEPT ![k] = r]
  /\ nth' = [nth EXCEPT ![k] = @ + 1]
  /\ tries' = [tries EXCEPT ![k] = 1]
  /\ at' = [at EXCEPT ![k] = IF Accepts(r) THEN FirstStage[r] ELSE "send"]
  /\ Reply(k, Frames(k, nth[k] + 1,
                      IF Accepts(r) THEN Opening[r] ELSE <<"planned", "error", "failed">>))
  /\ UNCHANGED <<casts, active, crossed, log>>

(* A connection that is doing nothing else reads the next request. *)
Read(c) ==
  /\ link[c] \in {"up", "cut", "stuck"}
  /\ inbox[c] # <<>>
  /\ Begin(c, Head(inbox[c]))
  /\ inbox' = [inbox EXCEPT ![c] = Tail(@)]
  /\ UNCHANGED <<setup, link, next, wire>>

(* The console loop reads a line; what it cannot do it only prints. *)
ReadLine ==
  /\ Requests < MaxRequests
  /\ \E r \in Asks[Console] : Accepts(r) /\ Begin(Console, r)
  /\ UNCHANGED <<setup, link, inbox, next, wire>>

(* The awaited provider fails and the chain has another: try that one. *)
TryNext(k) ==
  /\ at[k] \in Axis
  /\ tries[k] < Len(Chain[at[k]])
  /\ tries' = [tries EXCEPT ![k] = @ + 1]
  /\ UNCHANGED <<setup, link, inbox, kind, nth, at, out, casts, active, crossed, log, next, wire>>

(* The run of a chain ends: its first success wins. *)
Succeeds(k, a) == at[k] = a
Exhausts(k, a) == at[k] = a /\ tries[k] = Len(Chain[a])

(* handle_voice_once recognized something and asks the text chain. *)
Heard(k) ==
  /\ Succeeds(k, "stt")
  /\ at' = [at EXCEPT ![k] = "text"]
  /\ tries' = [tries EXCEPT ![k] = 1]
  /\ ReplyTypes(k, <<"heard", "thinking">>)
  /\ UNCHANGED <<setup, link, inbox, kind, nth, casts, active, crossed, log, next, wire>>

(* The text chain has answered; with auto_speak the handler speaks the     *)
(* answer before it returns it.                                            *)
Answered(k) ==
  /\ Succeeds(k, "text")
  /\ at' = [at EXCEPT ![k] = IF setup.auto /\ setup.tts THEN "tts" ELSE Finish(k)]
  /\ tries' = [tries EXCEPT ![k] = 1]
  /\ ReplyTypes(k, <<"response", "completed">>)
  /\ UNCHANGED <<setup, link, inbox, kind, nth, casts, active, crossed, log, next, wire>>

(* Mutant: An early return forgets the frame that closes the action. *)
GivesUp_Open(k) ==
  /\ \E a \in {"stt", "text"} : Exhausts(k, a)
  /\ at' = [at EXCEPT ![k] = Finish(k)]
  /\ ReplyTypes(k, <<"error">>)
  /\ UNCHANGED <<setup, link, inbox, kind, nth, tries, casts, active, crossed, log, next, wire>>

(* Every provider of the stt or text chain has failed. *)
GivesUp(k) ==
  /\ \E a \in {"stt", "text"} : Exhausts(k, a)
  /\ at' = [at EXCEPT ![k] = Finish(k)]
  /\ ReplyTypes(k, <<"error", "failed">>)
  /\ UNCHANGED <<setup, link, inbox, kind, nth, tries, casts, active, crossed, log, next, wire>>

(* The tts chain has spoken, or none of its providers could (tries is then *)
(* past the chain): the run records in the status that all callers share   *)
(* who spoke.  The console's own speak has no frames to make.              *)
Spoken(k) ==
  /\ \/ /\ Succeeds(k, "tts")
        /\ active' = Chain["tts"][tries[k]]
        /\ UNCHANGED tries
     \/ /\ Exhausts(k, "tts")
        /\ active' = None
        /\ tries' = [tries EXCEPT ![k] = @ + 1]
  /\ at' = [at EXCEPT ![k] = IF k = Console /\ kind[k] = "speak" THEN "idle" ELSE "spoken"]
  /\ crossed' = crossed \cup {j \in Caller \ {k} : at[j] = "spoken"}
  /\ UNCHANGED <<setup, link, inbox, kind, nth, out, casts, log, next, wire>>

(* speak_with_lifecycle_events reads the status for speaking_ended and     *)
(* returns both frames: inside the answer of speak_text, to be broadcast   *)
(* by maybe_auto_speak.                                                    *)
NameSpeaker(k) ==
  LET by == IF active = None THEN Primary("tts") ELSE active
      frames == <<Speech("started", k, Primary("tts")), Speech("ended", k, by)>>
      spoke == tries[k] <= Len(Chain["tts"])
      outcome == IF spoke THEN <<"completed">> ELSE <<"error", "failed">>
  IN  /\ at[k] = "spoken"
      /\ IF kind[k] = "speak"
           THEN /\ Reply(k, frames \o Frames(k, nth[k], outcome))
                /\ at' = [at EXCEPT ![k] = "send"]
                /\ UNCHANGED casts
           ELSE /\ casts' = [casts EXCEPT ![k] = frames]
                /\ at' = [at EXCEPT ![k] = "cast"]
                /\ UNCHANGED out
      /\ crossed' = crossed \ {k}
      /\ tries' = [tries EXCEPT ![k] = 1]
      /\ UNCHANGED <<setup, link, inbox, kind, nth, active, log, next, wire>>

(* Mutant: The collected frames are popped from the end. *)
Cast_Pops(k) ==
  /\ at[k] = "cast"
  /\ log' = Append(log, Last(casts[k]))
  /\ casts' = [casts EXCEPT ![k] = Front(@)]
  /\ at' = [at EXCEPT ![k] = IF Len(casts[k]) = 1 THEN Finish(k) ELSE "cast"]
  /\ UNCHANGED <<setup, link, inbox, kind, nth, tries, out, active, crossed, next, wire>>

(* Mutant: A handler whose client has left broadcasts nothing more. *)
Cast_Cancelled(k) ==
  /\ at[k] = "cast"
  /\ log' = Append(log, Head(casts[k]))
  /\ LET rest == IF k \in Client /\ link[k] # "up" THEN <<>> ELSE Tail(casts[k])
     IN  /\ casts' = [casts EXCEPT ![k] = rest]
         /\ at' = [at EXCEPT ![k] = IF rest = <<>> THEN Finish(k) ELSE "cast"]
  /\ UNCHANGED <<setup, link, inbox, kind, nth, tries, out, active, crossed, next, wire>>

(* maybe_auto_speak broadcasts its frames one by one and returns. *)
Cast(k) ==
  /\ at[k] = "cast"
  /\ log' = Append(log, Head(casts[k]))
  /\ casts' = [casts EXCEPT ![k] = Tail(@)]
  /\ at' = [at EXCEPT ![k] = IF Len(casts[k]) = 1 THEN Finish(k) ELSE "cast"]
  /\ UNCHANGED <<setup, link, inbox, kind, nth, tries, out, active, crossed, next, wire>>

-----------------------------------------------------------------------------
(***************************************************************************)
(* The loop of a connection                                                *)
(***************************************************************************)

(* One frame of the answer is written; nothing else is done before the     *)
(* last one.  Writing to a peer that has closed may still succeed.         *)
Send(c) ==
  /\ at[c] = "send"
  /\ link[c] \in {"up", "cut"}
  /\ wire' = [wire EXCEPT ![c] = Append(@, Head(out[c]))]
  /\ out' = [out EXCEPT ![c] = Tail(@)]
  /\ at' = [at EXCEPT ![c] = IF Len(out[c]) = 1 THEN "idle" ELSE "send"]
  /\ UNCHANGED <<setup, link, inbox, kind, nth, tries, casts, active, crossed, log, next>>

(* A failed write, or the close frame after the last request, ends the     *)
(* connection; what it had not sent is dropped.                            *)
End(c) ==
  /\ link[c] = "cut"
  /\ at[c] = "send" \/ (at[c] = "idle" /\ inbox[c] = <<>>)
  /\ link' = [link EXCEPT ![c] = "ended"]
  /\ at' = [at EXCEPT ![c] = "idle"]
  /\ out' = [out EXCEPT ![c] = <<>>]
  /\ inbox' = [inbox EXCEPT ![c] = <<>>]
  /\ UNCHANGED <<setup, kind, nth, tries, casts, active, crossed, log, next, wire>>

(* Mutant: The answer is written by a task of its own, beside the loop. *)
Listening_WhileWriting(c) == link[c] = "up" /\ at[c] \in {"idle", "send"} /\ inbox[c] = <<>>

(* Mutant: The handler runs in a task of its own, beside the loop. *)
Listening_WhileHandling(c) == link[c] = "up" /\ at[c] # "send" /\ inbox[c] = <<>>

(* select! is biased: broadcast frames are looked at only when no request  *)
(* waits.                                                                  *)
Listening(c) == link[c] = "up" /\ at[c] = "idle" /\ inbox[c] = <<>>
Behind(c) == Len(log) + 1 - next[c]

(* Mutant: The last position of the ring is taken for a lost one. *)
Forward_OffByOne(c) ==
  /\ Listening(c)
  /\ Behind(c) \in 1..(Capacity - 1)
  /\ wire' = [wire EXCEPT ![c] = Append(@, log[next[c]])]
  /\ next' = [next EXCEPT ![c] = @ + 1]
  /\ UNCHANGED <<setup, link, inbox, work>>

Forward(c) ==
  /\ Listening(c)
  /\ Behind(c) \in 1..Capacity
  /\ wire' = [wire EXCEPT ![c] = Append(@, log[next[c]])]
  /\ next' = [next EXCEPT ![c] = @ + 1]
  /\ UNCHANGED <<setup, link, inbox, work>>

(* A receiver that is more than Capacity frames behind is told so once and *)
(* goes on at the oldest frame the channel still holds; the loop only logs.*)
Lagged(c) ==
  /\ Listening(c)
  /\ Behind(c) > Capacity
  /\ next' = [next EXCEPT ![c] = Len(log) + 1 - Capacity]
  /\ UNCHANGED <<setup, link, inbox, work, wire>>

-----------------------------------------------------------------------------
Handler(k) ==
  TryNext(k) \/ Heard(k) \/ Answered(k) \/ GivesUp(k) \/ Spoken(k) \/ NameSpeaker(k) \/ Cast(k)
Connection(c) == Read(c) \/ Send(c) \/ End(c) \/ Forward(c) \/ Lagged(c)
Peer(c) == Connect(c) \/ Ask(c) \/ Leave(c)

Next ==
  \/ \E k \in Caller : Handler(k)
  \/ \E c \in Client : Connection(c) \/ Peer(c)
  \/ ReadLine

Spec == Init /\ [][Next]_vars

(* Tasks are scheduled and every provider call has a timeout; a write is   *)
(* only expected to end while the peer reads.  Peers and the console's     *)
(* user owe nothing.                                                       *)
FairSpec ==
  /\ Spec
  /\ \A k \in Caller : WF_vars(Handler(k))
  /\ \A c \in Client : WF_vars(Connection(c))

-----------------------------------------------------------------------------
(***************************************************************************)
(* Properties                                                              *)
(***************************************************************************)

IsAnswer(c, f) == f.of[1] = c /\ ~IsAuto(f)

(* On every socket the answers come whole and in the order of the          *)
(* requests: no frame of another request, of another client's answer or of *)
(* the broadcast channel falls between two frames of one answer, and       *)
(* nothing follows its last frame.                                         *)
AnswersAreWhole ==
  \A c \in Client : \A i, j \in DOMAIN wire[c] :
    (i < j /\ IsAnswer(c, wire[c][i]) /\ IsAnswer(c, wire[c][j])) =>
      IF wire[c][i].of = wire[c][j].of
        THEN /\ ~IsTerminal(wire[c][i])
             /\ \A m \in i..j : wire[c][m].of = wire[c][i].of /\ ~IsAuto(wire[c][m])
        ELSE /\ wire[c][i].of[2] < wire[c][j].of[2]
             /\ \E m \in i..(j - 1) : wire[c][m].of = wire[c][i].of /\ IsTerminal(wire[c][m])

(* The client that asked sees the frames of an auto-speak only after the   *)
(* answer that is spoken, although they are broadcast before the answer is *)
(* written: response, action_completed, speaking_started, speaking_ended   *)
(* (docs/api.md, 2.11).                                                    *)
SpeechFollowsItsAnswer ==
  \A c \in Client : \A j \in DOMAIN wire[c] :
    (IsAuto(wire[c][j]) /\ wire[c][j].of[1] = c) =>
      \E i \in 1..(j - 1) : wire[c][i] = [t |-> "completed", of |-> wire[c][j].of]

(* No client, whenever it connected and however far it fell behind, sees a *)
(* speech begin after it has ended, begin twice or end twice; and the end  *)
(* names the provider that spoke, the primary when none did, unless        *)
(* another caller's run has written the shared status between the end of   *)
(* the speech and the read.                                                *)
SpeechIsPaired ==
  \A c \in Client :
    /\ \A i, j \in DOMAIN wire[c] :
         (i < j /\ IsSpeech(wire[c][i]) /\ IsSpeech(wire[c][j]) /\ wire[c][i].of = wire[c][j].of) =>
           wire[c][i].t = "started" /\ wire[c][j].t = "ended"
    /\ \A i \in DOMAIN wire[c] : NamesItsVoice(wire[c][i])

(***************************************************************************)
(* The inductive invariant behind the three                                *)
(***************************************************************************)

Current(k) == <<k, nth[k]>>

(* The answer is collected to its last frame.                              *)
Complete(k) ==
  at[k] = "send" \/ (at[k] \in {"tts", "spoken", "cast"} /\ kind[k] # "speak")

(* What a connection has collected is of the request it handles, and only  *)
(* the last frame of a complete answer closes it.                          *)
CollectedInv(c) ==
  /\ \A i \in DOMAIN out[c] :
       /\ out[c][i].of = Current(c) /\ ~IsAuto(out[c][i])
       /\ IsTerminal(out[c][i]) <=> Complete(c) /\ i = Len(out[c])
       /\ IsSpeech(out[c][i]) => kind[c] = "speak" /\ at[c] = "send"
       /\ \A j \in DOMAIN out[c] :
            i < j /\ IsSpeech(out[c][i]) /\ IsSpeech(out[c][j]) =>
              out[c][i].t = "started" /\ out[c][j].t = "ended"
  /\ Complete(c) =>
       /\ out[c] # <<>>
       /\ at[c] # "send" => out[c][Len(out[c])].t = "completed"

(* What is on a socket: answers to this client's requests, each closed or, *)
(* while it is being sent, at the end; and broadcast frames that the       *)
(* receiver has passed.                                                    *)
InTransit(c, i) ==
  LET f == wire[c][i] IN
  /\ at[c] = "send" /\ ~IsTerminal(f)
  /\ \A m \in i..Len(wire[c]) : wire[c][m].of = f.of /\ ~IsAuto(wire[c][m])
  /\ \A j \in DOMAIN out[c] :
       IsSpeech(f) /\ IsSpeech(out[c][j]) => f.t = "started" /\ out[c][j].t = "ended"
ClosedFrom(c, i) ==
  \E m \in i..Len(wire[c]) : wire[c][m].of = wire[c][i].of /\ IsTerminal(wire[c][m])
WireInv(c) ==
  \A i \in DOMAIN wire[c] :
    LET f == wire[c][i] IN
    IF IsAuto(f) THEN \E p \in 1..(next[c] - 1) : log[p] = f
    ELSE /\ f.of[1] = c /\ f.of[2] <= nth[c]
         /\ IsSpeech(f) => \A p \in DOMAIN log : log[p].of # f.of
         /\ link[c] # "ended" =>
              IF f.of = Current(c) /\ at[c] # "idle" THEN InTransit(c, i) ELSE ClosedFrom(c, i)

(* A speech is broadcast after its answer is complete: the answer is on    *)
(* the socket, or waits to be written by a loop that forwards nothing.     *)
ToldInv(c) ==
  link[c] # "ended" =>
    \A p \in DOMAIN log : log[p].of[1] = c =>
      \/ \E i \in DOMAIN wire[c] : wire[c][i] = [t |-> "completed", of |-> log[p].of]
      \/ /\ log[p].of = Current(c) /\ at[c] \in {"cast", "send"}
         /\ out[c][Len(out[c])].t = "completed"

(* What a caller has broadcast and has still to broadcast.                 *)
CastInv(k) ==
  /\ at[k] \in {"stt", "text", "cast"} => kind[k] # "speak"
  /\ k = Console /\ at[k] = "spoken" => kind[k] # "speak"
  /\ k \in Client /\ link[k] = "ended" => at[k] = "idle"
  /\ Len(casts[k]) <= 2
  /\ \A i \in DOMAIN casts[k] :
       /\ casts[k][i].of = Current(k) /\ casts[k][i].auto
       /\ casts[k][i].t = IF i = Len(casts[k]) THEN "ended" ELSE "started"
  /\ \A p \in DOMAIN log : log[p].of[1] = k =>
       /\ log[p].of[2] <= nth[k]
       /\ log[p].of = Current(k) =>
            /\ kind[k] # "speak"
            /\ \/ at[k] \in {"idle", "send"}
               \/ at[k] = "cast" /\ Len(casts[k]) = 1 /\ log[p].t = "started"

LogInv ==
  \A p \in DOMAIN log :
    /\ log[p].auto
    /\ \A q \in DOMAIN log :
         p < q /\ log[p].of = log[q].of => log[p].t = "started" /\ log[q].t = "ended"

(* The shared status is what the last run has made it.                     *)
SpeakerInv ==
  /\ \A k \in crossed : at[k] = "spoken"
  /\ \A k \in Caller \ crossed : at[k] = "spoken" =>
       active = IF tries[k] \in DOMAIN Chain["tts"] THEN Chain["tts"][tries[k]] ELSE None

ServerInv ==
  /\ TypeOK /\ SpeakerInv /\ LogInv /\ \A k \in Caller : CastInv(k)
  /\ \A c \in Client : CollectedInv(c) /\ WireInv(c) /\ ToldInv(c)
  /\ AnswersAreWhole /\ SpeechFollowsItsAnswer /\ SpeechIsPaired

On(c, t, r) == \E i \in DOMAIN wire[c] : wire[c][i].t = t /\ wire[c][i].of = r
Gone(c) == link[c] # "up"

(* Every request of a client that stays and reads gets the last frame of   *)
(* its answer, whatever fails, whoever else is served and whichever other  *)
(* client has stopped reading: again and again nothing it asked for is     *)
(* outstanding.                                                            *)
EveryRequestAnswered ==
  \A c \in Client : []<>(
    \/ Gone(c)
    \/ \A n \in 1..(nth[c] + Len(inbox[c])) :
         \E t \in {"completed", "failed", "pong"} : On(c, t, <<c, n>>))

(* A client that was told that a speech has started is told that it has    *)
(* ended, even when the client that asked for it has left: a hanging       *)
(* talking state is excluded (docs/api.md, 2.11), but for a client so far  *)
(* behind that the channel has dropped the frame.                          *)
Dropped(c, t, r) ==
  \E n \in 1..(next[c] - 1) : log[n].t = t /\ log[n].of = r /\ ~On(c, t, r)
SpeechEnds ==
  \A c \in Client : []<>(
    \/ Gone(c)
    \/ \A r \in Caller \X (1..MaxRequests) :
         On(c, "started", r) => On(c, "ended", r) \/ Dropped(c, "ended", r))

(* Every frame broadcast while a client is connected is forwarded to it or *)
(* reported as lost: slow answers and lags do not end the forwarding.      *)
EveryFrameReached == \A c \in Client : []<>(link[c] = "up" => next[c] > Len(log))
=============================================================================
