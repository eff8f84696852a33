-------------------------- MODULE SettingsRegister --------------------------
(***************************************************************************)
(* What an override file of the settings store promises: one stored body,  *)
(* replaced as a whole or not at all, whatever fails and whenever the      *)
(* process dies.                                                           *)
(***************************************************************************)
CONSTANTS
  Writer,   \* the handlers that save this file
  Body,     \* the bodies a save can ask for
  None      \* "no override": the file is missing

VARIABLES
  stored,   \* what the next start loads
  asked     \* Writer -> the body it is saving, or None

vars == <<stored, asked>>

TypeOK ==
  /\ stored \in Body \cup {None}
  /\ asked \in [Writer -> Body \cup {None}]

Init ==
  /\ stored \in Body \cup {None}
  /\ asked = [w \in Writer |-> None]

(* A handler starts to save b. *)
Ask(w, b) ==
  /\ asked[w] = None
  /\ asked' = [asked EXCEPT ![w] = b]
  /\ UNCHANGED stored

(* The override is removed while a reset is under way. *)
Remove(w) ==
  /\ asked[w] # None
  /\ stored' = None
  /\ UNCHANGED asked

(* The one instant at which a save takes effect. *)
Commit(w) ==
  /\ asked[w] # None
  /\ stored' = asked[w]
  /\ asked' = [asked EXCEPT ![w] = None]

(* A save that fails leaves what was stored. *)
GiveUp(w) ==
  /\ asked[w] # None
  /\ asked' = [asked EXCEPT ![w] = None]
  /\ UNCHANGED stored

(* The process dies: no save survives, what is stored does. *)
Die ==
  /\ asked' = [w \in Writer |-> None]
  /\ UNCHANGED stored

Next ==
  \/ \E w \in Writer : \/ \E b \in Body : Ask(w, b)
                       \/ Remove(w)
                       \/ Commit(w)
                       \/ GiveUp(w)
  \/ Die

Spec == Init /\ [][Next]_vars
=============================================================================
