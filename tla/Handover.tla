------------------------------- MODULE Handover -------------------------------
(***************************************************************************)
(* What the follower promises about the end of a song, with no player, no  *)
(* playlist and no clock: every round it watches being replaced is owed a  *)
(* decision, which comes before anything else it does; a round is decided  *)
(* once; a winner is written to its round before FPP is asked for it; and  *)
(* FPP is asked once. An exception drops what is due, and a restart        *)
(* forgets everything but the winners on record.                           *)
(*                                                                         *)
(* Service implements this specification (see Bookkeeping there).          *)
(***************************************************************************)
EXTENDS Naturals, Sequences

CONSTANT Song      \* what a round may be won by

VARIABLES
  following,   \* the round that is followed, 0 for none
  owed,        \* the rounds that were replaced and are not decided yet
  decided,     \* the rounds that are
  promise,     \* {} or the one winner being handed over: {[round, song, stage]}
  recorded,    \* the winners on record: a set of [round, song], one per round
  asked        \* the rounds FPP was asked to jump for, in order

vars == <<following, owed, decided, promise, recorded, asked>>

NothingDue == owed = {} /\ promise = {}

Init ==
  /\ following = 0
  /\ owed = {}
  /\ decided = {}
  /\ promise = {}
  /\ recorded = {}
  /\ asked = <<>>

\* The show stops: no round is followed.
Leave ==
  /\ NothingDue
  /\ following' = 0
  /\ UNCHANGED <<owed, decided, promise, recorded, asked>>

\* A later round is followed. The one before it is owed its decision, if it
\* did not have it.
Follow ==
  /\ NothingDue
  /\ following' \in Nat \ decided
  /\ following' > following
  /\ owed' = {following} \ (decided \cup {0})
  /\ UNCHANGED <<decided, promise, recorded, asked>>

\* A round that is owed is decided; only when none is, the followed one may be.
Decide(r) ==
  /\ promise = {}
  /\ r # 0 /\ r \notin decided
  /\ r \in owed \/ (owed = {} /\ r = following)
  /\ decided' = decided \cup {r}
  /\ owed' = owed \ {r}
  /\ \/ promise' = {}
     \/ \E s \in Song : promise' = {[round |-> r, song |-> s, stage |-> "chosen"]}
  /\ UNCHANGED <<following, recorded, asked>>

\* The winner goes on record. It may be playing already; then that is all.
Record(p) ==
  /\ p \in promise /\ p.stage = "chosen"
  /\ recorded' = {x \in recorded : x.round # p.round}
                   \cup {[round |-> p.round, song |-> p.song]}
  /\ promise' \in {{}, {[p EXCEPT !.stage = "onRecord"]}}
  /\ UNCHANGED <<following, owed, decided, asked>>

\* FPP is asked for it, unless the playlist does not have it.
Ask(p) ==
  /\ p \in promise /\ p.stage = "onRecord"
  /\ promise' = {}
  /\ asked' \in {asked, Append(asked, p.round)}
  /\ UNCHANGED <<following, owed, decided, recorded>>

\* An exception ends the pass, and what was due with it.
Forsake ==
  /\ promise' = {}
  /\ owed' = {}
  /\ UNCHANGED <<following, decided, recorded, asked>>

Restart ==
  /\ following' = 0
  /\ owed' = {}
  /\ decided' = {}
  /\ promise' = {}
  /\ asked' = <<>>
  /\ UNCHANGED recorded

Next ==
  \/ Leave
  \/ Follow
  \/ \E r \in owed \cup {following} : Decide(r)
  \/ \E p \in promise : Record(p) \/ Ask(p)
  \/ Forsake
  \/ Restart

Spec == Init /\ [][Next]_vars
===============================================================================
