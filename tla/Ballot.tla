-------------------------------- MODULE Ballot --------------------------------
(***************************************************************************)
(* What the voting database promises its users, with none of the           *)
(* mechanics: rounds are opened one at a time, a voter holds a few ballots *)
(* in the round that is open, and a round that has ended accepts none.     *)
(* A ballot leaves only because its own voter withdraws or moves it.       *)
(*                                                                         *)
(* BallotStore implements this specification (see Abstraction there).      *)
(***************************************************************************)
EXTENDS Integers, FiniteSets

CONSTANTS
  Voter,    \* the people who vote
  Song,     \* what they can vote for
  Limit     \* the most songs one voter may ever hold in one round

VARIABLES
  newest,   \* the number of the newest round, 0 before the first
  voting,   \* is the newest round still open?
  ballots   \* the ballots held, each a record [round, voter, song]

vars == <<newest, voting, ballots>>

Held(r, v, bs) == {b \in bs : b.round = r /\ b.voter = v}

Init ==
  /\ newest = 0
  /\ voting = FALSE
  /\ ballots = {}

\* A new round opens; whichever was open ends with it.
Open ==
  /\ newest' = newest + 1
  /\ voting' = TRUE
  /\ UNCHANGED ballots

Close ==
  /\ voting
  /\ voting' = FALSE
  /\ UNCHANGED <<newest, ballots>>

\* A voter adds a ballot to the open round, giving up any of their own in it.
Cast(v, s) ==
  /\ voting
  /\ \E given \in SUBSET Held(newest, v, ballots) :
       ballots' = (ballots \ given)
                    \cup {[round |-> newest, voter |-> v, song |-> s]}
  /\ Cardinality(Held(newest, v, ballots')) <= Limit
  /\ UNCHANGED <<newest, voting>>

\* A voter takes one ballot back. The store allows it even once the round ended.
Withdraw(b) ==
  /\ ballots' = ballots \ {b}
  /\ UNCHANGED <<newest, voting>>

Next ==
  \/ Open
  \/ Close
  \/ \E v \in Voter, s \in Song : Cast(v, s)
  \/ \E b \in ballots : Withdraw(b)

Spec == Init /\ [][Next]_vars
===============================================================================
