---------------------------- MODULE MCBallotStore ----------------------------
(***************************************************************************)
(* Bounds for model-checking BallotStore on its own, every caller free.    *)
(***************************************************************************)
EXTENDS BallotStore, TLC

\* Titles all collate alike, so songs stay interchangeable.
AnyCatalogue == SUBSET Song

OneTitle == [s \in Song |-> 0]

Interchangeable == Permutations(Voter) \cup Permutations(Song)

(* The calls that bear on votes, each with the arguments that differ for it. *)
(* set_excluded and set_winner touch nothing a vote depends on: the Service  *)
(* runs make those calls.                                                    *)
CallNext ==
  \/ \E s \in Song : EnsureRound(s)
  \/ CloseOpenRound
  \/ \E r \in 0..Len(rounds), v \in Voter, s \in Song, valid \in {{}, Song} :
       CastVote(r, v, s, valid)
  \/ \E b \in votes : RetractVote(b.round, b.voter, b.song)
  \/ \E s \in Song : UpsertSong(s)
  \/ \E n \in 0..(VotesPerRoundLimit + 1) : SetVotesPerRound(n)
  \/ \E n \in CooldownChoices : SetCooldownSongs(n)

CallSpec == StoreInit /\ [][CallNext]_storeVars
===============================================================================
