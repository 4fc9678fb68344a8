-------------------------- MODULE BallotStoreProofs --------------------------
(***************************************************************************)
(* BallotStore proved for every number of voters, songs and rounds.        *)
(*                                                                         *)
(* The argument: OnlyNewestOpen is inductive because every new round ends  *)
(* the current one first, and under it the open round is the newest. So    *)
(* what locked_keys computes from the newest rounds is, for a round that   *)
(* accepts a ballot, exactly the window that ends with that round; and     *)
(* rounds keep their song for ever. The ballot count needs the votes to be *)
(* a finite set, which TypeOK carries.                                     *)
(***************************************************************************)
EXTENDS BallotStore, FiniteSetTheorems, SequenceTheorems, TLAPS

StoreInv ==
  /\ TypeOK
  /\ OnlyNewestOpen
  /\ BallotsWithinLimit
  /\ NoBallotForLockedSong
  /\ HistoryKeepsItsSongs

----------------------------------------------------------------------------
(* Lemmas about the operators *)

\* Ending the current round keeps every row and closes whatever was open.
LEMMA EndCurrentShape ==
  ASSUME rounds \in Seq(RoundRow), OnlyNewestOpen
  PROVE  /\ EndCurrent \in Seq(RoundRow)
         /\ Len(EndCurrent) = Len(rounds)
         /\ DOMAIN EndCurrent = DOMAIN rounds
         /\ \A r \in DOMAIN rounds :
              /\ EndCurrent[r].song = rounds[r].song
              /\ EndCurrent[r].winner = rounds[r].winner
              /\ ~EndCurrent[r].open
<1>1. DOMAIN rounds = 1..Len(rounds) /\ Len(rounds) \in Nat
  OBVIOUS
<1>2. \A r \in DOMAIN rounds : rounds[r] \in RoundRow
  OBVIOUS
<1>3. \A r \in DOMAIN rounds : rounds[r].open => IsCurrent(r)
  BY <1>1 DEF IsCurrent, OnlyNewestOpen
<1>4. EndCurrent \in [1..Len(rounds) -> RoundRow]
  <2>1. ASSUME NEW row \in RoundRow
        PROVE  [row EXCEPT !.open = FALSE] \in RoundRow
    BY DEF RoundRow
  <2>2. \A r \in DOMAIN rounds :
          (IF IsCurrent(r) THEN [rounds[r] EXCEPT !.open = FALSE] ELSE rounds[r])
            \in RoundRow
    BY <1>2, <2>1
  <2>3. QED
    BY <1>1, <2>2 DEF EndCurrent
<1>5. EndCurrent \in Seq(RoundRow) /\ Len(EndCurrent) = Len(rounds)
  BY <1>1, <1>4
<1>6. ASSUME NEW r \in DOMAIN rounds
      PROVE  /\ EndCurrent[r].song = rounds[r].song
             /\ EndCurrent[r].winner = rounds[r].winner
             /\ ~EndCurrent[r].open
  BY <1>2, <1>3 DEF EndCurrent, RoundRow
<1>7. QED
  BY <1>1, <1>4, <1>5, <1>6

\* A voter's ballots of one round are finitely many.
LEMMA SelectionFinite ==
  ASSUME IsFiniteSet(votes), NEW r, NEW v
  PROVE  IsFiniteSet(Selection(r, v)) /\ Cardinality(Selection(r, v)) \in Nat
<1>1. Selection(r, v) \subseteq votes
  BY DEF Selection
<1>2. QED
  BY <1>1, FS_Subset, FS_CardinalityType

\* What an accepting cast_vote does to one voter's ballots of one round.
LEMMA CastSelection ==
  ASSUME TypeOK, NEW r \in Nat, NEW v \in Voter, NEW s \in Song,
         NEW valid, CastVote(r, v, s, valid),
         NEW q, NEW w
  PROVE  \/ Selection(q, w)' = Selection(q, w)
         \/ /\ q = r /\ w = v
            /\ Cardinality(Selection(q, w)') <= allowance
<1> DEFINE new == [round |-> r, voter |-> v, song |-> s]
           out == CastOutcome(r, v, s, valid)
<1>1. /\ out \in {"accepted", "moved"}
      /\ votes' = (votes \ GivenUp(r, v, out)) \cup {new}
  BY DEF CastVote
<1>2. IsFiniteSet(Selection(r, v)) /\ Cardinality(Selection(r, v)) \in Nat
  BY SelectionFinite DEF TypeOK
<1>3. CASE ~(q = r /\ w = v)
  BY <1>1, <1>3 DEF Selection, GivenUp
<1>4. CASE q = r /\ w = v /\ out = "accepted"
  <2>1. Selection(r, v)' = Selection(r, v) \cup {new}
    BY <1>1, <1>4 DEF Selection, GivenUp
  <2>2. Cardinality(Selection(r, v)) < allowance
    BY <1>4, <1>2 DEF CastOutcome, AtLimit, TypeOK, VotesPerRoundLimit
  <2>3. new \notin Selection(r, v)
    BY <1>4 DEF CastOutcome
  <2>4. Cardinality(Selection(r, v)') = Cardinality(Selection(r, v)) + 1
    BY <1>2, <2>1, <2>3, FS_AddElement
  <2>5. QED
    BY <1>2, <1>4, <2>2, <2>4 DEF TypeOK, VotesPerRoundLimit
<1>5. CASE q = r /\ w = v /\ out = "moved"
  <2>1. Selection(r, v)' = {new}
    BY <1>1, <1>5 DEF Selection, GivenUp
  <2>2. Cardinality(Selection(r, v)') = 1
    BY <2>1, FS_Singleton
  <2>3. QED
    BY <1>5, <2>2 DEF TypeOK, VotesPerRoundLimit
<1>6. QED
  BY <1>1, <1>3, <1>4, <1>5

\* A round that accepts a ballot is open, and the song is not locked.
LEMMA CastGuards ==
  ASSUME NEW r, NEW v, NEW s, NEW valid, CastVote(r, v, s, valid)
  PROVE  IsOpen(r) /\ s \in songs /\ s \in valid /\ s \notin LockedKeys
BY DEF CastVote, CastOutcome

----------------------------------------------------------------------------
(* Type correctness *)

LEMMA EnsureRoundType ==
  ASSUME TypeOK, OnlyNewestOpen, NEW s \in Song, EnsureRound(s)
  PROVE  rounds' \in Seq(RoundRow)
<1>1. CASE UNCHANGED rounds
  BY <1>1 DEF TypeOK
<1>2. CASE rounds' = Append(EndCurrent,
                            [song |-> s, open |-> TRUE, winner |-> NoSong])
  <2>1. EndCurrent \in Seq(RoundRow)
    BY EndCurrentShape DEF TypeOK
  <2>2. [song |-> s, open |-> TRUE, winner |-> NoSong] \in RoundRow
    BY DEF RoundRow
  <2>3. QED
    BY <1>2, <2>1, <2>2, AppendProperties
<1>3. QED
  BY <1>1, <1>2 DEF EnsureRound

LEMMA SetWinnerType ==
  ASSUME TypeOK, NEW r \in DOMAIN rounds, NEW w \in Song, SetWinner(r, w)
  PROVE  /\ rounds' \in Seq(RoundRow)
         /\ DOMAIN rounds' = DOMAIN rounds
         /\ Len(rounds') = Len(rounds)
         /\ \A i \in DOMAIN rounds :
              /\ rounds'[i].song = rounds[i].song
              /\ rounds'[i].open = rounds[i].open
<1>1. rounds \in Seq(RoundRow) /\ r \in 1..Len(rounds)
  BY DEF TypeOK
<1>2. rounds[r] \in RoundRow
  BY <1>1
<1>3. [rounds[r] EXCEPT !.winner = w] \in RoundRow
  BY <1>2 DEF RoundRow
<1>4. rounds' = [rounds EXCEPT ![r] = [rounds[r] EXCEPT !.winner = w]]
  BY DEF SetWinner
<1>5. rounds' \in Seq(RoundRow) /\ DOMAIN rounds' = DOMAIN rounds /\ Len(rounds') = Len(rounds)
  BY <1>1, <1>3, <1>4, ExceptSeq
<1>6. ASSUME NEW i \in DOMAIN rounds
      PROVE  rounds'[i].song = rounds[i].song /\ rounds'[i].open = rounds[i].open
  BY <1>1, <1>2, <1>4 DEF RoundRow
<1>7. QED
  BY <1>5, <1>6

\* The four facts below are about every step of the store; the action is named
\* so that a composed system can cite them for its own steps.
LEMMA TypeOKStep ==
  ASSUME TypeOK, OnlyNewestOpen, StoreNext
  PROVE  TypeOK'
<1>1. ASSUME NEW s \in Song, EnsureRound(s) PROVE TypeOK'
  BY <1>1, EnsureRoundType DEF EnsureRound, TypeOK, VoteRow, RoundRow
<1>2. CASE CloseOpenRound
  BY <1>2, EndCurrentShape DEF CloseOpenRound, TypeOK, VoteRow, RoundRow
<1>3. ASSUME NEW r \in DOMAIN rounds, NEW w \in Song, SetWinner(r, w)
      PROVE  TypeOK'
  BY <1>3, SetWinnerType DEF SetWinner, TypeOK, VoteRow, RoundRow
<1>4. ASSUME NEW r \in 0..Len(rounds), NEW v \in Voter, NEW s \in Song,
             NEW valid \in SUBSET Song, CastVote(r, v, s, valid)
      PROVE  TypeOK'
  <2>1. PICK gone \in SUBSET votes :
          votes' = (votes \ gone) \cup {[round |-> r, voter |-> v, song |-> s]}
    BY <1>4 DEF CastVote, GivenUp, Selection
  <2>2. r \in Nat
    BY <1>4, LenProperties DEF TypeOK
  <2>3. [round |-> r, voter |-> v, song |-> s] \in VoteRow
    BY <2>2 DEF VoteRow
  <2>4. votes' \in SUBSET VoteRow
    BY <2>1, <2>3 DEF TypeOK
  <2>5. IsFiniteSet(votes')
    BY <2>1, FS_Subset, FS_AddElement DEF TypeOK
  <2>6. QED
    BY <1>4, <2>4, <2>5 DEF CastVote, TypeOK, RoundRow
<1>5. ASSUME NEW b \in votes, RetractVote(b.round, b.voter, b.song)
      PROVE  TypeOK'
  <2>1. votes' \subseteq votes
    BY <1>5 DEF RetractVote
  <2>2. votes' \in SUBSET VoteRow /\ IsFiniteSet(votes')
    BY <2>1, FS_Subset DEF TypeOK
  <2>3. QED
    BY <1>5, <2>2 DEF RetractVote, TypeOK, RoundRow
<1>6. ASSUME NEW s \in Song, UpsertSong(s) PROVE TypeOK'
  BY <1>6 DEF UpsertSong, TypeOK, RoundRow, VoteRow
<1>7. ASSUME NEW s \in Song, NEW out \in BOOLEAN, SetExcluded(s, out) PROVE TypeOK'
  BY <1>7 DEF SetExcluded, TypeOK, RoundRow, VoteRow
<1>8. ASSUME NEW n \in 0..(VotesPerRoundLimit + 1), SetVotesPerRound(n) PROVE TypeOK'
  BY <1>8 DEF SetVotesPerRound, ValidAllowance, TypeOK, RoundRow, VoteRow
<1>9. ASSUME NEW n \in CooldownChoices, SetCooldownSongs(n) PROVE TypeOK'
  BY <1>9 DEF SetCooldownSongs, TypeOK, RoundRow, VoteRow
<1>10. ASSUME NEW on \in BOOLEAN, SetVotingEnabled(on) PROVE TypeOK'
  BY <1>10 DEF SetVotingEnabled, TypeOK, RoundRow, VoteRow
<1>11. ASSUME NEW s \in Song, DeleteSong(s) PROVE TypeOK'
  BY <1>11 DEF DeleteSong, TypeOK, RoundRow, VoteRow
<1>12. QED
  BY <1>1, <1>2, <1>3, <1>4, <1>5, <1>6, <1>7, <1>8, <1>9, <1>10, <1>11 DEF StoreNext

----------------------------------------------------------------------------
(* How a step moves the rounds and the votes *)

\* ensure_round either leaves the rounds alone or ends them all and adds one.
LEMMA EnsureRoundShape ==
  ASSUME TypeOK, OnlyNewestOpen, NEW s \in Song, EnsureRound(s)
  PROVE  \/ rounds' = rounds
         \/ /\ Len(rounds') = Len(rounds) + 1
            /\ DOMAIN rounds' = 1..(Len(rounds) + 1)
            /\ rounds'[Len(rounds) + 1].open
            /\ \A r \in DOMAIN rounds :
                 /\ rounds'[r].song = rounds[r].song
                 /\ ~rounds'[r].open
<1>1. CASE rounds' = Append(EndCurrent,
                            [song |-> s, open |-> TRUE, winner |-> NoSong])
  <2> DEFINE row == [song |-> s, open |-> TRUE, winner |-> NoSong]
  <2>1. /\ EndCurrent \in Seq(RoundRow)
        /\ Len(EndCurrent) = Len(rounds)
        /\ \A r \in DOMAIN rounds :
             /\ EndCurrent[r].song = rounds[r].song
             /\ ~EndCurrent[r].open
    BY EndCurrentShape DEF TypeOK
  <2>2. row \in RoundRow
    BY DEF RoundRow
  <2>3. /\ Len(rounds') = Len(rounds) + 1
        /\ DOMAIN rounds' = 1..(Len(rounds) + 1)
        /\ rounds'[Len(rounds) + 1] = row
        /\ \A r \in 1..Len(rounds) : rounds'[r] = EndCurrent[r]
    <3> HIDE DEF row
    <3>1. /\ Append(EndCurrent, row) \in Seq(RoundRow)
          /\ Len(Append(EndCurrent, row)) = Len(EndCurrent) + 1
          /\ \A i \in 1..Len(EndCurrent) : Append(EndCurrent, row)[i] = EndCurrent[i]
          /\ Append(EndCurrent, row)[Len(EndCurrent) + 1] = row
      BY <2>1, <2>2, AppendProperties
    <3>2. rounds' = Append(EndCurrent, row)
      BY <1>1 DEF row
    <3>3. DOMAIN rounds' = 1..Len(rounds')
      BY <3>1, <3>2
    <3>4. QED
      BY <2>1, <3>1, <3>2, <3>3
  <2>4. DOMAIN rounds = 1..Len(rounds)
    BY DEF TypeOK
  <2>5. QED
    BY <2>1, <2>3, <2>4
<1>2. QED
  BY <1>1 DEF EnsureRound

\* A row, once inserted, keeps its place and its song, and never reopens.
LEMMA RoundsKept ==
  ASSUME TypeOK, OnlyNewestOpen, StoreNext
  PROVE  /\ Len(rounds) <= Len(rounds')
         /\ \A r \in DOMAIN rounds :
              /\ r \in DOMAIN rounds'
              /\ rounds'[r].song = rounds[r].song
              /\ rounds'[r].open => rounds[r].open
<1>0. Len(rounds) \in Nat /\ DOMAIN rounds = 1..Len(rounds)
  BY DEF TypeOK
<1>1. ASSUME NEW s \in Song, EnsureRound(s)
      PROVE  /\ Len(rounds) <= Len(rounds')
             /\ \A r \in DOMAIN rounds :
                  /\ r \in DOMAIN rounds'
                  /\ rounds'[r].song = rounds[r].song
                  /\ rounds'[r].open => rounds[r].open
  BY <1>0, <1>1, EnsureRoundShape
<1>2. CASE CloseOpenRound
  BY <1>0, <1>2, EndCurrentShape DEF CloseOpenRound, TypeOK
<1>3. ASSUME NEW r \in DOMAIN rounds, NEW w \in Song, SetWinner(r, w)
      PROVE  /\ Len(rounds) <= Len(rounds')
             /\ \A q \in DOMAIN rounds :
                  /\ q \in DOMAIN rounds'
                  /\ rounds'[q].song = rounds[q].song
                  /\ rounds'[q].open => rounds[q].open
  BY <1>0, <1>3, SetWinnerType
<1>4. CASE UNCHANGED rounds
  BY <1>0, <1>4
<1>5. QED
  BY <1>1, <1>2, <1>3, <1>4
  DEF StoreNext, CastVote, RetractVote, UpsertSong, SetExcluded, DeleteSong,
      SetVotesPerRound, SetCooldownSongs, SetVotingEnabled

\* Only cast_vote adds a ballot, and it leaves the rounds alone.
LEMMA VotesStep ==
  ASSUME TypeOK, StoreNext
  PROVE  \/ votes' \subseteq votes
         \/ \E r \in DOMAIN rounds, v \in Voter, s \in Song, valid \in SUBSET Song :
              CastVote(r, v, s, valid)
<1>1. ASSUME NEW r, NEW v \in Voter, NEW s \in Song, NEW valid \in SUBSET Song,
             CastVote(r, v, s, valid)
      PROVE  r \in DOMAIN rounds
  BY <1>1, CastGuards DEF IsOpen
<1>2. QED
  BY <1>1
  DEF StoreNext, EnsureRound, CloseOpenRound, SetWinner, RetractVote, UpsertSong,
      SetExcluded, DeleteSong, SetVotesPerRound, SetCooldownSongs, SetVotingEnabled

----------------------------------------------------------------------------
(* The invariants, one step each *)

LEMMA OnlyNewestOpenStep ==
  ASSUME TypeOK, OnlyNewestOpen, StoreNext
  PROVE  OnlyNewestOpen'
<1>0. Len(rounds) \in Nat /\ DOMAIN rounds = 1..Len(rounds)
  BY DEF TypeOK
<1>1. ASSUME NEW s \in Song, EnsureRound(s) PROVE OnlyNewestOpen'
  BY <1>0, <1>1, EnsureRoundShape DEF OnlyNewestOpen
<1>2. CASE CloseOpenRound
  BY <1>0, <1>2, EndCurrentShape DEF CloseOpenRound, TypeOK, OnlyNewestOpen
<1>3. ASSUME NEW r \in DOMAIN rounds, NEW w \in Song, SetWinner(r, w)
      PROVE  OnlyNewestOpen'
  BY <1>0, <1>3, SetWinnerType DEF OnlyNewestOpen
<1>4. CASE UNCHANGED rounds
  BY <1>4 DEF OnlyNewestOpen
<1>5. QED
  BY <1>1, <1>2, <1>3, <1>4
  DEF StoreNext, CastVote, RetractVote, UpsertSong, SetExcluded, DeleteSong,
      SetVotesPerRound, SetCooldownSongs, SetVotingEnabled

LEMMA BallotsWithinLimitStep ==
  ASSUME TypeOK, OnlyNewestOpen, BallotsWithinLimit, StoreNext
  PROVE  BallotsWithinLimit'
<1>1. /\ \A r \in DOMAIN rounds : r \in DOMAIN rounds'
      /\ DOMAIN rounds \subseteq Nat
  BY RoundsKept DEF TypeOK
<1>2. \A b \in votes' : b.round \in DOMAIN rounds
  <2>1. CASE votes' \subseteq votes
    BY <2>1 DEF BallotsWithinLimit
  <2>2. ASSUME NEW r \in DOMAIN rounds, NEW v \in Voter, NEW s \in Song, NEW valid,
               CastVote(r, v, s, valid)
        PROVE  \A b \in votes' : b.round \in DOMAIN rounds
    BY <2>2 DEF CastVote, BallotsWithinLimit
  <2>3. QED
    BY <2>1, <2>2, VotesStep
<1>3. ASSUME NEW q \in DOMAIN rounds', NEW w \in Voter
      PROVE  Cardinality(Selection(q, w)') <= VotesPerRoundLimit
  <2>0. /\ IsFiniteSet(Selection(q, w))
        /\ Cardinality(Selection(q, w)) \in Nat
        /\ Cardinality(Selection(q, w)) <= VotesPerRoundLimit
    <3>1. IsFiniteSet(Selection(q, w)) /\ Cardinality(Selection(q, w)) \in Nat
      BY SelectionFinite DEF TypeOK
    <3>2. CASE q \in DOMAIN rounds
      BY <3>1, <3>2 DEF BallotsWithinLimit
    <3>3. CASE q \notin DOMAIN rounds
      <4>1. Selection(q, w) = {}
        BY <3>3 DEF BallotsWithinLimit, Selection
      <4>2. QED
        BY <3>1, <4>1, FS_EmptySet DEF VotesPerRoundLimit
    <3>4. QED
      BY <3>1, <3>2, <3>3
  <2>1. CASE votes' \subseteq votes
    <3>1. Selection(q, w)' \subseteq Selection(q, w)
      BY <2>1 DEF Selection
    <3>2. /\ Cardinality(Selection(q, w)') <= Cardinality(Selection(q, w))
          /\ IsFiniteSet(Selection(q, w)')
      BY <2>0, <3>1, FS_Subset
    <3>3. Cardinality(Selection(q, w)') \in Nat
      BY <3>2, FS_CardinalityType
    <3>4. QED
      BY <2>0, <3>2, <3>3 DEF VotesPerRoundLimit
  <2>2. ASSUME NEW r \in DOMAIN rounds, NEW v \in Voter, NEW s \in Song, NEW valid,
               CastVote(r, v, s, valid)
        PROVE  Cardinality(Selection(q, w)') <= VotesPerRoundLimit
    <3>1. \/ Selection(q, w)' = Selection(q, w)
          \/ Cardinality(Selection(q, w)') <= allowance
      BY <1>1, <2>2, CastSelection
    <3>2. CASE Selection(q, w)' = Selection(q, w)
      BY <2>0, <3>2
    <3>3. CASE Cardinality(Selection(q, w)') <= allowance
      <4>1. IsFiniteSet(votes')
        BY TypeOKStep DEF TypeOK
      <4>2. Selection(q, w)' \subseteq votes'
        BY DEF Selection
      <4>3. Cardinality(Selection(q, w)') \in Nat
        BY <4>1, <4>2, FS_Subset, FS_CardinalityType
      <4>4. QED
        BY <3>3, <4>3 DEF TypeOK, VotesPerRoundLimit
    <3>4. QED
      BY <3>1, <3>2, <3>3
  <2>3. QED
    BY <2>1, <2>2, VotesStep
<1>4. QED
  BY <1>1, <1>2, <1>3 DEF BallotsWithinLimit

\* locked_keys looks at the newest rounds. The round that accepts a ballot is
\* the newest one, so the window it looks at ends with that very round.
LEMMA NoBallotForLockedSongStep ==
  ASSUME StoreInv, StoreNext
  PROVE  NoBallotForLockedSong'
<1>0. /\ Len(rounds) \in Nat
      /\ DOMAIN rounds = 1..Len(rounds)
      /\ DOMAIN rounds' \subseteq Int
      /\ cooldown \in CooldownChoices
      /\ cooldown \in Int
  <2>1. rounds' \in Seq(RoundRow)
    BY TypeOKStep DEF StoreInv, TypeOK
  <2>2. QED
    BY <2>1, StoreAssumption DEF StoreInv, TypeOK
<1>1. \A r \in DOMAIN rounds : rounds'[r].song = rounds[r].song
  BY RoundsKept DEF StoreInv
<1>2. \A b \in votes : b.round \in DOMAIN rounds
  BY DEF StoreInv, BallotsWithinLimit
<1>3. \A i \in DOMAIN rounds' : \A r \in DOMAIN rounds : i <= r => i \in DOMAIN rounds
  <2>1. rounds' \in Seq(RoundRow)
    BY TypeOKStep DEF StoreInv, TypeOK
  <2>2. \A i \in DOMAIN rounds' : i \in Int /\ i >= 1
    BY <2>1
  <2>3. QED
    BY <1>0, <2>2
<1>4. ASSUME NEW b \in votes, NEW i \in DOMAIN rounds', i <= b.round,
             \A c \in CooldownChoices : b.round - i <= c
      PROVE  rounds'[i].song # b.song
  BY <1>1, <1>2, <1>3, <1>4 DEF StoreInv, NoBallotForLockedSong
<1>5. ASSUME NEW r \in DOMAIN rounds, NEW v \in Voter, NEW s \in Song, NEW valid,
             CastVote(r, v, s, valid),
             NEW i \in DOMAIN rounds', i <= r,
             \A c \in CooldownChoices : r - i <= c
      PROVE  rounds'[i].song # s
  <2>1. rounds[r].open /\ s \notin RecentSongKeys(cooldown + 1)
    BY <1>5, CastGuards DEF IsOpen, LockedKeys
  <2>2. r = Len(rounds)
    BY <2>1 DEF StoreInv, OnlyNewestOpen
  <2>3. i \in DOMAIN rounds
    BY <1>3, <1>5
  <2>4. r - i <= cooldown
    BY <1>0, <1>5
  <2>5. i > Len(rounds) - (cooldown + 1)
    BY <1>0, <2>2, <2>3, <2>4
  <2>6. rounds[i].song \in RecentSongKeys(cooldown + 1)
    BY <2>3, <2>5 DEF RecentSongKeys
  <2>7. QED
    BY <1>1, <2>1, <2>3, <2>6
<1>6. ASSUME NEW b \in votes', NEW i \in DOMAIN rounds', i <= b.round,
             \A c \in CooldownChoices : b.round - i <= c
      PROVE  rounds'[i].song # b.song
  <2>1. CASE b \in votes
    BY <1>4, <1>6, <2>1
  <2>2. ASSUME b \notin votes, NEW r \in DOMAIN rounds, NEW v \in Voter, NEW s \in Song,
               NEW valid, CastVote(r, v, s, valid)
        PROVE  rounds'[i].song # b.song
    <3>1. b = [round |-> r, voter |-> v, song |-> s]
      BY <2>2 DEF CastVote
    <3>2. QED
      BY <1>5, <1>6, <2>2, <3>1
  <2>3. QED
    BY <2>1, <2>2, VotesStep DEF StoreInv
<1>7. QED
  BY <1>6 DEF NoBallotForLockedSong

\* A row that is referred to is never deleted, and nothing refers to a row
\* before it exists.
LEMMA HistoryKeepsItsSongsStep ==
  ASSUME TypeOK, OnlyNewestOpen, HistoryKeepsItsSongs, StoreNext
  PROVE  HistoryKeepsItsSongs'
<1>0. Len(rounds) \in Nat /\ DOMAIN rounds = 1..Len(rounds)
  BY DEF TypeOK
<1>1. ASSUME NEW s \in Song, EnsureRound(s) PROVE HistoryKeepsItsSongs'
  <2>1. CASE rounds' = rounds
    BY <1>1, <2>1 DEF EnsureRound, HistoryKeepsItsSongs
  <2>2. CASE rounds' = Append(EndCurrent,
                              [song |-> s, open |-> TRUE, winner |-> NoSong])
    <3>1. /\ EndCurrent \in Seq(RoundRow)
          /\ Len(EndCurrent) = Len(rounds)
          /\ \A r \in DOMAIN rounds :
               /\ EndCurrent[r].song = rounds[r].song
               /\ EndCurrent[r].winner = rounds[r].winner
      BY EndCurrentShape DEF TypeOK
    <3>2. ASSUME NEW r \in DOMAIN rounds'
          PROVE  /\ rounds'[r].song \in songs
                 /\ rounds'[r].winner \in songs \cup {NoSong}
      <4>1. r \in 1..(Len(rounds) + 1)
        BY <2>2, <3>1
      <4>2. CASE r \in DOMAIN rounds
        BY <1>0, <2>2, <3>1, <4>2 DEF HistoryKeepsItsSongs
      <4>3. CASE r = Len(rounds) + 1
        BY <1>1, <2>2, <3>1, <4>3 DEF EnsureRound
      <4>4. QED
        BY <1>0, <4>1, <4>2, <4>3
    <3>3. QED
      BY <1>1, <3>2 DEF EnsureRound, HistoryKeepsItsSongs
  <2>3. QED
    BY <1>1, <2>1, <2>2 DEF EnsureRound
<1>2. CASE CloseOpenRound
  BY <1>2, EndCurrentShape DEF CloseOpenRound, TypeOK, HistoryKeepsItsSongs
<1>3. ASSUME NEW r \in DOMAIN rounds, NEW w \in Song, SetWinner(r, w)
      PROVE  HistoryKeepsItsSongs'
  <2>1. ASSUME NEW q \in DOMAIN rounds
        PROVE  rounds'[q].winner \in {rounds[q].winner, w}
    <3>1. rounds \in Seq(RoundRow) /\ rounds[q] \in RoundRow
      BY DEF TypeOK
    <3>2. rounds' = [rounds EXCEPT ![r] = [rounds[r] EXCEPT !.winner = w]]
      BY <1>3 DEF SetWinner
    <3>3. QED
      BY <1>3, <3>1, <3>2 DEF RoundRow
  <2>2. QED
    BY <1>3, <2>1, SetWinnerType DEF SetWinner, HistoryKeepsItsSongs
<1>4. ASSUME NEW r, NEW v \in Voter, NEW s \in Song, NEW valid, CastVote(r, v, s, valid)
      PROVE  HistoryKeepsItsSongs'
  BY <1>4, CastGuards DEF CastVote, HistoryKeepsItsSongs
<1>5. ASSUME NEW s \in Song, DeleteSong(s) PROVE HistoryKeepsItsSongs'
  BY <1>5 DEF DeleteSong, Referenced, HistoryKeepsItsSongs
<1>6. ASSUME NEW s \in Song, UpsertSong(s) PROVE HistoryKeepsItsSongs'
  BY <1>6 DEF UpsertSong, HistoryKeepsItsSongs
<1>7. CASE rounds' = rounds /\ songs' = songs /\ votes' \subseteq votes
  BY <1>7 DEF HistoryKeepsItsSongs
<1>8. QED
  BY <1>1, <1>2, <1>3, <1>4, <1>5, <1>6, <1>7
  DEF StoreNext, RetractVote, SetExcluded, SetVotesPerRound, SetCooldownSongs,
      SetVotingEnabled

----------------------------------------------------------------------------
(* The theorems *)

LEMMA StoreInvInit ==
  ASSUME StoreInit
  PROVE  StoreInv
<1>1. TypeOK
  BY StoreAssumption, FS_EmptySet
  DEF StoreInit, TypeOK, VotesPerRoundLimit, RoundRow, VoteRow
<1>2. OnlyNewestOpen
  BY DEF StoreInit, OnlyNewestOpen
<1>3. BallotsWithinLimit
  BY DEF StoreInit, BallotsWithinLimit
<1>4. NoBallotForLockedSong
  BY DEF StoreInit, NoBallotForLockedSong
<1>5. HistoryKeepsItsSongs
  BY DEF StoreInit, HistoryKeepsItsSongs
<1>6. QED
  BY <1>1, <1>2, <1>3, <1>4, <1>5 DEF StoreInv

LEMMA StoreInvStep ==
  ASSUME StoreInv, [StoreNext]_storeVars
  PROVE  StoreInv'
<1>1. CASE StoreNext
  BY <1>1, TypeOKStep, OnlyNewestOpenStep, BallotsWithinLimitStep,
     NoBallotForLockedSongStep, HistoryKeepsItsSongsStep
  DEF StoreInv
<1>2. CASE UNCHANGED storeVars
  BY <1>2
  DEF storeVars, StoreInv, TypeOK, OnlyNewestOpen, BallotsWithinLimit,
      NoBallotForLockedSong, HistoryKeepsItsSongs, Selection
<1>3. QED
  BY <1>1, <1>2

\* The whole invariant, which the theorems after it take apart.
THEOREM StoreInvariant == StoreSpec => []StoreInv
<1>1. QED
  BY StoreInvInit, StoreInvStep, PTL DEF StoreSpec

\* Every state of the store has its types, and its votes are finitely many.
THEOREM StoreTyped == StoreSpec => []TypeOK
<1>1. StoreInv => TypeOK
  BY DEF StoreInv
<1>2. QED
  BY <1>1, StoreInvariant, PTL

\* However rounds are opened, ended and re-opened, at most one is open: the
\* newest. current_round can never return the wrong one.
THEOREM OneOpenRound == StoreSpec => []OnlyNewestOpen
<1>1. StoreInv => OnlyNewestOpen
  BY DEF StoreInv
<1>2. QED
  BY <1>1, StoreInvariant, PTL

\* No voter ever holds more ballots in a round than the product's limit.
THEOREM BallotsBounded == StoreSpec => []BallotsWithinLimit
<1>1. StoreInv => BallotsWithinLimit
  BY DEF StoreInv
<1>2. QED
  BY <1>1, StoreInvariant, PTL

\* No round, at any later time, holds a ballot for its own song or for one that
\* played within the shortest cooldown before it.
THEOREM LockHolds == StoreSpec => []NoBallotForLockedSong
<1>1. StoreInv => NoBallotForLockedSong
  BY DEF StoreInv
<1>2. QED
  BY <1>1, StoreInvariant, PTL

\* Nothing the admin deletes leaves a round or a ballot without its song.
THEOREM HistoryIsComplete == StoreSpec => []HistoryKeepsItsSongs
<1>1. StoreInv => HistoryKeepsItsSongs
  BY DEF StoreInv
<1>2. QED
  BY <1>1, StoreInvariant, PTL

----------------------------------------------------------------------------
(* What a step may never do *)

\* One step of the store adds nothing to a round that has ended: cast_vote, which
\* alone adds a ballot, asks whether the round is open.
LEMMA EndedStep ==
  ASSUME TypeOK, OnlyNewestOpen, StoreNext, NEW r \in DOMAIN rounds, ~rounds[r].open
  PROVE  /\ r \in DOMAIN rounds'
         /\ ~rounds'[r].open
         /\ rounds'[r].song = rounds[r].song
         /\ \A b \in votes' : b.round = r => b \in votes
<1>1. ASSUME NEW b \in votes', b.round = r
      PROVE  b \in votes
  <2>1. ASSUME NEW q \in DOMAIN rounds, NEW v \in Voter, NEW s \in Song, NEW valid,
               CastVote(q, v, s, valid)
        PROVE  b \in votes
    <3>1. q # r
      BY <2>1, CastGuards DEF IsOpen
    <3>2. b # [round |-> q, voter |-> v, song |-> s]
      BY <1>1, <3>1
    <3>3. QED
      BY <2>1, <3>2 DEF CastVote
  <2>2. QED
    BY <1>1, <2>1, VotesStep
<1>2. QED
  BY <1>1, RoundsKept

\* A round that has ended is sealed: retract_vote may still take a ballot out of
\* it and set_winner may still record its winner, and nothing else touches it.
THEOREM EndedRoundsSealed == StoreSpec => EndedRoundsGainNothing
<1> DEFINE Sealed ==
      \A r \in DOMAIN rounds :
        ~rounds[r].open =>
          /\ r \in DOMAIN rounds'
          /\ ~rounds'[r].open
          /\ rounds'[r].song = rounds[r].song
          /\ \A b \in votes' : b.round = r => b \in votes
<1>1. StoreInv /\ [StoreNext]_storeVars => [Sealed]_storeVars
  BY EndedStep DEF StoreInv
<1>2. QED
  BY <1>1, StoreInvariant, PTL DEF StoreSpec, EndedRoundsGainNothing

\* One step of the store lets a voter's ballots of a round grow no further than
\* the allowance it reads.
LEMMA AllowanceStep ==
  ASSUME TypeOK, StoreNext, NEW r \in DOMAIN rounds, NEW v \in Voter
  PROVE  Cardinality(Selection(r, v)') > Cardinality(Selection(r, v))
           => Cardinality(Selection(r, v)') <= allowance
<1>1. IsFiniteSet(Selection(r, v)) /\ Cardinality(Selection(r, v)) \in Nat
  BY SelectionFinite DEF TypeOK
<1>2. CASE votes' \subseteq votes
  <2>1. Selection(r, v)' \subseteq Selection(r, v)
    BY <1>2 DEF Selection
  <2>2. /\ IsFiniteSet(Selection(r, v)')
        /\ Cardinality(Selection(r, v)') <= Cardinality(Selection(r, v))
    BY <1>1, <2>1, FS_Subset
  <2>3. Cardinality(Selection(r, v)') \in Nat
    BY <2>2, FS_CardinalityType
  <2>4. QED
    BY <1>1, <2>2, <2>3
<1>3. ASSUME NEW q \in DOMAIN rounds, NEW w \in Voter, NEW s \in Song, NEW valid,
             CastVote(q, w, s, valid)
      PROVE  \/ Selection(r, v)' = Selection(r, v)
             \/ Cardinality(Selection(r, v)') <= allowance
  <2>1. q \in Nat
    BY DEF TypeOK
  <2>2. QED
    BY <1>3, <2>1, CastSelection
<1>4. QED
  BY <1>1, <1>2, <1>3, VotesStep

\* Whatever the admin does to votes_per_round, a voter's ballots of a round
\* grow only up to the allowance in force when they grow.
THEOREM AllowanceInForce == StoreSpec => AllowanceRespected
<1> DEFINE Respected ==
      \A r \in DOMAIN rounds, v \in Voter :
        Cardinality(Selection(r, v)') > Cardinality(Selection(r, v))
          => Cardinality(Selection(r, v)') <= allowance
<1>1. StoreInv /\ [StoreNext]_storeVars => [Respected]_storeVars
  BY AllowanceStep DEF StoreInv
<1>2. QED
  BY <1>1, StoreInvariant, PTL DEF StoreSpec, AllowanceRespected

----------------------------------------------------------------------------
(* The winner of a round *)

\* Every set of numbers that has an element has a least one.
LEMMA LeastOfNats ==
  ASSUME NEW T \in SUBSET Nat, T # {}
  PROVE  \E least \in T : \A n \in T : least <= n
<1> DEFINE R == {p \in Nat \X Nat : p[1] < p[2]}
<1>1. IsWellFoundedOn(R, Nat)
  BY NatLessThanWellFounded DEF OpToRel
<1> HIDE DEF R
<1>2. PICK least \in T : \A n \in T : ~(<<n, least>> \in R)
  BY <1>1, WFMin
<1>3. ASSUME NEW n \in T PROVE least <= n
  <2>1. ~(n < least)
    BY <1>2 DEF R
  <2>2. QED
    BY <2>1
<1>4. QED
  BY <1>2, <1>3

\* The same for the greatest, when there is a bound.
LEMMA GreatestOfNats ==
  ASSUME NEW T \in SUBSET Nat, T # {}, NEW bound \in Nat, \A n \in T : n <= bound
  PROVE  \E greatest \in T : \A n \in T : n <= greatest
<1> DEFINE U == {bound - n : n \in T}
<1>1. U \in SUBSET Nat
  <2>1. \A n \in T : bound - n \in Nat
    OBVIOUS
  <2>2. QED
    BY <2>1
<1>2. U # {}
  OBVIOUS
<1> HIDE DEF U
<1>3. PICK least \in U : \A n \in U : least <= n
  BY <1>1, <1>2, LeastOfNats
<1>4. PICK greatest \in T : least = bound - greatest
  BY <1>3 DEF U
<1>5. ASSUME NEW n \in T PROVE n <= greatest
  <2>1. bound - greatest <= bound - n
    BY <1>3, <1>4 DEF U
  <2>2. QED
    BY <2>1
<1>6. QED
  BY <1>5

\* A song's last round is a number, 0 if it has none, and one song was played
\* earlier than another exactly if its number is the smaller.
LEMMA LastPlayed ==
  ASSUME rounds \in Seq(RoundRow)
  PROVE  \E last \in [Song -> Nat] :
           \A s, t \in Song : PlayedEarlier(s, t) <=> last[s] < last[t]
<1> DEFINE Played(s) == {i \in DOMAIN rounds : rounds[i].song = s}
           IsLast(s, n) == /\ \A i \in Played(s) : i <= n
                           /\ n \in Played(s) \/ (n = 0 /\ Played(s) = {})
           last == [s \in Song |-> CHOOSE n \in Nat : IsLast(s, n)]
<1>1. DOMAIN rounds = 1..Len(rounds) /\ Len(rounds) \in Nat
  OBVIOUS
<1>2. ASSUME NEW s \in Song PROVE \E n \in Nat : IsLast(s, n)
  <2>1. CASE Played(s) = {}
    BY <2>1
  <2>2. CASE Played(s) # {}
    <3>1. Played(s) \in SUBSET Nat /\ \A i \in Played(s) : i <= Len(rounds)
      BY <1>1
    <3> HIDE DEF Played
    <3>2. PICK n \in Played(s) : \A i \in Played(s) : i <= n
      BY <1>1, <2>2, <3>1, GreatestOfNats
    <3>3. QED
      BY <3>1, <3>2
  <2>3. QED
    BY <2>1, <2>2
<1>3. ASSUME NEW s \in Song PROVE last[s] \in Nat /\ IsLast(s, last[s])
  <2> HIDE DEF IsLast
  <2>1. QED
    BY <1>2
<1>4. last \in [Song -> Nat]
  <2> HIDE DEF IsLast
  <2>1. QED
    BY <1>2
<1> HIDE DEF last
<1>5. ASSUME NEW s \in Song, NEW t \in Song
      PROVE  PlayedEarlier(s, t) <=> last[s] < last[t]
  <2>1. /\ last[s] \in Nat /\ IsLast(s, last[s])
        /\ last[t] \in Nat /\ IsLast(t, last[t])
    BY <1>3
  <2>2. PlayedEarlier(s, t) <=> \E j \in Played(t) : \A i \in Played(s) : i < j
    BY DEF PlayedEarlier
  <2>3. \A i \in Played(s) \cup Played(t) : i \in Nat \ {0}
    BY <1>1
  <2> HIDE DEF Played
  <2>4. ASSUME NEW j \in Played(t), \A i \in Played(s) : i < j
        PROVE  last[s] < last[t]
    BY <2>1, <2>3, <2>4
  <2>5. ASSUME last[s] < last[t]
        PROVE  last[t] \in Played(t) /\ \A i \in Played(s) : i < last[t]
    BY <2>1, <2>3, <2>5
  <2>6. QED
    BY <2>2, <2>4, <2>5
<1>6. QED
  BY <1>4, <1>5

\* No tally exceeds the number of ballots.
LEMMA TallyBounded ==
  ASSUME IsFiniteSet(votes), NEW r, NEW s
  PROVE  Tally(r, s) \in Nat /\ Tally(r, s) <= Cardinality(votes)
<1>1. {b \in votes : b.round = r /\ b.song = s} \subseteq votes
  OBVIOUS
<1>2. QED
  BY <1>1, FS_Subset, FS_CardinalityType DEF Tally

\* What winner() promises of a round: somebody's song wins as soon as there is
\* a ballot, no song has more votes, and two songs can both be the answer only
\* if they tie on votes, on when they were last played and on the title.
WinnerSettled(r) ==
  /\ VotedFor(r) # {} => Winners(r) # {}
  /\ \A s \in Winners(r), t \in VotedFor(r) : Tally(r, s) >= Tally(r, t)
  /\ \A s, t \in Winners(r) :
       /\ Tally(r, s) = Tally(r, t)
       /\ ~PlayedEarlier(s, t) /\ ~PlayedEarlier(t, s)
       /\ Title[s] = Title[t]

\* With a ballot in the round the three criteria always single out a song: the
\* most votes, of those the one longest unheard, of those the first title.
LEMMA WinnerExists ==
  ASSUME TypeOK, NEW r, VotedFor(r) # {}
  PROVE  Winners(r) # {}
<1>1. PICK last \in [Song -> Nat] :
        \A s, t \in Song : PlayedEarlier(s, t) <=> last[s] < last[t]
  BY LastPlayed DEF TypeOK
<1>2. VotedFor(r) \subseteq Song
  BY DEF VotedFor, TypeOK, VoteRow
<1>3. \A s \in VotedFor(r) : Tally(r, s) \in Nat /\ Tally(r, s) <= Cardinality(votes)
  BY TallyBounded DEF TypeOK
<1> DEFINE most == {Tally(r, s) : s \in VotedFor(r)}
<1>4. PICK m \in VotedFor(r) : \A s \in VotedFor(r) : Tally(r, s) <= Tally(r, m)
  <2>1. most \in SUBSET Nat /\ most # {} /\ \A n \in most : n <= Cardinality(votes)
    BY <1>3
  <2>2. Cardinality(votes) \in Nat
    BY FS_CardinalityType DEF TypeOK
  <2> HIDE DEF most
  <2>3. PICK n \in most : \A k \in most : k <= n
    BY <2>1, <2>2, GreatestOfNats
  <2>4. QED
    BY <2>3 DEF most
<1> DEFINE Front == {s \in VotedFor(r) : Tally(r, s) = Tally(r, m)}
           ages == {last[s] : s \in Front}
<1>5. PICK o \in Front : \A s \in Front : last[o] <= last[s]
  <2>1. ages \in SUBSET Nat /\ ages # {}
    BY <1>1, <1>2
  <2> HIDE DEF ages
  <2>2. PICK n \in ages : \A k \in ages : n <= k
    BY <2>1, LeastOfNats
  <2> HIDE DEF Front
  <2>3. QED
    BY <2>2 DEF ages
<1> DEFINE Oldest == {s \in Front : last[s] = last[o]}
           ranks == {Title[s] : s \in Oldest}
<1>6. PICK w \in Oldest : \A s \in Oldest : Title[w] <= Title[s]
  <2>1. ranks \in SUBSET Nat /\ ranks # {}
    BY <1>1, <1>2, <1>5, StoreAssumption
  <2> HIDE DEF ranks
  <2>2. PICK n \in ranks : \A k \in ranks : n <= k
    BY <2>1, LeastOfNats
  <2> HIDE DEF Oldest
  <2>3. QED
    BY <2>2 DEF ranks
<1>7. ASSUME NEW t \in VotedFor(r), Beats(t, w, r)
      PROVE  FALSE
  <2>1. w \in Song /\ t \in Song /\ Title[w] \in Nat /\ Title[t] \in Nat
    BY <1>2, StoreAssumption
  <2>2. /\ Tally(r, t) \in Nat /\ Tally(r, w) \in Nat
        /\ Tally(r, t) <= Tally(r, w)
    BY <1>3, <1>4
  <2>3. /\ Tally(r, t) = Tally(r, w)
        /\ last[t] < last[w] \/ (~(last[w] < last[t]) /\ Title[t] < Title[w])
    BY <1>1, <1>7, <2>1, <2>2 DEF Beats
  <2>4. t \in Front /\ last[w] = last[o] /\ last[o] <= last[t]
    BY <1>5, <2>3
  <2>5. last[t] = last[w] /\ Title[t] < Title[w]
    BY <1>1, <2>1, <2>3, <2>4
  <2>6. t \in Oldest
    BY <2>4, <2>5
  <2>7. QED
    BY <1>6, <2>1, <2>5, <2>6
<1>8. w \in VotedFor(r)
  OBVIOUS
<1>9. QED
  BY <1>7, <1>8 DEF Winners

\* A winner has at least every other song's votes, and another winner ties
\* with it on all three criteria.
LEMMA WinnersTie ==
  ASSUME TypeOK, NEW r, NEW s \in Winners(r), NEW t \in VotedFor(r)
  PROVE  /\ Tally(r, s) >= Tally(r, t)
         /\ t \in Winners(r) =>
              /\ Tally(r, s) = Tally(r, t)
              /\ ~PlayedEarlier(s, t) /\ ~PlayedEarlier(t, s)
              /\ Title[s] = Title[t]
<1>1. s \in VotedFor(r) /\ s \in Song /\ t \in Song
  BY DEF Winners, VotedFor, TypeOK, VoteRow
<1>2. Tally(r, s) \in Nat /\ Tally(r, t) \in Nat
  BY TallyBounded DEF TypeOK
<1>3. Title[s] \in Nat /\ Title[t] \in Nat
  BY <1>1, StoreAssumption
<1>4. ~Beats(t, s, r)
  BY DEF Winners
<1>5. Tally(r, s) >= Tally(r, t)
  BY <1>2, <1>4 DEF Beats
<1>6. ASSUME t \in Winners(r)
      PROVE  ~Beats(s, t, r)
  BY <1>1, <1>6 DEF Winners
<1>7. QED
  BY <1>2, <1>3, <1>4, <1>5, <1>6 DEF Beats

\* winner() answers None only for a round without ballots, and its answer is
\* settled by votes, last_played and title, whatever the tables hold: the title
\* is a final tie-break unless two songs share it (store.py:1008-1038).
THEOREM WinnerIsSettled == StoreSpec => [](\A r \in Nat : WinnerSettled(r))
<1>1. TypeOK => \A r \in Nat : WinnerSettled(r)
  <2>1. ASSUME TypeOK, NEW r \in Nat
        PROVE  WinnerSettled(r)
    <3>1. Winners(r) \subseteq VotedFor(r)
      BY DEF Winners
    <3>2. QED
      BY <2>1, <3>1, WinnerExists, WinnersTie DEF WinnerSettled
  <2>2. QED
    BY <2>1
<1>2. QED
  BY <1>1, StoreTyped, PTL

----------------------------------------------------------------------------
(* The store implements the abstract specification *)

\* An accepted vote is a Cast in the newest round.
LEMMA CastImplementsCast ==
  ASSUME StoreInv, NEW r \in DOMAIN rounds, NEW v \in Voter, NEW s \in Song,
         NEW valid \in SUBSET Song, CastVote(r, v, s, valid)
  PROVE  Abstraction!Cast(v, s)
<1>1. /\ IsOpen(r)
      /\ r = Len(rounds)
      /\ rounds' = rounds
  BY CastGuards DEF IsOpen, StoreInv, OnlyNewestOpen, CastVote
<1> DEFINE out == CastOutcome(r, v, s, valid)
           given == GivenUp(r, v, out)
<1>2. /\ given \in SUBSET Abstraction!Held(Len(rounds), v, votes)
      /\ votes' = (votes \ given)
                    \cup {[round |-> Len(rounds), voter |-> v, song |-> s]}
  BY <1>1 DEF CastVote, GivenUp, Selection, Abstraction!Held
<1>3. Cardinality(Abstraction!Held(Len(rounds), v, votes')) <= VotesPerRoundLimit
  <2>1. StoreNext
    BY <1>1, LenProperties DEF StoreNext, StoreInv, TypeOK
  <2>2. BallotsWithinLimit'
    BY <2>1, BallotsWithinLimitStep DEF StoreInv
  <2>3. Abstraction!Held(r, v, votes') = Selection(r, v)'
    BY DEF Abstraction!Held, Selection
  <2>4. QED
    BY <1>1, <2>2, <2>3 DEF BallotsWithinLimit
<1>4. \A S : Abstraction!Cardinality(S) = Cardinality(S)
  BY Zenon DEF Abstraction!Cardinality, Cardinality
<1>5. QED
  BY <1>1, <1>2, <1>3, <1>4 DEF Abstraction!Cast, IsOpen

\* Every step of the store is a step of Ballot or leaves it where it was.
LEMMA StepImplements ==
  ASSUME StoreInv, StoreNext
  PROVE  [Abstraction!Next]_(Abstraction!vars)
<1> DEFINE isOpen == \E r \in DOMAIN rounds : rounds[r].open
<1>0. Len(rounds) \in Nat /\ DOMAIN rounds = 1..Len(rounds)
  BY DEF StoreInv, TypeOK
<1>1. ASSUME NEW s \in Song, EnsureRound(s)
      PROVE  [Abstraction!Next]_(Abstraction!vars)
  <2>1. votes' = votes
    BY <1>1 DEF EnsureRound
  <2>2. CASE rounds' = rounds
    BY <2>1, <2>2 DEF Abstraction!vars
  <2>3. CASE /\ Len(rounds') = Len(rounds) + 1
             /\ DOMAIN rounds' = 1..(Len(rounds) + 1)
             /\ rounds'[Len(rounds) + 1].open
    <3>1. isOpen'
      BY <1>0, <2>3
    <3>2. Abstraction!Open
      BY <2>1, <2>3, <3>1 DEF Abstraction!Open
    <3>3. QED
      BY <3>2 DEF Abstraction!Next
  <2>4. QED
    BY <1>1, <2>2, <2>3, EnsureRoundShape DEF StoreInv
<1>2. CASE CloseOpenRound
  <2>1. /\ Len(rounds') = Len(rounds)
        /\ ~isOpen'
        /\ votes' = votes
    BY <1>2, EndCurrentShape DEF CloseOpenRound, StoreInv, TypeOK
  <2>2. CASE isOpen
    BY <2>1, <2>2 DEF Abstraction!Next, Abstraction!Close
  <2>3. CASE ~isOpen
    BY <2>1, <2>3 DEF Abstraction!vars
  <2>4. QED
    BY <2>2, <2>3
<1>3. ASSUME NEW r \in DOMAIN rounds, NEW w \in Song, SetWinner(r, w)
      PROVE  [Abstraction!Next]_(Abstraction!vars)
  <2>1. Len(rounds') = Len(rounds) /\ isOpen' = isOpen /\ votes' = votes
    BY <1>3, SetWinnerType DEF SetWinner, StoreInv
  <2>2. QED
    BY <2>1 DEF Abstraction!vars
<1>4. ASSUME NEW r, NEW v \in Voter, NEW s \in Song, NEW valid \in SUBSET Song,
             CastVote(r, v, s, valid)
      PROVE  Abstraction!Next
  BY <1>4, CastGuards, CastImplementsCast DEF IsOpen, Abstraction!Next
<1>5. ASSUME NEW b \in votes, RetractVote(b.round, b.voter, b.song)
      PROVE  Abstraction!Next
  <2>1. b = [round |-> b.round, voter |-> b.voter, song |-> b.song]
    BY DEF StoreInv, TypeOK, VoteRow
  <2>2. Abstraction!Withdraw(b)
    BY <1>5, <2>1 DEF RetractVote, Abstraction!Withdraw
  <2>3. QED
    BY <2>2 DEF Abstraction!Next
<1>6. CASE UNCHANGED <<rounds, votes>>
  BY <1>6 DEF Abstraction!vars
<1>7. QED
  BY <1>1, <1>2, <1>3, <1>4, <1>5, <1>6
  DEF StoreNext, UpsertSong, SetExcluded, DeleteSong, SetVotesPerRound, SetCooldownSongs,
      SetVotingEnabled

\* The database keeps the promise of Ballot: rounds one at a time, ballots only
\* into the open one and within the limit, and none lost but by its own voter.
THEOREM StoreImplementsBallot == StoreSpec => ImplementsBallot
<1>1. StoreInit => Abstraction!Init
  BY DEF StoreInit, Abstraction!Init
<1>2. StoreInv /\ [StoreNext]_storeVars => [Abstraction!Next]_(Abstraction!vars)
  <2>1. ASSUME UNCHANGED storeVars
        PROVE  UNCHANGED Abstraction!vars
    BY <2>1 DEF storeVars, Abstraction!vars
  <2>2. QED
    BY <2>1, StepImplements
<1>3. QED
  BY <1>1, <1>2, StoreInvariant, PTL DEF StoreSpec, ImplementsBallot, Abstraction!Spec

===============================================================================
