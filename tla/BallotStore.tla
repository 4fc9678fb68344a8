----------------------------- MODULE BallotStore -----------------------------
(***************************************************************************)
(* The part of the database that voting lives in: the rounds and votes     *)
(* tables, the songs rows they refer to, and the three settings that rule  *)
(* them (src/fppvote/db/store.py, schema.sql).                             *)
(*                                                                         *)
(* Each action is one method of Store. cast_vote and ensure_round run      *)
(* inside BEGIN IMMEDIATE and every other method is a single writing       *)
(* statement, so each is one atomic step. (close_open_round reads the      *)
(* current round first; only the follower thread ever moves it.) The       *)
(* callers (follower thread, request threads, admin) are left free here:   *)
(* any method may be called at any time with any argument. Service         *)
(* composes the real callers.                                              *)
(*                                                                         *)
(* Abstracted: song keys are already resolved through song_aliases (the    *)
(* Catalog component); time stamps, show_id (informational only) and       *)
(* vote_id are left out; the UNIQUE index on votes makes it a set.         *)
(***************************************************************************)
EXTENDS Integers, Sequences, FiniteSets

CONSTANTS
  Voter,             \* the voter hashes
  Song,              \* the song keys FPP can ever report
  NoSong,            \* SQL NULL where a song key could stand
  Title,             \* Song -> Nat: the collation rank of each song's title
  MaxRounds,         \* BOUND: how many rounds are ever inserted
  CooldownChoices,   \* the values the admin gives cooldown_songs
  Catalogues         \* what the songs table may hold at first: sets of songs

\* The largest vote allowance the product permits: set_votes_per_round.
VotesPerRoundLimit == 3

ASSUME StoreAssumption ==
  /\ NoSong \notin Song
  /\ Title \in [Song -> Nat]
  /\ MaxRounds \in Nat
  /\ CooldownChoices \subseteq Nat
  /\ CooldownChoices # {}
  /\ Catalogues \subseteq SUBSET Song

VARIABLES
  rounds,      \* sequence of [song, open, winner]; the index is round_id
  votes,       \* set of [round, voter, song]
  songs,       \* keys that have a row in the songs table
  excluded,    \* the rows with excluded = 1
  allowance,   \* setting votes_per_round
  cooldown,    \* setting cooldown_songs
  enabled      \* setting voting_enabled

storeVars == <<rounds, votes, songs, excluded, allowance, cooldown, enabled>>

RoundRow == [song : Song, open : BOOLEAN, winner : Song \cup {NoSong}]
VoteRow  == [round : Nat, voter : Voter, song : Song]

----------------------------------------------------------------------------
(* Queries *)

\* current_round: the newest round whose ended_at is NULL.
IsCurrent(r) ==
  /\ r \in DOMAIN rounds
  /\ rounds[r].open
  /\ \A q \in DOMAIN rounds : rounds[q].open => q <= r

IsOpen(r) == r \in DOMAIN rounds /\ rounds[r].open

\* A voter's ballots of one round: voter_selection.
Selection(r, v) == {b \in votes : b.round = r /\ b.voter = v}

\* The songs of the newest n rounds: recent_song_keys.
RecentSongKeys(n) ==
  {rounds[i].song : i \in {j \in DOMAIN rounds : j > Len(rounds) - n}}

\* Mutant: the window forgets the song that is playing now.
LockedWithoutCurrent == RecentSongKeys(cooldown)

\* locked_keys: playing now, plus the cooldown window.
LockedKeys == RecentSongKeys(cooldown + 1)

Tally(r, s) == Cardinality({b \in votes : b.round = r /\ b.song = s})

VotedFor(r) == {b.song : b \in {x \in votes : x.round = r}}

\* s was last played in an earlier round than t, or never while t was.
PlayedEarlier(s, t) ==
  \E j \in DOMAIN rounds :
    /\ rounds[j].song = t
    /\ \A i \in DOMAIN rounds : rounds[i].song = s => i < j

\* winner()'s ORDER BY votes DESC, last_played ASC, title ASC.
Beats(s, t, r) ==
  \/ Tally(r, s) > Tally(r, t)
  \/ /\ Tally(r, s) = Tally(r, t)
     /\ \/ PlayedEarlier(s, t)
        \/ ~PlayedEarlier(t, s) /\ Title[s] < Title[t]

\* winner(): one song, unless two with equal titles tie on everything, when
\* SQLite may return either. Empty when nobody voted: the method's None.
Winners(r) == {s \in VotedFor(r) : \A t \in VotedFor(r) : ~Beats(t, s, r)}

----------------------------------------------------------------------------
(* Rounds *)

\* Mutant: the outgoing round is never given its ended_at.
LeaveCurrentOpen == rounds

\* The rounds with the current one ended.
EndCurrent ==
  [r \in DOMAIN rounds |->
     IF IsCurrent(r) THEN [rounds[r] EXCEPT !.open = FALSE] ELSE rounds[r]]

\* ensure_round(song): the open round if it is for this song, else a new one.
\* song_key is a foreign key, so the song must have its row.
EnsureRound(s) ==
  /\ s \in songs
  /\ \/ /\ \E r \in DOMAIN rounds : IsCurrent(r) /\ rounds[r].song = s
        /\ UNCHANGED rounds
     \/ /\ \A r \in DOMAIN rounds : IsCurrent(r) => rounds[r].song # s
        /\ Len(rounds) < MaxRounds
        /\ rounds' = Append(EndCurrent,
                            [song |-> s, open |-> TRUE, winner |-> NoSong])
  /\ UNCHANGED <<votes, songs, excluded, allowance, cooldown, enabled>>

\* close_open_round(): the show stopped. No caller passes a winner_key.
CloseOpenRound ==
  /\ rounds' = EndCurrent
  /\ UNCHANGED <<votes, songs, excluded, allowance, cooldown, enabled>>

\* set_winner(round_id, winner_key)
SetWinner(r, w) ==
  /\ r \in DOMAIN rounds
  /\ w \in songs
  /\ rounds' = [rounds EXCEPT ![r].winner = w]
  /\ UNCHANGED <<votes, songs, excluded, allowance, cooldown, enabled>>

----------------------------------------------------------------------------
(* Votes *)

\* Mutant: the allowance test lets one ballot too many through.
OneTooMany(r, v) == Cardinality(Selection(r, v)) > allowance

\* The voter holds as many ballots as the allowance permits.
AtLimit(r, v) == Cardinality(Selection(r, v)) >= allowance

\* Mutant: a round that has ended is not refused.
OutcomeClosedToo(r, v, s, valid) ==
  IF r \notin DOMAIN rounds                          THEN "round_closed"
  ELSE IF s \notin songs                             THEN "unknown_song"
  ELSE IF s \notin valid                             THEN "not_in_show"
  ELSE IF s \in LockedKeys                           THEN "locked"
  ELSE IF \E b \in Selection(r, v) : b.song = s      THEN "duplicate"
  ELSE IF ~AtLimit(r, v)                             THEN "accepted"
  ELSE IF allowance = 1                              THEN "moved"
  ELSE "limit_reached"

\* What cast_vote answers, in the order of its early returns. `valid' is the
\* caller's valid_keys.
CastOutcome(r, v, s, valid) ==
  IF ~IsOpen(r)                                      THEN "round_closed"
  ELSE IF s \notin songs                             THEN "unknown_song"
  ELSE IF s \notin valid                             THEN "not_in_show"
  ELSE IF s \in LockedKeys                           THEN "locked"
  ELSE IF \E b \in Selection(r, v) : b.song = s      THEN "duplicate"
  ELSE IF ~AtLimit(r, v)                             THEN "accepted"
  ELSE IF allowance = 1                              THEN "moved"
  ELSE "limit_reached"

\* Mutant: the move deletes by round alone.
GivesUpWholeRound(r, v, outcome) ==
  IF outcome = "moved" THEN {b \in votes : b.round = r} ELSE {}

\* At allowance 1 a new song replaces every ballot the voter has this round.
GivenUp(r, v, outcome) ==
  IF outcome = "moved" THEN Selection(r, v) ELSE {}

\* The accepting paths of cast_vote. Every other outcome changes nothing.
CastVote(r, v, s, valid) ==
  LET outcome == CastOutcome(r, v, s, valid)
  IN  /\ outcome \in {"accepted", "moved"}
      /\ votes' = (votes \ GivenUp(r, v, outcome))
                    \cup {[round |-> r, voter |-> v, song |-> s]}
      /\ UNCHANGED <<rounds, songs, excluded, allowance, cooldown, enabled>>

\* Mutant: the voter is missing from the WHERE clause.
RetractForEveryone(r, v, s) ==
  /\ votes' = {b \in votes : b.round # r \/ b.song # s}
  /\ UNCHANGED <<rounds, songs, excluded, allowance, cooldown, enabled>>

\* retract_vote: deletes the ballot whatever the state of its round.
RetractVote(r, v, s) ==
  /\ votes' = votes \ {[round |-> r, voter |-> v, song |-> s]}
  /\ UNCHANGED <<rounds, songs, excluded, allowance, cooldown, enabled>>

----------------------------------------------------------------------------
(* Songs rows and settings *)

\* upsert_song, as far as voting can tell: the row exists afterwards.
UpsertSong(s) ==
  /\ songs' = songs \cup {s}
  /\ UNCHANGED <<rounds, votes, excluded, allowance, cooldown, enabled>>

\* set_excluded: an UPDATE, so nothing happens to a song with no row.
SetExcluded(s, out) ==
  /\ excluded' = IF s \in songs /\ out THEN excluded \cup {s} ELSE excluded \ {s}
  /\ UNCHANGED <<rounds, votes, songs, allowance, cooldown, enabled>>

\* Mutant: whether the song ever won is not asked.
ReferencedByPlay(s) ==
  \/ \E r \in DOMAIN rounds : rounds[r].song = s
  \/ \E b \in votes : b.song = s

\* Some round or ballot still refers to the song.
Referenced(s) ==
  \/ \E r \in DOMAIN rounds : s \in {rounds[r].song, rounds[r].winner}
  \/ \E b \in votes : b.song = s

\* delete_song: only an excluded song without history goes. The foreign keys
\* enforce the history part within the DELETE, so check and delete are one step.
\* Nothing enforces the other part: an un-exclude that lands between the check
\* and the DELETE is taken as one that comes after it and finds no row.
DeleteSong(s) ==
  /\ s \in songs /\ s \in excluded
  /\ ~Referenced(s)
  /\ songs' = songs \ {s}
  /\ excluded' = excluded \ {s}
  /\ UNCHANGED <<rounds, votes, allowance, cooldown, enabled>>

\* Mutant: nothing refuses an allowance of zero.
AllowanceFromZero(n) == n \in 0..VotesPerRoundLimit

\* The product rule: one to three votes.
ValidAllowance(n) == n \in 1..VotesPerRoundLimit

\* set_votes_per_round; a ValueError outside the rule changes nothing.
SetVotesPerRound(n) ==
  /\ ValidAllowance(n)
  /\ allowance' = n
  /\ UNCHANGED <<rounds, votes, songs, excluded, cooldown, enabled>>

\* set_cooldown_songs; negative values are refused.
SetCooldownSongs(n) ==
  /\ n >= 0
  /\ cooldown' = n
  /\ UNCHANGED <<rounds, votes, songs, excluded, allowance, enabled>>

SetVotingEnabled(on) ==
  /\ enabled' = on
  /\ UNCHANGED <<rounds, votes, songs, excluded, allowance, cooldown>>

\* voteable_catalog(keys): the keys with a row that is not excluded.
VoteableCatalog(keys) == (keys \cap songs) \ excluded

----------------------------------------------------------------------------
StoreInit ==
  /\ rounds = <<>>
  /\ votes = {}
  /\ songs \in Catalogues
  /\ excluded = {}
  /\ allowance = VotesPerRoundLimit
  /\ cooldown \in CooldownChoices
  /\ enabled = TRUE

StoreNext ==
  \/ \E s \in Song : EnsureRound(s)
  \/ CloseOpenRound
  \/ \E r \in DOMAIN rounds, w \in Song : SetWinner(r, w)
  \/ \E r \in 0..Len(rounds), v \in Voter, s \in Song, valid \in SUBSET Song :
       CastVote(r, v, s, valid)
  \/ \E b \in votes : RetractVote(b.round, b.voter, b.song)
  \/ \E s \in Song : UpsertSong(s)
  \/ \E s \in Song, out \in BOOLEAN : SetExcluded(s, out)
  \/ \E s \in Song : DeleteSong(s)
  \/ \E n \in 0..(VotesPerRoundLimit + 1) : SetVotesPerRound(n)
  \/ \E n \in CooldownChoices : SetCooldownSongs(n)
  \/ \E on \in BOOLEAN : SetVotingEnabled(on)

StoreSpec == StoreInit /\ [][StoreNext]_storeVars

----------------------------------------------------------------------------
(* Properties *)

TypeOK ==
  /\ rounds \in Seq(RoundRow)
  /\ votes \in SUBSET VoteRow
  /\ IsFiniteSet(votes)
  /\ songs \in SUBSET Song
  /\ excluded \in SUBSET Song
  /\ allowance \in 1..VotesPerRoundLimit
  /\ cooldown \in CooldownChoices
  /\ enabled \in BOOLEAN

\* At most one round is open, and it is the newest: current_round's LIMIT 1
\* never hides a second open round (store.py:804-808, 833-843).
OnlyNewestOpen ==
  \A r \in DOMAIN rounds : rounds[r].open => r = Len(rounds)

\* Every ballot belongs to a round that exists and no voter holds more than
\* three in one round, whatever the allowance was changed to meanwhile.
BallotsWithinLimit ==
  /\ \A b \in votes : b.round \in DOMAIN rounds
  /\ \A r \in DOMAIN rounds, v \in Voter :
       Cardinality(Selection(r, v)) <= VotesPerRoundLimit

\* No ballot is for a song that was playing in its round or in as many rounds
\* before it as every cooldown the admin ever set locks (store.py:872-878).
NoBallotForLockedSong ==
  \A b \in votes, i \in DOMAIN rounds :
    (i <= b.round /\ \A c \in CooldownChoices : b.round - i <= c)
      => rounds[i].song # b.song

\* No round, winner or ballot ever refers to a song whose row is gone: history
\* outlives what the admin deletes (store.py:570-607, schema.sql:109-127).
HistoryKeepsItsSongs ==
  /\ \A r \in DOMAIN rounds :
       /\ rounds[r].song \in songs
       /\ rounds[r].winner \in songs \cup {NoSong}
  /\ \A b \in votes : b.song \in songs

\* A voter's ballots of a round grow only up to the allowance of that moment,
\* however the admin moves it while the round is open (store.py:940-971).
AllowanceRespected ==
  [][\A r \in DOMAIN rounds, v \in Voter :
       Cardinality(Selection(r, v)') > Cardinality(Selection(r, v))
         => Cardinality(Selection(r, v)') <= allowance]_storeVars

\* A round that has ended never reopens, never changes its song, and gains no
\* ballot (store.py:923-925).
EndedRoundsGainNothing ==
  [][\A r \in DOMAIN rounds :
       ~rounds[r].open =>
         /\ r \in DOMAIN rounds'
         /\ ~rounds'[r].open
         /\ rounds'[r].song = rounds[r].song
         /\ \A b \in votes' : b.round = r => b \in votes]_storeVars

\* The store's ballots, as the abstract specification sees them.
Abstraction == INSTANCE Ballot WITH
  Limit   <- VotesPerRoundLimit,
  newest  <- Len(rounds),
  voting  <- \E r \in DOMAIN rounds : rounds[r].open,
  ballots <- votes

\* The store keeps the promises of Ballot: every method that returns has taken
\* one step of it, or none (store.py:810-855, 897-990).
ImplementsBallot == Abstraction!Spec
===============================================================================
