----------------------------- MODULE ServiceProofs -----------------------------
(***************************************************************************)
(* The whole service proved for every number of voters, clients, songs and *)
(* outside events.                                                         *)
(*                                                                         *)
(* First, the service only ever uses the store through its methods: every  *)
(* step of the service is a step of BallotStore or leaves the store alone. *)
(* So whatever BallotStoreProofs proves of the store holds in the service. *)
(* Then the follower's own bookkeeping: what it follows is open, what was  *)
(* replaced is decided, and a round is asked for at most once.             *)
(***************************************************************************)
EXTENDS Service, BallotStoreProofs

\* A pass that has begun knows the song it is about.
TickKnowsSong == tick.pc \notin {"idle", "leave"} => tick.song \in Song

\* A pass that is to record or play a winner has one.
TypedInv == ServiceTypeOK /\ TickKnowsSong

----------------------------------------------------------------------------
(* The service uses the store through its methods *)

\* One pass: every database call in it is a method of the store.
LEMMA TickStepUsesStore ==
  ASSUME TypedInv, TickStep
  PROVE  StoreNext \/ UNCHANGED storeVars
<1>0. TypeOK /\ songs \subseteq Song
  BY DEF TypedInv, ServiceTypeOK, TypeOK
<1>1. CASE \/ TickSkip \/ TickLeave \/ TickPlaying \/ TickFetch \/ TickFollow
           \/ TickForeignKey
  BY <1>1 DEF TickSkip, TickLeave, TickPlaying, TickFetch, TickFollow, TickForeignKey
<1>2. CASE TickIdle
  BY <1>2 DEF TickIdle, StoreNext
<1>3. CASE TickCatalogue
  BY <1>3 DEF TickCatalogue, StoreNext, TypedInv, TickKnowsSong
<1>4. CASE TickEnsure
  BY <1>0, <1>4 DEF TickEnsure, EnsureRound, StoreNext
<1>5. CASE TickLate \/ TickOnTime
  BY <1>5 DEF TickLate, TickOnTime, Decide
<1>6. CASE TickLateRecord
  BY <1>0, <1>6 DEF TickLateRecord, SetWinner, StoreNext
<1>7. CASE TickRecord
  BY <1>0, <1>7 DEF TickRecord, SetWinner, StoreNext
<1>8. CASE TickLatePlay \/ TickPlay
  BY <1>8 DEF TickLatePlay, TickPlay, Play
<1>9. QED
  BY <1>1, <1>2, <1>3, <1>4, <1>5, <1>6, <1>7, <1>8 DEF TickStep

\* A vote request ends in cast_vote, in retract_vote, or in neither.
LEMMA RequestUsesStore ==
  ASSUME TypedInv, NEW c \in Client, RequestStep(c)
  PROVE  StoreNext \/ UNCHANGED storeVars
<1>0. /\ Holder[c] \in Voter
      /\ req[c].valid \in SUBSET Song
      /\ req[c].round \in Nat
      /\ TypeOK
      /\ songs \subseteq Song
  BY ServiceAssumption DEF TypedInv, ServiceTypeOK, TypeOK
<1>1. CASE CommitCast(c)
  <2>1. CastVote(req[c].round, Holder[c], req[c].song, req[c].valid)
    BY <1>1 DEF CommitCast
  <2>2. /\ req[c].round \in DOMAIN rounds
        /\ req[c].song \in Song
    BY <1>0, <2>1, CastGuards DEF IsOpen
  <2>3. req[c].round \in 0..Len(rounds)
    BY <1>0, <2>2, LenProperties DEF TypeOK
  <2>4. QED
    BY <1>0, <2>1, <2>2, <2>3 DEF StoreNext
<1>2. CASE CommitRetract(c)
  <2> DEFINE b == [round |-> req[c].round, voter |-> Holder[c], song |-> req[c].song]
  <2>1. RetractVote(b.round, b.voter, b.song)
    BY <1>2 DEF CommitRetract
  <2>2. CASE b \in votes
    <3> HIDE DEF b
    <3>1. QED
      BY <2>1, <2>2 DEF StoreNext
  <2>3. CASE b \notin votes
    BY <2>1, <2>3 DEF RetractVote, storeVars
  <2>4. QED
    BY <2>2, <2>3
<1>3. CASE CheckEnabled(c) \/ ReadValid(c) \/ CommitRefused(c)
  BY <1>3 DEF CheckEnabled, ReadValid, CommitRefused
<1>4. QED
  BY <1>1, <1>2, <1>3 DEF RequestStep

LEMMA ServiceUsesStoreStep ==
  ASSUME TypedInv, [ServiceNext]_serviceVars
  PROVE  [StoreNext]_storeVars
<1>1. CASE TickStep
  BY <1>1, TickStepUsesStore
<1>2. CASE TickFails \/ Restart
  BY <1>2 DEF TickFails, Restart, RestartFollower
<1>3. CASE PlayerStep
  BY <1>3
  DEF PlayerStep, PlayEntry, PlayAlone, Stop, EnterWindow, EditPlaylist, LinkDown, LinkUp
<1>4. ASSUME NEW c \in Client, NEW s \in Song, NEW retract \in BOOLEAN, Tap(c, s, retract)
      PROVE  UNCHANGED storeVars
  BY <1>4 DEF Tap
<1>5. ASSUME NEW c \in Client, RequestStep(c)
      PROVE  StoreNext \/ UNCHANGED storeVars
  BY <1>5, RequestUsesStore
<1>6. CASE AdminStep
  BY <1>6 DEF AdminStep, UpdateShow, UpdateSong, RemoveSong, Reconcile, SetVoting,
              SetRules, StoreNext
<1>7. CASE UNCHANGED serviceVars
  BY <1>7 DEF serviceVars
<1>8. QED
  BY <1>1, <1>2, <1>3, <1>4, <1>5, <1>6, <1>7 DEF ServiceNext

----------------------------------------------------------------------------
(* Type correctness *)

TickStates == {"idle", "leave", "fetch", "catalogue", "ensure", "follow",
               "late", "lateRecord", "latePlay", "ontime", "record", "play"}

\* The player's part of ServiceTypeOK.
EnvTypes ==
  /\ player \in [state : {"playing", "stopping", "idle"}, song : Song \cup {NoSong},
                  listed : BOOLEAN, window : BOOLEAN]
  /\ player.state = "playing" => player.song \in Song
  /\ playlist \in Playlists
  /\ link \in BOOLEAN
  /\ configured \in BOOLEAN
  /\ left \in [Events -> Nat]

\* The follower's part, with TickKnowsSong.
FollowerTypes ==
  /\ fs \in [round : Nat, voteable : SUBSET Song, handed : SUBSET Nat]
  /\ cache \in SUBSET Playlists
  /\ tick \in [pc : TickStates, song : Song \cup {NoSong}, listed : BOOLEAN,
                window : BOOLEAN, prev : Nat, pick : Song \cup {NoSong}]
  /\ tick.pc \notin {"idle", "leave"} => tick.song \in Song
  /\ superseded \in SUBSET Nat
  /\ commands \in Seq(Nat)

\* The requests' part.
RequestTypes ==
  req \in [Client -> [pc : {"idle", "check", "valid", "commit"},
                      song : Song \cup {NoSong}, retract : BOOLEAN,
                      round : Nat, valid : SUBSET Song]]

LEMMA TypesSplit ==
  TypedInv <=> TypeOK /\ EnvTypes /\ FollowerTypes /\ RequestTypes
BY DEF TypedInv, ServiceTypeOK, TickKnowsSong, EnvTypes, FollowerTypes, RequestTypes,
       TickStates

\* Spending from the budget keeps it a budget.
LEMMA SpendTypes ==
  ASSUME NEW e \in Events, left \in [Events -> Nat], Spend(e)
  PROVE  left' \in [Events -> Nat]
BY DEF Spend

\* What is read from a playlist is playlist entries or nothing.
LEMMA EntriesReadTypes ==
  ASSUME EnvTypes, FollowerTypes, NEW read \in EntriesRead
  PROVE  /\ read.entries \in Seq(Song)
         /\ read.cache \in SUBSET Playlists
<1>1. Playlists \subseteq Seq(Song) /\ <<>> \in Seq(Song)
  BY FollowerAssumption
<1>2. read \in {[entries |-> e, cache |-> cache] : e \in cache}
                \cup {[entries |-> playlist, cache |-> {playlist}]}
                \cup {[entries |-> <<>>, cache |-> cache]}
  BY DEF EntriesRead
<1>3. ASSUME NEW e \in cache, read = [entries |-> e, cache |-> cache]
      PROVE  read.entries \in Seq(Song) /\ read.cache \in SUBSET Playlists
  BY <1>1, <1>3 DEF FollowerTypes
<1>4. CASE read = [entries |-> playlist, cache |-> {playlist}]
  BY <1>1, <1>4 DEF EnvTypes
<1>5. CASE read = [entries |-> <<>>, cache |-> cache]
  BY <1>1, <1>5 DEF FollowerTypes
<1>6. QED
  BY <1>2, <1>3, <1>4, <1>5

\* A winner is a song somebody voted for.
LEMMA WinnersAreSongs ==
  ASSUME TypeOK, NEW r
  PROVE  Winners(r) \subseteq Song
<1>1. VotedFor(r) \subseteq Song
  BY DEF VotedFor, TypeOK, VoteRow
<1>2. QED
  BY <1>1 DEF Winners

\* Marking a round as handed over keeps the follower's state well typed.
LEMMA HandedTypes ==
  ASSUME FollowerTypes, NEW r \in Nat, fs' = [fs EXCEPT !.handed = @ \cup {r}]
  PROVE  fs' \in [round : Nat, voteable : SUBSET Song, handed : SUBSET Nat]
<1>1. fs.handed \cup {r} \in SUBSET Nat
  BY DEF FollowerTypes
<1>2. fs' = [fs EXCEPT !.handed = fs.handed \cup {r}]
  OBVIOUS
<1>3. QED
  BY <1>1, <1>2 DEF FollowerTypes

\* A jump leaves the player, the cache and the commands well typed.
LEMMA PlayTypes ==
  ASSUME EnvTypes, FollowerTypes, NEW r \in Nat, Play(r)
  PROVE  /\ EnvTypes'
         /\ cache' \in SUBSET Playlists
         /\ commands' \in Seq(Nat)
         /\ UNCHANGED <<fs, superseded>>
<1>1. PICK read \in EntriesRead :
        /\ cache' = read.cache
        /\ \/ UNCHANGED <<player, commands, left>>
           \/ \E i \in Indexes(read.entries, tick.pick) :
                /\ Obey(i) \/ Lost
                /\ commands' = Append(commands, r)
  BY DEF Play
<1>2. cache' \in SUBSET Playlists
  BY <1>1, EntriesReadTypes
<1>3. commands' \in Seq(Nat)
  BY <1>1, AppendProperties DEF FollowerTypes
<1>4. UNCHANGED <<playlist, link, configured, fs, superseded>>
  BY DEF Play
<1>5. ASSUME NEW i, Obey(i) \/ Lost
      PROVE  /\ player' \in [state : {"playing", "stopping", "idle"},
                             song : Song \cup {NoSong},
                             listed : BOOLEAN, window : BOOLEAN]
             /\ player'.state = "playing" => player'.song \in Song
             /\ left' \in [Events -> Nat]
  <2>1. CASE Obey(i)
    <3>1. playlist \in Seq(Song)
      BY FollowerAssumption DEF EnvTypes
    <3>2. CASE i \in DOMAIN playlist
      <4>1. playlist[i] \in Song
        BY <3>1, <3>2
      <4>2. QED
        BY <2>1, <3>2, <4>1 DEF Obey, Playing, EnvTypes
    <3>3. CASE i \notin DOMAIN playlist
      BY <2>1, <3>3 DEF Obey, EnvTypes
    <3>4. QED
      BY <3>2, <3>3
  <2>2. CASE Lost
    BY <2>2, SpendTypes DEF Lost, EnvTypes, Events
  <2>3. QED
    BY <1>5, <2>1, <2>2
<1>6. EnvTypes'
  BY <1>1, <1>4, <1>5 DEF EnvTypes
<1>7. QED
  BY <1>2, <1>3, <1>4, <1>6

LEMMA TickStepTypes ==
  ASSUME TypeOK, OnlyNewestOpen, EnvTypes, FollowerTypes, TickStep
  PROVE  EnvTypes' /\ FollowerTypes'
<1> USE DEF TickStates
<1>1. CASE TickSkip
  BY <1>1 DEF TickSkip, envVars, followerVars, EnvTypes, FollowerTypes
<1>2. CASE TickIdle
  BY <1>2 DEF TickIdle, Goto, envVars, EnvTypes, FollowerTypes
<1>3. CASE TickLeave
  <2>1. fs' \in [round : Nat, voteable : SUBSET Song, handed : SUBSET Nat]
    BY <1>3 DEF TickLeave, FollowerTypes
  <2>2. QED
    BY <1>3, <2>1 DEF TickLeave, IdleTick, envVars, EnvTypes, FollowerTypes
<1>4. CASE TickPlaying
  BY <1>4 DEF TickPlaying, IdleTick, envVars, EnvTypes, FollowerTypes
<1>5. CASE TickFetch
  <2>1. PICK read \in EntriesRead :
          /\ cache' = read.cache
          /\ fs' = [fs EXCEPT !.voteable = VoteableCatalog(Range(read.entries))]
    BY <1>5 DEF TickFetch
  <2>2. VoteableCatalog(Range(read.entries)) \subseteq Song
    BY DEF VoteableCatalog, TypeOK
  <2>3. fs' \in [round : Nat, voteable : SUBSET Song, handed : SUBSET Nat]
    BY <2>1, <2>2 DEF FollowerTypes
  <2>4. cache' \in SUBSET Playlists
    BY <2>1, EntriesReadTypes
  <2>5. QED
    BY <1>5, <2>3, <2>4 DEF TickFetch, Goto, envVars, EnvTypes, FollowerTypes
<1>6. CASE TickCatalogue
  BY <1>6 DEF TickCatalogue, Goto, envVars, EnvTypes, FollowerTypes
<1>7. CASE TickEnsure
  BY <1>7 DEF TickEnsure, Goto, envVars, EnvTypes, FollowerTypes
<1>8. CASE TickFollow
  <2>1. DOMAIN rounds \subseteq Nat
    BY DEF TypeOK
  <2>2. PICK r \in DOMAIN rounds :
          /\ fs' = [fs EXCEPT !.round = r]
          /\ IF fs.round \in {0, r}
               THEN Goto("ontime") /\ UNCHANGED superseded
               ELSE /\ tick' = [tick EXCEPT !.pc = "late", !.prev = fs.round]
                    /\ superseded' = superseded \cup {fs.round}
    BY <1>8 DEF TickFollow
  <2>3. UNCHANGED <<envVars, cache, commands, left>> /\ tick.pc = "follow"
    BY <1>8 DEF TickFollow
  <2>4. EnvTypes' /\ cache' \in SUBSET Playlists /\ commands' \in Seq(Nat)
    BY <2>3 DEF envVars, EnvTypes, FollowerTypes
  <2>5. fs' \in [round : Nat, voteable : SUBSET Song, handed : SUBSET Nat]
    BY <2>1, <2>2 DEF FollowerTypes
  <2>6. CASE fs.round \in {0, r}
    BY <2>2, <2>3, <2>4, <2>5, <2>6 DEF Goto, FollowerTypes
  <2>7. CASE fs.round \notin {0, r}
    BY <2>2, <2>3, <2>4, <2>5, <2>7 DEF FollowerTypes
  <2>8. QED
    BY <2>6, <2>7
<1>9. CASE TickLate
  <2>1. CASE tick.prev \in fs.handed
    BY <1>9, <2>1 DEF TickLate, Goto, envVars, EnvTypes, FollowerTypes
  <2>2. CASE tick.prev \notin fs.handed
    <3>1. /\ UNCHANGED <<envVars, cache, superseded, commands, left>>
          /\ tick.prev \in Nat
          /\ fs' = [fs EXCEPT !.handed = @ \cup {tick.prev}]
      BY <1>9, <2>2 DEF TickLate, Decide, FollowerTypes
    <3>2. /\ fs' \in [round : Nat, voteable : SUBSET Song, handed : SUBSET Nat]
          /\ \/ Goto("ontime")
             \/ \E w \in Song : tick' = [tick EXCEPT !.pc = "lateRecord", !.pick = w]
      BY <1>9, <2>2, <3>1, HandedTypes, WinnersAreSongs DEF TickLate, Decide
    <3>3. QED
      BY <1>9, <3>1, <3>2 DEF TickLate, Goto, envVars, EnvTypes, FollowerTypes
  <2>3. QED
    BY <2>1, <2>2
<1>10. CASE TickLateRecord
  BY <1>10 DEF TickLateRecord, Goto, envVars, EnvTypes, FollowerTypes
<1>11. CASE TickLatePlay
  BY <1>11, PlayTypes DEF TickLatePlay, Goto, FollowerTypes
<1>12. CASE TickOnTime
  <2>1. CASE fs.round \in fs.handed \/ ~tick.window
    <3>1. tick' = IdleTick /\ UNCHANGED <<envVars, fs, cache, superseded, commands, left>>
      BY <1>12, <2>1 DEF TickOnTime
    <3>2. QED
      BY <3>1 DEF IdleTick, envVars, EnvTypes, FollowerTypes
  <2>2. CASE fs.round \notin fs.handed /\ tick.window
    <3>1. /\ UNCHANGED <<envVars, cache, superseded, commands, left>>
          /\ fs.round \in Nat
          /\ fs' = [fs EXCEPT !.handed = @ \cup {fs.round}]
      BY <1>12, <2>2 DEF TickOnTime, Decide, FollowerTypes
    <3>2. /\ fs' \in [round : Nat, voteable : SUBSET Song, handed : SUBSET Nat]
          /\ \/ tick' = IdleTick
             \/ \E w \in Song : tick' = [tick EXCEPT !.pc = "record", !.pick = w]
      BY <1>12, <2>2, <3>1, HandedTypes, WinnersAreSongs DEF TickOnTime, Decide
    <3>3. tick.song \in Song
      BY <1>12 DEF TickOnTime, FollowerTypes
    <3>4. EnvTypes'
      BY <3>1 DEF envVars, EnvTypes
    <3>5. CASE tick' = IdleTick
      BY <3>1, <3>2, <3>4, <3>5 DEF IdleTick, FollowerTypes
    <3>6. ASSUME NEW w \in Song, tick' = [tick EXCEPT !.pc = "record", !.pick = w]
          PROVE  FollowerTypes'
      BY <3>1, <3>2, <3>3, <3>6 DEF FollowerTypes
    <3>7. QED
      BY <3>2, <3>4, <3>5, <3>6
  <2>3. QED
    BY <2>1, <2>2
<1>13. CASE TickRecord
  BY <1>13 DEF TickRecord, Goto, envVars, EnvTypes, FollowerTypes
<1>14. CASE TickPlay
  BY <1>14, PlayTypes DEF TickPlay, IdleTick, FollowerTypes
<1>15. CASE TickForeignKey
  BY <1>15 DEF TickForeignKey, IdleTick, envVars, EnvTypes, FollowerTypes
<1>16. QED
  BY <1>1, <1>2, <1>3, <1>4, <1>5, <1>6, <1>7, <1>8, <1>9, <1>10, <1>11, <1>12, <1>13,
     <1>14, <1>15
  DEF TickStep

\* An exception or a crash leaves well-typed state behind.
LEMMA FaultTypes ==
  ASSUME EnvTypes, FollowerTypes, RequestTypes, (TickFails /\ UNCHANGED req) \/ Restart
  PROVE  EnvTypes' /\ FollowerTypes' /\ RequestTypes'
<1>0. "faults" \in Events
  BY DEF Events
<1>1. CASE TickFails /\ UNCHANGED req
  <2>1. left' \in [Events -> Nat]
    BY <1>0, <1>1, SpendTypes DEF TickFails, EnvTypes
  <2>2. EnvTypes' /\ RequestTypes'
    BY <1>1, <2>1 DEF TickFails, envVars, EnvTypes, RequestTypes
  <2>3. superseded' \in SUBSET Nat
    BY <1>1 DEF TickFails, FollowerTypes
  <2>4. FollowerTypes'
    BY <1>1, <2>3 DEF TickFails, IdleTick, TickStates, FollowerTypes
  <2>5. QED
    BY <2>2, <2>4
<1>2. CASE Restart
  <2>1. left' \in [Events -> Nat]
    BY <1>0, <1>2, SpendTypes DEF Restart, EnvTypes
  <2>2. EnvTypes'
    BY <1>2, <2>1 DEF Restart, RestartFollower, envVars, EnvTypes
  <2>3. RequestTypes'
    BY <1>2 DEF Restart, NoRequest, RequestTypes
  <2>4. FollowerTypes'
    BY <1>2 DEF Restart, RestartFollower, FreshState, IdleTick, TickStates, FollowerTypes
  <2>5. QED
    BY <2>2, <2>3, <2>4
<1>3. QED
  BY <1>1, <1>2

\* So does whatever FPP, or somebody at FPP, does.
LEMMA PlayerStepTypes ==
  ASSUME EnvTypes, FollowerTypes, PlayerStep
  PROVE  EnvTypes' /\ FollowerTypes'
<1>0. {"plays", "edits", "faults"} \subseteq Events
  BY DEF Events
<1>1. UNCHANGED followerVars
  BY DEF PlayerStep, PlayEntry, PlayAlone, Stop, EnterWindow, EditPlaylist, LinkDown, LinkUp
<1>2. FollowerTypes'
  BY <1>1 DEF followerVars, FollowerTypes
<1>3. left' \in [Events -> Nat]
  BY <1>0, SpendTypes
  DEF PlayerStep, PlayEntry, PlayAlone, Stop, EnterWindow, EditPlaylist, LinkDown, LinkUp,
      EnvTypes
<1>4. ASSUME NEW s \in Song, NEW listed \in BOOLEAN,
             player' = Playing(s, listed), UNCHANGED <<playlist, link, configured>>
      PROVE  EnvTypes'
  BY <1>3, <1>4 DEF Playing, EnvTypes
<1>5. ASSUME NEW s \in Song, PlayEntry(s) \/ PlayAlone(s)
      PROVE  EnvTypes'
  BY <1>4, <1>5 DEF PlayEntry, PlayAlone
<1>6. ASSUME NEW state \in {"stopping", "idle"}, Stop(state)
      PROVE  EnvTypes'
  BY <1>3, <1>6 DEF Stop, Silent, EnvTypes
<1>7. CASE EnterWindow
  <2>1. player' = [player EXCEPT !.window = TRUE] /\ UNCHANGED <<playlist, link, configured>>
    BY <1>7 DEF EnterWindow
  <2>2. QED
    BY <1>2, <1>3, <2>1 DEF EnvTypes
<1>8. CASE (\E p \in Playlists : EditPlaylist(p)) \/ LinkDown \/ LinkUp
  <2>1. /\ UNCHANGED <<player, configured>>
        /\ playlist' \in Playlists
        /\ link' \in BOOLEAN
    BY <1>8 DEF EditPlaylist, LinkDown, LinkUp, EnvTypes
  <2>2. QED
    BY <1>2, <1>3, <2>1 DEF EnvTypes
<1>9. QED
  BY <1>2, <1>5, <1>6, <1>7, <1>8 DEF PlayerStep

\* Vote requests change nothing but themselves and the store.
LEMMA RequestStepTypes ==
  ASSUME EnvTypes, FollowerTypes, RequestTypes, NEW c \in Client, RequestStep(c)
  PROVE  EnvTypes' /\ FollowerTypes' /\ RequestTypes'
<1>1. UNCHANGED <<envVars, followerVars, left>>
  BY DEF RequestStep, CheckEnabled, ReadValid, CommitCast, CommitRefused, CommitRetract
<1>2. EnvTypes' /\ FollowerTypes'
  BY <1>1 DEF envVars, followerVars, EnvTypes, FollowerTypes
<1>3. req[c] \in [pc : {"idle", "check", "valid", "commit"},
                    song : Song \cup {NoSong}, retract : BOOLEAN,
                    round : Nat, valid : SUBSET Song]
  BY DEF RequestTypes
<1>4. ASSUME Answered(c)
      PROVE  RequestTypes'
  BY <1>4 DEF Answered, NoRequest, RequestTypes
<1>5. ASSUME Proceed(c, "commit") \/ Proceed(c, "valid")
      PROVE  RequestTypes'
  BY <1>3, <1>5 DEF Proceed, RequestTypes
<1>6. ASSUME ReadValid(c)
      PROVE  RequestTypes'
  <2>1. req' = [req EXCEPT ![c] = [@ EXCEPT !.pc = "commit", !.valid = fs.voteable]]
    BY <1>6 DEF ReadValid, RequestTypes
  <2>2. fs.voteable \in SUBSET Song
    BY DEF FollowerTypes
  <2>3. QED
    BY <1>3, <2>1, <2>2 DEF RequestTypes
<1>7. ReadValid(c) \/ Answered(c) \/ Proceed(c, "commit") \/ Proceed(c, "valid")
  BY DEF RequestStep, CheckEnabled, CommitCast, CommitRefused, CommitRetract
<1>8. QED
  BY <1>2, <1>4, <1>5, <1>6, <1>7

LEMMA TapTypes ==
  ASSUME EnvTypes, FollowerTypes, RequestTypes,
         NEW c \in Client, NEW s \in Song, NEW retract \in BOOLEAN, Tap(c, s, retract)
  PROVE  EnvTypes' /\ FollowerTypes' /\ RequestTypes'
<1>1. left' \in [Events -> Nat]
  BY SpendTypes DEF Tap, Events, EnvTypes
<1>2. EnvTypes' /\ FollowerTypes'
  BY <1>1 DEF Tap, envVars, followerVars, EnvTypes, FollowerTypes
<1>3. RequestTypes'
  BY DEF Tap, NoRequest, RequestTypes, FollowerTypes
<1>4. QED
  BY <1>2, <1>3

LEMMA AdminTypes ==
  ASSUME EnvTypes, FollowerTypes, RequestTypes, AdminStep
  PROVE  EnvTypes' /\ FollowerTypes' /\ RequestTypes'
<1>1. left' \in [Events -> Nat]
  <2>1. CASE Spend("admin")
    BY <2>1, SpendTypes DEF Events, EnvTypes
  <2>2. CASE UNCHANGED left
    BY <2>2 DEF EnvTypes
  <2>3. QED
    BY <2>1, <2>2 DEF AdminStep, UpdateShow, UpdateSong, RemoveSong, Reconcile, SetVoting,
                      SetRules
<1>2. /\ UNCHANGED <<player, playlist, link>>
      /\ UNCHANGED followerVars
      /\ UNCHANGED req
      /\ configured' \in BOOLEAN
  BY DEF AdminStep, UpdateShow, UpdateSong, RemoveSong, Reconcile, SetVoting, SetRules,
         envVars, EnvTypes
<1>3. QED
  BY <1>1, <1>2 DEF followerVars, EnvTypes, FollowerTypes, RequestTypes

----------------------------------------------------------------------------
(* The service's invariant: the store's, and the types *)

ServiceInv == StoreInv /\ TypedInv

LEMMA ServiceInvInit ==
  ASSUME ServiceInit
  PROVE  ServiceInv
<1>1. StoreInv
  BY StoreInvInit DEF ServiceInit, FollowerInit
<1>2. TypeOK
  BY <1>1 DEF StoreInv
<1>3. EnvTypes
  BY FollowerAssumption DEF ServiceInit, FollowerInit, Silent, EnvTypes
<1>4. FollowerTypes
  BY DEF ServiceInit, FollowerInit, FreshState, IdleTick, TickStates, FollowerTypes
<1>5. RequestTypes
  BY DEF ServiceInit, NoRequest, RequestTypes
<1>6. QED
  BY <1>1, <1>2, <1>3, <1>4, <1>5, TypesSplit DEF ServiceInv

LEMMA ServiceTypesStep ==
  ASSUME ServiceInv, [ServiceNext]_serviceVars
  PROVE  EnvTypes' /\ FollowerTypes' /\ RequestTypes'
<1>0. /\ TypeOK /\ OnlyNewestOpen
      /\ EnvTypes /\ FollowerTypes /\ RequestTypes
  BY TypesSplit DEF ServiceInv, StoreInv
<1>1. CASE TickStep /\ UNCHANGED req
  BY <1>0, <1>1, TickStepTypes DEF RequestTypes
<1>2. CASE (TickFails /\ UNCHANGED req) \/ Restart
  BY <1>0, <1>2, FaultTypes
<1>3. CASE PlayerStep /\ UNCHANGED req
  BY <1>0, <1>3, PlayerStepTypes DEF RequestTypes
<1>4. CASE \E c \in Client, s \in Song, retract \in BOOLEAN : Tap(c, s, retract)
  BY <1>0, <1>4, TapTypes
<1>5. CASE \E c \in Client : RequestStep(c)
  BY <1>0, <1>5, RequestStepTypes
<1>6. CASE AdminStep
  BY <1>0, <1>6, AdminTypes
<1>7. CASE UNCHANGED serviceVars
  BY <1>0, <1>7
  DEF serviceVars, envVars, followerVars, EnvTypes, FollowerTypes, RequestTypes
<1>8. QED
  BY <1>1, <1>2, <1>3, <1>4, <1>5, <1>6, <1>7 DEF ServiceNext

LEMMA ServiceInvStep ==
  ASSUME ServiceInv, [ServiceNext]_serviceVars
  PROVE  ServiceInv'
<1>1. StoreInv'
  BY ServiceUsesStoreStep, StoreInvStep DEF ServiceInv
<1>2. (TypeOK /\ EnvTypes /\ FollowerTypes /\ RequestTypes)' => TypedInv'
  BY DEF TypedInv, ServiceTypeOK, TickKnowsSong, TickStates,
         EnvTypes, FollowerTypes, RequestTypes
<1>3. QED
  BY <1>1, <1>2, ServiceTypesStep DEF ServiceInv, StoreInv

\* The store's invariant and the types hold through every pass, request, fault
\* and restart (follower.py:173-281, server.py:340-372).
THEOREM ServiceInvariant == ServiceSpec => []ServiceInv
<1>1. QED
  BY ServiceInvInit, ServiceInvStep, PTL DEF ServiceSpec

\* Every state the service can reach has its types, whatever the follower, the
\* clients, the admin, FPP and the faults do.
THEOREM ServiceTyped == ServiceSpec => []ServiceTypeOK
<1>1. ServiceInv => ServiceTypeOK
  BY DEF ServiceInv, TypedInv
<1>2. QED
  BY <1>1, ServiceInvariant, PTL

\* The service implements its store: seen at the database, everything the
\* follower, the voters and the admin do is a sequence of Store's methods.
THEOREM ServiceUsesStore == ServiceSpec => StoreSpec
<1>1. ServiceInit => StoreInit
  BY DEF ServiceInit, FollowerInit
<1>2. ServiceInv /\ [ServiceNext]_serviceVars => [StoreNext]_storeVars
  BY ServiceUsesStoreStep DEF ServiceInv
<1>3. QED
  BY <1>1, <1>2, ServiceInvariant, PTL DEF ServiceSpec, StoreSpec

\* Hence the composed service keeps the promises of Ballot to its voters.
THEOREM ServiceImplementsBallot == ServiceSpec => ImplementsBallot
<1>1. QED
  BY ServiceUsesStore, StoreImplementsBallot

\* And whatever races there are between a tap, the follower and the admin, no
\* ballot is ever for a locked song.
THEOREM ServiceLockHolds == ServiceSpec => []NoBallotForLockedSong
<1>1. QED
  BY ServiceUsesStore, LockHolds
================================================================================
