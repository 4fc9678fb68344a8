----------------------------- MODULE HandoverProofs -----------------------------
(***************************************************************************)
(* The follower's bookkeeping proved for every playlist, voter, client and *)
(* number of outside events: the round it reports is open or has just      *)
(* ended, every round replaced in front of it is decided, each round is    *)
(* asked for at most once and only for the winner its row records, and no  *)
(* winner is a song the cooldown keeps away.                               *)
(*                                                                         *)
(* HandoverInv strengthens those properties: it says what a pass between   *)
(* two of its calls still owes. tick.prev and fs.round stay marked as      *)
(* handed over, and out of commands, from the decision to the jump.        *)
(***************************************************************************)
EXTENDS ServiceProofs

\* Requests, the admin, FPP and people leave rounds and the follower alone.
LEMMA OthersLeaveFollower ==
  ASSUME [ServiceNext]_serviceVars, ~(TickStep /\ UNCHANGED req),
         ~(TickFails /\ UNCHANGED req), ~Restart
  PROVE  UNCHANGED <<rounds, followerVars>>
<1>1. CASE PlayerStep
  BY <1>1
  DEF PlayerStep, PlayEntry, PlayAlone, Stop, EnterWindow, EditPlaylist, LinkDown, LinkUp,
      storeVars
<1>2. ASSUME NEW c \in Client, NEW s \in Song, NEW retract \in BOOLEAN, Tap(c, s, retract)
      PROVE  UNCHANGED <<rounds, followerVars>>
  BY <1>2 DEF Tap, storeVars
<1>3. ASSUME NEW c \in Client, RequestStep(c)
      PROVE  UNCHANGED <<rounds, followerVars>>
  <2>1. CASE CommitCast(c)
    BY <2>1 DEF CommitCast, CastVote
  <2>2. CASE CommitRetract(c)
    BY <2>2 DEF CommitRetract, RetractVote
  <2>3. CASE CheckEnabled(c) \/ ReadValid(c) \/ CommitRefused(c)
    BY <2>3 DEF CheckEnabled, ReadValid, CommitRefused, storeVars
  <2>4. QED
    BY <1>3, <2>1, <2>2, <2>3 DEF RequestStep
<1>4. CASE AdminStep
  BY <1>4
  DEF AdminStep, UpdateShow, UpdateSong, RemoveSong, Reconcile, SetVoting, SetRules,
      SetExcluded, DeleteSong, UpsertSong, SetVotesPerRound, SetCooldownSongs,
      SetVotingEnabled, storeVars
<1>5. CASE UNCHANGED serviceVars
  BY <1>5 DEF serviceVars, storeVars
<1>6. QED
  BY <1>1, <1>2, <1>3, <1>4, <1>5 DEF ServiceNext

\* Recording a winner changes nothing else of any round.
LEMMA RecordShape ==
  ASSUME ServiceInv, TickRecord \/ TickLateRecord
  PROVE  /\ UNCHANGED <<fs, superseded, commands>>
         /\ tick.pick \in Song
         /\ DOMAIN rounds' = DOMAIN rounds
         /\ \A i \in DOMAIN rounds :
              /\ rounds'[i].song = rounds[i].song
              /\ rounds'[i].open = rounds[i].open
<1> DEFINE r == IF tick.pc = "record" THEN fs.round ELSE tick.prev
<1>1. /\ SetWinner(r, tick.pick)
      /\ UNCHANGED <<fs, superseded, commands>>
  BY DEF TickRecord, TickLateRecord
<1>2. r \in DOMAIN rounds /\ tick.pick \in songs
  BY <1>1 DEF SetWinner
<1>3. TypeOK /\ tick.pick \in Song
  BY <1>2 DEF ServiceInv, StoreInv, TypeOK
<1> HIDE DEF r
<1>4. QED
  BY <1>1, <1>2, <1>3, SetWinnerType

----------------------------------------------------------------------------
(* The round that is followed is open *)

LEMMA FollowedRoundStep ==
  ASSUME ServiceInv, FollowedRoundIsOpen, [ServiceNext]_serviceVars
  PROVE  FollowedRoundIsOpen'
<1>1. ASSUME rounds' = rounds, fs'.round = fs.round,
             tick'.pc = tick.pc \/ tick.pc \notin {"follow", "leave"}
      PROVE  FollowedRoundIsOpen'
  BY <1>1 DEF FollowedRoundIsOpen, IsCurrent
<1>2. /\ fs \in [round : Nat, voteable : SUBSET Song, handed : SUBSET Nat]
      /\ FollowerTypes /\ TypeOK /\ OnlyNewestOpen
      /\ rounds \in Seq(RoundRow)
  BY TypesSplit DEF ServiceInv, TypedInv, ServiceTypeOK, StoreInv, TypeOK
<1>3. CASE TickStep
  <2>1. CASE TickSkip \/ TickPlaying \/ TickCatalogue \/ TickForeignKey
    BY <1>1, <2>1
    DEF TickSkip, TickPlaying, TickCatalogue, UpsertSong, TickForeignKey, followerVars,
        storeVars
  <2>2. CASE TickFetch \/ TickLate \/ TickOnTime
    <3>1. rounds' = rounds /\ fs'.round = fs.round
      BY <1>2, <2>2 DEF TickFetch, TickLate, TickOnTime, Decide, storeVars
    <3>2. tick.pc \notin {"follow", "leave"}
      BY <2>2 DEF TickFetch, TickLate, TickOnTime
    <3>3. QED
      BY <1>1, <3>1, <3>2
  <2>3. CASE TickLatePlay \/ TickPlay
    BY <1>1, <2>3 DEF TickLatePlay, TickPlay, Play, storeVars
\* The followed round ends and stays the newest one; no round is open.
  <2>4. CASE TickIdle
    <3>1. fs' = fs /\ rounds' = EndCurrent /\ tick.pc = "idle" /\ tick'.pc = "leave"
      BY <1>2, <2>4 DEF TickIdle, CloseOpenRound, Goto, FollowerTypes
    <3>2. Len(rounds') = Len(rounds)
      BY <1>2, <3>1, EndCurrentShape
    <3>3. fs.round # 0 => fs.round = Len(rounds)
      BY <1>2, <3>1 DEF FollowedRoundIsOpen, IsCurrent, OnlyNewestOpen
    <3>4. QED
      BY <3>1, <3>2, <3>3 DEF FollowedRoundIsOpen
  <2>5. CASE TickLeave
    <3>1. fs'.round = 0
      BY <1>2, <2>5 DEF TickLeave
    <3>2. QED
      BY <3>1 DEF FollowedRoundIsOpen
\* The followed round is found open again, or is followed by a newer one.
  <2>6. CASE TickEnsure
    <3>1. fs' = fs /\ tick.pc = "ensure" /\ tick'.pc = "follow" /\ EnsureRound(tick.song)
      BY <1>2, <2>6 DEF TickEnsure, Goto, FollowerTypes
    <3>2. fs.round # 0 => IsCurrent(fs.round) /\ fs.round = Len(rounds)
      BY <1>2, <3>1 DEF FollowedRoundIsOpen, IsCurrent, OnlyNewestOpen
    <3>3. CASE rounds' = rounds
      BY <3>1, <3>2, <3>3 DEF FollowedRoundIsOpen, IsCurrent
    <3>4. CASE rounds' = Append(EndCurrent,
                                [song |-> tick.song, open |-> TRUE, winner |-> NoSong])
      <4>1. EndCurrent \in Seq(RoundRow) /\ Len(EndCurrent) = Len(rounds)
        BY <1>2, EndCurrentShape
      <4>2. Len(rounds') = Len(rounds) + 1 /\ Len(rounds) \in Nat
        BY <1>2, <3>4, <4>1
      <4>3. QED
        BY <3>1, <3>2, <4>2 DEF FollowedRoundIsOpen
    <3>5. QED
      BY <3>1, <3>3, <3>4 DEF EnsureRound
  <2>7. CASE TickFollow
    <3>1. PICK r \in DOMAIN rounds : IsCurrent(r) /\ fs' = [fs EXCEPT !.round = r]
      BY <2>7 DEF TickFollow
    <3>2. rounds' = rounds /\ fs'.round = r
      BY <1>2, <2>7, <3>1 DEF TickFollow, storeVars
    <3>3. QED
      BY <3>1, <3>2 DEF FollowedRoundIsOpen, IsCurrent
  <2>8. CASE TickRecord \/ TickLateRecord
    <3>1. tick.pc \in {"record", "lateRecord"}
      BY <2>8 DEF TickRecord, TickLateRecord
    <3>2. fs.round # 0 => IsCurrent(fs.round)
      BY <3>1 DEF FollowedRoundIsOpen
    <3>3. QED
      BY <2>8, <3>2, RecordShape DEF FollowedRoundIsOpen, IsCurrent
  <2>9. QED
    BY <1>3, <2>1, <2>2, <2>3, <2>4, <2>5, <2>6, <2>7, <2>8 DEF TickStep
<1>4. CASE TickFails
  BY <1>1, <1>4 DEF TickFails, storeVars
<1>5. CASE Restart
  BY <1>5 DEF Restart, RestartFollower, FreshState, FollowedRoundIsOpen
<1>6. QED
  BY <1>1, <1>3, <1>4, <1>5, OthersLeaveFollower DEF followerVars

----------------------------------------------------------------------------
(* Every round that was replaced gets its decision *)

LEMMA SupersededStep ==
  ASSUME ServiceInv, SupersededAreHandedOver, [ServiceNext]_serviceVars
  PROVE  SupersededAreHandedOver'
<1>1. /\ fs \in [round : Nat, voteable : SUBSET Song, handed : SUBSET Nat]
      /\ FollowerTypes
  BY TypesSplit DEF ServiceInv, TypedInv, ServiceTypeOK
<1>2. ASSUME superseded' = superseded, fs.handed \subseteq fs'.handed, tick.pc # "late"
      PROVE  SupersededAreHandedOver'
  BY <1>2 DEF SupersededAreHandedOver
<1>3. CASE TickStep
  <2>1. CASE \/ TickSkip \/ TickIdle \/ TickLeave \/ TickPlaying \/ TickFetch
             \/ TickCatalogue \/ TickEnsure \/ TickLateRecord \/ TickLatePlay
             \/ TickOnTime \/ TickRecord \/ TickPlay \/ TickForeignKey
    <3>1. superseded' = superseded /\ tick.pc # "late"
      BY <2>1
      DEF TickSkip, TickIdle, TickLeave, TickPlaying, TickFetch, TickCatalogue, TickEnsure,
          TickLateRecord, TickLatePlay, TickOnTime, TickRecord, TickPlay, TickForeignKey,
          Play, Decide, followerVars
    <3>2. fs.handed \subseteq fs'.handed
      BY <1>1, <2>1
      DEF TickSkip, TickIdle, TickLeave, TickPlaying, TickFetch, TickCatalogue, TickEnsure,
          TickLateRecord, TickLatePlay, TickOnTime, TickRecord, TickPlay, TickForeignKey,
          Play, Decide, followerVars
    <3>3. QED
      BY <1>2, <3>1, <3>2
  <2>2. CASE TickFollow
    <3>1. PICK r \in DOMAIN rounds :
            /\ fs' = [fs EXCEPT !.round = r]
            /\ IF fs.round \in {0, r}
                 THEN Goto("ontime") /\ UNCHANGED superseded
                 ELSE /\ tick' = [tick EXCEPT !.pc = "late", !.prev = fs.round]
                      /\ superseded' = superseded \cup {fs.round}
      BY <2>2 DEF TickFollow
    <3>2. tick.pc = "follow" /\ fs'.handed = fs.handed
      BY <1>1, <2>2, <3>1 DEF TickFollow
    <3>3. superseded \subseteq fs.handed
      BY <3>2 DEF SupersededAreHandedOver
    <3>4. CASE fs.round \in {0, r}
      BY <3>1, <3>2, <3>3, <3>4 DEF SupersededAreHandedOver
    <3>5. CASE fs.round \notin {0, r}
      <4>1. tick'.pc = "late" /\ tick'.prev = fs.round
        BY <1>1, <3>1, <3>5 DEF FollowerTypes
      <4>2. QED
        BY <3>1, <3>2, <3>3, <3>5, <4>1 DEF SupersededAreHandedOver
    <3>6. QED
      BY <3>4, <3>5
  <2>3. CASE TickLate
    <3>1. superseded' = superseded /\ fs'.handed = fs.handed \cup {tick.prev}
      BY <1>1, <2>3 DEF TickLate, Decide
    <3>2. QED
      BY <3>1 DEF SupersededAreHandedOver
  <2>4. QED
    BY <1>3, <2>1, <2>2, <2>3 DEF TickStep
<1>4. CASE TickFails
  BY <1>4 DEF TickFails, SupersededAreHandedOver
<1>5. CASE Restart
  BY <1>5 DEF Restart, RestartFollower, SupersededAreHandedOver
<1>6. CASE UNCHANGED <<fs, superseded, tick>>
  BY <1>6 DEF SupersededAreHandedOver
<1>7. QED
  BY <1>3, <1>4, <1>5, <1>6, OthersLeaveFollower DEF followerVars

----------------------------------------------------------------------------
(* One command per round *)

Deciding == {"record", "play"}
LateDeciding == {"lateRecord", "latePlay"}

\* The round a pass has decided and not yet asked FPP to jump for.
Pending(r) ==
  \/ tick.pc \in Deciding /\ r = fs.round
  \/ tick.pc \in LateDeciding /\ r = tick.prev

\* Whatever was asked for is marked, and so is what is about to be, which was
\* not asked for before.
CommandsAreHanded ==
  /\ \A i \in DOMAIN commands : commands[i] \in fs.handed
  /\ \A r : Pending(r) => r \in fs.handed /\ \A i \in DOMAIN commands : commands[i] # r

CommandsInv == CommandsAreHanded /\ OneCommandPerRound

\* The jump itself: a marked round that was not asked for is asked for once.
LEMMA PlayAsksOnce ==
  ASSUME CommandsInv, commands \in Seq(Nat), NEW r \in Nat,
         r \in fs.handed, \A i \in DOMAIN commands : commands[i] # r,
         UNCHANGED fs,
         commands' = commands \/ commands' = Append(commands, r),
         tick'.pc \in {"idle", "ontime"}
  PROVE  CommandsInv'
<1>1. CASE commands' = commands
  BY <1>1 DEF CommandsInv, CommandsAreHanded, OneCommandPerRound, IsInjective, Pending,
              Deciding, LateDeciding
<1>2. CASE commands' = Append(commands, r)
  <2>1. /\ DOMAIN commands = 1..Len(commands)
        /\ DOMAIN commands' = 1..(Len(commands) + 1)
        /\ \A i \in DOMAIN commands : commands'[i] = commands[i]
        /\ commands'[Len(commands) + 1] = r
        /\ Len(commands) \in Nat
    BY <1>2
  <2>2. \A i \in DOMAIN commands' : i \in DOMAIN commands \/ i = Len(commands) + 1
    BY <2>1
  <2>3. QED
    BY <2>1, <2>2 DEF CommandsInv, CommandsAreHanded, OneCommandPerRound, IsInjective,
                      Pending, Deciding, LateDeciding
<1>3. QED
  BY <1>1, <1>2

LEMMA CommandsStep ==
  ASSUME ServiceInv, CommandsInv, [ServiceNext]_serviceVars
  PROVE  CommandsInv'
<1>1. FollowerTypes
  BY TypesSplit DEF ServiceInv
<1>2. /\ fs \in [round : Nat, voteable : SUBSET Song, handed : SUBSET Nat]
      /\ commands \in Seq(Nat)
      /\ tick.prev \in Nat
  BY <1>1 DEF FollowerTypes
<1>3. ASSUME commands' = commands, fs'.handed = fs.handed,
             tick'.pc \notin Deciding \cup LateDeciding
      PROVE  CommandsInv'
  BY <1>3 DEF CommandsInv, CommandsAreHanded, OneCommandPerRound, Pending
<1>4. CASE TickStep
  <2>1. CASE TickIdle \/ TickLeave \/ TickSkip
    <3>1. commands' = commands /\ fs'.handed = fs.handed
      BY <1>2, <2>1 DEF TickIdle, TickLeave, TickSkip, followerVars
    <3>2. tick'.pc \in {"idle", "leave"}
      <4>1. CASE TickIdle
        BY <1>1, <4>1 DEF TickIdle, Goto, FollowerTypes
      <4>2. CASE TickLeave \/ TickSkip
        BY <4>2 DEF TickLeave, TickSkip, IdleTick, followerVars
      <4>3. QED
        BY <2>1, <4>1, <4>2
    <3>3. QED
      BY <1>3, <3>1, <3>2 DEF Deciding, LateDeciding
  <2>2. CASE TickPlaying \/ TickFetch \/ TickCatalogue \/ TickForeignKey
    <3>1. commands' = commands /\ fs'.handed = fs.handed
      BY <1>2, <2>2 DEF TickPlaying, TickFetch, TickCatalogue, TickForeignKey
    <3>2. tick'.pc \in {"idle", "fetch", "catalogue", "ensure"}
      <4>1. CASE TickPlaying
        BY <4>1 DEF TickPlaying, IdleTick
      <4>2. CASE TickForeignKey
        BY <4>2 DEF TickForeignKey, IdleTick
      <4>3. CASE TickFetch \/ TickCatalogue
        BY <1>1, <4>3 DEF TickFetch, TickCatalogue, Goto, FollowerTypes
      <4>4. QED
        BY <2>2, <4>1, <4>2, <4>3
    <3>3. QED
      BY <1>3, <3>1, <3>2 DEF Deciding, LateDeciding
  <2>3. CASE TickEnsure \/ TickFollow
    <3>1. commands' = commands /\ fs'.handed = fs.handed
      BY <1>2, <2>3 DEF TickEnsure, TickFollow
    <3>2. tick'.pc \in {"follow", "ontime", "late"}
      BY <1>1, <2>3 DEF TickEnsure, TickFollow, Goto, FollowerTypes
    <3>3. QED
      BY <1>3, <3>1, <3>2 DEF Deciding, LateDeciding
  <2>4. CASE TickLate
    <3>1. CASE tick.prev \in fs.handed
      <4>1. UNCHANGED <<commands, fs>> /\ tick'.pc = "ontime"
        BY <1>1, <2>4, <3>1 DEF TickLate, Goto, FollowerTypes
      <4>2. QED
        BY <1>3, <4>1 DEF Deciding, LateDeciding
    <3>2. CASE tick.prev \notin fs.handed
      <4>1. /\ commands' = commands
            /\ fs'.handed = fs.handed \cup {tick.prev}
            /\ tick'.pc \in {"ontime", "lateRecord"}
            /\ tick'.prev = tick.prev
        BY <1>1, <1>2, <2>4, <3>2 DEF TickLate, Decide, Goto, FollowerTypes
      <4>2. QED
        BY <3>2, <4>1 DEF CommandsInv, CommandsAreHanded, OneCommandPerRound, Pending,
                          Deciding, LateDeciding
    <3>3. QED
      BY <3>1, <3>2
  <2>5. CASE TickOnTime
    <3>1. CASE fs.round \in fs.handed \/ ~tick.window
      <4>1. UNCHANGED <<commands, fs>> /\ tick'.pc = "idle"
        BY <2>5, <3>1 DEF TickOnTime, IdleTick
      <4>2. QED
        BY <1>3, <4>1 DEF Deciding, LateDeciding
    <3>2. CASE fs.round \notin fs.handed /\ tick.window
      <4>1. /\ commands' = commands
            /\ fs'.handed = fs.handed \cup {fs.round}
            /\ fs'.round = fs.round
        BY <1>2, <2>5, <3>2 DEF TickOnTime, Decide
      <4>2. \/ tick' = IdleTick
            \/ \E w : tick' = [tick EXCEPT !.pc = "record", !.pick = w]
        BY <2>5, <3>2 DEF TickOnTime, Decide
      <4>3. tick'.pc \in {"idle", "record"}
        <5>1. CASE tick' = IdleTick
          BY <5>1 DEF IdleTick
        <5>2. CASE \E w : tick' = [tick EXCEPT !.pc = "record", !.pick = w]
          BY <1>1, <5>2 DEF FollowerTypes
        <5>3. QED
          BY <4>2, <5>1, <5>2
      <4>4. QED
        BY <3>2, <4>1, <4>3 DEF CommandsInv, CommandsAreHanded, OneCommandPerRound, Pending,
                          Deciding, LateDeciding
    <3>3. QED
      BY <3>1, <3>2
  <2>6. CASE TickRecord \/ TickLateRecord
    <3>1. UNCHANGED <<fs, commands>>
      BY <2>6, RecordShape
    <3>2. \/ tick.pc = "record" /\ tick'.pc = "play"
          \/ tick.pc = "lateRecord" /\ tick'.pc \in {"ontime", "latePlay"}
      BY <1>1, <2>6 DEF TickRecord, TickLateRecord, Goto, FollowerTypes
    <3>3. tick'.prev = tick.prev
      BY <1>1, <2>6 DEF TickRecord, TickLateRecord, Goto, FollowerTypes
    <3>4. QED
      BY <3>1, <3>2, <3>3 DEF CommandsInv, CommandsAreHanded, OneCommandPerRound, Pending,
                              Deciding, LateDeciding
  <2>7. CASE TickPlay
    <3>1. /\ UNCHANGED fs
          /\ commands' = commands \/ commands' = Append(commands, fs.round)
          /\ tick.pc = "play" /\ tick'.pc = "idle"
      BY <2>7 DEF TickPlay, Play, IdleTick
    <3>2. fs.round \in fs.handed /\ \A i \in DOMAIN commands : commands[i] # fs.round
      BY <3>1 DEF CommandsInv, CommandsAreHanded, Pending, Deciding
    <3>3. QED
      BY <1>2, <3>1, <3>2, PlayAsksOnce
  <2>8. CASE TickLatePlay
    <3>1. /\ UNCHANGED fs
          /\ commands' = commands \/ commands' = Append(commands, tick.prev)
          /\ tick.pc = "latePlay" /\ tick'.pc = "ontime"
      BY <1>1, <2>8 DEF TickLatePlay, Play, Goto, FollowerTypes
    <3>2. tick.prev \in fs.handed /\ \A i \in DOMAIN commands : commands[i] # tick.prev
      BY <3>1 DEF CommandsInv, CommandsAreHanded, Pending, LateDeciding
    <3>3. QED
      BY <1>2, <3>1, <3>2, PlayAsksOnce
  <2>9. QED
    BY <1>4, <2>1, <2>2, <2>3, <2>4, <2>5, <2>6, <2>7, <2>8 DEF TickStep
<1>5. CASE TickFails
  <2>1. UNCHANGED <<commands, fs>> /\ tick'.pc = "idle"
    BY <1>5 DEF TickFails, IdleTick
  <2>2. QED
    BY <1>3, <2>1 DEF Deciding, LateDeciding
<1>6. CASE Restart
  BY <1>6
  DEF Restart, RestartFollower, IdleTick, CommandsInv, CommandsAreHanded,
      OneCommandPerRound, IsInjective, Pending, Deciding, LateDeciding
<1>7. CASE UNCHANGED <<fs, commands, tick>>
  BY <1>7 DEF CommandsInv, CommandsAreHanded, OneCommandPerRound, Pending
<1>8. QED
  BY <1>4, <1>5, <1>6, <1>7, OthersLeaveFollower DEF followerVars

----------------------------------------------------------------------------
(* What FPP is asked for is what the row records *)

LEMMA WinnerWritten ==
  ASSUME rounds \in Seq(RoundRow), NEW r \in DOMAIN rounds, NEW w,
         rounds' = [rounds EXCEPT ![r].winner = w]
  PROVE  rounds'[r].winner = w
<1>1. rounds[r] \in RoundRow
  OBVIOUS
<1>2. rounds' = [rounds EXCEPT ![r] = [rounds[r] EXCEPT !.winner = w]]
  OBVIOUS
<1>3. QED
  BY <1>1, <1>2 DEF RoundRow

LEMMA CommandsFollowRecordStep ==
  ASSUME ServiceInv, CommandsFollowRecord, [ServiceNext]_serviceVars
  PROVE  CommandsFollowRecord'
<1>1. FollowerTypes /\ rounds \in Seq(RoundRow)
  BY TypesSplit DEF ServiceInv, TypeOK
<1>2. ASSUME tick'.pc \notin {"play", "latePlay"}
      PROVE  CommandsFollowRecord'
  BY <1>2 DEF CommandsFollowRecord
<1>3. CASE TickStep
  <2>1. CASE \/ TickIdle \/ TickFetch \/ TickCatalogue \/ TickEnsure \/ TickFollow
             \/ TickLatePlay
    <3>1. tick'.pc \notin {"play", "latePlay"}
      BY <1>1, <2>1
      DEF TickIdle, TickFetch, TickCatalogue, TickEnsure, TickFollow, TickLatePlay, Goto,
          FollowerTypes
    <3>2. QED
      BY <1>2, <3>1
  <2>2. CASE TickSkip
    <3>1. tick' = tick /\ tick.pc = "idle"
      BY <2>2 DEF TickSkip, followerVars
    <3>2. QED
      BY <1>2, <3>1
  <2>3. CASE TickPlaying
    BY <1>2, <2>3 DEF TickPlaying, IdleTick
  <2>4. CASE TickLeave \/ TickForeignKey \/ TickPlay
    <3>1. tick' = IdleTick
      BY <2>4 DEF TickLeave, TickForeignKey, TickPlay
    <3>2. QED
      BY <1>2, <3>1 DEF IdleTick
  <2>5. CASE TickLate
    <3>1. Goto("ontime") \/ \E w : tick' = [tick EXCEPT !.pc = "lateRecord", !.pick = w]
      BY <2>5 DEF TickLate, Decide
    <3>2. tick'.pc \in {"ontime", "lateRecord"}
      BY <1>1, <3>1 DEF Goto, FollowerTypes
    <3>3. QED
      BY <1>2, <3>2
  <2>6. CASE TickOnTime
    <3>1. tick' = IdleTick \/ \E w : tick' = [tick EXCEPT !.pc = "record", !.pick = w]
      BY <2>6 DEF TickOnTime, Decide
    <3>2. tick'.pc \in {"idle", "record"}
      <4>1. CASE tick' = IdleTick
        BY <4>1 DEF IdleTick
      <4>2. CASE \E w : tick' = [tick EXCEPT !.pc = "record", !.pick = w]
        BY <1>1, <4>2 DEF FollowerTypes
      <4>3. QED
        BY <3>1, <4>1, <4>2
    <3>3. QED
      BY <1>2, <3>2
  <2>7. CASE TickRecord
    <3>1. /\ fs.round \in DOMAIN rounds
          /\ rounds' = [rounds EXCEPT ![fs.round].winner = tick.pick]
          /\ fs' = fs
          /\ tick'.pc = "play" /\ tick'.pick = tick.pick
      BY <1>1, <2>7 DEF TickRecord, SetWinner, Goto, FollowerTypes
    <3>2. rounds'[fs.round].winner = tick.pick
      BY <1>1, <3>1, WinnerWritten
    <3>3. QED
      BY <3>1, <3>2 DEF CommandsFollowRecord
  <2>8. CASE TickLateRecord
    <3>1. /\ tick.prev \in DOMAIN rounds
          /\ rounds' = [rounds EXCEPT ![tick.prev].winner = tick.pick]
          /\ tick'.pc \in {"ontime", "latePlay"}
          /\ tick'.prev = tick.prev /\ tick'.pick = tick.pick
      BY <1>1, <2>8 DEF TickLateRecord, SetWinner, Goto, FollowerTypes
    <3>2. rounds'[tick.prev].winner = tick.pick
      BY <1>1, <3>1, WinnerWritten
    <3>3. QED
      BY <3>1, <3>2 DEF CommandsFollowRecord
  <2>9. QED
    BY <1>3, <2>1, <2>2, <2>3, <2>4, <2>5, <2>6, <2>7, <2>8 DEF TickStep
<1>4. CASE TickFails
  BY <1>2, <1>4 DEF TickFails, IdleTick
<1>5. CASE Restart
  BY <1>2, <1>5 DEF Restart, RestartFollower, IdleTick
<1>6. CASE UNCHANGED <<rounds, fs, tick>>
  BY <1>6 DEF CommandsFollowRecord
<1>7. QED
  BY <1>3, <1>4, <1>5, <1>6, OthersLeaveFollower DEF followerVars

----------------------------------------------------------------------------
(* No winner the cooldown keeps away *)

\* s was not playing in round r, nor in a round the cooldown counts before it.
Rested(r, s) ==
  \A i \in DOMAIN rounds :
    (i <= r /\ \A c \in CooldownChoices : r - i <= c) => rounds[i].song # s

\* Nor is the pick of a decision that is not recorded yet.
PickRested ==
  /\ tick.pc = "record"     => fs.round \in DOMAIN rounds /\ Rested(fs.round, tick.pick)
  /\ tick.pc = "lateRecord" => tick.prev \in DOMAIN rounds /\ Rested(tick.prev, tick.pick)

WinnersRested ==
  \A r \in DOMAIN rounds : rounds[r].winner # NoSong => Rested(r, rounds[r].winner)

RestedInv == PickRested /\ WinnersRested

\* Who gets a ballot is rested, so a winner is.
LEMMA WinnersAreRested ==
  ASSUME ServiceInv, NEW r \in Nat, NEW w \in Winners(r)
  PROVE  r \in DOMAIN rounds /\ Rested(r, w)
<1>1. w \in VotedFor(r)
  BY DEF Winners
<1>2. PICK b \in votes : b.round = r /\ b.song = w
  BY <1>1 DEF VotedFor
<1>3. QED
  BY <1>2 DEF ServiceInv, StoreInv, NoBallotForLockedSong, BallotsWithinLimit, Rested

\* Rounds that keep their songs keep every past round rested.
LEMMA RestedKept ==
  ASSUME TypeOK, NEW r \in DOMAIN rounds, NEW s, Rested(r, s),
         rounds' \in Seq(RoundRow),
         \A i \in DOMAIN rounds : rounds'[i].song = rounds[i].song
  PROVE  Rested(r, s)'
<1>1. /\ DOMAIN rounds = 1..Len(rounds) /\ Len(rounds) \in Nat
      /\ DOMAIN rounds' = 1..Len(rounds')  /\ Len(rounds') \in Nat
  BY DEF TypeOK
<1>2. \A i \in DOMAIN rounds' : i <= r => i \in DOMAIN rounds
  BY <1>1
<1>3. QED
  BY <1>2 DEF Rested

LEMMA RestedStep ==
  ASSUME ServiceInv, RestedInv, [ServiceNext]_serviceVars
  PROVE  RestedInv'
<1>1. /\ FollowerTypes /\ TypeOK /\ OnlyNewestOpen
      /\ rounds \in Seq(RoundRow)
      /\ fs.round \in Nat /\ tick.prev \in Nat
      /\ rounds' \in Seq(RoundRow)
  BY TypesSplit, ServiceInvStep DEF ServiceInv, StoreInv, FollowerTypes, TypeOK
<1>2. ASSUME rounds' = rounds, tick'.pc \notin {"record", "lateRecord"}
      PROVE  RestedInv'
  BY <1>2 DEF RestedInv, PickRested, WinnersRested, Rested
<1>3. CASE TickStep
  <2>1. CASE \/ TickFetch \/ TickCatalogue \/ TickFollow \/ TickLatePlay
    <3>1. tick'.pc \notin {"record", "lateRecord"}
      BY <1>1, <2>1
      DEF TickFetch, TickCatalogue, TickFollow, TickLatePlay, Goto, FollowerTypes
    <3>2. rounds' = rounds
      BY <2>1
      DEF TickFetch, TickCatalogue, UpsertSong, TickFollow, TickLatePlay, Play, storeVars
    <3>3. QED
      BY <1>2, <3>1, <3>2
  <2>2. CASE TickSkip
    BY <1>2, <2>2 DEF TickSkip, followerVars, storeVars
  <2>3. CASE TickPlaying
    BY <1>2, <2>3 DEF TickPlaying, IdleTick, storeVars
  <2>4. CASE TickLeave \/ TickForeignKey \/ TickPlay
    <3>1. tick' = IdleTick /\ rounds' = rounds
      BY <2>4 DEF TickLeave, TickForeignKey, TickPlay, Play, storeVars
    <3>2. QED
      BY <1>2, <3>1 DEF IdleTick
  <2>5. CASE TickLate
    <3>1. /\ rounds' = rounds
          /\ \/ Goto("ontime")
             \/ \E w \in Winners(tick.prev) :
                  tick' = [tick EXCEPT !.pc = "lateRecord", !.pick = w]
      BY <2>5 DEF TickLate, Decide, storeVars
    <3>2. CASE Goto("ontime")
      BY <1>1, <1>2, <3>1, <3>2 DEF Goto, FollowerTypes
    <3>3. ASSUME NEW w \in Winners(tick.prev),
                 tick' = [tick EXCEPT !.pc = "lateRecord", !.pick = w]
          PROVE  RestedInv'
      <4>1. tick'.pc = "lateRecord" /\ tick'.pick = w /\ tick'.prev = tick.prev
        BY <1>1, <3>3 DEF FollowerTypes
      <4>2. tick.prev \in DOMAIN rounds /\ Rested(tick.prev, w)
        BY <1>1, WinnersAreRested
      <4>3. QED
        BY <3>1, <4>1, <4>2 DEF RestedInv, PickRested, WinnersRested, Rested
    <3>4. QED
      BY <3>1, <3>2, <3>3
  <2>6. CASE TickOnTime
    <3>1. /\ rounds' = rounds
          /\ \/ tick' = IdleTick
             \/ /\ fs'.round = fs.round
                /\ \E w \in Winners(fs.round) :
                     tick' = [tick EXCEPT !.pc = "record", !.pick = w]
      BY <1>1, <2>6 DEF TickOnTime, Decide, storeVars, FollowerTypes
    <3>2. CASE tick' = IdleTick
      BY <1>2, <3>1, <3>2 DEF IdleTick
    <3>3. ASSUME NEW w \in Winners(fs.round), fs'.round = fs.round,
                 tick' = [tick EXCEPT !.pc = "record", !.pick = w]
          PROVE  RestedInv'
      <4>1. tick'.pc = "record" /\ tick'.pick = w
        BY <1>1, <3>3 DEF FollowerTypes
      <4>2. fs.round \in DOMAIN rounds /\ Rested(fs.round, w)
        BY <1>1, WinnersAreRested
      <4>3. QED
        BY <3>1, <3>3, <4>1, <4>2 DEF RestedInv, PickRested, WinnersRested, Rested
    <3>4. QED
      BY <3>1, <3>2, <3>3
  <2>7. CASE TickRecord \/ TickLateRecord
    <3> DEFINE r == IF tick.pc = "record" THEN fs.round ELSE tick.prev
    <3>1. /\ r \in DOMAIN rounds
          /\ rounds' = [rounds EXCEPT ![r].winner = tick.pick]
          /\ Rested(r, tick.pick)
      BY <2>7 DEF TickRecord, TickLateRecord, SetWinner, RestedInv, PickRested
    <3>2. tick'.pc \notin {"record", "lateRecord"}
      BY <1>1, <2>7 DEF TickRecord, TickLateRecord, Goto, FollowerTypes
    <3> HIDE DEF r
    <3>3. /\ DOMAIN rounds' = DOMAIN rounds
          /\ \A i \in DOMAIN rounds : rounds'[i].song = rounds[i].song
      BY <2>7, RecordShape
    <3>4. /\ rounds'[r].winner = tick.pick
          /\ \A i \in DOMAIN rounds : i # r => rounds'[i].winner = rounds[i].winner
      BY <1>1, <3>1 DEF RoundRow
    <3>5. ASSUME NEW i \in DOMAIN rounds, rounds'[i].winner # NoSong
          PROVE  Rested(i, rounds'[i].winner)
      BY <3>1, <3>4, <3>5 DEF RestedInv, WinnersRested
    <3>6. WinnersRested'
      BY <3>3, <3>5 DEF WinnersRested, Rested
    <3>7. QED
      BY <3>2, <3>6 DEF RestedInv, PickRested
  <2>8. CASE TickIdle
    <3>1. rounds' = EndCurrent /\ tick'.pc = "leave"
      BY <1>1, <2>8 DEF TickIdle, CloseOpenRound, Goto, FollowerTypes
    <3>2. /\ DOMAIN rounds' = DOMAIN rounds
          /\ \A i \in DOMAIN rounds :
               rounds'[i].song = rounds[i].song /\ rounds'[i].winner = rounds[i].winner
      BY <1>1, <3>1, EndCurrentShape
    <3>3. WinnersRested'
      BY <3>2 DEF RestedInv, WinnersRested, Rested
    <3>4. QED
      BY <3>1, <3>3 DEF RestedInv, PickRested
  <2>9. CASE TickEnsure
    <3>1. EnsureRound(tick.song) /\ tick.song \in Song
      BY <1>1, <2>9 DEF TickEnsure, FollowerTypes
    <3>2. tick'.pc \notin {"record", "lateRecord"}
      BY <1>1, <2>9 DEF TickEnsure, Goto, FollowerTypes
    <3>3. CASE rounds' = rounds
      BY <1>2, <3>2, <3>3
    <3>4. CASE rounds' = Append(EndCurrent,
                                [song |-> tick.song, open |-> TRUE, winner |-> NoSong])
      <4>1. /\ EndCurrent \in Seq(RoundRow) /\ Len(EndCurrent) = Len(rounds)
            /\ \A i \in DOMAIN rounds :
                 /\ EndCurrent[i].song = rounds[i].song
                 /\ EndCurrent[i].winner = rounds[i].winner
        BY <1>1, EndCurrentShape
      <4>2. /\ DOMAIN rounds = 1..Len(rounds) /\ Len(rounds) \in Nat
            /\ DOMAIN rounds' = 1..(Len(rounds) + 1)
            /\ \A i \in DOMAIN rounds : rounds'[i] = EndCurrent[i]
            /\ rounds'[Len(rounds) + 1] =
                 [song |-> tick.song, open |-> TRUE, winner |-> NoSong]
        BY <1>1, <3>4, <4>1
      <4>3. ASSUME NEW i \in DOMAIN rounds', rounds'[i].winner # NoSong
            PROVE  i \in DOMAIN rounds /\ rounds'[i].winner = rounds[i].winner
        BY <4>1, <4>2, <4>3
      <4>4. WinnersRested'
        BY <1>1, <4>1, <4>2, <4>3, RestedKept DEF RestedInv, WinnersRested
      <4>5. QED
        BY <3>2, <4>4 DEF RestedInv, PickRested
    <3>5. QED
      BY <3>1, <3>3, <3>4 DEF EnsureRound
  <2>10. QED
    BY <1>3, <2>1, <2>2, <2>3, <2>4, <2>5, <2>6, <2>7, <2>8, <2>9 DEF TickStep
<1>4. CASE TickFails
  BY <1>2, <1>4 DEF TickFails, IdleTick, storeVars
<1>5. CASE Restart
  BY <1>2, <1>5 DEF Restart, RestartFollower, IdleTick, storeVars
<1>6. CASE UNCHANGED <<rounds, fs, tick>>
  BY <1>6 DEF RestedInv, PickRested, WinnersRested, Rested
<1>7. QED
  BY <1>3, <1>4, <1>5, <1>6, OthersLeaveFollower DEF followerVars

----------------------------------------------------------------------------
(* The follower's invariant, and the theorems *)

HandoverInv ==
  /\ ServiceInv
  /\ FollowedRoundIsOpen
  /\ SupersededAreHandedOver
  /\ CommandsInv
  /\ CommandsFollowRecord
  /\ RestedInv

LEMMA HandoverInvInit ==
  ASSUME ServiceInit
  PROVE  HandoverInv
<1>1. /\ fs = FreshState /\ tick = IdleTick /\ superseded = {} /\ commands = <<>>
      /\ rounds = <<>>
  BY DEF ServiceInit, FollowerInit, StoreInit
<1>2. FollowedRoundIsOpen /\ SupersededAreHandedOver /\ CommandsFollowRecord
  BY <1>1 DEF FreshState, IdleTick, FollowedRoundIsOpen, SupersededAreHandedOver,
              CommandsFollowRecord
<1>3. CommandsInv
  BY <1>1 DEF FreshState, IdleTick, CommandsInv, CommandsAreHanded, OneCommandPerRound,
              IsInjective, Pending, Deciding, LateDeciding
<1>4. RestedInv
  BY <1>1 DEF IdleTick, RestedInv, PickRested, WinnersRested
<1>5. QED
  BY <1>2, <1>3, <1>4, ServiceInvInit DEF HandoverInv

\* What a pass owes between two of its calls, it still owes or has paid, whatever
\* came in between (follower.py:206-281).
THEOREM HandoverInvariant == ServiceSpec => []HandoverInv
<1>1. HandoverInv /\ [ServiceNext]_serviceVars => HandoverInv'
  BY ServiceInvStep, FollowedRoundStep, SupersededStep, CommandsStep,
     CommandsFollowRecordStep, RestedStep
  DEF HandoverInv
<1>2. QED
  BY HandoverInvInit, <1>1, PTL DEF ServiceSpec

\* Through song changes, stops, outages, exceptions and restarts, a request that
\* reads state.round_id in the middle of a pass finds the open round, or the one
\* that this pass has just ended and no older one (follower.py:201-202, 226-228,
\* server.py:350).
THEOREM FollowerFollowsOpenRound == ServiceSpec => []FollowedRoundIsOpen
<1>1. HandoverInv => FollowedRoundIsOpen
  BY DEF HandoverInv
<1>2. QED
  BY <1>1, HandoverInvariant, PTL

\* No round that is replaced in front of the loop escapes its decision.
THEOREM ReplacedRoundsDecided == ServiceSpec => []SupersededAreHandedOver
<1>1. HandoverInv => SupersededAreHandedOver
  BY DEF HandoverInv
<1>2. QED
  BY <1>1, HandoverInvariant, PTL

\* One process never asks FPP to jump twice for the same round.
THEOREM JumpsOnce == ServiceSpec => []OneCommandPerRound
<1>1. HandoverInv => OneCommandPerRound
  BY DEF HandoverInv, CommandsInv
<1>2. QED
  BY <1>1, HandoverInvariant, PTL

\* What FPP is asked to play is what the history shows as the winner.
THEOREM JumpsMatchHistory == ServiceSpec => []CommandsFollowRecord
<1>1. HandoverInv => CommandsFollowRecord
  BY DEF HandoverInv
<1>2. QED
  BY <1>1, HandoverInvariant, PTL

\* The winner of a round is neither its own song nor one that the shortest
\* cooldown locks, however late the round was decided.
THEOREM WinnersRespectCooldown == ServiceSpec => []WinnerRespectsCooldown
<1>1. HandoverInv => WinnerRespectsCooldown
  BY DEF HandoverInv, RestedInv, WinnersRested, Rested, WinnerRespectsCooldown
<1>2. QED
  BY <1>1, HandoverInvariant, PTL

----------------------------------------------------------------------------
(* What a step may never do *)

\* What ends a round in one step of the service: the loop, having seen FPP idle
\* or playing something else.
LEMMA RoundsEndStep ==
  ASSUME ServiceInv, ServiceNext, NEW r \in DOMAIN rounds,
         rounds[r].open, ~rounds'[r].open
  PROVE  \/ TickIdle
         \/ TickEnsure /\ tick.song # rounds[r].song
<1>1. TypeOK /\ OnlyNewestOpen
  BY DEF ServiceInv, StoreInv
<1>2. rounds' # rounds
  OBVIOUS
<1>3. CASE TickStep
  <2>1. CASE TickIdle
    BY <2>1
  <2>2. CASE TickEnsure
    <3>1. IsCurrent(r)
      BY <1>1 DEF IsCurrent, OnlyNewestOpen
    <3>2. QED
      BY <1>2, <2>2, <3>1 DEF TickEnsure, EnsureRound
  <2>3. CASE TickRecord \/ TickLateRecord
    BY <2>3, RecordShape
  <2>4. CASE \/ TickSkip \/ TickLeave \/ TickPlaying \/ TickFetch \/ TickCatalogue
             \/ TickFollow \/ TickLate \/ TickLatePlay \/ TickOnTime \/ TickPlay
             \/ TickForeignKey
    BY <1>2, <2>4
    DEF TickSkip, TickLeave, TickPlaying, TickFetch, TickCatalogue, UpsertSong, TickFollow,
        TickLate, TickLatePlay, TickOnTime, TickPlay, TickForeignKey, Play, Decide,
        storeVars
  <2>5. QED
    BY <1>3, <2>1, <2>2, <2>3, <2>4 DEF TickStep
<1>4. CASE ~TickStep
  <2>1. rounds' = rounds
    BY <1>4, OthersLeaveFollower
    DEF TickFails, Restart, RestartFollower, storeVars
  <2>2. QED
    BY <1>2, <2>1
<1>5. QED
  BY <1>3, <1>4

\* A round ends only when FPP was seen idle or seen playing something else.
THEOREM RoundsEndWhenSeen == ServiceSpec => RoundEndsOnlyWhenSeen
<1> DEFINE Ended(r) == rounds[r].open /\ ~rounds'[r].open
           Seen(r) == \/ tick.pc = "idle" /\ link /\ player.state = "idle"
                      \/ tick.pc = "ensure" /\ tick.song # rounds[r].song
<1>1. ASSUME ServiceInv, ServiceNext, NEW r \in DOMAIN rounds, Ended(r)
      PROVE  Seen(r)
  BY <1>1, RoundsEndStep DEF TickIdle, TickEnsure
<1>2. ASSUME ServiceInv, [ServiceNext]_serviceVars
      PROVE  [\A r \in DOMAIN rounds : Ended(r) => Seen(r)]_serviceVars
  BY <1>1, <1>2
<1>3. QED
  BY <1>2, ServiceInvariant, PTL DEF ServiceSpec, RoundEndsOnlyWhenSeen

\* A request of the ballot's own voter commits.
OwnRequestCommits(b) ==
  \E c \in Client :
    /\ Holder[c] = b.voter
    /\ req[c].pc = "commit" /\ req[c].round = b.round
    /\ req'[c].pc = "idle"

\* What takes a ballot away in one step of the service.
LEMMA BallotRemovedStep ==
  ASSUME ServiceInv, ServiceNext, NEW b \in votes \ votes'
  PROVE  OwnRequestCommits(b)
<1>1. ASSUME NEW c \in Client, Answered(c)
      PROVE  req'[c].pc = "idle"
  BY <1>1, TypesSplit DEF ServiceInv, RequestTypes, Answered, NoRequest
<1>2. ASSUME NEW c \in Client, CommitCast(c)
      PROVE  OwnRequestCommits(b)
  BY <1>1, <1>2 DEF OwnRequestCommits, CommitCast, CastVote, GivenUp, Selection
<1>3. ASSUME NEW c \in Client, CommitRetract(c)
      PROVE  OwnRequestCommits(b)
  BY <1>1, <1>3 DEF OwnRequestCommits, CommitRetract, RetractVote
<1>4. ASSUME NEW c \in Client, CheckEnabled(c) \/ ReadValid(c) \/ CommitRefused(c)
      PROVE  votes' = votes
  BY <1>4 DEF CheckEnabled, ReadValid, CommitRefused, storeVars
<1>5. CASE TickStep
  BY <1>5
  DEF TickStep, TickSkip, TickIdle, CloseOpenRound, TickLeave, TickPlaying, TickFetch,
      TickCatalogue, UpsertSong, TickEnsure, EnsureRound, TickFollow, TickLate,
      TickLateRecord,
      SetWinner, TickLatePlay, TickOnTime, TickRecord, TickPlay, TickForeignKey, Play,
      Decide, storeVars
<1>6. CASE TickFails \/ Restart \/ PlayerStep
  BY <1>6
  DEF TickFails, Restart, RestartFollower, PlayerStep, PlayEntry, PlayAlone, Stop,
      EnterWindow, EditPlaylist, LinkDown, LinkUp, storeVars
<1>7. CASE AdminStep
  BY <1>7
  DEF AdminStep, UpdateShow, UpdateSong, RemoveSong, Reconcile, SetVoting, SetRules,
      SetExcluded, DeleteSong, UpsertSong, SetVotesPerRound,
      SetCooldownSongs, SetVotingEnabled, storeVars
<1>8. ASSUME NEW c \in Client, NEW s \in Song, NEW retract \in BOOLEAN,
             Tap(c, s, retract)
      PROVE  votes' = votes
  BY <1>8 DEF Tap, storeVars
<1>9. QED
  BY <1>2, <1>3, <1>4, <1>5, <1>6, <1>7, <1>8 DEF ServiceNext, RequestStep

\* Only a voter's own request, as it commits, removes one of their ballots.
THEOREM BallotsAreTheirVoters == ServiceSpec => BallotsRemovedOnlyByOwner
<1>1. ASSUME ServiceInv, [ServiceNext]_serviceVars
      PROVE  [\A b \in votes \ votes' : OwnRequestCommits(b)]_serviceVars
  BY <1>1, BallotRemovedStep
<1>2. QED
  BY <1>1, ServiceInvariant, PTL
  DEF ServiceSpec, BallotsRemovedOnlyByOwner, OwnRequestCommits

----------------------------------------------------------------------------
(* What a jump starts *)

\* As long as no playlist has been edited, a cached one is the one FPP has.
CacheIsCurrent ==
  /\ left["edits"] <= Budget["edits"]
  /\ left["edits"] = Budget["edits"] => cache \subseteq {playlist}

\* The entries current_entries returns are cached ones or FPP's, or none.
LEMMA EntriesReadShape ==
  ASSUME NEW read \in EntriesRead
  PROVE  /\ \/ read.entries \in cache \/ read.entries = playlist
            \/ read.entries = <<>>
         /\ read.cache = cache \/ read.cache = {playlist}
<1>1. read \in {[entries |-> e, cache |-> cache] : e \in cache}
                \cup {[entries |-> playlist, cache |-> {playlist}]}
                \cup {[entries |-> <<>>, cache |-> cache]}
  BY DEF EntriesRead
<1>2. QED
  BY <1>1

\* A jump leaves the playlist as it is, and what is cached is what was cached or
\* what the playlist holds.
LEMMA PlayKeepsCache ==
  ASSUME NEW r, Play(r), EnvTypes
  PROVE  /\ playlist' = playlist
         /\ cache' = cache \/ cache' = {playlist}
         /\ left'["edits"] = left["edits"]
<1>1. PICK read \in EntriesRead :
        /\ cache' = read.cache
        /\ \/ UNCHANGED <<player, commands, left>>
           \/ \E i \in Indexes(read.entries, tick.pick) : Obey(i) \/ Lost
  BY DEF Play
<1>2. cache' = cache \/ cache' = {playlist}
  BY <1>1, EntriesReadShape
<1>3. ASSUME NEW i, Obey(i) \/ Lost
      PROVE  left'["edits"] = left["edits"]
  BY <1>3 DEF Obey, Lost, Spend, EnvTypes, Events
<1>4. playlist' = playlist
  BY DEF Play
<1>5. QED
  BY <1>1, <1>2, <1>3, <1>4

\* Only EditPlaylist parts the cache from the playlist, and it spends an edit.
LEMMA CacheIsCurrentStep ==
  ASSUME ServiceInv, CacheIsCurrent, [ServiceNext]_serviceVars
  PROVE  CacheIsCurrent'
<1>1. EnvTypes /\ FollowerTypes
  BY TypesSplit DEF ServiceInv
<1>2. left \in [Events -> Nat] /\ left["edits"] \in Nat
  BY <1>1 DEF EnvTypes, Events
<1>3. ASSUME playlist' = playlist, left'["edits"] = left["edits"],
             cache' = cache \/ cache' = {playlist} \/ cache' = {}
      PROVE  CacheIsCurrent'
  BY <1>3 DEF CacheIsCurrent
<1>4. ASSUME NEW e \in Events, Spend(e), e # "edits"
      PROVE  left'["edits"] = left["edits"]
  BY <1>2, <1>4 DEF Spend, Events
<1>5. CASE TickStep
  <2>1. CASE TickFetch
    <3>1. cache' = cache \/ cache' = {playlist}
      BY <2>1, EntriesReadShape DEF TickFetch
    <3>2. QED
      BY <1>3, <2>1, <3>1 DEF TickFetch, envVars
  <2>2. CASE TickLatePlay \/ TickPlay
    BY <1>1, <1>3, <2>2, PlayKeepsCache DEF TickLatePlay, TickPlay
  <2>3. CASE \/ TickSkip \/ TickIdle \/ TickLeave \/ TickPlaying \/ TickCatalogue
             \/ TickEnsure \/ TickFollow \/ TickLate \/ TickLateRecord \/ TickOnTime
             \/ TickRecord \/ TickForeignKey
    BY <1>3, <2>3
    DEF TickSkip, TickIdle, TickLeave, TickPlaying, TickCatalogue, TickEnsure, TickFollow,
        TickLate, TickLateRecord, TickOnTime, TickRecord, TickForeignKey, Decide, envVars,
        followerVars
  <2>4. QED
    BY <1>5, <2>1, <2>2, <2>3 DEF TickStep
<1>6. CASE TickFails \/ Restart
  <2>1. Spend("faults") /\ UNCHANGED playlist /\ (cache' = cache \/ cache' = {})
    BY <1>6 DEF TickFails, Restart, RestartFollower, envVars
  <2>2. QED
    BY <1>3, <1>4, <2>1 DEF Events
<1>7. CASE PlayerStep
  <2>1. ASSUME NEW p \in Playlists, EditPlaylist(p)
        PROVE  CacheIsCurrent'
    <3>1. left'["edits"] = left["edits"] - 1
      BY <1>2, <2>1 DEF EditPlaylist, Spend, Events
    <3>2. Budget["edits"] \in Nat
      BY FollowerAssumption DEF Events
    <3>3. QED
      BY <1>2, <3>1, <3>2 DEF CacheIsCurrent
  <2>2. ASSUME ~\E p \in Playlists : EditPlaylist(p)
        PROVE  CacheIsCurrent'
    <3>1. UNCHANGED <<playlist, cache>>
      BY <1>7, <2>2
      DEF PlayerStep, PlayEntry, PlayAlone, Stop, EnterWindow, LinkDown, LinkUp,
          followerVars
    <3>2. left'["edits"] = left["edits"]
      BY <1>4, <1>7, <2>2
      DEF PlayerStep, PlayEntry, PlayAlone, Stop, EnterWindow, LinkDown, LinkUp, Events
    <3>3. QED
      BY <1>3, <3>1, <3>2
  <2>3. QED
    BY <2>1, <2>2
<1>8. ASSUME NEW c \in Client, NEW s \in Song, NEW retract \in BOOLEAN, Tap(c, s, retract)
      PROVE  CacheIsCurrent'
  BY <1>3, <1>4, <1>8 DEF Tap, envVars, followerVars, Events
<1>9. ASSUME NEW c \in Client, RequestStep(c)
      PROVE  CacheIsCurrent'
  BY <1>3, <1>9
  DEF RequestStep, CheckEnabled, ReadValid, CommitCast, CommitRefused, CommitRetract,
      envVars, followerVars
<1>10. CASE AdminStep
  <2>1. UNCHANGED <<playlist, cache>>
    BY <1>10 DEF AdminStep, UpdateShow, UpdateSong, RemoveSong, Reconcile, SetVoting,
                 SetRules, envVars,
                 followerVars
  <2>2. left'["edits"] = left["edits"]
    BY <1>4, <1>10 DEF AdminStep, UpdateShow, UpdateSong, RemoveSong, Reconcile, SetVoting,
                       SetRules,
                       Events
  <2>3. QED
    BY <1>3, <2>1, <2>2
<1>11. CASE UNCHANGED serviceVars
  BY <1>3, <1>11 DEF serviceVars, envVars, followerVars
<1>12. QED
  BY <1>5, <1>6, <1>7, <1>8, <1>9, <1>10, <1>11 DEF ServiceNext

\* A step that changes what FPP plays while a jump is due started the winner,
\* or found another playlist in the cache than the one FPP has by now.
LEMMA JumpStep ==
  ASSUME ServiceInv, [ServiceNext]_serviceVars,
         tick.pc \in {"play", "latePlay"}, tick'.pc # tick.pc, player' # player
  PROVE  player'.song = tick.pick \/ \E entries \in cache : entries # playlist
<1>1. ASSUME NEW r, Play(r)
      PROVE  player'.song = tick.pick \/ \E entries \in cache : entries # playlist
  <2>1. PICK read \in EntriesRead :
          \E i \in Indexes(read.entries, tick.pick) : Obey(i) \/ Lost
    BY <1>1 DEF Play
  <2> PICK i \in Indexes(read.entries, tick.pick) : Obey(i) \/ Lost
    BY <2>1
  <2>2. i \in DOMAIN playlist /\ player'.song = playlist[i]
    BY <2>1 DEF Obey, Lost, Playing
  <2>3. i \in DOMAIN read.entries /\ read.entries[i] = tick.pick
    BY DEF Indexes
  <2>4. CASE read.entries = <<>>
    BY <2>3, <2>4
  <2>5. CASE read.entries = playlist
    BY <2>2, <2>3, <2>5
  <2>6. QED
    BY <2>4, <2>5, EntriesReadShape
<1>2. CASE TickLatePlay \/ TickPlay
  BY <1>1, <1>2 DEF TickLatePlay, TickPlay
<1>3. CASE TickStep /\ ~(TickLatePlay \/ TickPlay)
  <2>1. tick.pc \notin {"play", "latePlay"}
    BY <1>3
    DEF TickStep, TickSkip, TickIdle, TickLeave, TickPlaying, TickFetch, TickCatalogue,
        TickEnsure, TickFollow, TickLate, TickLateRecord, TickOnTime, TickRecord,
        TickForeignKey
  <2>2. QED
    BY <2>1
<1>4. CASE TickFails \/ Restart
  BY <1>4 DEF TickFails, Restart, RestartFollower, envVars
<1>5. CASE ~(TickStep \/ TickFails \/ Restart)
  <2>1. UNCHANGED tick
    BY <1>5, OthersLeaveFollower DEF followerVars
  <2>2. QED
    BY <2>1
<1>6. QED
  BY <1>2, <1>3, <1>4, <1>5

\* The process starts with an empty cache.
LEMMA CacheIsCurrentInit ==
  ASSUME ServiceInit PROVE CacheIsCurrent
<1>1. Budget["edits"] \in Nat
  BY FollowerAssumption DEF Events
<1>2. QED
  BY <1>1 DEF ServiceInit, FollowerInit, CacheIsCurrent

\* Until somebody edits the playlist, what _playlist_cache holds is what FPP
\* has, whatever outages, failed calls and restarts come (follower.py:123-137).
THEOREM CacheCurrentUntilEdit == ServiceSpec => []CacheIsCurrent
<1>1. ServiceInit => CacheIsCurrent
  BY CacheIsCurrentInit
<1>2. ServiceInv /\ CacheIsCurrent /\ [ServiceNext]_serviceVars => CacheIsCurrent'
  BY CacheIsCurrentStep
<1>3. QED
  BY <1>1, <1>2, ServiceInvariant, PTL DEF ServiceSpec

\* The one reason why start_at_item can start another song than the winner is
\* that the entries the index was looked up in are no longer the playlist
\* (follower.py:123-144, 293-309).
THEOREM StalenessAlone ==
  ServiceSpec =>
    [][ /\ tick.pc \in {"play", "latePlay"} /\ tick'.pc # tick.pc
        /\ player' # player
        => player'.song = tick.pick \/ \E entries \in cache : entries # playlist
      ]_serviceVars
<1>1. ServiceInv /\ [ServiceNext]_serviceVars =>
        [ /\ tick.pc \in {"play", "latePlay"} /\ tick'.pc # tick.pc
          /\ player' # player
          => player'.song = tick.pick \/ \E entries \in cache : entries # playlist
        ]_serviceVars
  BY JumpStep
<1>2. QED
  BY <1>1, ServiceInvariant, PTL DEF ServiceSpec

\* With a playlist that nobody edits, every jump that reaches FPP starts the
\* winner it was made for; the run stale_index shows that one edit is enough to
\* break this.
THEOREM JumpsStartTheirWinner ==
  ASSUME Budget["edits"] = 0
  PROVE  ServiceSpec => JumpStartsWinner
<1> DEFINE Jump == /\ tick.pc \in {"play", "latePlay"} /\ tick'.pc # tick.pc
                   /\ player' # player
                   => player'.song = tick.pick
<1>1. ASSUME ServiceInv, CacheIsCurrent, [ServiceNext]_serviceVars
      PROVE  [Jump]_serviceVars
  <2>1. left["edits"] = 0
    <3>1. left["edits"] \in Nat
      BY <1>1, TypesSplit DEF ServiceInv, EnvTypes, Events
    <3>2. QED
      BY <1>1, <3>1 DEF CacheIsCurrent
  <2>2. cache \subseteq {playlist}
    BY <1>1, <2>1 DEF CacheIsCurrent
  <2>3. QED
    BY <1>1, <2>2, JumpStep
<1>2. ServiceInv /\ CacheIsCurrent /\ [ServiceNext]_serviceVars => [Jump]_serviceVars
  BY <1>1
<1>3. QED
  BY <1>2, ServiceInvariant, CacheCurrentUntilEdit, PTL DEF ServiceSpec, JumpStartsWinner
================================================================================
