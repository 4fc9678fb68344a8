------------------------------ MODULE MqttProofs ------------------------------
(***************************************************************************)
(* The service with MQTT proved for every song, playlist, client and       *)
(* number of messages (src/fppvote/fpp/mqtt.py).                           *)
(*                                                                         *)
(* A pass believes what the messages said, which need not be what FPP is   *)
(* doing, and a jump may be published into the void. None of what          *)
(* HandoverProofs establishes depends on either: all but five kinds of     *)
(* step are Service's own, and those five (two ways of looking, two jumps, *)
(* the broker going) keep HandoverInv as their HTTP counterparts do.       *)
(***************************************************************************)
EXTENDS MqttService, BookkeepingProofs

ViewRow == [song : Song \cup {NoSong}, listed : BOOLEAN,
            word : {"none", "playing", "stopping", "idle"},
            window : BOOLEAN, alive : BOOLEAN]

MqttInv == HandoverInv /\ MqttTypeOK

\* The jumps, with either of the two ways of asking.
Launching == LaunchLate \/ LaunchOnTime

\* Every step is Service's own but for these.
LEMMA StepsOfService ==
  ASSUME [MqttNext]_mqttVars
  PROVE  \/ [ServiceNext]_serviceVars
         \/ (SeePlaying \/ SeeIdle \/ Launching) /\ UNCHANGED req
         \/ BrokerDown
<1>1. CASE UNCHANGED mqttVars
  BY <1>1 DEF mqttVars
<1>2. CASE \/ SequenceMessage \/ NameMessage \/ StatusMessage
           \/ \E named \in BOOLEAN : DetailsMessage(named)
           \/ GoQuiet \/ BrokerUp
  BY <1>2 DEF SequenceMessage, NameMessage, StatusMessage, DetailsMessage, Handle, GoQuiet, BrokerUp
<1>3. CASE MqttTick
  <2>1. CASE SeeNothing
    <3>1. UNCHANGED <<storeVars, envVars, followerVars, left, req>>
      BY <1>3, <2>1 DEF SeeNothing, MqttTick
    <3>2. QED
      BY <3>1 DEF serviceVars
  <2>2. CASE SeePlaying \/ SeeIdle \/ LaunchLate \/ LaunchOnTime
    BY <1>3, <2>2 DEF MqttTick, Launching
  <2>3. CASE \/ TickFetch \/ TickCatalogue \/ TickEnsure \/ TickFollow \/ TickLeave
             \/ TickLate \/ TickLateRecord \/ TickOnTime \/ TickRecord
    BY <1>3, <2>3 DEF MqttTick, TickStep, ServiceNext
  <2>4. QED
    BY <1>3, <2>1, <2>2, <2>3 DEF MqttTick
<1>4. CASE MqttRestart
  BY <1>4 DEF MqttRestart, ServiceNext
<1>5. CASE \/ PlayerStep /\ UNCHANGED req
           \/ \E c \in Client, s \in Song, retract \in BOOLEAN : Tap(c, s, retract)
           \/ \E c \in Client : RequestStep(c)
  BY <1>5 DEF ServiceNext
<1>6. QED
  BY <1>1, <1>2, <1>3, <1>4, <1>5 DEF MqttNext

----------------------------------------------------------------------------
(* The adapter's view *)

\* A pass that goes on believes in a song.
LEMMA SeenIsTyped ==
  ASSUME EnvTypes, MqttTypeOK, Seen.state = "playing"
  PROVE  Seen.song \in Song /\ Seen.listed \in BOOLEAN /\ Seen.window \in BOOLEAN
<1>0. view \in ViewRow
  BY DEF MqttTypeOK, ViewRow
<1>1. CASE Fresh
  <2>1. Seen.song = view.song /\ Seen.listed = view.listed /\ Seen.window = view.window
    BY <1>1 DEF Seen
  <2>2. view.song \in Song
    BY <1>0, <1>1 DEF Fresh, ViewRow
  <2>3. QED
    BY <1>0, <2>1, <2>2 DEF ViewRow
<1>2. CASE ~Fresh /\ link
  BY <1>2 DEF Seen, EnvTypes
<1>3. CASE ~Fresh /\ ~link
  BY <1>3 DEF Seen, Silent
<1>4. QED
  BY <1>1, <1>2, <1>3

LEMMA ViewStep ==
  ASSUME MqttInv, [MqttNext]_mqttVars
  PROVE  MqttTypeOK'
<1>0. /\ view \in ViewRow /\ broker \in BOOLEAN /\ heard \in 0..Messages
      /\ EnvTypes /\ Messages \in Nat
  BY TypesSplit, MqttAssumption
  DEF MqttInv, HandoverInv, ServiceInv, MqttTypeOK, ViewRow
<1>1. ASSUME view' \in ViewRow, broker' \in BOOLEAN, heard' \in 0..Messages
      PROVE  MqttTypeOK'
  BY <1>1 DEF MqttTypeOK, ViewRow
<1>2. ASSUME NEW new \in ViewRow, Handle(new) PROVE MqttTypeOK'
  <2>1. [new EXCEPT !.alive = TRUE] \in ViewRow
    BY DEF ViewRow
  <2>2. heard + 1 \in 0..Messages
    BY <1>0, <1>2 DEF Handle
  <2>3. QED
    BY <1>0, <1>1, <1>2, <2>1, <2>2 DEF Handle
<1>3. CASE SequenceMessage
  <2>1. [view EXCEPT !.song = player.song] \in ViewRow
    BY <1>0 DEF ViewRow, EnvTypes
  <2>2. QED
    BY <1>2, <1>3, <2>1 DEF SequenceMessage
<1>4. CASE NameMessage
  <2>1. [view EXCEPT !.listed = player.listed] \in ViewRow
    BY <1>0 DEF ViewRow, EnvTypes
  <2>2. QED
    BY <1>2, <1>4, <2>1 DEF NameMessage
<1>5. CASE StatusMessage
  <2>1. [view EXCEPT !.word = player.state] \in ViewRow
    BY <1>0 DEF ViewRow, EnvTypes
  <2>2. QED
    BY <1>2, <1>5, <2>1 DEF StatusMessage
<1>6. ASSUME NEW named \in BOOLEAN, DetailsMessage(named) PROVE MqttTypeOK'
  <2> DEFINE song   == IF named /\ player.song # NoSong THEN player.song ELSE view.song
             timed  == [view EXCEPT !.window = player.window]
             listed == [timed EXCEPT !.listed = @ \/ player.listed]
             titled == [listed EXCEPT !.song = song]
             worded == [titled EXCEPT !.word = IF @ = "none" /\ song # NoSong
                                                 THEN "playing" ELSE @]
  <2>1. timed \in ViewRow
    BY <1>0 DEF ViewRow, EnvTypes
  <2>2. (timed.listed \/ player.listed) \in BOOLEAN
    BY DEF EnvTypes
  <2>3. Handle(worded)
    BY <1>6 DEF DetailsMessage
  <2>4. song \in Song \cup {NoSong}
    BY <1>0 DEF ViewRow, EnvTypes
  <2> HIDE DEF timed, song
  <2>5. listed \in ViewRow
    BY <2>1, <2>2 DEF ViewRow
  <2> HIDE DEF listed
  <2>6. titled \in ViewRow
    BY <2>4, <2>5 DEF ViewRow
  <2> HIDE DEF titled
  <2>7. worded \in ViewRow
    BY <2>6 DEF ViewRow
  <2> HIDE DEF worded
  <2>8. QED
    BY <1>2, <2>3, <2>7
<1>7. CASE GoQuiet
  <2>1. [view EXCEPT !.alive = FALSE] \in ViewRow
    BY <1>0 DEF ViewRow
  <2>2. QED
    BY <1>0, <1>1, <1>7, <2>1 DEF GoQuiet
<1>8. CASE MqttRestart
  <2>1. NoView \in ViewRow
    BY DEF NoView, ViewRow
  <2>2. QED
    BY <1>0, <1>1, <1>8, <2>1 DEF MqttRestart
<1>9. CASE BrokerDown \/ BrokerUp
  BY <1>0, <1>1, <1>9 DEF BrokerDown, BrokerUp
<1>10. CASE UNCHANGED <<view, broker, heard>>
  BY <1>0, <1>1, <1>10
<1>11. QED
  BY <1>3, <1>4, <1>5, <1>6, <1>7, <1>8, <1>9, <1>10 DEF MqttNext, MqttTick, mqttVars

----------------------------------------------------------------------------
(* Looking *)

LEMMA SeePlayingKeeps ==
  ASSUME MqttInv, SeePlaying, UNCHANGED req
  PROVE  HandoverInv'
<1>0. /\ TypeOK /\ EnvTypes /\ FollowerTypes /\ RequestTypes
      /\ Seen.song \in Song /\ Seen.listed \in BOOLEAN /\ Seen.window \in BOOLEAN
  BY TypesSplit, SeenIsTyped DEF MqttInv, HandoverInv, ServiceInv, SeePlaying
<1>1. /\ UNCHANGED <<envVars, fs, cache, superseded, commands, storeVars, left, req>>
      /\ tick.pc = "idle"
      /\ tick' = [IdleTick EXCEPT !.pc = "fetch", !.song = Seen.song,
                     !.listed = Seen.listed, !.window = Seen.window]
  BY DEF SeePlaying
<1> HIDE DEF Seen
<1>2. /\ tick'.pc = "fetch" /\ tick'.song \in Song
      /\ tick' \in [pc : TickStates, song : Song \cup {NoSong}, listed : BOOLEAN,
                    window : BOOLEAN, prev : Nat, pick : Song \cup {NoSong}]
  BY <1>0, <1>1 DEF IdleTick, TickStates
<1>3. EnvTypes' /\ FollowerTypes' /\ RequestTypes'
  BY <1>0, <1>1, <1>2 DEF envVars, EnvTypes, FollowerTypes, RequestTypes
<1>4. StoreInv'
  BY <1>1, StoreInvStep DEF MqttInv, HandoverInv, ServiceInv
<1>5. ServiceInv'
  BY <1>3, <1>4
  DEF ServiceInv, StoreInv, TypedInv, ServiceTypeOK, TickKnowsSong, TickStates,
      EnvTypes, FollowerTypes, RequestTypes
<1>6. FollowedRoundIsOpen'
  BY <1>1, <1>2 DEF MqttInv, HandoverInv, FollowedRoundIsOpen, IsCurrent, storeVars
<1>7. SupersededAreHandedOver'
  BY <1>1 DEF MqttInv, HandoverInv, SupersededAreHandedOver
<1>8. CommandsInv' /\ CommandsFollowRecord'
  BY <1>1, <1>2
  DEF MqttInv, HandoverInv, CommandsInv, CommandsAreHanded, OneCommandPerRound, Pending,
      Deciding, LateDeciding, CommandsFollowRecord
<1>9. RestedInv'
  BY <1>1, <1>2 DEF MqttInv, HandoverInv, RestedInv, PickRested, WinnersRested, Rested, storeVars
<1>10. QED
  BY <1>5, <1>6, <1>7, <1>8, <1>9 DEF HandoverInv

LEMMA SeeIdleKeeps ==
  ASSUME MqttInv, SeeIdle, UNCHANGED req
  PROVE  HandoverInv'
<1>0. /\ TypeOK /\ OnlyNewestOpen /\ EnvTypes /\ FollowerTypes /\ RequestTypes
      /\ fs \in [round : Nat, voteable : SUBSET Song, handed : SUBSET Nat]
      /\ rounds \in Seq(RoundRow)
  BY TypesSplit DEF MqttInv, HandoverInv, ServiceInv, StoreInv, FollowerTypes, TypeOK
<1>1. /\ UNCHANGED <<envVars, fs, cache, superseded, commands, left, req>>
      /\ tick.pc = "idle" /\ tick' = [tick EXCEPT !.pc = "leave"]
      /\ CloseOpenRound /\ rounds' = EndCurrent
  BY DEF SeeIdle, Goto, CloseOpenRound
<1>2. /\ tick'.pc = "leave"
      /\ tick' \in [pc : TickStates, song : Song \cup {NoSong}, listed : BOOLEAN,
                    window : BOOLEAN, prev : Nat, pick : Song \cup {NoSong}]
  BY <1>0, <1>1 DEF FollowerTypes, TickStates
<1>3. EnvTypes' /\ FollowerTypes' /\ RequestTypes'
  BY <1>0, <1>1, <1>2 DEF envVars, EnvTypes, FollowerTypes, RequestTypes
<1>4. StoreInv'
  BY <1>1, StoreInvStep DEF MqttInv, HandoverInv, ServiceInv, StoreNext
<1>5. ServiceInv'
  BY <1>3, <1>4
  DEF ServiceInv, StoreInv, TypedInv, ServiceTypeOK, TickKnowsSong, TickStates,
      EnvTypes, FollowerTypes, RequestTypes
<1>6. FollowedRoundIsOpen'
  <2>1. Len(rounds') = Len(rounds)
    BY <1>0, <1>1, EndCurrentShape
  <2>2. fs.round # 0 => fs.round = Len(rounds)
    BY <1>0, <1>1 DEF MqttInv, HandoverInv, FollowedRoundIsOpen, IsCurrent, OnlyNewestOpen
  <2>3. QED
    BY <1>1, <1>2, <2>1, <2>2 DEF FollowedRoundIsOpen
<1>7. SupersededAreHandedOver'
  BY <1>1, <1>2 DEF MqttInv, HandoverInv, SupersededAreHandedOver
<1>8. CommandsInv' /\ CommandsFollowRecord'
  BY <1>1, <1>2
  DEF MqttInv, HandoverInv, CommandsInv, CommandsAreHanded, OneCommandPerRound, Pending,
      Deciding, LateDeciding, CommandsFollowRecord
<1>9. RestedInv'
  <2>1. /\ DOMAIN rounds' = DOMAIN rounds
        /\ \A i \in DOMAIN rounds :
             rounds'[i].song = rounds[i].song /\ rounds'[i].winner = rounds[i].winner
    BY <1>0, <1>1, EndCurrentShape DEF CloseOpenRound
  <2>2. WinnersRested'
    BY <2>1 DEF MqttInv, HandoverInv, RestedInv, WinnersRested, Rested
  <2>3. QED
    BY <1>1, <2>2 DEF RestedInv, PickRested
<1>10. QED
  BY <1>5, <1>6, <1>7, <1>8, <1>9 DEF HandoverInv

----------------------------------------------------------------------------
(* Jumping *)

\* However the jump is asked for, only the player, the cache and the commands move.
LEMMA LaunchTypes ==
  ASSUME EnvTypes, FollowerTypes, NEW r \in Nat, LaunchWinner(r)
  PROVE  /\ EnvTypes'
         /\ cache' \in SUBSET Playlists
         /\ commands' \in Seq(Nat)
         /\ commands' = commands \/ commands' = Append(commands, r)
         /\ UNCHANGED <<fs, superseded, storeVars>>
<1>1. PICK read \in EntriesRead :
        /\ cache' = read.cache
        /\ \/ UNCHANGED <<player, commands, left>>
           \/ \E i \in Indexes(read.entries, tick.pick) :
                /\ Launch(i)
                /\ commands' = Append(commands, r)
  BY DEF LaunchWinner
<1>2. UNCHANGED <<playlist, link, configured, fs, superseded, storeVars>>
  BY DEF LaunchWinner
<1>3. cache' \in SUBSET Playlists
  BY <1>1, EntriesReadTypes
<1>4. commands' = commands \/ commands' = Append(commands, r)
  BY <1>1
<1>5. commands' \in Seq(Nat)
  <2>1. commands \in Seq(Nat)
    BY DEF FollowerTypes
  <2>2. Append(commands, r) \in Seq(Nat)
    BY <2>1
  <2>3. QED
    BY <1>4, <2>1, <2>2
<1>6. ASSUME NEW i, Launch(i)
      PROVE  /\ player' = player \/ \E s \in Song : player' = Playing(s, TRUE)
             /\ left' \in [Events -> Nat]
  <2>1. playlist \in Seq(Song) /\ "faults" \in Events /\ left \in [Events -> Nat]
    BY FollowerAssumption DEF EnvTypes, Events
  <2>2. i \in DOMAIN playlist => playlist[i] \in Song
    BY <2>1
  <2>3. \/ player' = player
        \/ i \in DOMAIN playlist /\ player' = Playing(playlist[i], TRUE)
    BY <1>6 DEF Launch, Obey, Lost
  <2>4. UNCHANGED left \/ Spend("faults")
    BY <1>6 DEF Launch, Obey, Lost
  <2>5. left' \in [Events -> Nat]
    BY <2>1, <2>4, SpendTypes
  <2>6. QED
    BY <2>2, <2>3, <2>5
<1>7. /\ player' = player \/ \E s \in Song : player' = Playing(s, TRUE)
      /\ left' \in [Events -> Nat]
  BY <1>1, <1>6 DEF EnvTypes
<1>8. EnvTypes'
  <2>1. CASE player' = player
    BY <1>2, <1>7, <2>1 DEF EnvTypes
  <2>2. ASSUME NEW s \in Song, player' = Playing(s, TRUE)
        PROVE  EnvTypes'
    BY <1>2, <1>7, <2>2 DEF EnvTypes, Playing
  <2>3. QED
    BY <1>7, <2>1, <2>2
<1>9. QED
  BY <1>2, <1>3, <1>4, <1>5, <1>8

LEMMA LaunchKeeps ==
  ASSUME MqttInv, Launching, UNCHANGED req
  PROVE  HandoverInv'
<1>0. /\ TypeOK /\ EnvTypes /\ FollowerTypes /\ RequestTypes /\ CommandsInv
      /\ fs \in [round : Nat, voteable : SUBSET Song, handed : SUBSET Nat]
      /\ fs.round \in Nat /\ tick.prev \in Nat /\ commands \in Seq(Nat)
  BY TypesSplit DEF MqttInv, HandoverInv, ServiceInv, FollowerTypes
<1>1. PICK r \in Nat :
        /\ LaunchWinner(r)
        /\ r \in fs.handed /\ \A i \in DOMAIN commands : commands[i] # r
  BY <1>0
  DEF Launching, LaunchLate, LaunchOnTime, CommandsInv, CommandsAreHanded, Pending,
      Deciding, LateDeciding
<1>2. /\ EnvTypes'
      /\ cache' \in SUBSET Playlists
      /\ commands' \in Seq(Nat)
      /\ commands' = commands \/ commands' = Append(commands, r)
      /\ UNCHANGED <<fs, superseded, storeVars>>
  BY <1>0, <1>1, LaunchTypes
<1>3. /\ tick.pc \in {"play", "latePlay"}
      /\ tick'.pc \in {"idle", "ontime"}
      /\ tick' \in [pc : TickStates, song : Song \cup {NoSong}, listed : BOOLEAN,
                    window : BOOLEAN, prev : Nat, pick : Song \cup {NoSong}]
      /\ tick'.pc \notin {"idle", "leave"} => tick'.song \in Song
  <2>1. CASE LaunchLate
    BY <1>0, <2>1 DEF LaunchLate, Goto, FollowerTypes, TickStates
  <2>2. CASE LaunchOnTime
    BY <2>2 DEF LaunchOnTime, IdleTick, TickStates
  <2>3. QED
    BY <2>1, <2>2 DEF Launching
<1>4. FollowerTypes' /\ RequestTypes'
  BY <1>0, <1>2, <1>3 DEF FollowerTypes, RequestTypes
<1>5. StoreInv'
  BY <1>2, StoreInvStep DEF MqttInv, HandoverInv, ServiceInv
<1>6. ServiceInv'
  BY <1>2, <1>4, <1>5
  DEF ServiceInv, StoreInv, TypedInv, ServiceTypeOK, TickKnowsSong, TickStates,
      EnvTypes, FollowerTypes, RequestTypes
<1>7. FollowedRoundIsOpen'
  BY <1>2, <1>3 DEF MqttInv, HandoverInv, FollowedRoundIsOpen, IsCurrent, storeVars
<1>8. SupersededAreHandedOver'
  BY <1>2, <1>3 DEF MqttInv, HandoverInv, SupersededAreHandedOver
<1>9. CommandsInv'
  BY <1>0, <1>1, <1>2, <1>3, PlayAsksOnce
<1>10. CommandsFollowRecord'
  BY <1>3 DEF CommandsFollowRecord
<1>11. RestedInv'
  BY <1>2, <1>3 DEF MqttInv, HandoverInv, RestedInv, PickRested, WinnersRested, Rested, storeVars
<1>12. QED
  BY <1>6, <1>7, <1>8, <1>9, <1>10, <1>11 DEF HandoverInv

\* Losing the broker touches neither the follower nor the database.
LEMMA BrokerDownKeeps ==
  ASSUME MqttInv, BrokerDown
  PROVE  HandoverInv'
<1>0. /\ TypeOK /\ EnvTypes /\ FollowerTypes /\ RequestTypes
  BY TypesSplit DEF MqttInv, HandoverInv, ServiceInv
<1>1. /\ UNCHANGED <<storeVars, envVars, followerVars, req>>
      /\ left' \in [Events -> Nat]
  BY <1>0, SpendTypes DEF BrokerDown, EnvTypes, Events
<1>2. EnvTypes' /\ FollowerTypes' /\ RequestTypes'
  BY <1>0, <1>1 DEF envVars, followerVars, EnvTypes, FollowerTypes, RequestTypes
<1>3. StoreInv'
  BY <1>1, StoreInvStep DEF MqttInv, HandoverInv, ServiceInv
<1>4. ServiceInv'
  BY <1>2, <1>3
  DEF ServiceInv, StoreInv, TypedInv, ServiceTypeOK, TickKnowsSong, TickStates,
      EnvTypes, FollowerTypes, RequestTypes
<1>5. UNCHANGED <<rounds, fs, tick, superseded, commands>>
  BY <1>1 DEF storeVars, followerVars
<1>6. FollowedRoundIsOpen' /\ SupersededAreHandedOver' /\ CommandsFollowRecord'
  BY <1>5 DEF MqttInv, HandoverInv, FollowedRoundIsOpen, IsCurrent,
              SupersededAreHandedOver, CommandsFollowRecord
<1>7. CommandsInv' /\ RestedInv'
  BY <1>5 DEF MqttInv, HandoverInv, CommandsInv, CommandsAreHanded, OneCommandPerRound,
              Pending, RestedInv, PickRested, WinnersRested, Rested
<1>8. QED
  BY <1>4, <1>6, <1>7 DEF HandoverInv

----------------------------------------------------------------------------
(* The invariant, and what follows from it *)

\* With a view put together from messages the service keeps all it owes between
\* the calls of a pass (mqtt.py:90-212, follower.py:173-281).
THEOREM MqttInvariant == MqttSpec => []MqttInv
<1>1. MqttInit => MqttInv
  <2>1. ASSUME MqttInit PROVE MqttTypeOK
    BY <2>1, MqttAssumption DEF MqttInit, NoView, MqttTypeOK
  <2>2. QED
    BY <2>1, HandoverInvInit DEF MqttInit, MqttInv
<1>2. MqttInv /\ [MqttNext]_mqttVars => MqttInv'
  <2> SUFFICES ASSUME MqttInv, [MqttNext]_mqttVars PROVE MqttInv'
    OBVIOUS
  <2>1. CASE [ServiceNext]_serviceVars
    BY <2>1, ServiceInvStep, FollowedRoundStep, SupersededStep, CommandsStep,
       CommandsFollowRecordStep, RestedStep, ViewStep
    DEF MqttInv, HandoverInv
  <2>2. CASE (SeePlaying \/ SeeIdle \/ Launching) /\ UNCHANGED req
    BY <2>2, SeePlayingKeeps, SeeIdleKeeps, LaunchKeeps, ViewStep DEF MqttInv
  <2>3. CASE BrokerDown
    BY <2>3, BrokerDownKeeps, ViewStep DEF MqttInv
  <2>4. QED
    BY <2>1, <2>2, <2>3, StepsOfService
<1>3. QED
  BY <1>1, <1>2, PTL DEF MqttSpec

\* Whatever arrives, in whatever order, the adapter's view has its types.
THEOREM MqttTyped == MqttSpec => []MqttTypeOK
<1>1. MqttInv => MqttTypeOK
  BY DEF MqttInv
<1>2. QED
  BY <1>1, MqttInvariant, PTL

\* Wrong or late messages never make the round a request is handed anything but
\* the open one, or the one that the pass in progress has just ended
\* (mqtt.py:137-159, follower.py:201-202, 226-228, server.py:350).
THEOREM MqttFollowsOpenRound == MqttSpec => []FollowedRoundIsOpen
<1>1. MqttInv => FollowedRoundIsOpen
  BY DEF MqttInv, HandoverInv
<1>2. QED
  BY <1>1, MqttInvariant, PTL

\* Nor do they let a replaced round go undecided.
THEOREM MqttDecidesReplaced == MqttSpec => []SupersededAreHandedOver
<1>1. MqttInv => SupersededAreHandedOver
  BY DEF MqttInv, HandoverInv
<1>2. QED
  BY <1>1, MqttInvariant, PTL

\* A publish that went nowhere is not repeated: one jump per round (mqtt.py:196-212).
THEOREM MqttJumpsOnce == MqttSpec => []OneCommandPerRound
<1>1. MqttInv => OneCommandPerRound
  BY DEF MqttInv, HandoverInv, CommandsInv
<1>2. QED
  BY <1>1, MqttInvariant, PTL

\* And it is for the winner the round's row records, one the cooldown allows.
THEOREM MqttJumpsMatchHistory ==
  MqttSpec => [](CommandsFollowRecord /\ WinnerRespectsCooldown)
<1>1. MqttInv => CommandsFollowRecord /\ WinnerRespectsCooldown
  BY DEF MqttInv, HandoverInv, RestedInv, WinnersRested, Rested, WinnerRespectsCooldown
<1>2. QED
  BY <1>1, MqttInvariant, PTL

\* With MQTT too the database sees nothing but the store's methods.
THEOREM MqttUsesStore == MqttSpec => StoreSpec
<1>1. MqttInit => StoreInit
  BY DEF MqttInit, ServiceInit, FollowerInit
<1>2. MqttInv /\ [MqttNext]_mqttVars => [StoreNext]_storeVars
  <2> SUFFICES ASSUME MqttInv, [MqttNext]_mqttVars PROVE [StoreNext]_storeVars
    OBVIOUS
  <2>1. CASE [ServiceNext]_serviceVars
    BY <2>1, ServiceUsesStoreStep DEF MqttInv, HandoverInv, ServiceInv
  <2>2. CASE SeeIdle
    BY <2>2 DEF SeeIdle, StoreNext
  <2>3. CASE SeePlaying \/ Launching \/ BrokerDown
    BY <2>3 DEF SeePlaying, Launching, LaunchLate, LaunchOnTime, LaunchWinner, BrokerDown
  <2>4. QED
    BY <2>1, <2>2, <2>3, StepsOfService
<1>3. QED
  BY <1>1, <1>2, MqttInvariant, PTL DEF MqttSpec, StoreSpec

\* So voters are kept the promises of Ballot.
THEOREM MqttImplementsBallot == MqttSpec => ImplementsBallot
<1>1. QED
  BY MqttUsesStore, StoreImplementsBallot

----------------------------------------------------------------------------
(* The bookkeeping, ballots and rounds *)

\* The jump leaves the follower's books as an HTTP call does.
LEMMA LaunchShape ==
  ASSUME FollowerTypes, LaunchLate \/ LaunchOnTime
  PROVE  /\ UNCHANGED <<fs, superseded, storeVars>>
         /\ \/ /\ tick.pc = "play" /\ tick'.pc = "idle"
               /\ commands' \in {commands, Append(commands, fs.round)}
            \/ /\ tick.pc = "latePlay" /\ tick'.pc = "ontime"
               /\ commands' \in {commands, Append(commands, tick.prev)}
<1>1. CASE LaunchOnTime
  BY <1>1 DEF LaunchOnTime, LaunchWinner, IdleTick
<1>2. CASE LaunchLate
  <2>1. tick'.pc = "ontime"
    BY <1>2 DEF LaunchLate, Goto, FollowerTypes
  <2>2. QED
    BY <1>2, <2>1 DEF LaunchLate, LaunchWinner
<1>3. QED
  BY <1>1, <1>2

LEMMA MqttBookkeepingStep ==
  ASSUME MqttInv, LedgerInv, [MqttNext]_mqttVars
  PROVE  [Bookkeeping!Next]_(Bookkeeping!vars) /\ LedgerInv'
<1>1. /\ HandoverInv /\ FollowerTypes
      /\ fs \in [round : Nat, voteable : SUBSET Song, handed : SUBSET Nat]
      /\ tick.prev \in Nat
  BY TypesSplit DEF MqttInv, HandoverInv, ServiceInv, FollowerTypes
<1>2. CASE [ServiceNext]_serviceVars
  BY <1>1, <1>2, BookkeepingStep
<1>3. CASE SeePlaying
  <2>1. tick.pc = "idle" /\ tick'.pc = "fetch" /\ UNCHANGED <<fs, superseded, commands, rounds>>
    BY <1>3 DEF SeePlaying, IdleTick, storeVars
  <2>2. QED
    BY <1>1, <2>1, EarlySteps
<1>4. CASE SeeIdle
  BY <1>1, <1>4, IdleStutters DEF SeeIdle
<1>5. CASE Launching
  BY <1>1, <1>5, LaunchShape, JumpAsks DEF Launching, storeVars
<1>6. CASE BrokerDown
  BY <1>6, OthersStutter DEF BrokerDown, storeVars
<1>7. QED
  BY <1>2, <1>3, <1>4, <1>5, <1>6, StepsOfService

\* Whatever the messages made a pass believe, and however the jump was sent, the
\* follower keeps the promises of Handover (mqtt.py:90-212, follower.py:226-291).
THEOREM MqttImplementsHandover == MqttSpec => ImplementsHandover
<1>1. MqttInit => Bookkeeping!Init /\ LedgerInv
  BY BookkeepingInit DEF MqttInit
<1>2. MqttInv /\ LedgerInv /\ [MqttNext]_mqttVars
        => [Bookkeeping!Next]_(Bookkeeping!vars) /\ LedgerInv'
  BY MqttBookkeepingStep
<1>3. QED
  BY <1>1, <1>2, MqttInvariant, PTL DEF MqttSpec, ImplementsHandover, Bookkeeping!Spec

\* No message, late or lost, takes a ballot from a voter (server.py:325-388).
THEOREM MqttKeepsBallots == MqttSpec => BallotsRemovedOnlyByOwner
<1>1. ASSUME MqttInv, [MqttNext]_mqttVars
      PROVE  [\A b \in votes \ votes' : OwnRequestCommits(b)]_serviceVars
  <2>1. FollowerTypes /\ ServiceInv
    BY <1>1, TypesSplit DEF MqttInv, HandoverInv, ServiceInv
  <2>2. CASE [ServiceNext]_serviceVars
    BY <2>1, <2>2, BallotRemovedStep
  <2>3. CASE SeePlaying \/ SeeIdle \/ BrokerDown
    BY <2>3 DEF SeePlaying, SeeIdle, CloseOpenRound, BrokerDown, storeVars
  <2>4. CASE Launching
    BY <2>1, <2>4, LaunchShape DEF Launching, storeVars
  <2>5. QED
    BY <1>1, <2>2, <2>3, <2>4, StepsOfService
<1>2. QED
  BY <1>1, MqttInvariant, PTL DEF MqttSpec, BallotsRemovedOnlyByOwner, OwnRequestCommits

\* What ends a round when FPP is watched through MQTT: the adapter's word for it
\* that FPP is idle, or a pass that took another song from it.
BelievedOver(r) ==
  \/ tick.pc = "idle" /\ Seen.state = "idle"
  \/ tick.pc = "ensure" /\ tick.song # rounds[r].song

\* A view that is stale ends no round: what is believed then is HTTP's answer,
\* and no answer is 'unknown' (mqtt.py:160-194, follower.py:185-200).
THEOREM MqttRoundsEndWhenBelieved ==
  MqttSpec =>
    [][\A r \in DOMAIN rounds :
         rounds[r].open /\ ~rounds'[r].open =>
           BelievedOver(r) /\ (~Fresh /\ ~link => tick.pc # "idle")]_mqttVars
<1>1. ASSUME MqttInv, MqttNext, NEW r \in DOMAIN rounds,
             rounds[r].open, ~rounds'[r].open
      PROVE  BelievedOver(r) /\ (~Fresh /\ ~link => tick.pc # "idle")
  <2>1. FollowerTypes /\ ServiceInv /\ rounds' # rounds
    BY <1>1, TypesSplit DEF MqttInv, HandoverInv, ServiceInv
  <2>2. CASE SeeIdle
    <3>1. Seen.state = "idle" /\ tick.pc = "idle"
      BY <2>2 DEF SeeIdle
    <3>2. Fresh \/ link
      BY <3>1 DEF Seen, Silent
    <3>3. QED
      BY <3>1, <3>2 DEF BelievedOver
  <2>3. CASE TickEnsure /\ ServiceNext
    BY <1>1, <2>1, <2>3, RoundsEndStep DEF TickEnsure, TickIdle, BelievedOver
  <2>4. CASE MqttTick
    <3>1. CASE SeePlaying \/ SeeNothing
      BY <2>1, <3>1 DEF SeePlaying, SeeNothing, storeVars
    <3>2. CASE LaunchLate \/ LaunchOnTime
      BY <2>1, <3>2, LaunchShape DEF storeVars
    <3>3. CASE TickFetch \/ TickCatalogue \/ TickFollow \/ TickLeave \/ TickLate \/ TickOnTime
      BY <2>1, <3>3
      DEF TickFetch, TickCatalogue, UpsertSong, TickFollow, TickLeave, TickLate, TickOnTime,
          Decide, storeVars
    <3>4. CASE TickRecord \/ TickLateRecord
      BY <1>1, <2>1, <3>4, RecordShape
    <3>5. CASE TickEnsure
      BY <2>3, <2>4, <3>5 DEF MqttTick, TickStep, ServiceNext
    <3>6. QED
      BY <2>2, <2>4, <3>1, <3>2, <3>3, <3>4, <3>5 DEF MqttTick
  <2>5. CASE ~MqttTick
    <3>1. CASE \/ SequenceMessage \/ NameMessage \/ StatusMessage
               \/ \E named \in BOOLEAN : DetailsMessage(named)
               \/ GoQuiet \/ BrokerDown \/ BrokerUp
      BY <2>1, <3>1
      DEF SequenceMessage, NameMessage, StatusMessage, DetailsMessage, Handle, GoQuiet,
          BrokerDown, BrokerUp, serviceVars, storeVars
    <3>2. CASE MqttRestart
      BY <2>1, <3>2 DEF MqttRestart, Restart, RestartFollower, storeVars
    <3>3. CASE \/ PlayerStep /\ UNCHANGED req
               \/ \E c \in Client, s \in Song, retract \in BOOLEAN : Tap(c, s, retract)
               \/ \E c \in Client : RequestStep(c)
      <4>1. CASE PlayerStep
        BY <2>1, <4>1
        DEF PlayerStep, PlayEntry, PlayAlone, Stop, EnterWindow, EditPlaylist, LinkDown,
            LinkUp, storeVars
      <4>2. ASSUME NEW c \in Client, NEW s \in Song, NEW retract \in BOOLEAN,
                   Tap(c, s, retract)
            PROVE  FALSE
        BY <2>1, <4>2 DEF Tap, storeVars
      <4>3. ASSUME NEW c \in Client, RequestStep(c)
            PROVE  FALSE
        BY <2>1, <4>3
        DEF RequestStep, CheckEnabled, ReadValid, CommitCast, CastVote, CommitRefused,
            CommitRetract, RetractVote, storeVars
      <4>4. QED
        BY <3>3, <4>1, <4>2, <4>3
    <3>4. QED
      BY <1>1, <2>5, <3>1, <3>2, <3>3 DEF MqttNext
  <2>6. QED
    BY <2>4, <2>5
<1>2. ASSUME MqttInv, [MqttNext]_mqttVars
      PROVE  [\A r \in DOMAIN rounds :
                rounds[r].open /\ ~rounds'[r].open =>
                  BelievedOver(r) /\ (~Fresh /\ ~link => tick.pc # "idle")]_mqttVars
  BY <1>1, <1>2
<1>3. QED
  BY <1>2, MqttInvariant, PTL DEF MqttSpec
===============================================================================
