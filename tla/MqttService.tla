----------------------------- MODULE MqttService -----------------------------
(***************************************************************************)
(* The voting service with MQTT configured (src/fppvote/fpp/mqtt.py): the  *)
(* status a tick starts from is assembled from messages that arrive one    *)
(* topic at a time, HTTP is the fallback, and a jump is published before   *)
(* it is posted.                                                           *)
(*                                                                         *)
(* Only what a pass of the tick sees and the jump differ from Service;     *)
(* every other step is Service's own. The admin's changes and exceptions   *)
(* inside a pass are left to Service.                                      *)
(*                                                                         *)
(* External, modelled from how mqtt.py and its fixtures use it: FPP        *)
(* publishes each topic on its own, with the value it has at that moment,  *)
(* playlist_details from time to time; a message may be lost or a topic    *)
(* may stay silent as long as it likes. A message held up in the broker    *)
(* across a later change of the player is not modelled.                    *)
(***************************************************************************)
EXTENDS Service

CONSTANT Messages   \* BOUND: how many messages reach the adapter

ASSUME MqttAssumption == Messages \in Nat

VARIABLES
  view,      \* the adapter's fields: [song, listed, word, window, alive]
  broker,    \* is the client connected to the broker?
  actual,    \* history: what FPP was doing when the tick took its status
  heard      \* messages so far

mqttVars == <<serviceVars, view, broker, actual, heard>>

NoView == [song |-> NoSong, listed |-> FALSE, word |-> "none",
           window |-> FALSE, alive |-> FALSE]

----------------------------------------------------------------------------
(* Messages *)

\* Any message under the topic root makes the view young again.
Handle(new) ==
  /\ broker
  /\ heard < Messages
  /\ heard' = heard + 1
  /\ view' = [new EXCEPT !.alive = TRUE]
  /\ UNCHANGED <<serviceVars, broker, actual>>

SequenceMessage == Handle([view EXCEPT !.song = player.song])

NameMessage == Handle([view EXCEPT !.listed = player.listed])

\* Mutant: whatever status word FPP uses is taken over.
StatusMessageRaw == Handle([view EXCEPT !.word = IF player.state = "idle"
                                                   THEN "stopped" ELSE player.state])

StatusMessage == Handle([view EXCEPT !.word = player.state])

\* playlist_details: the remaining time, the playlist and the sequence if it
\* names them, and "playing" if no status word was ever seen.
DetailsMessage(named) ==
  LET song == IF named /\ player.song # NoSong THEN player.song ELSE view.song
  IN  Handle([view EXCEPT
                !.window = player.window,
                !.listed = @ \/ player.listed,
                !.song   = song,
                !.word   = IF @ = "none" /\ song # NoSong THEN "playing" ELSE @])

\* stale_after seconds without a message.
GoQuiet ==
  /\ view.alive
  /\ view' = [view EXCEPT !.alive = FALSE]
  /\ UNCHANGED <<serviceVars, broker, actual, heard>>

BrokerDown ==
  /\ Spend("faults")
  /\ broker
  /\ broker' = FALSE
  /\ UNCHANGED <<storeVars, envVars, followerVars, req, view, actual, heard>>

BrokerUp ==
  /\ ~broker
  /\ broker' = TRUE
  /\ UNCHANGED <<serviceVars, view, actual, heard>>

----------------------------------------------------------------------------
(* What a tick sees *)

\* Mutant: the age of the last message is not asked.
FreshForever == view.song # NoSong

\* fresh: a sequence is known and a message came within stale_after.
Fresh == view.alive /\ view.song # NoSong

\* get_status: the MQTT view while fresh, else HTTP, else 'unknown'.
Seen ==
  IF Fresh
    THEN [state |-> IF view.word = "none" THEN "playing" ELSE view.word,
          song |-> view.song, listed |-> view.listed, window |-> view.window]
    ELSE IF link THEN player ELSE Silent("unknown")

SeePlaying ==
  /\ tick.pc = "idle" /\ configured
  /\ Seen.state = "playing"
  /\ tick' = [IdleTick EXCEPT !.pc = "fetch", !.song = Seen.song,
                 !.listed = Seen.listed, !.window = Seen.window]
  /\ actual' = player
  /\ UNCHANGED <<envVars, fs, cache, superseded, commands, storeVars, left>>

SeeIdle ==
  /\ tick.pc = "idle" /\ configured
  /\ Seen.state = "idle"
  /\ CloseOpenRound
  /\ Goto("leave")
  /\ UNCHANGED <<envVars, fs, cache, superseded, commands, left, actual>>

SeeNothing ==
  /\ tick.pc = "idle"
  /\ ~configured \/ Seen.state \in {"unknown", "stopping"}
  /\ UNCHANGED <<envVars, followerVars, storeVars, left, actual>>

----------------------------------------------------------------------------
(* The jump *)

\* Mutant: a publish that fails is the end of it.
LaunchOverMqttOnly(i) ==
  \/ /\ broker
     /\ player' = IF i \in DOMAIN playlist THEN Playing(playlist[i], TRUE) ELSE player
     /\ UNCHANGED left
  \/ ~broker /\ UNCHANGED <<player, left>>

\* start_at_item: published if the client is connected, whether FPP gets it or
\* not; else posted over HTTP.
Launch(i) ==
  \/ /\ broker
     /\ \/ /\ player' = IF i \in DOMAIN playlist THEN Playing(playlist[i], TRUE)
                                                 ELSE player
           /\ UNCHANGED left
        \/ Spend("faults") /\ UNCHANGED player
  \/ ~broker /\ (Obey(i) \/ Lost)

\* _play, with Launch for the call.
LaunchWinner(r) ==
  \E read \in EntriesRead :
    /\ cache' = read.cache
    /\ \/ /\ tick.pick \notin Range(read.entries)
          /\ UNCHANGED <<player, commands, left>>
       \/ \E i \in Indexes(read.entries, tick.pick) :
            /\ Launch(i)
            /\ commands' = Append(commands, r)
    /\ UNCHANGED <<playlist, link, configured, fs, superseded, storeVars>>

LaunchLate ==
  /\ tick.pc = "latePlay"
  /\ LaunchWinner(tick.prev)
  /\ Goto("ontime")
  /\ UNCHANGED actual

LaunchOnTime ==
  /\ tick.pc = "play"
  /\ LaunchWinner(fs.round)
  /\ tick' = IdleTick
  /\ UNCHANGED actual

----------------------------------------------------------------------------
MqttTick ==
  /\ \/ SeePlaying \/ SeeIdle \/ SeeNothing
     \/ LaunchLate \/ LaunchOnTime
     \/ /\ \/ TickFetch \/ TickCatalogue \/ TickEnsure \/ TickFollow \/ TickLeave
           \/ TickLate \/ TickLateRecord \/ TickOnTime \/ TickRecord
        /\ UNCHANGED actual
  /\ UNCHANGED <<req, view, broker, heard>>

MqttRestart ==
  /\ Restart
  /\ view' = NoView
  /\ UNCHANGED <<broker, actual, heard>>

MqttInit ==
  /\ ServiceInit
  /\ view = NoView
  /\ broker = TRUE
  /\ actual = player
  /\ heard = 0

MqttNext ==
  \/ SequenceMessage \/ NameMessage \/ StatusMessage
  \/ \E named \in BOOLEAN : DetailsMessage(named)
  \/ GoQuiet \/ BrokerDown \/ BrokerUp
  \/ MqttTick
  \/ MqttRestart
  \/ /\ \/ PlayerStep /\ UNCHANGED req
        \/ \E c \in Client, s \in Song, retract \in BOOLEAN : Tap(c, s, retract)
        \/ \E c \in Client : RequestStep(c)
     /\ UNCHANGED <<view, broker, actual, heard>>

MqttSpec == MqttInit /\ [][MqttNext]_mqttVars

\* The loop goes round and requests are run; no message is ever owed.
FairMqtt ==
  /\ MqttSpec
  /\ WF_mqttVars(MqttTick)
  /\ \A c \in Client :
       WF_mqttVars(RequestStep(c) /\ UNCHANGED <<view, broker, actual, heard>>)

----------------------------------------------------------------------------
(* Properties *)

MqttTypeOK ==
  /\ view \in [song : Song \cup {NoSong}, listed : BOOLEAN,
               word : {"none", "playing", "stopping", "idle"},
               window : BOOLEAN, alive : BOOLEAN]
  /\ broker \in BOOLEAN
  /\ heard \in 0..Messages

\* A broker that falls silent does no harm: with FPP on one song and HTTP
\* answering, the loop settles on that song's round, whatever the last messages
\* said (mqtt.py:8-11, 18-21).
SilentBrokerIsHarmless ==
  \A s \in Song :
    <>[](~view.alive /\ player.state = "playing" /\ player.song = s
           /\ link /\ configured)
      => <>[](fs.round # 0 /\ rounds[fs.round].song = s)

\* A winner the loop decided on comes on although the broker is gone, as long as
\* HTTP works: publishing falls back (mqtt.py:14-16, 196-212).
DeadBrokerStillPlays ==
  \A w \in Song :
    (/\ tick.pc \in {"record", "play", "latePlay"} /\ tick.pick = w
     /\ tick.listed /\ w \in Range(playlist)
     /\ ~broker /\ link /\ left["faults"] = 0 /\ left["edits"] = 0)
      ~> player.song = w

\* follower.py:14-15 and 254: the winner takes over "by jumping ~2s before the
\* current song ends"; "The on-time path: jump a beat before the song ends". So
\* a pass that sees a new song come on does not also decide that song's round,
\* unless FPP was near the end of it by then.
RoundsDecidedNearTheirEnd ==
  [][tick.pc = "ontime" /\ tick.prev # 0 =>
       \A r \in fs'.handed \ fs.handed :
         actual.song = rounds[r].song => actual.window]_mqttVars
===============================================================================
