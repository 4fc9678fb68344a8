------------------------------ MODULE Follower ------------------------------
(***************************************************************************)
(* The loop that watches FPP and drives rounds: Follower.tick              *)
(* (src/fppvote/service/follower.py), step by step, over the store it      *)
(* writes (BallotStore) and the player it watches.                         *)
(*                                                                         *)
(* One tick is a chain of database and HTTP calls made by one thread while *)
(* request threads and FPP itself keep moving, so each call is a step of   *)
(* its own: tick.pc names the call that comes next. State a tick read      *)
(* earlier (the status snapshot, the winner) is kept in tick and may be    *)
(* stale when it is used. Where the loop commits a change of rounds and    *)
(* then assigns state.round_id, which request threads read without a lock, *)
(* the assignment is a step of its own as well.                            *)
(*                                                                         *)
(* External, modelled from how the adapters in src/ use it: FPP plays one  *)
(* song at a time from a playlist, moves on by itself, can be stopped,     *)
(* made to play a sequence that is in no playlist, edited or cut off.      *)
(***************************************************************************)
EXTENDS BallotStore, Functions

CONSTANTS
  Playlists,   \* the contents the FPP playlist may have: sequences of songs
  Budget       \* BOUND: how often each kind of outside event may happen

\* Song changes and stops by FPP, playlist edits, faults (an outage, a failed
\* call, an exception, a crash), taps and admin requests.
Events == {"plays", "edits", "faults", "taps", "admin"}

ASSUME FollowerAssumption ==
  /\ Playlists \subseteq Seq(Song)
  /\ Budget \in [Events -> Nat]

VARIABLES
  player,      \* FPP: [state, song, listed, window]
  playlist,    \* FPP: what the playlist holds now
  link,        \* can the service reach FPP?
  configured,  \* is any show active in the database?
  fs,          \* FollowerState: [round, voteable, handed]; round 0 is None
  cache,       \* _playlist_cache: {} or {entries}
  tick,        \* the pass in progress: [pc, song, listed, window, prev, pick]
  superseded,  \* history: rounds this process saw replaced by another song
  commands,    \* history: rounds start_at_item was called for, in order
  left         \* what remains of Budget

envVars      == <<player, playlist, link, configured>>
followerVars == <<fs, cache, tick, superseded, commands>>

IdleTick == [pc |-> "idle", song |-> NoSong, listed |-> FALSE,
             window |-> FALSE, prev |-> 0, pick |-> NoSong]

FreshState == [round |-> 0, voteable |-> {}, handed |-> {}]

Spend(event) ==
  /\ left[event] > 0
  /\ left' = [left EXCEPT ![event] = @ - 1]

----------------------------------------------------------------------------
(* The player *)

Playing(s, listed) ==
  [state |-> "playing", song |-> s, listed |-> listed, window |-> FALSE]

Silent(state) ==
  [state |-> state, song |-> NoSong, listed |-> FALSE, window |-> FALSE]

\* FPP starts an entry of its playlist: the next one, or the one a human chose.
PlayEntry(s) ==
  /\ Spend("plays")
  /\ s \in Range(playlist)
  /\ player' = Playing(s, TRUE)
  /\ UNCHANGED <<playlist, link, configured, followerVars, storeVars>>

\* FPP plays a sequence by itself, with no playlist name to report.
PlayAlone(s) ==
  /\ Spend("plays")
  /\ player' = Playing(s, FALSE)
  /\ UNCHANGED <<playlist, link, configured, followerVars, storeVars>>

\* The show stops, gracefully ("stopping") or at once.
Stop(state) ==
  /\ Spend("plays")
  /\ player.state # state
  /\ player' = Silent(state)
  /\ UNCHANGED <<playlist, link, configured, followerVars, storeVars>>

\* The song comes within handover_lead_seconds of its end. With a lead of 0
\* this never happens.
EnterWindow ==
  /\ player.state = "playing"
  /\ player' = [player EXCEPT !.window = TRUE]
  /\ UNCHANGED <<playlist, link, configured, followerVars, storeVars, left>>

EditPlaylist(p) ==
  /\ Spend("edits")
  /\ playlist' = p
  /\ UNCHANGED <<player, link, configured, followerVars, storeVars>>

LinkDown ==
  /\ Spend("faults")
  /\ link
  /\ link' = FALSE
  /\ UNCHANGED <<player, playlist, configured, followerVars, storeVars>>

LinkUp ==
  /\ ~link
  /\ link' = TRUE
  /\ UNCHANGED <<player, playlist, configured, followerVars, storeVars, left>>

----------------------------------------------------------------------------
(* One tick *)

Goto(pc) == tick' = [tick EXCEPT !.pc = pc]

\* What current_entries may return, with the cache it leaves: the cached
\* entries while they are young or when FPP fails, else what FPP answers.
\* Without a playlist name there is nothing to read.
EntriesRead ==
  LET cached == {[entries |-> e, cache |-> cache] : e \in cache}
      fresh  == IF link THEN {[entries |-> playlist, cache |-> {playlist}]} ELSE {}
  IN  IF tick.listed /\ cached \cup fresh # {}
        THEN cached \cup fresh
        ELSE {[entries |-> <<>>, cache |-> cache]}

\* The passes that change nothing: FPP cannot be seen ('unknown'), no show is
\* configured, or FPP is neither idle nor playing a sequence.
TickSkip ==
  /\ tick.pc = "idle"
  /\ ~link \/ ~configured \/ player.state = "stopping"
  /\ UNCHANGED <<envVars, followerVars, storeVars, left>>

\* Mutant: an FPP that cannot be seen is taken for one that stopped.
TickIdleOrUnseen ==
  /\ tick.pc = "idle"
  /\ configured
  /\ ~link \/ player.state = "idle"
  /\ CloseOpenRound
  /\ Goto("leave")
  /\ UNCHANGED <<envVars, fs, cache, superseded, commands, left>>

\* Mutant: only a round this process follows is closed.
TickIdleIfFollowing ==
  /\ tick.pc = "idle"
  /\ link /\ configured
  /\ player.state = "idle"
  /\ fs.round # 0
  /\ CloseOpenRound
  /\ Goto("leave")
  /\ UNCHANGED <<envVars, fs, cache, superseded, commands, left>>

\* FPP is idle: the open round ends, and is still followed for a moment.
TickIdle ==
  /\ tick.pc = "idle"
  /\ link /\ configured
  /\ player.state = "idle"
  /\ CloseOpenRound
  /\ Goto("leave")
  /\ UNCHANGED <<envVars, fs, cache, superseded, commands, left>>

\* Mutant: the round that ended stays the one that is followed.
TickLeaveKeepsRound ==
  /\ tick.pc = "leave"
  /\ tick' = IdleTick
  /\ UNCHANGED <<envVars, fs, cache, superseded, commands, storeVars, left>>

\* No round is followed any more.
TickLeave ==
  /\ tick.pc = "leave"
  /\ fs' = [fs EXCEPT !.round = 0]
  /\ tick' = IdleTick
  /\ UNCHANGED <<envVars, cache, superseded, commands, storeVars, left>>

\* Mutant: once a round is followed the song is not looked at again.
TickPlayingFirst ==
  /\ tick.pc = "idle"
  /\ link /\ configured
  /\ player.state = "playing" /\ fs.round = 0
  /\ tick' = [IdleTick EXCEPT !.pc = "fetch", !.song = player.song,
                 !.listed = player.listed, !.window = player.window]
  /\ UNCHANGED <<envVars, fs, cache, superseded, commands, storeVars, left>>

\* FPP is playing: the pass goes on with this snapshot of its status.
TickPlaying ==
  /\ tick.pc = "idle"
  /\ link /\ configured
  /\ player.state = "playing"
  /\ tick' = [IdleTick EXCEPT !.pc = "fetch", !.song = player.song,
                 !.listed = player.listed, !.window = player.window]
  /\ UNCHANGED <<envVars, fs, cache, superseded, commands, storeVars, left>>

\* What may be voted for: the playlist's songs the catalogue lets through.
TickFetch ==
  /\ tick.pc = "fetch"
  /\ \E read \in EntriesRead :
       /\ cache' = read.cache
       /\ fs' = [fs EXCEPT !.voteable = VoteableCatalog(Range(read.entries))]
  /\ Goto("catalogue")
  /\ UNCHANGED <<envVars, superseded, commands, storeVars, left>>

\* _ensure_song_catalogued: the playing song gets its row if it has none.
TickCatalogue ==
  /\ tick.pc = "catalogue"
  /\ UpsertSong(tick.song)
  /\ Goto("ensure")
  /\ UNCHANGED <<envVars, fs, cache, superseded, commands, left>>

\* The round of the playing song is found or opened.
TickEnsure ==
  /\ tick.pc = "ensure"
  /\ EnsureRound(tick.song)
  /\ Goto("follow")
  /\ UNCHANGED <<envVars, fs, cache, superseded, commands, left>>

\* Mutant: the round that was followed is forgotten when the song changes.
TickFollowForgetful ==
  /\ tick.pc = "follow"
  /\ \E r \in DOMAIN rounds :
       /\ IsCurrent(r)
       /\ fs' = [fs EXCEPT !.round = r]
       /\ superseded' = IF fs.round \in {0, r} THEN superseded
                                               ELSE superseded \cup {fs.round}
  /\ Goto("ontime")
  /\ UNCHANGED <<envVars, cache, commands, storeVars, left>>

\* It is followed from here. If another one was followed so far, the late path
\* comes next. Only this thread opens and ends rounds, so the one ensure_round
\* returned is the current one still.
TickFollow ==
  /\ tick.pc = "follow"
  /\ \E r \in DOMAIN rounds :
       /\ IsCurrent(r)
       /\ fs' = [fs EXCEPT !.round = r]
       /\ IF fs.round \in {0, r}
            THEN Goto("ontime") /\ UNCHANGED superseded
            ELSE /\ tick' = [tick EXCEPT !.pc = "late", !.prev = fs.round]
                 /\ superseded' = superseded \cup {fs.round}
  /\ UNCHANGED <<envVars, cache, commands, storeVars, left>>

----------------------------------------------------------------------------
(* Handover *)

\* Mark round r as handed over and read its winner; without one there is
\* nothing more to do for it.
Decide(r, record, skip) ==
  /\ fs' = [fs EXCEPT !.handed = @ \cup {r}]
  /\ \/ Winners(r) = {} /\ skip
     \/ \E w \in Winners(r) : tick' = [tick EXCEPT !.pc = record, !.pick = w]
  /\ UNCHANGED <<envVars, cache, superseded, commands, storeVars, left>>

Indexes(entries, s) ==
  {i \in DOMAIN entries :
     entries[i] = s /\ \A j \in DOMAIN entries : entries[j] = s => j <= i}

\* Mutant: the index is taken to count from 0.
ObeyFromZero(i) ==
  /\ link
  /\ player' = IF i + 1 \in DOMAIN playlist THEN Playing(playlist[i + 1], TRUE)
                                            ELSE player
  /\ UNCHANGED left

\* FPP obeys start_at_item, when the call reaches it and the entry exists.
Obey(i) ==
  /\ link
  /\ player' = IF i \in DOMAIN playlist THEN Playing(playlist[i], TRUE) ELSE player
  /\ UNCHANGED left

\* The call raises FppError, which is logged: the result is lost, the show is not.
Lost ==
  /\ \/ ~link /\ UNCHANGED left
     \/ link /\ Spend("faults")
  /\ UNCHANGED player

\* _play: look the winner up in the playlist as last read and start it there.
\* No playlist name or no such entry: leave the show alone.
Play(r) ==
  /\ \E read \in EntriesRead :
       /\ cache' = read.cache
       /\ \/ /\ tick.pick \notin Range(read.entries)
             /\ UNCHANGED <<player, commands, left>>
          \/ \E i \in Indexes(read.entries, tick.pick) :
               /\ Obey(i) \/ Lost
               /\ commands' = Append(commands, r)
  /\ UNCHANGED <<playlist, link, configured, fs, superseded, storeVars>>

\* _late_handover: the song changed before the jump.
TickLate ==
  /\ tick.pc = "late"
  /\ \/ /\ tick.prev \in fs.handed
        /\ Goto("ontime")
        /\ UNCHANGED <<envVars, fs, cache, superseded, commands, storeVars, left>>
     \/ /\ tick.prev \notin fs.handed
        /\ Decide(tick.prev, "lateRecord", Goto("ontime"))

\* Mutant: the winner is written to the round that just opened.
TickLateRecordWrongRound ==
  /\ tick.pc = "lateRecord"
  /\ SetWinner(fs.round, tick.pick)
  /\ Goto(IF tick.pick = tick.song THEN "ontime" ELSE "latePlay")
  /\ UNCHANGED <<envVars, fs, cache, superseded, commands, left>>

\* set_winner; then play it, unless FPP picked it by itself.
TickLateRecord ==
  /\ tick.pc = "lateRecord"
  /\ SetWinner(tick.prev, tick.pick)
  /\ Goto(IF tick.pick = tick.song THEN "ontime" ELSE "latePlay")
  /\ UNCHANGED <<envVars, fs, cache, superseded, commands, left>>

TickLatePlay ==
  /\ tick.pc = "latePlay"
  /\ Play(tick.prev)
  /\ Goto("ontime")

\* Mutant: what was handed over before is not asked.
TickOnTimeAgain ==
  /\ tick.pc = "ontime"
  /\ \/ /\ ~tick.window
        /\ tick' = IdleTick
        /\ UNCHANGED <<envVars, fs, cache, superseded, commands, storeVars, left>>
     \/ /\ tick.window
        /\ Decide(fs.round, "record", tick' = IdleTick)

\* _maybe_hand_over: jump a beat before the song ends, once per round.
TickOnTime ==
  /\ tick.pc = "ontime"
  /\ \/ /\ fs.round \in fs.handed \/ ~tick.window
        /\ tick' = IdleTick
        /\ UNCHANGED <<envVars, fs, cache, superseded, commands, storeVars, left>>
     \/ /\ fs.round \notin fs.handed /\ tick.window
        /\ Decide(fs.round, "record", tick' = IdleTick)

\* Mutant: the winner is recorded and never asked for.
TickRecordOnly ==
  /\ tick.pc = "record"
  /\ SetWinner(fs.round, tick.pick)
  /\ tick' = IdleTick
  /\ UNCHANGED <<envVars, fs, cache, superseded, commands, left>>

TickRecord ==
  /\ tick.pc = "record"
  /\ SetWinner(fs.round, tick.pick)
  /\ Goto("play")
  /\ UNCHANGED <<envVars, fs, cache, superseded, commands, left>>

TickPlay ==
  /\ tick.pc = "play"
  /\ Play(fs.round)
  /\ tick' = IdleTick

----------------------------------------------------------------------------
(* What can interrupt a tick *)

\* Any call may raise (a locked database, say): tick() swallows the exception
\* and what was assigned so far stays assigned. The assignments of round_id that
\* follow a commit make no call, so nothing can raise there.
TickFails ==
  /\ Spend("faults")
  /\ tick.pc \notin {"idle", "follow", "leave"}
  /\ tick' = IdleTick
  /\ superseded' = IF tick.pc = "late" THEN superseded \ {tick.prev} ELSE superseded
  /\ UNCHANGED <<envVars, fs, cache, commands, storeVars>>

\* The song's row was deleted since the tick made sure of it: the foreign key
\* refuses the write, which raises.
TickForeignKey ==
  /\ tick.pc \in {"ensure", "record", "lateRecord"}
  /\ (IF tick.pc = "ensure" THEN tick.song ELSE tick.pick) \notin songs
  /\ tick' = IdleTick
  /\ UNCHANGED <<envVars, fs, cache, superseded, commands, storeVars, left>>

\* The process dies and comes back: only the database survives.
RestartFollower ==
  /\ fs' = FreshState
  /\ cache' = {}
  /\ tick' = IdleTick
  /\ superseded' = {}
  /\ commands' = <<>>
  /\ UNCHANGED <<envVars, storeVars>>

TickStep ==
  \/ TickSkip \/ TickIdle \/ TickLeave \/ TickPlaying
  \/ TickFetch \/ TickCatalogue \/ TickEnsure \/ TickFollow
  \/ TickLate \/ TickLateRecord \/ TickLatePlay
  \/ TickOnTime \/ TickRecord \/ TickPlay
  \/ TickForeignKey

PlayerStep ==
  \/ \E s \in Song : PlayEntry(s) \/ PlayAlone(s)
  \/ \E state \in {"stopping", "idle"} : Stop(state)
  \/ EnterWindow
  \/ \E p \in Playlists : EditPlaylist(p)
  \/ LinkDown \/ LinkUp

FollowerInit ==
  /\ StoreInit
  /\ player = Silent("idle")
  /\ playlist \in Playlists
  /\ link = TRUE
  /\ configured = TRUE
  /\ fs = FreshState
  /\ cache = {}
  /\ tick = IdleTick
  /\ superseded = {}
  /\ commands = <<>>
  /\ left = Budget
===============================================================================
