------------------------------- MODULE Service -------------------------------
(***************************************************************************)
(* The whole voting service (src/fppvote/service/server.py): the follower  *)
(* loop, the request threads that run POST /api/vote, the admin endpoints  *)
(* that bear on voting, and process restarts, all over one database.       *)
(*                                                                         *)
(* A vote request reads follower.state.round_id, then the voting switch,   *)
(* then follower.state.voteable_keys, and only then enters the store. The  *)
(* four are separate steps, because the follower and the admin move in     *)
(* between. Two clients may hold the same token: two tabs of one voter.    *)
(***************************************************************************)
EXTENDS Follower

CONSTANTS
  Client,    \* connections that send POST /api/vote, one request at a time
  Holder     \* Client -> Voter: whose token each of them carries

ASSUME ServiceAssumption == Holder \in [Client -> Voter]

VARIABLE req   \* the request each client has in flight: [pc, song, retract, round, valid]

serviceVars == <<storeVars, envVars, followerVars, left, req>>

NoRequest == [pc |-> "idle", song |-> NoSong, retract |-> FALSE,
              round |-> 0, valid |-> {}]

Proceed(c, pc)  == req' = [req EXCEPT ![c].pc = pc]
Answered(c)     == req' = [req EXCEPT ![c] = NoRequest]

----------------------------------------------------------------------------
(* POST /api/vote *)

\* A tap reaches post_vote, which reads the round before anything else.
Tap(c, s, retract) ==
  /\ Spend("taps")
  /\ req[c].pc = "idle"
  /\ req' = [req EXCEPT ![c] = [NoRequest EXCEPT !.pc = "check", !.song = s,
                                  !.retract = retract, !.round = fs.round]]
  /\ UNCHANGED <<storeVars, envVars, followerVars>>

\* voting_stopped, no_round, or on to the store.
CheckEnabled(c) ==
  /\ req[c].pc = "check"
  /\ IF ~enabled \/ req[c].round = 0
       THEN Answered(c)
       ELSE Proceed(c, IF req[c].retract THEN "commit" ELSE "valid")
  /\ UNCHANGED <<storeVars, envVars, followerVars, left>>

ReadValid(c) ==
  /\ req[c].pc = "valid"
  /\ req' = [req EXCEPT ![c].pc = "commit", ![c].valid = fs.voteable]
  /\ UNCHANGED <<storeVars, envVars, followerVars, left>>

\* cast_vote records the ballot.
CommitCast(c) ==
  /\ req[c].pc = "commit" /\ ~req[c].retract
  /\ CastVote(req[c].round, Holder[c], req[c].song, req[c].valid)
  /\ Answered(c)
  /\ UNCHANGED <<envVars, followerVars, left>>

\* cast_vote refuses: closed round, unknown song, locked, duplicate, ...
CommitRefused(c) ==
  /\ req[c].pc = "commit" /\ ~req[c].retract
  /\ CastOutcome(req[c].round, Holder[c], req[c].song, req[c].valid)
       \notin {"accepted", "moved"}
  /\ Answered(c)
  /\ UNCHANGED <<storeVars, envVars, followerVars, left>>

CommitRetract(c) ==
  /\ req[c].pc = "commit" /\ req[c].retract
  /\ RetractVote(req[c].round, Holder[c], req[c].song)
  /\ Answered(c)
  /\ UNCHANGED <<envVars, followerVars, left>>

RequestStep(c) ==
  \/ CheckEnabled(c) \/ ReadValid(c)
  \/ CommitCast(c) \/ CommitRefused(c) \/ CommitRetract(c)

----------------------------------------------------------------------------
(* The admin endpoints *)

\* PATCH shows: the one active show is switched off, or on again.
UpdateShow ==
  /\ Spend("admin")
  /\ configured' = ~configured
  /\ UNCHANGED <<player, playlist, link, storeVars>>

\* PUT songs: of what it sets, voting sees the excluded flag.
UpdateSong(s, out) ==
  /\ Spend("admin")
  /\ SetExcluded(s, out)
  /\ UNCHANGED envVars

\* DELETE songs. It costs nothing: excluding the song did.
RemoveSong(s) ==
  /\ DeleteSong(s)
  /\ UNCHANGED <<envVars, left>>

\* POST reconcile: a song of the playlist gets its row.
Reconcile(s) ==
  /\ Spend("admin")
  /\ UpsertSong(s)
  /\ UNCHANGED envVars

\* PUT voting
SetVoting(on) ==
  /\ Spend("admin")
  /\ SetVotingEnabled(on)
  /\ UNCHANGED envVars

\* PUT voting-rules. With both settings in one body it is two of these, as the
\* code writes one after the other.
SetRules ==
  /\ Spend("admin")
  /\ \/ \E n \in 0..(VotesPerRoundLimit + 1) : SetVotesPerRound(n)
     \/ \E n \in CooldownChoices : SetCooldownSongs(n)
  /\ UNCHANGED envVars

AdminStep ==
  /\ \/ UpdateShow
     \/ \E s \in Song, out \in BOOLEAN : UpdateSong(s, out)
     \/ \E s \in Song : RemoveSong(s) \/ Reconcile(s)
     \/ \E on \in BOOLEAN : SetVoting(on)
     \/ SetRules
  /\ UNCHANGED <<followerVars, req>>

\* The process dies mid-anything and systemd starts it again.
Restart ==
  /\ Spend("faults")
  /\ RestartFollower
  /\ req' = [c \in Client |-> NoRequest]

----------------------------------------------------------------------------
ServiceInit ==
  /\ FollowerInit
  /\ req = [c \in Client |-> NoRequest]

ServiceNext ==
  \/ TickStep /\ UNCHANGED req
  \/ TickFails /\ UNCHANGED req
  \/ PlayerStep /\ UNCHANGED req
  \/ \E c \in Client, s \in Song, retract \in BOOLEAN : Tap(c, s, retract)
  \/ \E c \in Client : RequestStep(c)
  \/ AdminStep
  \/ Restart

ServiceSpec == ServiceInit /\ [][ServiceNext]_serviceVars

\* The scheduling the code provides: the loop in _run goes round for ever and
\* the thread pool runs every request. FPP, people and faults owe nothing.
FairService ==
  /\ ServiceSpec
  /\ WF_serviceVars(TickStep /\ UNCHANGED req)
  /\ \A c \in Client : WF_serviceVars(RequestStep(c))

----------------------------------------------------------------------------
(* Safety *)

ServiceTypeOK ==
  /\ TypeOK
  /\ player \in [state : {"playing", "stopping", "idle"}, song : Song \cup {NoSong},
                  listed : BOOLEAN, window : BOOLEAN]
  /\ player.state = "playing" => player.song \in Song
  /\ playlist \in Playlists
  /\ link \in BOOLEAN
  /\ configured \in BOOLEAN
  /\ fs \in [round : Nat, voteable : SUBSET Song, handed : SUBSET Nat]
  /\ cache \in SUBSET Playlists
  /\ tick \in [pc : {"idle", "leave", "fetch", "catalogue", "ensure", "follow",
                     "late", "lateRecord", "latePlay", "ontime", "record", "play"},
                song : Song \cup {NoSong}, listed : BOOLEAN, window : BOOLEAN,
                prev : Nat, pick : Song \cup {NoSong}]
  /\ superseded \in SUBSET Nat
  /\ commands \in Seq(Nat)
  /\ left \in [Events -> Nat]
  /\ req \in [Client -> [pc : {"idle", "check", "valid", "commit"},
                         song : Song \cup {NoSong}, retract : BOOLEAN,
                         round : Nat, valid : SUBSET Song]]

\* The round a request thread is handed, reading state.round_id whenever it
\* likes, is the open one, or the one that this very pass has just ended: its
\* successor is open already, or there is none as FPP stopped. It is never one
\* from before that (follower.py:201-202, 226-228, server.py:350).
FollowedRoundIsOpen ==
  fs.round # 0 =>
    \/ IsCurrent(fs.round)
    \/ tick.pc = "follow" /\ fs.round = Len(rounds) - 1
    \/ tick.pc = "leave" /\ fs.round = Len(rounds)

\* Only two things end a round: FPP seen idle, or seen playing another song.
\* An FPP that cannot be reached never does (follower.py:9-11, 185-187).
RoundEndsOnlyWhenSeen ==
  [][\A r \in DOMAIN rounds :
       rounds[r].open /\ ~rounds'[r].open =>
         \/ tick.pc = "idle" /\ link /\ player.state = "idle"
         \/ tick.pc = "ensure" /\ tick.song # rounds[r].song]_serviceVars

\* A ballot disappears only while its own voter's request commits: no song
\* change, outage, restart, admin change or other voter removes it.
BallotsRemovedOnlyByOwner ==
  [][\A b \in votes \ votes' :
       \E c \in Client :
         /\ Holder[c] = b.voter
         /\ req[c].pc = "commit" /\ req[c].round = b.round
         /\ req'[c].pc = "idle"]_serviceVars

\* Once a tick is over, every round it saw replaced has had its handover
\* decision (follower.py:230-233).
SupersededAreHandedOver ==
  \A r \in superseded :
    r \in fs.handed \/ (tick.pc = "late" /\ tick.prev = r)

\* One process asks FPP to jump at most once for a round, be it on time, late
\* or after a call that failed (follower.py:264-266).
OneCommandPerRound == IsInjective(commands)

\* By the time FPP is asked to jump, the winner it is asked for is the one the
\* round's row records (follower.py:270-271, 286-291).
CommandsFollowRecord ==
  /\ tick.pc = "play"     => rounds[fs.round].winner = tick.pick
  /\ tick.pc = "latePlay" => rounds[tick.prev].winner = tick.pick

\* The winner a pass has chosen and not yet asked for.
Promise ==
  LET due(r, stage) == {[round |-> r, song |-> tick.pick, stage |-> stage]}
  IN  CASE tick.pc = "record"     -> due(fs.round, "chosen")
        [] tick.pc = "lateRecord" -> due(tick.prev, "chosen")
        [] tick.pc = "play"       -> due(fs.round, "onRecord")
        [] tick.pc = "latePlay"   -> due(tick.prev, "onRecord")
        [] OTHER                  -> {}

\* The winners the history shows.
Recorded ==
  {[round |-> r, song |-> rounds[r].winner] :
     r \in {q \in DOMAIN rounds : rounds[q].winner # NoSong}}

\* The follower's bookkeeping, as the abstract specification sees it. A round
\* is owed from the moment it is replaced until it is marked; a winner is due
\* from the decision to the jump.
Bookkeeping == INSTANCE Handover WITH
  following <- fs.round,
  owed      <- superseded \ fs.handed,
  decided   <- fs.handed,
  promise   <- Promise,
  recorded  <- Recorded,
  asked     <- commands

\* Whatever comes in between its calls, the follower keeps the promises of
\* Handover: nothing is done before the round that was replaced is decided, no
\* round is decided twice, and what FPP is asked for is on record by then
\* (follower.py:226-233, 248-250, 264-271, 283-291).
ImplementsHandover == Bookkeeping!Spec

\* The vote never brings back a song that was playing in its round or locked
\* by the cooldown, however late it is decided (store.py:872-878, 1008-1038).
WinnerRespectsCooldown ==
  \A r, i \in DOMAIN rounds :
    /\ i <= r /\ \A c \in CooldownChoices : r - i <= c
    /\ rounds[r].winner # NoSong
    => rounds[i].song # rounds[r].winner

\* A jump starts the winner it was made for. This needs a playlist that is not
\* edited; see StartsTheWinner.
JumpStartsWinner ==
  [][ /\ tick.pc \in {"play", "latePlay"} /\ tick'.pc # tick.pc
      /\ player' # player
      => player'.song = tick.pick]_serviceVars

----------------------------------------------------------------------------
(* Liveness, under FairService *)

\* If FPP stays on one song in plain sight, the loop settles on that song's round.
RoundFollowsPlayer ==
  \A s \in Song :
    <>[](player.state = "playing" /\ player.song = s /\ link /\ configured)
      => <>[](fs.round # 0 /\ rounds[fs.round].song = s)

\* If FPP stays idle in plain sight, no round stays open.
IdleEndsTheRound ==
  <>[](player.state = "idle" /\ link /\ configured)
    => <>[](\A r \in DOMAIN rounds : ~rounds[r].open)

\* Once the loop has chosen a winner that is in the playlist, that song comes
\* on, as long as FPP stays reachable and no call fails any more.
WinnerIsPlayed ==
  \A w \in Song :
    (/\ tick.pc \in {"record", "play", "latePlay"} /\ tick.pick = w
     /\ tick.listed /\ w \in Range(playlist)
     /\ link /\ left["faults"] = 0 /\ left["edits"] = 0)
      ~> player.song = w

\* Every round replaced in front of the loop gets its handover decision,
\* unless a restart or an exception wiped that duty out.
SupersededGetDecided ==
  \A r \in 1..MaxRounds :
    r \in superseded ~> (r \in fs.handed \/ r \notin superseded)

----------------------------------------------------------------------------
(* What the repository says, and the code does not do: each has a run that   *)
(* finds it violated.                                                        *)

\* follower.py:277-278: "the point is that a winner is never silently dropped".
\* A round replaced in front of a healthy follower, with ballots in it, has a
\* winner once the tick is over.
WinnerNeverDropped ==
  tick.pc = "idle" =>
    \A r \in superseded : VotedFor(r) # {} => rounds[r].winner # NoSong

\* follower.py:140-142: the index is "Looked up fresh every time it is needed".
\* So what FPP starts is the winner, wherever the playlist has it by now.
StartsTheWinner == JumpStartsWinner
===============================================================================
