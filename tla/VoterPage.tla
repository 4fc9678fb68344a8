------------------------------ MODULE VoterPage ------------------------------
(***************************************************************************)
(* A viewer's page and what feeds it: REST replies, the polling timers and *)
(* the WebSocket pushes of the loop (src/fppvote/web/static/vote.html;     *)
(* Hub, build_state, _run, get_state, post_vote and websocket in           *)
(* src/fppvote/service/server.py), over the ballots of BallotStore.        *)
(*                                                                         *)
(* What the page shows is the list and the selection of the last payload   *)
(* it applied, from whichever source, however old. A payload is built in   *)
(* two reads, the followed round and then its ballots. The follower is     *)
(* reduced to its round: Service has the rest. Tokens stand for their HMAC. *)
(*                                                                         *)
(* External: the network loses a request or a reply (the fetch rejects),   *)
(* or lets a socket go silent without closing it, until the server's ping  *)
(* gives up on it.                                                         *)
(***************************************************************************)
EXTENDS BallotStore

CONSTANTS
  Tab,        \* pages open in one browser each
  NoVoter,    \* no token: an empty TOKEN, no cookie, nobody
  OwnTokens,  \* Tab -> the tokens localStorage may hold, NoVoter in private mode
  Buffer,     \* BOUND: pushes a socket holds before send_json has to wait
  Quotas      \* BOUND: how often each kind of outside event may happen, in one run

Happenings == {"taps", "songs", "rules", "faults"}

ASSUME PageAssumption ==
  /\ NoVoter \notin Voter
  /\ OwnTokens \in [Tab -> SUBSET (Voter \cup {NoVoter})]
  /\ Buffer \in Nat \ {0}
  /\ Quotas \subseteq [Happenings -> Nat]

VARIABLES
  page,     \* per tab: [token, cookie, listed, shown, booted, voting]
  get,      \* per tab, the state fetch in flight: [pc, who, round, sel]
  post,     \* per tab, the vote in flight: [pc, who, round, sel, song, retract, seen]
  socket,   \* per tab: [who, believed, joined, silent, queue]
  loop,     \* _run: [pc, round, todo]
  shared,   \* Hub.shared: each voter's selection, {} before the first build
  issued,   \* tokens handed out so far
  quota     \* what remains of one of Quotas

pageVars == <<storeVars, page, get, post, socket, loop, shared, issued, quota>>

Use(event) ==
  /\ quota[event] > 0
  /\ quota' = [quota EXCEPT ![event] = @ - 1]

NoGet  == [pc |-> "idle", who |-> NoVoter, round |-> 0, sel |-> {}]
NoPost == [pc |-> "idle", who |-> NoVoter, round |-> 0, sel |-> {},
           song |-> NoSong, retract |-> FALSE, seen |-> {}]
Closed == [who |-> NoVoter, believed |-> FALSE, joined |-> FALSE,
           silent |-> FALSE, queue |-> <<>>]

\* personal_block's selection.
Picks(round, who) == {b.song : b \in Selection(round, who)}

\* voter_token: the header, else the cookie, else a token made up on the spot.
Identities(t) ==
  IF page[t].token # NoVoter       THEN {page[t].token}
  ELSE IF page[t].cookie # NoVoter THEN {page[t].cookie}
  ELSE Voter \ issued

----------------------------------------------------------------------------
(* GET /api/state *)

\* Mutant: the poll rests while the page believes its socket is open.
RefreshWhenDisconnected(t) ==
  /\ get[t].pc = "idle"
  /\ page[t].booted => ~socket[t].believed
  /\ \E who \in Identities(t) :
       /\ get' = [get EXCEPT ![t] = [NoGet EXCEPT !.pc = "round", !.who = who]]
       /\ issued' = issued \cup {who}
  /\ UNCHANGED <<storeVars, page, post, socket, loop, shared, quota>>

\* refresh(): at boot, every 20 s, on wake, and after a vote that failed. One at
\* a time: a second fetch under way would be one more old payload to apply, and
\* pushes already bring those at any moment.
Refresh(t) ==
  /\ get[t].pc = "idle"
  /\ \E who \in Identities(t) :
       /\ get' = [get EXCEPT ![t] = [NoGet EXCEPT !.pc = "round", !.who = who]]
       /\ issued' = issued \cup {who}
  /\ UNCHANGED <<storeVars, page, post, socket, loop, shared, quota>>

GetReadsRound(t) ==
  /\ get[t].pc = "round"
  /\ get' = [get EXCEPT ![t].pc = "votes", ![t].round = loop.round]
  /\ UNCHANGED <<storeVars, page, post, socket, loop, shared, issued, quota>>

GetReadsVotes(t) ==
  /\ get[t].pc = "votes"
  /\ get' = [get EXCEPT ![t].pc = "reply", ![t].sel = Picks(get[t].round, get[t].who)]
  /\ UNCHANGED <<storeVars, page, post, socket, loop, shared, issued, quota>>

\* applyState and adoptToken; the reply also carries the cookie.
GetReply(t) ==
  /\ get[t].pc = "reply"
  /\ page' = [page EXCEPT ![t].listed = TRUE,
                          ![t].shown = get[t].sel,
                          ![t].token = IF @ = NoVoter THEN get[t].who ELSE @,
                          ![t].cookie = get[t].who,
                          ![t].booted = TRUE]
  /\ get' = [get EXCEPT ![t] = NoGet]
  /\ UNCHANGED <<storeVars, post, socket, loop, shared, issued, quota>>

\* The fetch rejects: what was shown stays. The boot goes on all the same.
GetFails(t) ==
  /\ Use("faults")
  /\ get[t].pc # "idle"
  /\ page' = [page EXCEPT ![t].booted = TRUE]
  /\ get' = [get EXCEPT ![t] = NoGet]
  /\ UNCHANGED <<storeVars, post, socket, loop, shared, issued>>

----------------------------------------------------------------------------
(* POST /api/vote *)

\* vote(s), for a song on the list: one in flight at a time; a song shown as voted
\* is taken back. What was shown then is remembered as history: seen.
Tap(t, s) ==
  /\ Use("taps")
  /\ page[t].listed /\ ~page[t].voting
  /\ page' = [page EXCEPT ![t].voting = TRUE]
  /\ \E who \in Identities(t) :
       /\ post' = [post EXCEPT ![t] = [NoPost EXCEPT !.pc = "sent", !.who = who,
                        !.song = s, !.retract = s \in page[t].shown,
                        !.seen = page[t].shown]]
       /\ issued' = issued \cup {who}
  /\ UNCHANGED <<storeVars, get, socket, loop, shared>>

PostReadsRound(t) ==
  /\ post[t].pc = "sent"
  /\ post' = [post EXCEPT ![t].round = loop.round,
                          ![t].pc = IF loop.round = 0 THEN "noRound" ELSE "commit"]
  /\ UNCHANGED <<storeVars, page, get, socket, loop, shared, issued, quota>>

\* Mutant: a repeated tap toggles, whatever it said.
PostToggles(t) ==
  LET p == post[t]
      b == [round |-> p.round, voter |-> p.who, song |-> p.song]
  IN  /\ p.pc = "commit"
      /\ IF b \in votes
           THEN RetractVote(p.round, p.who, p.song)
           ELSE \/ CastVote(p.round, p.who, p.song, songs)
                \/ /\ CastOutcome(p.round, p.who, p.song, songs) \notin {"accepted", "moved"}
                   /\ UNCHANGED storeVars
      /\ post' = [post EXCEPT ![t].pc = "round"]
      /\ UNCHANGED <<page, get, socket, loop, shared, issued, quota>>

\* retract_vote or cast_vote, whatever cast_vote answers.
PostCommits(t) ==
  LET p == post[t]
  IN  /\ p.pc = "commit"
      /\ \/ p.retract /\ RetractVote(p.round, p.who, p.song)
         \/ ~p.retract /\ CastVote(p.round, p.who, p.song, songs)
         \/ /\ ~p.retract
            /\ CastOutcome(p.round, p.who, p.song, songs) \notin {"accepted", "moved"}
            /\ UNCHANGED storeVars
      /\ post' = [post EXCEPT ![t].pc = "round"]
      /\ UNCHANGED <<page, get, socket, loop, shared, issued, quota>>

PostRereadsRound(t) ==
  /\ post[t].pc = "round"
  /\ post' = [post EXCEPT ![t].pc = "votes", ![t].round = loop.round]
  /\ UNCHANGED <<storeVars, page, get, socket, loop, shared, issued, quota>>

PostReadsVotes(t) ==
  /\ post[t].pc = "votes"
  /\ post' = [post EXCEPT ![t].pc = "reply", ![t].sel = Picks(post[t].round, post[t].who)]
  /\ UNCHANGED <<storeVars, page, get, socket, loop, shared, issued, quota>>

\* The server's answer is applied. The no_round answer carries no state at all,
\* and is applied like any other: the list is empty and nothing shown as voted.
PostReply(t) ==
  /\ post[t].pc \in {"reply", "noRound"}
  /\ page' = [page EXCEPT ![t].listed = post[t].pc = "reply",
                          ![t].shown = post[t].sel,
                          ![t].cookie = post[t].who,
                          ![t].voting = FALSE]
  /\ post' = [post EXCEPT ![t] = NoPost]
  /\ UNCHANGED <<storeVars, get, socket, loop, shared, issued, quota>>

\* Mutant: the flag is only reset after a reply.
PostFailsHalfway(t) ==
  /\ Use("faults")
  /\ post[t].pc # "idle"
  /\ post' = [post EXCEPT ![t] = NoPost]
  /\ UNCHANGED <<storeVars, page, get, socket, loop, shared, issued>>

\* The fetch rejects, before or after the server did its part.
PostFails(t) ==
  /\ Use("faults")
  /\ post[t].pc # "idle"
  /\ post' = [post EXCEPT ![t] = NoPost]
  /\ page' = [page EXCEPT ![t].voting = FALSE]
  /\ UNCHANGED <<storeVars, get, socket, loop, shared, issued>>

----------------------------------------------------------------------------
(* The socket *)

\* connect(), after the boot fetch or a close; join sends what was last shared.
\* Nobody keeps a token the server makes up for a socket.
Connect(t) ==
  /\ page[t].booted /\ ~socket[t].believed
  /\ \E who \in Identities(t) :
       /\ socket' = [socket EXCEPT ![t] =
            [who |-> who, believed |-> TRUE, joined |-> TRUE, silent |-> FALSE,
             queue |-> IF shared = {} THEN <<>>
                       ELSE <<CHOOSE sel \in {m[who] : m \in shared} : TRUE>>]]
       /\ issued' = issued \cup {who}
  /\ UNCHANGED <<storeVars, page, get, post, loop, shared, quota>>

\* onmessage
Push(t) ==
  /\ socket[t].believed /\ ~socket[t].silent
  /\ socket[t].queue # <<>>
  /\ page' = [page EXCEPT ![t].listed = TRUE, ![t].shown = Head(socket[t].queue)]
  /\ socket' = [socket EXCEPT ![t].queue = Tail(@)]
  /\ UNCHANGED <<storeVars, get, post, loop, shared, issued, quota>>

\* The path goes dead without a close: both ends still think they are connected.
GoSilent(t) ==
  /\ Use("faults")
  /\ socket[t].joined /\ ~socket[t].silent
  /\ socket' = [socket EXCEPT ![t].silent = TRUE]
  /\ UNCHANGED <<storeVars, page, get, post, loop, shared, issued>>

\* The server's ping finds the path dead: receive_text raises, leave.
PingTimeout(t) ==
  /\ socket[t].joined /\ socket[t].silent
  /\ socket' = [socket EXCEPT ![t].joined = FALSE, ![t].queue = <<>>]
  /\ UNCHANGED <<storeVars, page, get, post, loop, shared, issued, quota>>

\* The browser notices, at last: onclose.
Close(t) ==
  /\ socket[t].believed /\ ~socket[t].joined
  /\ socket' = [socket EXCEPT ![t] = Closed]
  /\ UNCHANGED <<storeVars, page, get, post, loop, shared, issued, quota>>

----------------------------------------------------------------------------
(* The loop: tick, build, broadcast *)

\* The follower stays with its round or opens the next song's.
LoopTick ==
  /\ loop.pc = "tick"
  /\ \/ UNCHANGED <<storeVars, quota>> /\ loop' = [loop EXCEPT !.pc = "build"]
     \/ \E s \in Song :
          /\ Use("songs")
          /\ EnsureRound(s)
          /\ loop' = [loop EXCEPT !.pc = "follow"]
  /\ UNCHANGED <<page, get, post, socket, shared, issued>>

\* state.round_id becomes the round that ensure_round returned, the newest one.
LoopFollow ==
  /\ loop.pc = "follow"
  /\ loop' = [loop EXCEPT !.pc = "build", !.round = Len(rounds)]
  /\ UNCHANGED <<storeVars, page, get, post, socket, shared, issued, quota>>

\* build_state and the start of broadcast: the connections of this moment.
LoopBuild ==
  /\ loop.pc = "build"
  /\ shared' = {[v \in Voter |-> Picks(loop.round, v)]}
  /\ loop' = [loop EXCEPT !.pc = "send", !.todo = {t \in Tab : socket[t].joined}]
  /\ UNCHANGED <<storeVars, page, get, post, socket, issued, quota>>

\* Mutant: a send that waits for room is not woken when its socket goes.
LoopSendWaits ==
  /\ loop.pc = "send"
  /\ \E t \in loop.todo :
       /\ loop' = [loop EXCEPT !.todo = @ \ {t}]
       /\ socket[t].joined /\ Len(socket[t].queue) < Buffer
       /\ \E m \in shared :
            socket' = [socket EXCEPT ![t].queue = Append(@, m[socket[t].who])]
  /\ UNCHANGED <<storeVars, page, get, post, shared, issued, quota>>

\* _send: each viewer gets its own block. A full buffer makes everyone wait; a
\* socket that has gone meanwhile is an exception nobody hears of.
LoopSend ==
  /\ loop.pc = "send"
  /\ \E t \in loop.todo :
       /\ loop' = [loop EXCEPT !.todo = @ \ {t}]
       /\ \/ ~socket[t].joined /\ UNCHANGED socket
          \/ /\ socket[t].joined /\ Len(socket[t].queue) < Buffer
             /\ \E m \in shared :
                  socket' = [socket EXCEPT ![t].queue = Append(@, m[socket[t].who])]
  /\ UNCHANGED <<storeVars, page, get, post, shared, issued, quota>>

LoopSleep ==
  /\ loop.pc = "send" /\ loop.todo = {}
  /\ loop' = [loop EXCEPT !.pc = "tick"]
  /\ UNCHANGED <<storeVars, page, get, post, socket, shared, issued, quota>>

LoopStep == LoopTick \/ LoopFollow \/ LoopBuild \/ LoopSend \/ LoopSleep

\* The admin moves the allowance while the page is open.
SetRules(n) ==
  /\ Use("rules")
  /\ SetVotesPerRound(n)
  /\ UNCHANGED <<page, get, post, socket, loop, shared, issued>>

----------------------------------------------------------------------------
PageInit ==
  /\ StoreInit
  /\ \E own \in [Tab -> Voter \cup {NoVoter}] :
       /\ \A t \in Tab : own[t] \in OwnTokens[t]
       /\ page = [t \in Tab |-> [token |-> own[t], cookie |-> NoVoter,
                                 listed |-> FALSE, shown |-> {}, booted |-> FALSE, voting |-> FALSE]]
       /\ issued = {own[t] : t \in Tab}
  /\ get = [t \in Tab |-> NoGet]
  /\ post = [t \in Tab |-> NoPost]
  /\ socket = [t \in Tab |-> Closed]
  /\ loop = [pc |-> "tick", round |-> 0, todo |-> {}]
  /\ shared = {}
  /\ quota \in Quotas

GetStep(t) == GetReadsRound(t) \/ GetReadsVotes(t) \/ GetReply(t)

PostStep(t) ==
  \/ PostReadsRound(t) \/ PostCommits(t)
  \/ PostRereadsRound(t) \/ PostReadsVotes(t) \/ PostReply(t)

PageNext ==
  \/ LoopStep
  \/ \E n \in 1..VotesPerRoundLimit : SetRules(n)
  \/ \E t \in Tab :
       \/ Refresh(t) \/ GetStep(t) \/ GetFails(t)
       \/ \E s \in Song : Tap(t, s)
       \/ PostStep(t) \/ PostFails(t)
       \/ Connect(t) \/ Push(t) \/ GoSilent(t) \/ PingTimeout(t) \/ Close(t)

PageSpec == PageInit /\ [][PageNext]_pageVars

\* Timers fire, the server serves, pings time out and a path that works
\* delivers. Nobody has to notice a dead socket, vote or reconnect.
PageFairness ==
  /\ WF_pageVars(LoopStep)
  /\ \A t \in Tab :
       /\ WF_pageVars(Refresh(t)) /\ WF_pageVars(GetStep(t)) /\ WF_pageVars(PostStep(t))
       /\ WF_pageVars(Push(t)) /\ WF_pageVars(PingTimeout(t))

----------------------------------------------------------------------------
(* Properties *)

PageTypeOK ==
  /\ TypeOK
  /\ page \in [Tab -> [token : Voter \cup {NoVoter}, cookie : Voter \cup {NoVoter},
                       listed : BOOLEAN, shown : SUBSET Song, booted : BOOLEAN, voting : BOOLEAN]]
  /\ get \in [Tab -> [pc : {"idle", "round", "votes", "reply"},
                      who : Voter \cup {NoVoter}, round : Nat, sel : SUBSET Song]]
  /\ \A t \in Tab : (post[t].pc # "idle") = page[t].voting
  /\ \A t \in Tab : socket[t].joined => socket[t].believed
  /\ \A t \in Tab : Len(socket[t].queue) <= Buffer
  /\ loop.pc # "follow" => loop.round = Len(rounds)
  /\ issued \subseteq Voter \cup {NoVoter}

\* Does the socket of t speak for somebody the page is not?
Impostor(t) ==
  /\ socket[t].joined
  /\ page[t].token # NoVoter /\ socket[t].who # page[t].token

\* Once nothing changes any more the page has its list back, shows what its voter
\* really holds and goes on showing it, with replies and pushes in any order and a socket that
\* died unnoticed (vote.html:954-957, 1141-1145). A socket opened before the
\* page knew its token is set apart: see SocketSpeaksForThePage.
PageConverges ==
  \A t \in Tab :
    \/ <>Impostor(t)
    \/ <>[](page[t].listed /\ page[t].shown = Picks(loop.round, page[t].token))

\* A tap does what the page showed when it was made, however old that was: a
\* ballot is new only for a song that was shown as not voted, and goes only by a
\* tap on a song that was shown as voted. But at an allowance of 1 a tap on another
\* song that was shown as not voted moves its own voter's ballot there
\* (vote.html:896-925; server.py:343-345, 360-366; store.py:949-971).
TapMeansWhatItShows ==
  [][/\ \A b \in votes' \ votes : \E t \in Tab :
          /\ post[t].pc = "commit" /\ post[t].who = b.voter
          /\ post[t].song = b.song /\ b.song \notin post[t].seen
     /\ \A b \in votes \ votes' : \E t \in Tab :
          /\ post[t].pc = "commit" /\ post[t].who = b.voter
          /\ \/ post[t].song = b.song /\ b.song \in post[t].seen
             \/ /\ allowance = 1
                /\ post[t].song \notin post[t].seen
                /\ [b EXCEPT !.song = post[t].song] \in votes' \ votes]_pageVars

\* However a vote ends, the page takes the next tap (vote.html:909-938).
NextTapIsTaken == \A t \in Tab : page[t].voting ~> ~page[t].voting

\* A viewer that stops reading holds the loop, and with it every tick and every
\* other viewer, only until its ping times out: each broadcast ends and the next
\* pass begins (server.py:84-102, 263-275).
BroadcastEnds == loop.pc = "send" ~> loop.pc = "tick"

\* vote.html:493-500 and 1134-1136: the token is adopted "so the WebSocket and the
\* REST calls agree on who we are", and "The first state fetch is awaited before
\* the socket opens, so we always know who we are before subscribing".
SocketSpeaksForThePage == \A t \in Tab : ~Impostor(t)
===============================================================================
