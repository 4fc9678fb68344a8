------------------------------ MODULE PageProofs ------------------------------
(***************************************************************************)
(* What holds of a viewer's page for any tabs, voters, songs, buffers and  *)
(* quotas (src/fppvote/web/static/vote.html, src/fppvote/service/          *)
(* server.py).                                                             *)
(*                                                                         *)
(* The page reaches the database through one method at a time, so what is  *)
(* proved of the store holds under every page. The page's own invariant    *)
(* says that nothing in flight ever speaks for nobody: a request or a      *)
(* socket that is open has a voter, whichever of header, cookie and fresh  *)
(* token it came from.                                                     *)
(***************************************************************************)
EXTENDS VoterPage, BallotStoreProofs

PageRow   == [token : Voter \cup {NoVoter}, cookie : Voter \cup {NoVoter},
              listed : BOOLEAN, shown : SUBSET Song, booted : BOOLEAN, voting : BOOLEAN]
GetRow    == [pc : {"idle", "round", "votes", "reply"},
              who : Voter \cup {NoVoter}, round : Nat, sel : SUBSET Song]
PostRow   == [pc : {"idle", "sent", "noRound", "commit", "round", "votes", "reply"},
              who : Voter \cup {NoVoter}, round : Nat, sel : SUBSET Song,
              song : Song \cup {NoSong}, retract : BOOLEAN, seen : SUBSET Song]
SocketRow == [who : Voter \cup {NoVoter}, believed : BOOLEAN, joined : BOOLEAN,
              silent : BOOLEAN, queue : Seq(SUBSET Song)]
LoopRow   == [pc : {"tick", "follow", "build", "send"}, round : Nat, todo : SUBSET Tab]

\* The types of what the page, its requests and its socket hold.
PageRows ==
  /\ page \in [Tab -> PageRow]
  /\ get \in [Tab -> GetRow]
  /\ post \in [Tab -> PostRow]
  /\ socket \in [Tab -> SocketRow]

\* A vote on its way has a voter and a song, asks for what the page showed, and
\* goes with the flag that holds the next tap.
PostSpeaks ==
  \A t \in Tab :
    /\ (post[t].pc # "idle") = page[t].voting
    /\ post[t].pc # "idle" =>
         /\ post[t].who \in Voter /\ post[t].song \in Song
         /\ post[t].retract = (post[t].song \in post[t].seen)

\* A connection has a voter, and room for what was pushed.
SocketSpeaks ==
  \A t \in Tab :
    /\ socket[t].joined => socket[t].believed /\ socket[t].who \in Voter
    /\ Len(socket[t].queue) <= Buffer

\* What the loop shares.
LoopTyped ==
  /\ loop \in LoopRow
  /\ loop.pc # "follow" => loop.round = Len(rounds)
  /\ shared \in SUBSET [Voter -> SUBSET Song]
  /\ issued \subseteq Voter \cup {NoVoter}

PageInv ==
  /\ StoreInv
  /\ PageRows /\ PostSpeaks /\ SocketSpeaks /\ LoopTyped

----------------------------------------------------------------------------
(* What a step may use *)

\* Whoever voter_token settles on is a voter.
LEMMA IdentitiesAreVoters ==
  ASSUME PageRows, NEW t \in Tab
  PROVE  Identities(t) \subseteq Voter
BY DEF PageRows, PageRow, Identities

\* A selection is a set of songs.
LEMMA PicksAreSongs ==
  ASSUME TypeOK, NEW r, NEW v
  PROVE  Picks(r, v) \subseteq Song
BY DEF TypeOK, VoteRow, Picks, Selection

\* What a vote that reaches the store does there.
LEMMA CommitEffect ==
  ASSUME PageInv, NEW t \in Tab, PostCommits(t)
  PROVE  LET p == post[t]
             b == [round |-> p.round, voter |-> p.who, song |-> p.song]
         IN  /\ [StoreNext]_storeVars
             /\ rounds' = rounds
             /\ \/ votes' = votes
                \/ p.retract /\ votes' = votes \ {b}
                \/ ~p.retract /\ votes' = votes \cup {b}
                \/ /\ ~p.retract /\ allowance = 1 /\ b \notin votes
                   /\ votes' = (votes \ Selection(p.round, p.who)) \cup {b}
<1> DEFINE p == post[t]
           b == [round |-> p.round, voter |-> p.who, song |-> p.song]
<1>0. /\ p.who \in Voter /\ p.song \in Song /\ p.round \in Nat
      /\ songs \in SUBSET Song /\ rounds \in Seq(RoundRow)
  BY DEF PageInv, PageRows, PostRow, PostSpeaks, PostCommits, StoreInv, TypeOK
<1>1. CASE p.retract /\ RetractVote(p.round, p.who, p.song)
  <2>1. votes' = votes \ {b} /\ UNCHANGED <<rounds, songs, excluded, allowance, cooldown, enabled>>
    BY <1>1 DEF RetractVote
  <2>2. CASE b \in votes
    <3>1. RetractVote(b.round, b.voter, b.song)
      BY <1>1
    <3>2. StoreNext
      BY <2>2, <3>1 DEF StoreNext
    <3>3. QED
      BY <1>1, <2>1, <3>2
  <2>3. CASE b \notin votes
    <3>1. votes' = votes
      BY <2>1, <2>3
    <3>2. QED
      BY <2>1, <3>1 DEF storeVars
  <2>4. QED
    BY <2>2, <2>3
<1>2. CASE ~p.retract /\ CastVote(p.round, p.who, p.song, songs)
  <2>1. p.round \in 0..Len(rounds)
    BY <1>0, <1>2, CastGuards DEF IsOpen
  <2>2. StoreNext
    BY <1>0, <1>2, <2>1 DEF StoreNext
  <2> DEFINE outcome == CastOutcome(p.round, p.who, p.song, songs)
  <2>3. rounds' = rounds
    BY <1>2 DEF CastVote
  <2>4. CASE outcome = "moved"
    <3>1. allowance = 1 /\ ~ \E x \in Selection(p.round, p.who) : x.song = p.song
      BY <2>4 DEF CastOutcome
    <3>2. b \notin votes
      BY <3>1 DEF Selection
    <3>3. votes' = (votes \ Selection(p.round, p.who)) \cup {b}
      BY <1>2, <2>4 DEF CastVote, GivenUp
    <3>4. QED
      BY <1>2, <2>2, <2>3, <3>1, <3>2, <3>3
  <2>5. CASE outcome # "moved"
    <3>1. votes' = votes \cup {b}
      BY <1>2, <2>5 DEF CastVote, GivenUp
    <3>2. QED
      BY <1>2, <2>2, <2>3, <3>1
  <2>6. QED
    BY <2>4, <2>5
<1>3. CASE UNCHANGED storeVars
  BY <1>3 DEF storeVars
<1>4. QED
  BY <1>1, <1>2, <1>3 DEF PostCommits

\* Opening a round is a step of the store.
LEMMA TickUsesStore ==
  ASSUME NEW s \in Song, EnsureRound(s)
  PROVE  StoreNext /\ UNCHANGED votes
BY DEF StoreNext, EnsureRound

\* Every step of the page is one method of the store, or leaves it alone.
LEMMA PageUsesStore ==
  ASSUME PageInv, [PageNext]_pageVars
  PROVE  [StoreNext]_storeVars
<1>1. ASSUME NEW t \in Tab, PostCommits(t)
      PROVE  [StoreNext]_storeVars
  BY <1>1, CommitEffect
<1>2. CASE LoopTick
  BY <1>2, TickUsesStore DEF LoopTick
<1>3. CASE LoopFollow \/ LoopBuild \/ LoopSend \/ LoopSleep
  BY <1>3 DEF LoopFollow, LoopBuild, LoopSend, LoopSleep
<1>4. ASSUME NEW t \in Tab,
             Refresh(t) \/ GetStep(t) \/ GetFails(t) \/ (\E s \in Song : Tap(t, s))
      PROVE  UNCHANGED storeVars
  BY <1>4 DEF Refresh, GetStep, GetReadsRound, GetReadsVotes, GetReply, GetFails, Tap
<1>5. ASSUME NEW t \in Tab,
             \/ PostReadsRound(t) \/ PostRereadsRound(t) \/ PostReadsVotes(t)
             \/ PostReply(t) \/ PostFails(t)
      PROVE  UNCHANGED storeVars
  BY <1>5 DEF PostReadsRound, PostRereadsRound, PostReadsVotes, PostReply, PostFails
<1>6. ASSUME NEW t \in Tab,
             Connect(t) \/ Push(t) \/ GoSilent(t) \/ PingTimeout(t) \/ Close(t)
      PROVE  UNCHANGED storeVars
  BY <1>6 DEF Connect, Push, GoSilent, PingTimeout, Close
<1>7. CASE UNCHANGED pageVars
  BY <1>7 DEF pageVars
<1>8. ASSUME NEW n \in 1..VotesPerRoundLimit, SetRules(n)
      PROVE  StoreNext
  <2>1. n \in 0..(VotesPerRoundLimit + 1) /\ SetVotesPerRound(n)
    BY <1>8 DEF SetRules, VotesPerRoundLimit
  <2>2. QED
    BY <2>1 DEF StoreNext
<1>9. QED
  BY <1>1, <1>2, <1>3, <1>4, <1>5, <1>6, <1>7, <1>8 DEF PageNext, LoopStep, PostStep

----------------------------------------------------------------------------
(* What each part of the page keeps *)

\* The state fetch.
LEMMA GetKeeps ==
  ASSUME PageInv, NEW t \in Tab,
         \/ Refresh(t) \/ GetReadsRound(t) \/ GetReadsVotes(t)
         \/ GetReply(t) \/ GetFails(t)
  PROVE  PageRows' /\ PostSpeaks' /\ SocketSpeaks' /\ LoopTyped'
<1>0. /\ PageRows /\ PostSpeaks /\ SocketSpeaks /\ LoopTyped /\ TypeOK
      /\ NoGet \in GetRow
  BY DEF PageInv, StoreInv, NoGet, GetRow
<1>1. CASE Refresh(t)
  <2>1. PICK who \in Voter :
          /\ get' = [get EXCEPT ![t] = [NoGet EXCEPT !.pc = "round", !.who = who]]
          /\ issued' = issued \cup {who}
    BY <1>0, <1>1, IdentitiesAreVoters DEF Refresh
  <2>2. [NoGet EXCEPT !.pc = "round", !.who = who] \in GetRow
    BY DEF NoGet, GetRow
  <2>3. get' \in [Tab -> GetRow] /\ issued' \subseteq Voter \cup {NoVoter}
    BY <1>0, <2>1, <2>2 DEF PageRows, LoopTyped
  <2>4. UNCHANGED <<rounds, page, post, socket, loop, shared>>
    BY <1>1 DEF Refresh, storeVars
  <2>5. QED
    BY <1>0, <2>3, <2>4 DEF PageRows, PostSpeaks, SocketSpeaks, LoopTyped
<1>2. CASE GetReadsRound(t) \/ GetReadsVotes(t)
  <2>1. [get[t] EXCEPT !.pc = "votes", !.round = loop.round] \in GetRow
    BY <1>0 DEF PageRows, GetRow, LoopTyped, LoopRow
  <2>2. [get[t] EXCEPT !.pc = "reply", !.sel = Picks(get[t].round, get[t].who)] \in GetRow
    BY <1>0, PicksAreSongs DEF PageRows, GetRow
  <2>3. \E g \in GetRow : get' = [get EXCEPT ![t] = g]
    BY <1>2, <2>1, <2>2 DEF GetReadsRound, GetReadsVotes
  <2>4. get' \in [Tab -> GetRow]
    BY <1>0, <2>3 DEF PageRows
  <2>5. UNCHANGED <<rounds, page, post, socket, loop, shared, issued>>
    BY <1>2 DEF GetReadsRound, GetReadsVotes, storeVars
  <2>6. QED
    BY <1>0, <2>4, <2>5 DEF PageRows, PostSpeaks, SocketSpeaks, LoopTyped
<1>3. CASE GetReply(t) \/ GetFails(t)
  <2>1. /\ get[t].who \in Voter \cup {NoVoter} /\ get[t].sel \in SUBSET Song
        /\ page[t] \in PageRow
    BY <1>0 DEF PageRows, GetRow
  <2>2. \E p \in PageRow :
          p.voting = page[t].voting /\ page' = [page EXCEPT ![t] = p]
    <3>1. CASE GetReply(t)
      <4> DEFINE p == [page[t] EXCEPT !.listed = TRUE, !.shown = get[t].sel,
                         !.token = IF @ = NoVoter THEN get[t].who ELSE @,
                         !.cookie = get[t].who, !.booted = TRUE]
      <4>1. p \in PageRow /\ p.voting = page[t].voting
        BY <2>1 DEF PageRow
      <4>2. page' = [page EXCEPT ![t] = p]
        BY <3>1 DEF GetReply
      <4>3. QED
        BY <4>1, <4>2
    <3>2. CASE GetFails(t)
      <4> DEFINE p == [page[t] EXCEPT !.booted = TRUE]
      <4>1. p \in PageRow /\ p.voting = page[t].voting
        BY <2>1 DEF PageRow
      <4>2. page' = [page EXCEPT ![t] = p]
        BY <3>2 DEF GetFails
      <4>3. QED
        BY <4>1, <4>2
    <3>3. QED
      BY <1>3, <3>1, <3>2
  <2>3. /\ page' \in [Tab -> PageRow]
        /\ \A u \in Tab : page'[u].voting = page[u].voting
    BY <1>0, <2>2 DEF PageRows
  <2>4. get' \in [Tab -> GetRow]
    BY <1>0, <1>3 DEF GetReply, GetFails, PageRows
  <2>5. UNCHANGED <<rounds, post, socket, loop, shared, issued>>
    BY <1>3 DEF GetReply, GetFails, storeVars
  <2>6. QED
    BY <1>0, <2>3, <2>4, <2>5 DEF PageRows, PostSpeaks, SocketSpeaks, LoopTyped
<1>4. QED
  BY <1>1, <1>2, <1>3

\* The vote: its flag is up exactly while it is on its way.
LEMMA PostKeeps ==
  ASSUME PageInv, NEW t \in Tab,
         \/ \E s \in Song : Tap(t, s)
         \/ PostStep(t) \/ PostFails(t)
  PROVE  PageRows' /\ PostSpeaks' /\ SocketSpeaks' /\ LoopTyped'
<1>0. /\ PageRows /\ PostSpeaks /\ SocketSpeaks /\ LoopTyped /\ TypeOK
      /\ NoPost \in PostRow /\ NoPost.pc = "idle"
      /\ post[t] \in PostRow /\ page[t] \in PageRow
  BY DEF PageInv, StoreInv, NoPost, PostRow, PageRows
<1>1. ASSUME NEW s \in Song, Tap(t, s)
      PROVE  PageRows' /\ PostSpeaks' /\ SocketSpeaks' /\ LoopTyped'
  <2> DEFINE on == [page[t] EXCEPT !.voting = TRUE]
  <2>1. PICK who \in Voter :
          /\ post' = [post EXCEPT ![t] = [NoPost EXCEPT !.pc = "sent", !.who = who,
                        !.song = s, !.retract = s \in page[t].shown,
                        !.seen = page[t].shown]]
          /\ issued' = issued \cup {who}
    BY <1>0, <1>1, IdentitiesAreVoters DEF Tap
  <2> DEFINE sent == [NoPost EXCEPT !.pc = "sent", !.who = who,
                        !.song = s, !.retract = s \in page[t].shown,
                        !.seen = page[t].shown]
  <2>2. /\ sent \in PostRow /\ sent.pc = "sent" /\ sent.who = who /\ sent.song = s
        /\ sent.retract = (sent.song \in sent.seen)
    <3> DEFINE back == s \in page[t].shown
               addressed == [NoPost EXCEPT !.pc = "sent", !.who = who]
               about == [addressed EXCEPT !.song = s]
               asked == [about EXCEPT !.retract = back]
    <3>1. addressed \in PostRow /\ addressed.pc = "sent" /\ addressed.who = who
      BY <1>0 DEF PostRow
    <3>2. /\ sent = [asked EXCEPT !.seen = page[t].shown]
          /\ back \in BOOLEAN /\ back = (s \in page[t].shown)
          /\ page[t].shown \in SUBSET Song
      BY <1>0 DEF PageRow
    <3> HIDE DEF addressed, back, sent
    <3>3. /\ about \in PostRow
          /\ about.pc = "sent" /\ about.who = who /\ about.song = s
      BY <3>1 DEF PostRow
    <3> HIDE DEF about
    <3>4. /\ asked \in PostRow /\ asked.retract = back
          /\ asked.pc = "sent" /\ asked.who = who /\ asked.song = s
      BY <3>2, <3>3 DEF PostRow
    <3> HIDE DEF asked
    <3>5. QED
      BY <3>2, <3>4 DEF PostRow
  <2>3. on \in PageRow /\ on.voting = TRUE
    BY <1>0 DEF PageRow
  <2>4. page' = [page EXCEPT ![t] = on] /\ post' = [post EXCEPT ![t] = sent]
    BY <1>1, <2>1 DEF Tap
  <2> HIDE DEF on, sent
  <2>5. PageRows'
    BY <1>0, <1>1, <2>2, <2>3, <2>4 DEF PageRows, Tap
  <2>6. PostSpeaks'
    BY <1>0, <2>2, <2>3, <2>4 DEF PostSpeaks, PageRows
  <2>7. QED
    BY <1>0, <1>1, <2>1, <2>5, <2>6 DEF SocketSpeaks, LoopTyped, Tap, storeVars
<1>2. CASE PostReadsRound(t) \/ PostCommits(t) \/ PostRereadsRound(t) \/ PostReadsVotes(t)
  <2> DEFINE Same(p, q) == /\ p.who = q.who /\ p.song = q.song
                           /\ p.retract = q.retract /\ p.seen = q.seen
  <2>1. \E p \in PostRow :
          /\ p.pc # "idle" /\ post[t].pc # "idle"
          /\ Same(p, post[t])
          /\ post' = [post EXCEPT ![t] = p]
    <3>1. CASE PostReadsRound(t)
      <4> DEFINE p == [post[t] EXCEPT !.round = loop.round,
                          !.pc = IF loop.round = 0 THEN "noRound" ELSE "commit"]
      <4>1. /\ p \in PostRow /\ p.pc # "idle"
            /\ Same(p, post[t])
        BY <1>0 DEF PostRow, LoopTyped, LoopRow
      <4>2. post' = [post EXCEPT ![t] = p] /\ post[t].pc # "idle"
        BY <3>1 DEF PostReadsRound
      <4>3. QED
        BY <4>1, <4>2
    <3>2. CASE PostCommits(t)
      <4> DEFINE p == [post[t] EXCEPT !.pc = "round"]
      <4>1. /\ p \in PostRow /\ p.pc # "idle"
            /\ Same(p, post[t])
        BY <1>0 DEF PostRow
      <4>2. post' = [post EXCEPT ![t] = p] /\ post[t].pc # "idle"
        BY <3>2 DEF PostCommits
      <4>3. QED
        BY <4>1, <4>2
    <3>3. CASE PostRereadsRound(t)
      <4> DEFINE p == [post[t] EXCEPT !.pc = "votes", !.round = loop.round]
      <4>1. /\ p \in PostRow /\ p.pc # "idle"
            /\ Same(p, post[t])
        BY <1>0 DEF PostRow, LoopTyped, LoopRow
      <4>2. post' = [post EXCEPT ![t] = p] /\ post[t].pc # "idle"
        BY <3>3 DEF PostRereadsRound
      <4>3. QED
        BY <4>1, <4>2
    <3>4. CASE PostReadsVotes(t)
      <4> DEFINE p == [post[t] EXCEPT !.pc = "reply",
                                      !.sel = Picks(post[t].round, post[t].who)]
      <4>1. /\ p \in PostRow /\ p.pc # "idle"
            /\ Same(p, post[t])
        BY <1>0, PicksAreSongs DEF PostRow
      <4>2. post' = [post EXCEPT ![t] = p] /\ post[t].pc # "idle"
        BY <3>4 DEF PostReadsVotes
      <4>3. QED
        BY <4>1, <4>2
    <3>5. QED
      BY <1>2, <3>1, <3>2, <3>3, <3>4
  <2>2. UNCHANGED <<page, get, socket, loop, shared, issued>>
    BY <1>2 DEF PostReadsRound, PostCommits, PostRereadsRound, PostReadsVotes
  <2>3. rounds' = rounds
    BY <1>2, CommitEffect
    DEF PostReadsRound, PostRereadsRound, PostReadsVotes, storeVars
  <2>4. PageRows'
    BY <1>0, <2>1, <2>2 DEF PageRows
  <2>5. \A u \in Tab : /\ (post'[u].pc # "idle") = (post[u].pc # "idle")
                       /\ Same(post'[u], post[u])
    BY <1>0, <2>1 DEF PageRows
  <2>6. PostSpeaks'
    BY <1>0, <2>2, <2>5 DEF PostSpeaks
  <2>7. QED
    BY <1>0, <2>2, <2>3, <2>4, <2>6 DEF SocketSpeaks, LoopTyped
<1>3. CASE PostReply(t) \/ PostFails(t)
  <2>1. \E p \in PageRow : ~p.voting /\ page' = [page EXCEPT ![t] = p]
    <3>1. CASE PostReply(t)
      <4> DEFINE p == [page[t] EXCEPT !.listed = post[t].pc = "reply",
                          !.shown = post[t].sel, !.cookie = post[t].who, !.voting = FALSE]
      <4>1. post[t].sel \in SUBSET Song /\ post[t].who \in Voter \cup {NoVoter}
        BY <1>0 DEF PostRow
      <4>2. p \in PageRow /\ ~p.voting
        BY <1>0, <4>1 DEF PageRow
      <4>3. page' = [page EXCEPT ![t] = p]
        BY <3>1 DEF PostReply
      <4>4. QED
        BY <4>2, <4>3
    <3>2. CASE PostFails(t)
      <4> DEFINE p == [page[t] EXCEPT !.voting = FALSE]
      <4>1. p \in PageRow /\ ~p.voting
        BY <1>0 DEF PageRow
      <4>2. page' = [page EXCEPT ![t] = p]
        BY <3>2 DEF PostFails
      <4>3. QED
        BY <4>1, <4>2
    <3>3. QED
      BY <1>3, <3>1, <3>2
  <2>2. post' = [post EXCEPT ![t] = NoPost] /\ UNCHANGED <<rounds, get, socket, loop, shared, issued>>
    BY <1>3 DEF PostReply, PostFails, storeVars
  <2>3. PageRows'
    BY <1>0, <2>1, <2>2 DEF PageRows
  <2>4. \A u \in Tab :
          IF u = t THEN post'[u].pc = "idle" /\ ~page'[u].voting
                   ELSE post'[u] = post[u] /\ page'[u] = page[u]
    BY <1>0, <2>1, <2>2 DEF PageRows
  <2>5. page' \in [Tab -> PageRow] /\ page \in [Tab -> PageRow]
    BY <1>0, <2>3 DEF PageRows
  <2>6. \A u \in Tab : (post'[u].pc # "idle") = page'[u].voting
    <3> SUFFICES ASSUME NEW u \in Tab PROVE (post'[u].pc # "idle") = page'[u].voting
      OBVIOUS
    <3>1. page'[u].voting \in BOOLEAN
      BY <2>5 DEF PageRow
    <3>2. CASE u = t
      BY <2>4, <3>1, <3>2
    <3>3. CASE u # t
      BY <1>0, <2>4, <3>3 DEF PostSpeaks
    <3>4. QED
      BY <3>2, <3>3
  <2>7. PostSpeaks'
    BY <1>0, <2>4, <2>6 DEF PostSpeaks
  <2>8. QED
    BY <1>0, <2>2, <2>3, <2>7 DEF SocketSpeaks, LoopTyped
<1>4. QED
  BY <1>1, <1>2, <1>3 DEF PostStep

\* The socket: whoever it was opened for, and never more than it holds.
LEMMA SocketKeeps ==
  ASSUME PageInv, NEW t \in Tab,
         Connect(t) \/ Push(t) \/ GoSilent(t) \/ PingTimeout(t) \/ Close(t)
  PROVE  PageRows' /\ PostSpeaks' /\ SocketSpeaks' /\ LoopTyped'
<1>0. /\ PageRows /\ PostSpeaks /\ SocketSpeaks /\ LoopTyped
      /\ socket[t] \in SocketRow /\ page[t] \in PageRow
      /\ socket[t].queue \in Seq(SUBSET Song)
      /\ Buffer \in Nat /\ 1 <= Buffer
  BY PageAssumption DEF PageInv, PageRows, SocketRow
<1>1. \E c \in SocketRow :
        /\ c.joined => c.believed /\ c.who \in Voter
        /\ Len(c.queue) <= Buffer
        /\ socket' = [socket EXCEPT ![t] = c]
  <2>1. CASE Connect(t)
    <3>1. PICK who \in Voter : socket' = [socket EXCEPT ![t] =
            [who |-> who, believed |-> TRUE, joined |-> TRUE, silent |-> FALSE,
             queue |-> IF shared = {} THEN <<>>
                       ELSE <<CHOOSE sel \in {m[who] : m \in shared} : TRUE>>]]
      BY <1>0, <2>1, IdentitiesAreVoters DEF Connect
    <3> DEFINE q == IF shared = {} THEN <<>>
                    ELSE <<CHOOSE sel \in {m[who] : m \in shared} : TRUE>>
    <3>2. q \in Seq(SUBSET Song) /\ Len(q) <= 1
      <4>1. CASE shared = {}
        BY <4>1
      <4>2. ASSUME shared # {}
            PROVE  (CHOOSE sel \in {m[who] : m \in shared} : TRUE) \in SUBSET Song
        <5>1. \A x \in {m[who] : m \in shared} : x \in SUBSET Song
          BY <1>0 DEF LoopTyped
        <5>2. \E x : x \in {m[who] : m \in shared}
          BY <4>2
        <5>3. QED
          BY <5>1, <5>2
      <4>3. CASE shared # {}
        <5> DEFINE last == CHOOSE sel \in {m[who] : m \in shared} : TRUE
        <5>1. last \in SUBSET Song /\ q = <<last>>
          BY <4>2, <4>3
        <5> HIDE DEF last, q
        <5>2. <<last>> \in Seq(SUBSET Song) /\ Len(<<last>>) = 1
          BY <5>1
        <5>3. QED
          BY <5>1, <5>2
      <4>4. QED
        BY <4>1, <4>3
    <3> HIDE DEF q
    <3>3. [who |-> who, believed |-> TRUE, joined |-> TRUE, silent |-> FALSE, queue |-> q]
            \in SocketRow
      BY <3>2 DEF SocketRow
    <3>4. socket' = [socket EXCEPT ![t] =
            [who |-> who, believed |-> TRUE, joined |-> TRUE, silent |-> FALSE, queue |-> q]]
      BY <3>1 DEF q
    <3>5. Len(q) <= Buffer
      <4>1. Len(q) \in Nat
        BY <3>2
      <4>2. QED
        BY <1>0, <3>2, <4>1
    <3>6. QED
      BY <3>3, <3>4, <3>5
  <2>2. CASE Push(t)
    <3> DEFINE c == [socket[t] EXCEPT !.queue = Tail(@)]
    <3>1. /\ socket[t].queue # <<>> /\ Len(socket[t].queue) <= Buffer
          /\ socket[t].joined => socket[t].believed /\ socket[t].who \in Voter
      BY <1>0, <2>2 DEF Push, SocketSpeaks
    <3>2. Tail(socket[t].queue) \in Seq(SUBSET Song) /\ Len(Tail(socket[t].queue)) <= Buffer
      BY <1>0, <3>1
    <3>3. /\ c \in SocketRow /\ c.queue = Tail(socket[t].queue) /\ c.joined = socket[t].joined
          /\ c.believed = socket[t].believed /\ c.who = socket[t].who
      BY <1>0, <3>2 DEF SocketRow
    <3>4. socket' = [socket EXCEPT ![t] = c]
      BY <2>2 DEF Push
    <3>5. QED
      BY <3>1, <3>2, <3>3, <3>4
  <2>3. CASE GoSilent(t)
    <3> DEFINE c == [socket[t] EXCEPT !.silent = TRUE]
    <3>1. /\ c \in SocketRow /\ c.queue = socket[t].queue /\ c.joined = socket[t].joined
          /\ c.believed = socket[t].believed /\ c.who = socket[t].who
      BY <1>0 DEF SocketRow
    <3>2. socket' = [socket EXCEPT ![t] = c]
      BY <2>3 DEF GoSilent
    <3>3. QED
      BY <1>0, <3>1, <3>2 DEF SocketSpeaks
  <2>4. CASE PingTimeout(t)
    <3> DEFINE c == [socket[t] EXCEPT !.joined = FALSE, !.queue = <<>>]
    <3>0. <<>> \in Seq(SUBSET Song)
      OBVIOUS
    <3>1. c \in SocketRow /\ ~c.joined /\ c.queue = <<>>
      BY <1>0, <3>0 DEF SocketRow
    <3>2. socket' = [socket EXCEPT ![t] = c]
      BY <2>4 DEF PingTimeout
    <3>3. Len(<<>>) <= Buffer
      BY <1>0
    <3>4. QED
      BY <3>1, <3>2, <3>3
  <2>5. CASE Close(t)
    <3>1. Closed \in SocketRow /\ ~Closed.joined /\ Closed.queue = <<>>
      BY DEF Closed, SocketRow
    <3>2. socket' = [socket EXCEPT ![t] = Closed]
      BY <2>5 DEF Close
    <3>3. Len(<<>>) <= Buffer
      BY <1>0
    <3>4. QED
      BY <3>1, <3>2, <3>3
  <2>6. QED
    BY <2>1, <2>2, <2>3, <2>4, <2>5
<1>2. socket' \in [Tab -> SocketRow] /\ SocketSpeaks'
  BY <1>0, <1>1 DEF PageRows, SocketSpeaks
<1>3. page' \in [Tab -> PageRow] /\ \A u \in Tab : page'[u].voting = page[u].voting
  <2>1. CASE page' = page
    BY <1>0, <2>1 DEF PageRows
  <2>2. CASE Push(t)
    <3>1. Head(socket[t].queue) \in SUBSET Song
      BY <1>0, <2>2 DEF Push
    <3> DEFINE p == [page[t] EXCEPT !.listed = TRUE, !.shown = Head(socket[t].queue)]
    <3>2. p \in PageRow /\ p.voting = page[t].voting
      BY <1>0, <3>1 DEF PageRow
    <3>3. page' = [page EXCEPT ![t] = p]
      BY <2>2 DEF Push
    <3>4. QED
      BY <1>0, <3>2, <3>3 DEF PageRows
  <2>3. QED
    BY <2>1, <2>2 DEF Connect, GoSilent, PingTimeout, Close
<1>4. issued' \subseteq Voter \cup {NoVoter}
  BY <1>0, IdentitiesAreVoters
  DEF LoopTyped, Connect, Push, GoSilent, PingTimeout, Close
<1>5. UNCHANGED <<rounds, get, post, loop, shared>>
  BY DEF Connect, Push, GoSilent, PingTimeout, Close, storeVars
<1>6. QED
  BY <1>0, <1>2, <1>3, <1>4, <1>5 DEF PageRows, PostSpeaks, LoopTyped

\* The loop, which is with the newest round unless it has just opened it.
LEMMA LoopKeeps ==
  ASSUME PageInv, LoopStep
  PROVE  PageRows' /\ PostSpeaks' /\ SocketSpeaks' /\ LoopTyped'
<1>0. /\ PageRows /\ PostSpeaks /\ SocketSpeaks /\ LoopTyped /\ TypeOK
      /\ loop.round \in Nat /\ loop.todo \in SUBSET Tab
  BY DEF PageInv, StoreInv, LoopTyped, LoopRow
<1>1. CASE LoopTick
  <2>1. /\ loop' \in LoopRow
        /\ loop'.pc # "follow" => loop'.round = loop.round /\ rounds' = rounds
    BY <1>0, <1>1 DEF LoopTick, LoopTyped, LoopRow, storeVars
  <2>2. UNCHANGED <<page, get, post, socket, shared, issued>> /\ loop.pc = "tick"
    BY <1>1 DEF LoopTick
  <2>3. QED
    BY <1>0, <2>1, <2>2 DEF PageRows, PostSpeaks, SocketSpeaks, LoopTyped
<1>2. CASE LoopFollow
  <2>1. Len(rounds) \in Nat
    BY <1>0 DEF TypeOK
  <2>2. /\ loop' \in LoopRow
        /\ loop'.round = Len(rounds)
    BY <1>0, <1>2, <2>1 DEF LoopFollow, LoopTyped, LoopRow
  <2>3. UNCHANGED <<rounds, page, get, post, socket, shared, issued>>
    BY <1>2 DEF LoopFollow, storeVars
  <2>4. QED
    BY <1>0, <2>2, <2>3 DEF PageRows, PostSpeaks, SocketSpeaks, LoopTyped
<1>3. CASE LoopBuild
  <2>1. [v \in Voter |-> Picks(loop.round, v)] \in [Voter -> SUBSET Song]
    BY <1>0, PicksAreSongs
  <2>2. shared' \in SUBSET [Voter -> SUBSET Song]
    BY <1>3, <2>1 DEF LoopBuild
  <2>3. {t \in Tab : socket[t].joined} \in SUBSET Tab
    OBVIOUS
  <2>4. /\ loop' \in LoopRow
        /\ loop'.round = loop.round /\ loop.pc # "follow"
    BY <1>0, <1>3, <2>3 DEF LoopBuild, LoopTyped, LoopRow
  <2>5. UNCHANGED <<rounds, page, get, post, socket, issued>>
    BY <1>3 DEF LoopBuild, storeVars
  <2>6. QED
    BY <1>0, <2>2, <2>4, <2>5 DEF PageRows, PostSpeaks, SocketSpeaks, LoopTyped
<1>4. CASE LoopSend
  <2>1. PICK t \in Tab :
          /\ loop' = [loop EXCEPT !.todo = @ \ {t}]
          /\ \/ socket' = socket
             \/ /\ socket[t].joined /\ Len(socket[t].queue) < Buffer
                /\ \E m \in shared :
                     socket' = [socket EXCEPT ![t].queue = Append(@, m[socket[t].who])]
    BY <1>0, <1>4 DEF LoopSend
  <2>2. /\ loop' \in LoopRow
        /\ loop'.round = loop.round /\ loop.pc # "follow"
    BY <1>0, <1>4, <2>1 DEF LoopTyped, LoopRow, LoopSend
  <2>3. socket' \in [Tab -> SocketRow] /\ SocketSpeaks'
    <3>1. CASE socket' = socket
      BY <1>0, <3>1 DEF PageRows, SocketSpeaks
    <3>2. ASSUME NEW m \in shared, socket[t].joined, Len(socket[t].queue) < Buffer,
                 socket' = [socket EXCEPT ![t].queue = Append(@, m[socket[t].who])]
          PROVE  socket' \in [Tab -> SocketRow] /\ SocketSpeaks'
      <4>1. /\ socket[t] \in SocketRow /\ socket[t].queue \in Seq(SUBSET Song)
            /\ socket[t].believed /\ socket[t].who \in Voter /\ Buffer \in Nat
        BY <1>0, <3>2, PageAssumption DEF PageRows, SocketRow, SocketSpeaks
      <4>2. m[socket[t].who] \in SUBSET Song
        BY <1>0, <4>1 DEF LoopTyped
      <4> DEFINE q == Append(socket[t].queue, m[socket[t].who])
                 c == [socket[t] EXCEPT !.queue = q]
      <4>3. q \in Seq(SUBSET Song) /\ Len(q) = Len(socket[t].queue) + 1
        BY <4>1, <4>2
      <4>4. Len(q) <= Buffer
        BY <3>2, <4>1, <4>3
      <4> HIDE DEF q
      <4>5. /\ c \in SocketRow /\ c.queue = q /\ c.believed /\ c.who \in Voter
        BY <4>1, <4>3 DEF SocketRow
      <4>6. socket' = [socket EXCEPT ![t] = c]
        BY <3>2 DEF q
      <4>7. QED
        BY <1>0, <4>4, <4>5, <4>6 DEF PageRows, SocketSpeaks
    <3>3. QED
      BY <2>1, <3>1, <3>2
  <2>4. UNCHANGED <<rounds, page, get, post, shared, issued>>
    BY <1>4 DEF LoopSend, storeVars
  <2>5. QED
    BY <1>0, <2>2, <2>3, <2>4 DEF PageRows, PostSpeaks, LoopTyped
<1>5. CASE LoopSleep
  <2>1. /\ loop' \in LoopRow
        /\ loop'.round = loop.round /\ loop.pc # "follow"
    BY <1>0, <1>5 DEF LoopSleep, LoopTyped, LoopRow
  <2>2. UNCHANGED <<rounds, page, get, post, socket, shared, issued>>
    BY <1>5 DEF LoopSleep, storeVars
  <2>3. QED
    BY <1>0, <2>1, <2>2 DEF PageRows, PostSpeaks, SocketSpeaks, LoopTyped
<1>6. QED
  BY <1>1, <1>2, <1>3, <1>4, <1>5 DEF LoopStep

\* The admin's rules touch no page.
LEMMA RulesKeep ==
  ASSUME PageInv, NEW n \in 1..VotesPerRoundLimit, SetRules(n)
  PROVE  PageRows' /\ PostSpeaks' /\ SocketSpeaks' /\ LoopTyped'
BY DEF PageInv, SetRules, SetVotesPerRound, PageRows, PostSpeaks, SocketSpeaks, LoopTyped

----------------------------------------------------------------------------
(* The invariant *)

LEMMA PageInvInit ==
  ASSUME PageInit
  PROVE  PageInv
<1>1. StoreInv
  BY StoreInvInit DEF PageInit, StoreInit
<1>2. PageRows /\ PostSpeaks
  <2>1. PICK own \in [Tab -> Voter \cup {NoVoter}] :
          page = [t \in Tab |-> [token |-> own[t], cookie |-> NoVoter,
                     listed |-> FALSE, shown |-> {}, booted |-> FALSE, voting |-> FALSE]]
    BY DEF PageInit
  <2>2. page \in [Tab -> PageRow] /\ \A t \in Tab : page[t].voting = FALSE
    BY <2>1 DEF PageRow
  <2>3. NoGet \in GetRow /\ NoPost \in PostRow /\ Closed \in SocketRow
    BY DEF NoGet, GetRow, NoPost, PostRow, Closed, SocketRow
  <2>4. PageRows
    BY <2>2, <2>3 DEF PageInit, PageRows
  <2>5. \A t \in Tab : post[t].pc = "idle"
    BY DEF PageInit, NoPost
  <2>6. QED
    BY <2>2, <2>4, <2>5 DEF PostSpeaks
<1>3. SocketSpeaks
  BY PageAssumption DEF PageInit, SocketSpeaks, Closed
<1>4. LoopTyped
  BY DEF PageInit, LoopTyped, LoopRow, StoreInit
<1>5. QED
  BY <1>1, <1>2, <1>3, <1>4 DEF PageInv

LEMMA PageInvStep ==
  ASSUME PageInv, [PageNext]_pageVars
  PROVE  PageInv'
<1>1. StoreInv'
  BY PageUsesStore, StoreInvStep DEF PageInv
<1>2. PageRows' /\ PostSpeaks' /\ SocketSpeaks' /\ LoopTyped'
  <2>1. CASE UNCHANGED pageVars
    BY <2>1 DEF pageVars, storeVars, PageInv, PageRows, PostSpeaks, SocketSpeaks, LoopTyped
  <2>2. CASE PageNext
    BY <2>2, GetKeeps, PostKeeps, SocketKeeps, LoopKeeps, RulesKeep DEF PageNext, GetStep
  <2>3. QED
    BY <2>1, <2>2
<1>3. QED
  BY <1>1, <1>2 DEF PageInv

\* Nothing in flight speaks for nobody, and what the pages store stays legal,
\* whatever the order of replies and pushes (server.py:105-148, 340-372).
THEOREM PageInvariant == PageSpec => []PageInv
<1>1. QED
  BY PageInvInit, PageInvStep, PTL DEF PageSpec

----------------------------------------------------------------------------
(* What follows from it *)

\* Every page, request and socket keeps its types, the loop is with the newest
\* round unless it has just opened it, and no buffer overflows (server.py:84-148).
THEOREM PageTyped == PageSpec => []PageTypeOK
<1>1. PageInv => PageTypeOK
  BY DEF PageInv, StoreInv, PageRows, PageRow, GetRow, PostSpeaks, SocketSpeaks,
         LoopTyped, LoopRow, PageTypeOK
<1>2. QED
  BY <1>1, PageInvariant, PTL

\* Viewers reach the database only through the store's methods, so what is proved
\* of StoreSpec holds under any number of pages (server.py:331-397).
THEOREM ViewersUseStore == PageSpec => StoreSpec
<1>1. PageInit => StoreInit
  BY DEF PageInit
<1>2. PageInv /\ [PageNext]_pageVars => [StoreNext]_storeVars
  BY PageUsesStore
<1>3. QED
  BY <1>1, <1>2, PageInvariant, PTL DEF PageSpec, StoreSpec

\* However late, repeated or overtaken a tap is, and however the admin moves the
\* allowance meanwhile, it does what the page showed when it was made
\* (vote.html:896-925; server.py:343-345, 360-366; store.py:949-971).
THEOREM TapsAreHonoured == PageSpec => TapMeansWhatItShows
<1> DEFINE Means ==
      /\ \A b \in votes' \ votes : \E t \in Tab :
          /\ post[t].pc = "commit" /\ post[t].who = b.voter
          /\ post[t].song = b.song /\ b.song \notin post[t].seen
      /\ \A b \in votes \ votes' : \E t \in Tab :
          /\ post[t].pc = "commit" /\ post[t].who = b.voter
          /\ \/ post[t].song = b.song /\ b.song \in post[t].seen
             \/ /\ allowance = 1
                /\ post[t].song \notin post[t].seen
                /\ [b EXCEPT !.song = post[t].song] \in votes' \ votes
<1>1. ASSUME PageInv, [PageNext]_pageVars
      PROVE  Means
  <2>1. ASSUME NEW t \in Tab, PostCommits(t) PROVE Means
    <3> DEFINE p == post[t]
               b == [round |-> p.round, voter |-> p.who, song |-> p.song]
    <3>1. /\ p.pc = "commit" /\ p.retract = (p.song \in p.seen)
          /\ b.voter = p.who /\ b.song = p.song
      BY <1>1, <2>1 DEF PostCommits, PageInv, PostSpeaks
    <3>2. \/ votes' = votes
          \/ p.retract /\ votes' = votes \ {b}
          \/ ~p.retract /\ votes' = votes \cup {b}
          \/ /\ ~p.retract /\ allowance = 1 /\ b \notin votes
             /\ votes' = (votes \ Selection(p.round, p.who)) \cup {b}
      BY <1>1, <2>1, CommitEffect
\* A ballot that makes room is of the same round and voter.
    <3>3. ASSUME NEW x \in Selection(p.round, p.who)
          PROVE  x.voter = p.who /\ [x EXCEPT !.song = p.song] = b
      <4>1. x \in VoteRow /\ x.round = p.round /\ x.voter = p.who
        BY <1>1 DEF Selection, PageInv, StoreInv, TypeOK
      <4>2. QED
        BY <4>1 DEF VoteRow
    <3> HIDE DEF b
    <3>4. ASSUME ~p.retract, allowance = 1, b \notin votes,
                 votes' = (votes \ Selection(p.round, p.who)) \cup {b}
          PROVE  Means
      <4>1. votes' \ votes = {b} /\ votes \ votes' \subseteq Selection(p.round, p.who)
        BY <3>4
      <4>2. QED
        BY <3>1, <3>3, <3>4, <4>1
    <3>5. QED
      BY <3>1, <3>2, <3>4
  <2>2. CASE votes' = votes
    BY <2>2
  <2>3. votes' = votes \/ \E t \in Tab : PostCommits(t)
    BY <1>1, TickUsesStore
    DEF PageNext, pageVars, storeVars, LoopStep, LoopTick, LoopFollow, LoopBuild, LoopSend,
        LoopSleep, SetRules, SetVotesPerRound, Refresh, GetStep, GetReadsRound,
        GetReadsVotes, GetReply, GetFails, Tap, PostStep, PostReadsRound,
        PostRereadsRound, PostReadsVotes, PostReply, PostFails,
        Connect, Push, GoSilent, PingTimeout, Close
  <2>4. QED
    BY <2>1, <2>2, <2>3
<1>2. QED
  BY <1>1, PageInvariant, PTL DEF PageSpec, TapMeansWhatItShows

----------------------------------------------------------------------------
(* Who a page speaks for *)

\* Page t knows who it is, and whatever it has under way says the same: the
\* state fetch, the vote and the socket.
OneVoice(t) ==
  /\ page[t].token # NoVoter
  /\ get[t].pc # "idle" => get[t].who = page[t].token
  /\ post[t].pc # "idle" => post[t].who = page[t].token
  /\ socket[t].joined => socket[t].who = page[t].token

\* A page that has its token sends nothing else.
LEMMA TokenSettlesIdentity ==
  ASSUME NEW t, page[t].token # NoVoter
  PROVE  Identities(t) = {page[t].token}
BY DEF Identities

\* A token, once a page has one, stays (vote.html:493-500).
LEMMA TokensStay ==
  ASSUME PageRows, [PageNext]_pageVars, NEW u \in Tab, page[u].token # NoVoter
  PROVE  page'[u].token = page[u].token
<1>1. page[u] \in PageRow /\ page \in [Tab -> PageRow]
  BY DEF PageRows
<1>2. ASSUME NEW t \in Tab, GetReply(t) PROVE page'[u].token = page[u].token
  BY <1>1, <1>2 DEF GetReply, PageRow
<1>3. ASSUME NEW t \in Tab,
             \/ GetFails(t) \/ PostReply(t) \/ PostFails(t) \/ Push(t)
             \/ \E s \in Song : Tap(t, s)
      PROVE  page'[u].token = page[u].token
  <2>1. CASE GetFails(t) \/ PostFails(t) \/ \E s \in Song : Tap(t, s)
    <3>1. \/ page' = [page EXCEPT ![t].booted = TRUE]
          \/ \E on \in BOOLEAN : page' = [page EXCEPT ![t].voting = on]
      BY <2>1 DEF GetFails, PostFails, Tap
    <3>2. QED
      BY <1>1, <3>1 DEF PageRow
  <2>2. CASE PostReply(t)
    <3> DEFINE list == (post[t].pc = "reply")
    <3>1. page' = [page EXCEPT ![t].listed = list, ![t].shown = post[t].sel,
                               ![t].cookie = post[t].who, ![t].voting = FALSE]
      BY <2>2 DEF PostReply
    <3> HIDE DEF list
    <3>2. QED
      BY <1>1, <3>1 DEF PageRow
  <2>3. CASE Push(t)
    BY <1>1, <2>3 DEF Push, PageRow
  <2>4. QED
    BY <1>3, <2>1, <2>2, <2>3
<1>4. CASE UNCHANGED page
  BY <1>4
<1>5. QED
  BY <1>2, <1>3, <1>4
  DEF PageNext, SetRules, pageVars, LoopStep, LoopTick, LoopFollow, LoopBuild, LoopSend,
      LoopSleep, Refresh,
      GetStep, GetReadsRound, GetReadsVotes, PostStep, PostReadsRound, PostCommits,
      PostRereadsRound, PostReadsVotes, Connect, GoSilent, PingTimeout, Close

\* Requests are made with the page's token and keep it to the end.
LEMMA RequestsStay ==
  ASSUME PageRows, [PageNext]_pageVars, NEW u \in Tab, OneVoice(u)
  PROVE  /\ get'[u].pc # "idle" => get'[u].who = page[u].token
         /\ post'[u].pc # "idle" => post'[u].who = page[u].token
<1> DEFINE Right == /\ get'[u].pc # "idle" => get'[u].who = page[u].token
                    /\ post'[u].pc # "idle" => post'[u].who = page[u].token
<1>1. /\ get \in [Tab -> GetRow] /\ get[u] \in GetRow
      /\ post \in [Tab -> PostRow] /\ post[u] \in PostRow
      /\ get[u].pc # "idle" => get[u].who = page[u].token
      /\ post[u].pc # "idle" => post[u].who = page[u].token
  BY DEF PageRows, OneVoice
<1>2. ASSUME NEW t \in Tab, Refresh(t) PROVE Right
  <2>1. PICK who \in Identities(t) :
          get' = [get EXCEPT ![t] = [NoGet EXCEPT !.pc = "round", !.who = who]]
    BY <1>2 DEF Refresh
  <2>2. t = u => who = page[u].token
    BY TokenSettlesIdentity DEF OneVoice
  <2>3. UNCHANGED post
    BY <1>2 DEF Refresh
  <2>4. QED
    BY <1>1, <2>1, <2>2, <2>3 DEF NoGet
<1>3. ASSUME NEW t \in Tab, NEW s \in Song, Tap(t, s) PROVE Right
  <2>1. PICK who \in Identities(t) :
          post' = [post EXCEPT ![t] = [NoPost EXCEPT !.pc = "sent", !.who = who,
                        !.song = s, !.retract = s \in page[t].shown,
                        !.seen = page[t].shown]]
    BY <1>3 DEF Tap
  <2>2. t = u => who = page[u].token
    BY TokenSettlesIdentity DEF OneVoice
  <2>3. UNCHANGED get
    BY <1>3 DEF Tap
  <2> DEFINE sent == [NoPost EXCEPT !.pc = "sent", !.who = who,
                        !.song = s, !.retract = s \in page[t].shown,
                        !.seen = page[t].shown]
  <2>4. sent.who = who
    BY DEF NoPost
  <2> HIDE DEF sent
  <2>5. post' = [post EXCEPT ![t] = sent]
    BY <2>1 DEF sent
  <2>6. QED
    BY <1>1, <2>2, <2>3, <2>4, <2>5
<1>4. ASSUME NEW t \in Tab,
             GetReadsRound(t) \/ GetReadsVotes(t) \/ GetReply(t) \/ GetFails(t)
      PROVE  Right
  BY <1>1, <1>4 DEF GetReadsRound, GetReadsVotes, GetReply, GetFails, NoGet, GetRow
<1>5. ASSUME NEW t \in Tab,
             \/ PostReadsRound(t) \/ PostCommits(t) \/ PostRereadsRound(t)
             \/ PostReadsVotes(t) \/ PostReply(t) \/ PostFails(t)
      PROVE  Right
  BY <1>1, <1>5
  DEF PostReadsRound, PostCommits, PostRereadsRound, PostReadsVotes, PostReply, PostFails,
      NoPost, PostRow
<1>6. CASE UNCHANGED <<get, post>>
  BY <1>1, <1>6
<1>7. QED
  BY <1>2, <1>3, <1>4, <1>5, <1>6
  DEF PageNext, SetRules, pageVars, LoopStep, LoopTick, LoopFollow, LoopBuild, LoopSend,
      LoopSleep, GetStep,
      PostStep, Connect, Push, GoSilent, PingTimeout, Close

\* A socket that is open was open before, for the same voter, or has just been
\* opened with what the page goes by.
LEMMA SocketsStay ==
  ASSUME PageRows, [PageNext]_pageVars, NEW u \in Tab, socket'[u].joined
  PROVE  \/ socket[u].joined /\ socket'[u].who = socket[u].who
         \/ socket'[u].who \in Identities(u)
<1> DEFINE Right == \/ socket[u].joined /\ socket'[u].who = socket[u].who
                    \/ socket'[u].who \in Identities(u)
<1>1. socket \in [Tab -> SocketRow] /\ socket[u] \in SocketRow
  BY DEF PageRows
<1>2. ASSUME NEW t \in Tab, Connect(t) PROVE Right
  <2>1. PICK who \in Identities(t) :
          \E queue :
            socket' = [socket EXCEPT ![t] =
              [who |-> who, believed |-> TRUE, joined |-> TRUE, silent |-> FALSE,
               queue |-> queue]]
    BY <1>2 DEF Connect
  <2>2. QED
    BY <1>1, <2>1
<1>3. ASSUME NEW t \in Tab, Push(t) \/ GoSilent(t) \/ PingTimeout(t) \/ Close(t)
      PROVE  Right
  <2>1. CASE Push(t)
    BY <1>1, <2>1 DEF Push, SocketRow
  <2>2. CASE GoSilent(t) \/ PingTimeout(t)
    BY <1>1, <2>2 DEF GoSilent, PingTimeout, SocketRow
  <2>3. CASE Close(t)
    BY <1>1, <2>3 DEF Close, Closed, SocketRow
  <2>4. QED
    BY <1>3, <2>1, <2>2, <2>3
<1>4. CASE LoopSend
  <2>1. PICK t \in loop.todo :
          \/ UNCHANGED socket
          \/ \E queue : socket' = [socket EXCEPT ![t].queue = queue]
    BY <1>4 DEF LoopSend
  <2>2. QED
    BY <1>1, <2>1 DEF SocketRow
<1>5. CASE UNCHANGED socket
  BY <1>5
<1>6. QED
  BY <1>2, <1>3, <1>4, <1>5
  DEF PageNext, SetRules, pageVars, LoopStep, LoopTick, LoopFollow, LoopBuild, LoopSleep,
      Refresh, GetStep,
      GetReadsRound, GetReadsVotes, GetReply, GetFails, Tap, PostStep, PostReadsRound,
      PostCommits, PostRereadsRound, PostReadsVotes, PostReply, PostFails

\* So one voice stays one voice.
LEMMA OneVoiceStep ==
  ASSUME PageRows, [PageNext]_pageVars, NEW t \in Tab, OneVoice(t)
  PROVE  OneVoice(t)'
<1>1. page'[t].token = page[t].token /\ page[t].token # NoVoter
  BY TokensStay DEF OneVoice
<1>2. socket'[t].joined => socket'[t].who = page[t].token
  BY <1>1, SocketsStay, TokenSettlesIdentity DEF OneVoice
<1>3. QED
  BY <1>1, <1>2, RequestsStay DEF OneVoice

\* Where localStorage keeps the token, every request and socket of a page carries
\* that one token for as long as the page lives (vote.html:478-500, 1134-1145).
THEOREM PagesSpeakForThemselves ==
  ASSUME \A t \in Tab : NoVoter \notin OwnTokens[t]
  PROVE  PageSpec => [](\A t \in Tab : OneVoice(t)) /\ []SocketSpeaksForThePage
<1>1. PageInit => \A t \in Tab : OneVoice(t)
  BY DEF PageInit, OneVoice, NoGet, NoPost, Closed
<1>2. PageInv /\ (\A t \in Tab : OneVoice(t)) /\ [PageNext]_pageVars
        => (\A t \in Tab : OneVoice(t))'
  BY OneVoiceStep DEF PageInv
<1>3. (\A t \in Tab : OneVoice(t)) => SocketSpeaksForThePage
  BY DEF OneVoice, SocketSpeaksForThePage, Impostor
<1>4. QED
  BY <1>1, <1>2, <1>3, PageInvariant, PTL DEF PageSpec

\* Without it, a page can part from its socket in one way only: the socket was
\* opened before the page adopted a token from a reply (vote.html:493-500).
THEOREM ImpostorsComeFromAdoption ==
  PageSpec =>
    [][\A t \in Tab : ~Impostor(t) /\ Impostor(t)' =>
         /\ page[t].token = NoVoter
         /\ socket[t].joined /\ UNCHANGED socket]_pageVars
<1>1. ASSUME PageInv, [PageNext]_pageVars, NEW t \in Tab, ~Impostor(t), Impostor(t)'
      PROVE  /\ page[t].token = NoVoter
             /\ socket[t].joined /\ UNCHANGED socket
  <2>1. PageRows /\ page[t] \in PageRow
    BY <1>1 DEF PageInv, PageRows
  <2>2. page[t].token = NoVoter
    BY <1>1, <2>1, TokensStay, SocketsStay, TokenSettlesIdentity DEF Impostor
  <2>3. page'[t].token # page[t].token
    BY <1>1, <2>2 DEF Impostor
  <2>4. ASSUME NEW u \in Tab, Push(u) PROVE FALSE
    BY <2>1, <2>3, <2>4 DEF Push, PageRows, PageRow
  <2>5. page' # page
    BY <2>3
  <2>6. UNCHANGED socket
    BY <1>1, <2>4, <2>5
    DEF PageNext, SetRules, pageVars, LoopStep, LoopTick, LoopFollow, LoopBuild, LoopSend,
        LoopSleep, Refresh,
        GetStep, GetReadsRound, GetReadsVotes, GetReply, GetFails, Tap, PostStep,
        PostReadsRound, PostCommits, PostRereadsRound, PostReadsVotes, PostReply,
        PostFails, Connect, GoSilent, PingTimeout, Close
  <2>7. QED
    BY <1>1, <2>2, <2>6 DEF Impostor
<1>2. PageInv /\ [PageNext]_pageVars =>
        [\A t \in Tab : ~Impostor(t) /\ Impostor(t)' =>
           /\ page[t].token = NoVoter
           /\ socket[t].joined /\ UNCHANGED socket]_pageVars
  BY <1>1
<1>3. QED
  BY <1>2, PageInvariant, PTL DEF PageSpec
===============================================================================
