# TLA+ models of FPP Voting

FPP Voting lets the audience of a light show choose the next song. FPP (the
Falcon Player) plays a playlist whether or not anyone votes; a small service
watches it, opens one *round* per song, collects votes for the next song over
HTTP, and shortly before (or just after) the song ends asks FPP to jump to the
winner. Everything durable is in one SQLite file. Paths below are relative to
`src/src/fppvote/`; the line numbers of every definition are in `PROJECT.json`.

## The system

| Component | State | Operations | Modelled |
|---|---|---|---|
| Voting store (`db/store.py`, `db/schema.sql`) | tables `rounds`, `votes`, `songs`, the voting settings | `ensure_round`, `close_open_round`, `set_winner`, `cast_vote`, `retract_vote`, `winner`, `locked_keys`, setters | yes: `BallotStore`, `Ballot` |
| Follower (`service/follower.py`) | followed round, voteable keys, rounds handed over, playlist cache | `tick`: status, playlist, rounds, late and on-time handover | yes: `Follower` |
| Request path, voting admin (`service/server.py`) | none of its own | `POST /api/vote`, `/api/admin/*`, the `_run` loop | yes: `Service` |
| Song catalogue (`db/store.py`, `catalog/reconcile.py`) | `songs`, `song_aliases`, `show_songs`, categories and their vocabulary | alias, merge, delete, exclude, sync a show, categories | partly: `Catalog` |
| Reconcile (`catalog/reconcile.py`) | none | which memberships a sync activates and deactivates | yes: `Catalog` |
| Tally (`db/store.py`) | a reset marker in `settings` | cumulative tally, reset | yes: `Catalog` |
| Connections and migration (`db/connection.py`) | one connection per thread, schema version, voter salt | connect, script, ladder, transaction | yes: `Connection` |
| MQTT (`fpp/mqtt.py`) | last value of each topic and its age | status assembly, freshness, HTTP fallback, publish then post | yes: `MqttService` |
| Snapshot and Hub (`service/server.py`) | sockets, last shared payload | `build_state`, join, leave, broadcast | partly: `VoterPage` |
| Voter page (`web/static/vote.html`) | token, last payload applied, vote in flight, socket | boot, poll, tap, apply, connect | partly: `VoterPage` |
| FPP REST adapter (`fpp/http.py`) | none | `start_at_item`, `get_status`, `get_playlist` | partly: `Follower`, `MqttService` |
| Fake adapter, parser and slugs, metadata, configuration, admin page, tools, deploy scripts | nothing voting depends on | | no |

How they interact. `_run` calls `tick` in a thread, builds one payload and
broadcasts it to every socket; a tick reads FPP (MQTT while it is fresh, HTTP
otherwise) and reads and writes the store. Requests run on a pool of threads and
read the follower's state without a lock, then enter the store. The page gets
payloads from three sources, the socket, its poll and the answers to its votes.
Every thread has its own connection to the one file, opened on first use.

What is hard about it:

* **Interleaving.** A follower pass is a chain of a dozen database and HTTP
  calls on one thread; requests run between any two of them; FPP changes songs
  whenever it likes. A payload is built by many reads.
* **Stale state.** A request reads the followed round, the voting switch and
  the voteable keys one after the other and only then enters the store. A pass
  works from a status snapshot, the playlist from a cache, the MQTT view from
  the last message of each topic, the page from the last payload to arrive.
* **Failure.** FPP or the broker may be gone, a command may be lost, any call in
  a pass may raise (and is swallowed), a reply may be lost after the server did
  its part, a socket may die unnoticed, a process or the power may go.
* **Ordering and "exactly once".** A handover must happen for every round that
  was replaced and at most once per round; a migration rung is climbed once.
* **History-derived rules.** The locked songs, the tie-break and the tallies
  are queries over `rounds` and `votes`, and renames rewrite both.

What makes each part correct: at most one round is open and it is the newest;
ended rounds gain nothing; nobody exceeds the allowance or votes for a song that
is playing or cooling down; ballots vanish only by their owner's hand (store).
Only a seen stop or a seen new song ends a round; every replaced round is
decided; FPP is asked at most once per round and for the recorded winner
(follower, with or without MQTT). A request is handed the open round or the one
that has just ended, never an older one (request path).
Renames carry history, lose no ballot and never chain; a sync touches one show
(catalogue). The tally holds what was cast after its marker, and only a late reset
moves that back (tally). The file is always a whole schema with one salt
(connections). The page settles on the server's answer, a tap does what the page
showed, and no viewer holds the loop for ever (page).

## The modules

`Ballot` is the abstract specification: rounds opened one at a time, ballots
only into the open one and within a limit, withdrawn or moved only by their
owner. It knows nothing of locks, catalogues or followers.

`Handover` is the abstract specification of the follower's bookkeeping: a round
that is replaced is *owed* a decision, which comes before anything else; a round is
decided once; its winner goes on record and only then is FPP asked for it; an
exception forsakes what is due and a restart forgets all but the record. It has no
player, playlist, clock or database. `Bookkeeping` in `Service` maps to it:
`superseded` without what is handed over is what is owed, `fs.handed` what is
decided, and what lies between the decision and the jump (`Promise`) comes from
`tick.pc`.

`VotingFile` is the abstract specification of the database file: created at the
latest version or climbing to it one rung at a time, keeping what was curated by
hand, with one salt, store methods whole or not at all, and power cuts back to what
was saved. It has no openers, locks or scripts. `Promised` in `Connection` maps to
it by leaving out tables and columns, so the statements of the script on a fresh
file are stutters but the last.

`BallotStore` is the voting part of the database, one action per method of
`Store`, each atomic because the method is one transaction or one statement.
`rounds` is the table in `round_id` order, `votes` a set (the unique index
makes it one), `songs` the keys that have a row, `excluded` the flag on them.
`Abstraction` in it maps the store to `Ballot`. Rows keep their foreign keys:
`EnsureRound`, `SetWinner`, `CastVote` need the song's row, `DeleteSong` refuses
a song with history. Song keys are resolved already. The modules over it:

`Follower` splits `tick` where another thread, FPP or an exception can come in
between. `tick.pc` is the next call: `leave` (FPP was idle and the round is closed,
but `state.round_id` still names it), `fetch` (playlist and voteable keys),
`catalogue` (the song's row), `ensure` (the round), `follow` (the assignment of
`state.round_id` after `ensure_round` has committed), `late`/`lateRecord`/
`latePlay` (the late handover), `ontime`/`record`/`play` (the on-time one).
`tick` also keeps what the pass read: the song, whether FPP named a playlist,
whether it is in the handover window, the previous round, the winner. `fs` is
`FollowerState`, `cache` the playlist cache. The player, the playlist and the
link to FPP are external and move by themselves. `superseded` and `commands`
are history variables that properties speak about, no code.

`Service` (over `Follower`) adds the clients. A request goes through the four
reads of `post_vote` in order (`Tap`, `CheckEnabled`, `ReadValid`, `Commit*`);
two clients may hold one token. The admin endpoints that bear on voting are one
action each (`UpdateShow`, `UpdateSong`, `RemoveSong`, `Reconcile`, `SetVoting`,
`SetRules`), and `Restart` loses everything but the database.

`MqttService` (over `Service`) replaces what a pass sees and how it jumps. `view`
holds the adapter's fields, each set by its own message from what FPP is doing at
that moment; `Seen` is `get_status`, with freshness and the HTTP fallback;
`Launch` is `start_at_item`, published without knowing whether FPP hears it, or
posted. All the other steps of a pass and of a request are `Service`'s own.

`Catalog` (over `BallotStore`) takes raw keys and resolves them as each method
does. `SyncShow` is one transaction. Four methods read first and write later and are
two steps each, with anything in between: `set_categories` (`assigning` holds what it
checked), `add_alias` and `merge_songs` (`renaming` holds the keys they resolved and,
for a merge, whether the surviving song had categories; `FinishRename` writes, or is
refused by a foreign key or the unique index), and `reset_tally` (`resetting` holds,
per request thread, the instant it read). `stamp`, `now` and `since` are the clock of
ballots and of the tally's marker; the clock ticks twice a second, because the marker
is finer than `created_at`. `overtaken` is history. One rename is under way at a
time: the server has no endpoint for them, they are called by hand from a script.

`VoterPage` (over `BallotStore`) has, per tab, the page, the state fetch, the vote
and the socket. A payload is the followed round and, a step later, its ballots.
`LoopTick`, `LoopFollow`, `LoopBuild`, `LoopSend`, `LoopSleep` are `_run`; the follower
is reduced to its round, which is opened in one step and followed in the next. The
admin may move the allowance (`SetRules`), and at one vote per round a tap moves the
voter's ballot. `post.seen`, what the page showed at the tap, is history. A reply may
be lost at any point, also after the commit, and a socket may go silent with both ends
thinking it is up. A tab has one state fetch in flight: its timers may start another
before the first is back, which brings nothing that a push between the two does not.

`Connection` stands by itself: the openers, the version read outside any
transaction, `executescript` statement by statement, the two rungs of the ladder,
transactions in two levels, the salt made on first use. `disk` is what is
committed, `draft` the open transaction, `synced` what a power cut falls back to.

`MCBallotStore`, `MCService`, `MCCatalog`, `MCMqtt`, `MCPage` and `MCConnection`
hold bounds only. The modules named `*Proofs` hold the proofs.

Abstracted: titles are their collation rank, a voter is the hash of a token,
`show_id` of a round (a display guess by the schema's own account) and, outside
`Catalog`, time stamps are left out, and "inside the handover window" is a bit
of the player. When every show is deactivated in the middle of a pass and none
was ever resolved, the pass ends early; the model covers that as an exception at
that point. In `Connection` rows are reduced to what the category migration and
one method of two writes do to them.

## The runs

| Run | What is free | What it shows |
|---|---|---|
| `store` | every store call in any order, 2 voters, 5 songs, 2 rounds, cooldowns 1 and 2 | one open round, limits, locks, sealed rounds, `Ballot` implemented |
| `races` | 2 voters, 2 taps, 2 song changes, cooldown 1 | decisions for every replaced round, `Handover` implemented, winners respect the cooldown, ballots vanish only by their owner, a jump starts the winner |
| `faults` | 1 voter, 1 tap, 2 song changes, 2 faults of any kind, 1 admin request | rounds end only when seen, the followed round is open, one command per round |
| `live` | 1 voter, 1 tap, 2 song changes, 1 fault, fair loop and requests | rounds follow FPP, idle ends the round, winners come on, replaced rounds are decided |
| `catalog` | 1 voter, 3 songs, 2 shows, 1 category, 2 admins, any deletions, and one of: 2 renames with 1 round, 2 ballots, 1 exclusion, 1 sync, 2 label changes; 3 label changes with 1 rename, 1 sync, 1 exclusion; 3 resets and 3 ticks with 1 round, 2 ballots, 1 rename | renames carry history and do not chain, no ballot lost or doubled, one show per sync, orphans reported, the tally starts at its marker |
| `mqtt` | 2 songs, 1 voter, 2 messages, 1 song change, 1 tap, 1 fault, fair loop | a silent broker ends up where HTTP alone would; a dead one does not stop the winner |
| `page` | 1 tab with its own token or none, pushes buffered 1 deep; 2 songs with 2 taps and 1 song change or 1 tap and 2, and 1 fault; or 3 songs, a tab with a token, 2 taps, 1 song change and 1 change of the allowance | the page converges, a tap means what it showed, the next tap is taken, a broadcast ends |
| `migration` | 2 openers, every version of file, 2 salts, 2 votes, 1 edit, 1 nested method, 2 of crash, power cut, timeout, exception | never half a schema or half a method, one salt, `VotingFile` implemented, everybody gets in |
| `dropped`, `stale_index`, `mqtt_early`, `page_identity` | small instances of the above | the four disagreements below |

Bounds. Five songs in `store` let a voter try a fourth ballot at allowance 3 while
one song plays; two rounds let a round be superseded, ended and voted on late.
`Budget`, `Chores`, `Messages`, `Quotas` and `Allowance` bound how often each outside
event happens in a run; none of them bounds the follower, the loop, the requests or
the openers. `MaxRounds` is larger than any budget can reach in the safety runs of
the service, so it never disables `EnsureRound` there. Two song changes and a jump
give three rounds in a row, enough for a late handover of a round whose successor is
itself replaced. The runs with one initial catalogue leave a song of the playlist
without a row, so that the pass has to add it. Two renames let one merge be stacked
on another or on an alias; two ballots of one voter let a merge meet the unique
index; three ticks put a ballot before, in and after the second of a reset, and with
two admins a reset can overtake another. Two messages and what FPP does between them
make a view that was never true at any one time. A third song in `page`, beside the
one that is on, lets a tap move a ballot at an allowance of one. `Buffer` is one so
that the loop has to wait for a socket. Two openers are enough to race on the version
and on the salt, and two faults to fall back to an earlier commit and crash again.

Symmetry is used in `store` (voters and songs) and `catalog` (songs, shows, admins),
where no liveness is checked and all titles collate alike. `catalog` does not check
for deadlock, because its chores run out.

Fairness. `_run` is `while True` with every exception caught, and each pass
either goes on or gives up, so the loop is weakly fair (`TickStep`, `MqttTick`,
`LoopStep`); request threads come from a pool and run to completion
(`RequestStep`, `GetStep`, `PostStep`). `FairMqtt` owes nobody a message.
`PageFairness` adds the page's timers (`Refresh`), the server's ping and delivery
over a path that works; nobody has to notice a dead socket, reconnect or tap.
`FairConnection` says that each opener keeps using the file and that SQLite lets
each writer in eventually. Nothing is assumed of FPP, people, the admin or the
link; liveness properties that speak of FPP state what FPP does as a premise.
`live` takes a broadcast to return between two passes; `page` is where a viewer
can hold it, until the ping times out.

## What the code does that its words do not say

* `WinnerNeverDropped`: "the point is that a winner is never silently dropped"
  (`follower.py:277-278`). The on-time path marks the round before it asks for
  a winner; when nobody has voted yet, a ballot cast in the remaining seconds
  is accepted and never decided.
* `StartsTheWinner`: the index is "looked up fresh every time it is needed"
  (`follower.py:140-142`). It comes from a cache of up to a minute, so after an
  edit the jump lands on another song.
* `RoundsDecidedNearTheirEnd`: the winner takes over "by jumping ~2s before the
  current song ends" (`follower.py:14-15`). MQTT topics arrive one by one
  (`mqtt.py:115`), so a pass between the new sequence and the next details sees
  the new song with the old song's last seconds, and decides its round at once.
* `SocketSpeaksForThePage`: the first fetch is awaited "so we always know who we
  are before subscribing" (`vote.html:1134-1136`). A first fetch that fails is
  swallowed and the socket opens all the same; without storage and cookie it
  subscribes as somebody the page will never be, and pushes another voter's
  selection.

Also met and not counted: retraction deletes ballots, from ended rounds too, where
`schema.sql:23-24` calls votes append-only; the replies `voting_stopped` and
`no_round` carry no state, yet the page applies them as one and shows an empty list
until the next payload; `sync_show` writes parsed keys raw, so a merged song gets a
row back beside the alias that hides it; a ballot of the second in which the tally is
reset is not counted, because the marker has milliseconds and ballots have none; a
reset that waits for the lock after reading the clock does not leave the tally empty,
and of two resets at once the one that read the clock first may write last and move
the marker back, where `store.py:1160` says "forward"; a merge adopts the old song's
categories when the new one had none before its transaction, also if it was given
some since; a song taken off the excluded list between the check and the `DELETE` of
`delete_song` goes all the same (if it has no history: the foreign keys see to that),
which is modelled as the deletion coming first; `schema.sql:104-105` says a round
ends with its winner equal to the next round's song.

## What is proved

All theorems hold for any value of the constants that meets the assumptions each
module states: any number of voters, songs, rounds, tabs, openers, shows.

`BallotStoreProofs` (under `StoreAssumption`): `StoreTyped`, `OneOpenRound`,
`BallotsBounded`, `LockHolds`, `HistoryIsComplete`, `EndedRoundsSealed`,
`AllowanceInForce`, and `StoreImplementsBallot`, the refinement of `Ballot`.
`WinnerIsSettled` is about `winner()`: a round with a ballot always has one, it has
the most votes, and two songs can both be it only if votes, last play and title all
tie, so that the row `LIMIT 1` takes is up to SQLite only then. (The lemma behind it,
`WinnerExists`, takes the largest tally and then the least last play, which exist
because tallies and rounds are bounded; nothing is assumed of titles but that they
are numbers.) The inductive invariant `StoreInv` is the conjunction of the five
invariants. None but the type invariant stands alone: that the open round is the
newest is what makes the window of `locked_keys`, computed from the newest rounds,
the window of the round that takes the ballot; that ballots only name existing rounds
is what keeps a new round's window from touching old ballots.

`ServiceProofs` (with `FollowerAssumption`, `ServiceAssumption`) composes:
`ServiceTyped`, and `ServiceUsesStore`, the refinement `ServiceSpec => StoreSpec`:
whatever the follower, the requests and the admin do to the database is a sequence
of the store's methods. So everything proved of the store holds in the service;
`ServiceImplementsBallot` and `ServiceLockHolds` spell out two cases.

`HandoverProofs` is about the follower's bookkeeping. `HandoverInv` adds what a
pass owes between two of its calls. `OneCommandPerRound` is not inductive: it needs
that whatever was asked for is marked as handed over, and that a round decided but
not yet asked for (`Pending`) is marked and has not been asked for.
`FollowedRoundIsOpen` is what a request thread reads at any moment: the open round,
or, between the commit that ends it and the assignment that follows, the one this very
pass has ended. `WinnerRespectsCooldown` needs that the winner read by a pass is rested
(`PickRested`): its ballots may be gone by the time it is recorded, so
`NoBallotForLockedSong` says nothing of it any more. Together:
`FollowerFollowsOpenRound`, `ReplacedRoundsDecided`, `JumpsOnce`,
`JumpsMatchHistory`, `WinnersRespectCooldown`, and of single steps
`RoundsEndWhenSeen` and `BallotsAreTheirVoters`. On where a jump lands:
`CacheCurrentUntilEdit` (the cache is the playlist until somebody edits it),
`StalenessAlone` (a jump starts another song than the winner only when the cached
entries are no longer the playlist, and for no other reason), and
`JumpsStartTheirWinner`, which is `JumpStartsWinner` for every instance whose budget
has no edits; with an edit the run `stale_index` refutes it.

`BookkeepingProofs` shows that `Service` implements `Handover`
(`ServiceImplementsHandover`): one lemma per step of a pass says which abstract step
it is, and every request, admin request and move of the player is a stutter.
`HandoverInv` is not enough for it. `LedgerInv` (`LedgerInvariant`) adds that what was
handed over are rounds that exist, so that a new round was never decided; that while
no round is followed none that was decided is open, so that `ensure_round` cannot
find again what the loop has done with; and that the round a late handover is for is
one that was replaced. The refinement is over step sequences: that what is owed is
paid in the end is `SupersededGetDecided`, a liveness property.

`MqttProofs` (with `MqttAssumption`): all kinds of steps but five are `Service`'s
own, and those five keep `HandoverInv`. So the guarantees carry over although passes
believe stale messages and publishes may vanish: `MqttFollowsOpenRound`,
`MqttDecidesReplaced`, `MqttJumpsOnce`, `MqttJumpsMatchHistory`, `MqttUsesStore`,
`MqttImplementsBallot`, `MqttTyped`, `MqttKeepsBallots` and `MqttImplementsHandover`.
`RoundEndsOnlyWhenSeen` does not carry over, because what a pass sees is no longer
what FPP does; `MqttRoundsEndWhenBelieved` is what is left of it: a round ends only
on the adapter's word, and a pass that is told nothing ends none.

`CatalogProofs` (with `CatalogAssumption`): the voting steps are the store's, so
`StoreInv`'s lemmas serve them; merge and sync are proved by themselves. The
invariant falls into parts, `TablesInv`, `ShelfInv` (with `RenameInv`: the target of
a rename under way is no alias, and nothing forwards to a key that is about to become
one), `LabelInv` (an assignment under way names nothing the admin was not told of)
and `ClockInv`. `ResetIsFinal` says what is left of "a reset starts from nothing"
when the read and the write of the marker are apart. From the invariant:
`CatalogTyped`, `AliasesNeverChain`, `CatalogueKeepsHistory`, `OrphansAreKnown`,
`ResetIsFinal`, `OneShowAtATime` (given at least one show),
`BallotsOutliveTheCatalogue`, `HistoryFollowsTheKey`. Of the store's own promises,
those that renames could break are proved again over the catalogue:
`CatalogBallotsBounded`, `CatalogAllowanceInForce`, `CatalogOneOpenRound` and
`CatalogEndedRoundsSealed`, which counts ballots instead of naming them, since a
merge may rename what is in an ended round. The lock rule is not among them: a merge
may move a ballot onto a song that is cooling down.

`ConnectionProofs` (under `ConnectionAssumption`): `LadderInvariant` says of every
opener what its place in the ladder owes to the file, namely that what it has read
is never ahead of the file, that the script's tables are there up to where it has
got, and that inside a transaction its draft is the file with that one change. A
power cut keeps it because the file it goes back to was sound as well. From it:
`FileStaysWhole`, `SaltNeverChanges`, `LadderClimbsOnce`, and
`ConnectionImplementsVotingFile`, the refinement of `VotingFile`: a commit is one
abstract step because inside a transaction the lock holds the file still, and a crash
is a stutter because the draft dies with it.

`PageProofs` (with `PageAssumption`): `PageInv` says that nothing in flight speaks
for nobody, that the vote in flight and the page's flag agree, that no socket holds
more than its buffer. From it `PageTyped`,
`TapsAreHonoured` and `ViewersUseStore`, the refinement `PageSpec => StoreSpec`. Two
more say when `SocketSpeaksForThePage`, which the run `page_identity` refutes, does
hold: `PagesSpeakForThemselves` (always, if every tab finds a token in its storage),
and `ImpostorsComeFromAdoption` (a page parts from its socket only by adopting a token
with the socket open already).

Only model-checked, because liveness under fairness and ENABLED are outside the
prover: `SilentBrokerIsHarmless`, `DeadBrokerStillPlays`, `PageConverges`,
`NextTapIsTaken`, `BroadcastEnds`, `EverybodyOpens`, `RoundFollowsPlayer`,
`IdleEndsTheRound`, `WinnerIsPlayed`, `SupersededGetDecided`. Every other property of a
passing run is a theorem. `CommandsFollowRecord` and `ClimbsOnce` are proved and in no
run: the refinements that took their place in `races` and `migration` say more.

## Not modelled, and the plan

* Fake adapter: a stand-in for tests; `Follower` models the player itself.
  Parser, slugs, metadata: stateless text processing, keys are model values.
  Configuration: read once. Admin page: forms. Tools: one-shot openers of the
  database and callers of `Store` methods, covered as such. Deploy scripts:
  systemd's restart is `Restart`.
* Of the catalogue, `create_show`, `update_show` and the metadata fields; of
  `build_state`, the song list, the tally and the banner; of the page, filters,
  sorting and animation; of the REST adapter, payload parsing.
* `Connection`: a file replaced under a running process, and a version read that
  fails (`connection.py:81` takes any such error for an empty file).
* `MqttService`: messages held in the broker across a later change of the player;
  the admin's changes and exceptions inside a pass, which `Service` has.
* `cast_vote` is one step because it runs inside `BEGIN IMMEDIATE`; that lock is
  modelled in `Connection`, and no property would notice if `cast_vote` lost it. What
  `set_categories` writes over a vocabulary replaced meanwhile is excused by
  `overtaken`.
* `Catalog`: two renames at once, from two scripts.
* `Service`: a power cut may lose the last commits (`synchronous = NORMAL`);
  `Restart` is the death of the process, which loses none. Power cuts are in
  `Connection`, for the rows it keeps.

Next, in proofs: `CatalogSpec` as a refinement of an abstract history up to renaming,
and what a page shows after its last reply under an unchanged round. In the models, in
this order: two pages in one browser, which share cookie and storage; the
playlist's name and the show it resolves to, with a switch of shows in mid-round;
admin requests that write one field and refuse the next; the follower proper under
`VoterPage` instead of its round.
