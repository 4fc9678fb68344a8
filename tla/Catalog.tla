------------------------------- MODULE Catalog -------------------------------
(***************************************************************************)
(* The song catalogue around the voting tables: renames (song_aliases,     *)
(* merge_songs), deletion, per-show membership (sync_show, reconcile), the *)
(* category vocabulary and the cumulative tally                            *)
(* (src/fppvote/db/store.py, catalog/reconcile.py, the admin endpoints).   *)
(*                                                                         *)
(* BallotStore takes song keys already resolved; here they are raw, as FPP *)
(* and browsers send them, and every method resolves them as the code      *)
(* does. Four methods read first and write later, in another statement or  *)
(* transaction, and are two actions each: add_alias, merge_songs,          *)
(* set_categories and reset_tally. Anything may happen in between, but no  *)
(* second rename and no second assignment: renames are run by hand, by one *)
(* script at a time (the server calls neither method). The other methods   *)
(* are one action: one transaction, one statement, or a DELETE the foreign *)
(* keys hold to its check. sync_show is run by hand or by the admin page,  *)
(* at any moment of a show.                                                *)
(*                                                                         *)
(* Abstracted: titles, artists, years, overrides and playlist positions;   *)
(* shows are never deleted; every show in Show has its row.                *)
(***************************************************************************)
EXTENDS BallotStore, Functions

CONSTANTS
  Show,       \* the show_ids
  Category,   \* the names the vocabulary is made of
  Admin,      \* the request threads that may be serving a reset
  Seeds,      \* what show_songs may hold at first, all of it active
  Chores      \* BOUND: how often each kind of work may be done: [Work -> Nat]s

Work == {"rounds", "ballots", "renames", "exclusions", "syncs", "labels", "ticks", "resets"}

ASSUME CatalogAssumption ==
  /\ Chores \subseteq [Work -> Nat]
  /\ \A seed \in Seeds, known \in Catalogues : seed \subseteq Show \X known

VARIABLES
  alias,        \* song_aliases: the song a key forwards to, or NoSong
  members,      \* show_songs: the <<show, song>> pairs that have a row
  active,       \* those with active = 1
  renaming,     \* a rename between its reads and its writes: {} or one Rename
  tags,         \* songs.categories
  vocabulary,   \* the categories table
  assigning,    \* set_categories between its check and its write: {} or {[song, tags]}
  orphans,      \* what set_category_vocabulary last answered
  overtaken,    \* history: categories dropped while assigning named them
  stamp,        \* the instant each ballot was cast at; created_at is its second
  now,          \* the clock, in half seconds
  since,        \* setting tally_reset_at; 0 when never reset
  resetting,    \* reset_tally, per thread: the instant it read, 0 when not under way
  todo          \* what remains of the chores

shelfVars   == <<alias, members, active, renaming>>
labelVars   == <<tags, vocabulary, assigning, orphans, overtaken>>
clockVars   == <<stamp, now, since, resetting>>
catalogVars == <<storeVars, shelfVars, labelVars, clockVars, todo>>

\* add_alias(old, new) or merge_songs(old, new) with its keys resolved; bare is
\* what a merge read of new: it has no categories.
Rename == [op : {"alias", "merge"}, old : Song, new : Song, bare : BOOLEAN]

Do(work) ==
  /\ todo[work] > 0
  /\ todo' = [todo EXCEPT ![work] = @ - 1]

\* resolve_key: one hop, whatever the target's own aliases.
Resolve(k) == IF alias[k] = NoSong THEN k ELSE alias[k]

----------------------------------------------------------------------------
(* Voting, by raw key *)

Play(k) ==
  /\ Do("rounds")
  /\ EnsureRound(Resolve(k))
  /\ UNCHANGED <<shelfVars, labelVars, clockVars>>

Decide(r) ==
  /\ \E w \in Winners(r) : SetWinner(r, w)
  /\ UNCHANGED <<shelfVars, labelVars, clockVars, todo>>

Vote(r, v, k) ==
  /\ Do("ballots")
  /\ CastVote(r, v, Resolve(k), VoteableCatalog({Resolve(j) : j \in Song}))
  /\ stamp' = [b \in votes' |-> IF b \in votes THEN stamp[b] ELSE now]
  /\ UNCHANGED <<shelfVars, labelVars, now, since, resetting>>

Unvote(r, v, k) ==
  /\ Do("ballots")
  /\ RetractVote(r, v, Resolve(k))
  /\ stamp' = Restrict(stamp, votes')
  /\ UNCHANGED <<shelfVars, labelVars, now, since, resetting>>

----------------------------------------------------------------------------
(* Renames *)

\* Mutant: the alias is left pointing at a key that may itself be an alias.
StartAliasToKey(k, s) ==
  /\ Do("renames")
  /\ renaming = {}
  /\ k # s /\ k \notin songs
  /\ renaming' = {[op |-> "alias", old |-> k, new |-> s, bare |-> FALSE]}
  /\ UNCHANGED <<storeVars, alias, members, active, labelVars, clockVars>>

\* add_alias, the checks: refused for a key that is a song, or when it would
\* alias itself.
StartAddAlias(k, s) ==
  /\ Do("renames")
  /\ renaming = {}
  /\ k # Resolve(s) /\ k \notin songs
  /\ renaming' = {[op |-> "alias", old |-> k, new |-> Resolve(s), bare |-> FALSE]}
  /\ UNCHANGED <<storeVars, alias, members, active, labelVars, clockVars>>

\* merge_songs, the reads before its transaction.
StartMerge(k, n) ==
  /\ Do("renames")
  /\ renaming = {}
  /\ Resolve(k) # Resolve(n) /\ Resolve(n) \in songs
  /\ renaming' = {[op |-> "merge", old |-> Resolve(k), new |-> Resolve(n),
                   bare |-> tags[Resolve(n)] = {}]}
  /\ UNCHANGED <<storeVars, alias, members, active, labelVars, clockVars>>

\* Mutant: UPDATE OR REPLACE, so the unique index never objects.
NeverDoubled(old, new) == FALSE

\* A ballot of the old song that has one of the new song beside it.
Doubled(old, new) ==
  \E b \in votes : b.song = old /\ [b EXCEPT !.song = new] \in votes

\* Mutant: the aliases of the old key are left to the cascade.
ForwardOnlyOld(old, new) ==
  [k \in Song |-> IF k = old THEN new
                  ELSE IF alias[k] = old THEN NoSong ELSE alias[k]]

\* Whatever pointed at the old key, and the old key itself, now leads to new.
Forward(old, new) ==
  [k \in Song |-> IF k = old \/ alias[k] = old THEN new ELSE alias[k]]

\* The rounds with every mention of the old key replaced.
MovedRounds(old, new) ==
  LET To(s) == IF s = old THEN new ELSE s
  IN  [r \in DOMAIN rounds |->
         [rounds[r] EXCEPT !.song = To(@), !.winner = To(@)]]

\* The database refuses the write: the foreign key on song_aliases when the new
\* row has gone meanwhile, the unique index on votes when some voter holds
\* ballots for both songs in one round.
Refused(job) ==
  \/ job.new \notin songs
  \/ job.op = "merge" /\ Doubled(job.old, job.new)

\* add_alias, the INSERT. The key may have become a song since the check.
AddAlias(job) ==
  /\ job.op = "alias" /\ ~Refused(job)
  /\ alias' = [alias EXCEPT ![job.old] = job.new]
  /\ UNCHANGED <<storeVars, members, active, labelVars, clockVars, todo>>

\* merge_songs, the transaction, on keys and categories read before it began.
MergeSongs(job) ==
  LET old   == job.old
      new   == job.new
      To(s) == IF s = old THEN new ELSE s
  IN  /\ job.op = "merge" /\ ~Refused(job)
      /\ votes'   = {[b EXCEPT !.song = To(@)] : b \in votes}
      /\ stamp'   = [b \in votes' |->
                       IF b \in votes THEN stamp[b] ELSE stamp[[b EXCEPT !.song = old]]]
      /\ rounds'  = MovedRounds(old, new)
      /\ songs'   = songs \ {old}
      /\ excluded' = excluded \ {old}
      /\ alias'   = Forward(old, new)
      /\ members' = {<<m[1], To(m[2])>> : m \in members}
      /\ active'  = {<<m[1], To(m[2])>> : m \in active}
      /\ tags'    = [tags EXCEPT ![old] = {},
                                 ![new] = IF job.bare /\ tags[old] # {} THEN tags[old] ELSE @]
      /\ UNCHANGED <<allowance, cooldown, enabled, vocabulary, assigning, orphans,
                     overtaken, now, since, resetting, todo>>

\* Refused, and all of it rolled back.
AbandonRename(job) ==
  /\ Refused(job)
  /\ UNCHANGED <<storeVars, alias, members, active, labelVars, clockVars, todo>>

FinishRename ==
  /\ \E job \in renaming : AddAlias(job) \/ MergeSongs(job) \/ AbandonRename(job)
  /\ renaming' = {}

----------------------------------------------------------------------------
(* Removals *)

Exclude(k, out) ==
  /\ Do("exclusions")
  /\ SetExcluded(Resolve(k), out)
  /\ UNCHANGED <<shelfVars, labelVars, clockVars>>

\* Mutant: a connection with foreign keys off deletes nothing but the row.
DeleteWithoutCascade(k) ==
  /\ DeleteSong(Resolve(k))
  /\ UNCHANGED <<shelfVars, labelVars, clockVars, todo>>

\* delete_song: memberships and aliases go with the row (ON DELETE CASCADE).
Delete(k) ==
  /\ DeleteSong(Resolve(k))
  /\ alias'   = [j \in Song |-> IF alias[j] = Resolve(k) THEN NoSong ELSE alias[j]]
  /\ members' = {m \in members : m[2] # Resolve(k)}
  /\ active'  = active \cap members'
  /\ tags'    = [tags EXCEPT ![Resolve(k)] = {}]
  /\ UNCHANGED <<renaming, vocabulary, assigning, orphans, overtaken, clockVars, todo>>

----------------------------------------------------------------------------
(* Membership *)

\* Mutant: whose membership it is is not asked when songs are deactivated.
ReconciledEverywhere(x, keys) == {m \in active : m[2] \in keys} \cup {x} \X keys

\* reconcile: the show's keys are active, its other members no longer are.
Reconciled(x, keys) == {m \in active : m[1] # x} \cup {x} \X keys

\* sync_show: upsert, load, reconcile and save in one transaction. The parsed
\* keys are written raw: an alias among them gets a songs row of its own.
SyncShow(x, keys) ==
  /\ Do("syncs")
  /\ songs'   = songs \cup keys
  /\ members' = members \cup {x} \X keys
  /\ active'  = Reconciled(x, keys)
  /\ UNCHANGED <<rounds, votes, excluded, allowance, cooldown, enabled, alias,
                 renaming, labelVars, clockVars>>

----------------------------------------------------------------------------
(* Categories *)

\* Mutant: the vocabulary is not consulted.
AnyLabel(cs) == TRUE

\* list_categories: every name must be in the vocabulary.
Known(cs) == cs \subseteq vocabulary

\* set_categories, the check; a ValueError changes nothing.
StartSetCategories(k, cs) ==
  /\ Do("labels")
  /\ assigning = {}
  /\ Known(cs)
  /\ assigning' = {[song |-> k, tags |-> cs]}
  /\ UNCHANGED <<storeVars, shelfVars, tags, vocabulary, orphans, overtaken, clockVars>>

\* set_categories, the UPDATE, which finds the row under the resolved key.
FinishSetCategories ==
  /\ \E job \in assigning :
       tags' = IF Resolve(job.song) \in songs
                 THEN [tags EXCEPT ![Resolve(job.song)] = job.tags]
                 ELSE tags
  /\ assigning' = {}
  /\ UNCHANGED <<storeVars, shelfVars, vocabulary, orphans, overtaken, clockVars, todo>>

\* Replace the vocabulary; the answer lists what songs still carry without it.
SetCategoryVocabulary(names) ==
  /\ Do("labels")
  /\ vocabulary' = names
  /\ orphans' = (UNION {tags[s] : s \in songs}) \ names
  /\ overtaken' = overtaken \cup ((UNION {job.tags : job \in assigning}) \ names)
  /\ UNCHANGED <<storeVars, shelfVars, tags, assigning, clockVars>>

----------------------------------------------------------------------------
(* The cumulative tally *)

\* created_at has whole seconds, the clock and the marker have finer instants.
Second(instant) == instant \div 2

\* Mutant: the marker keeps only whole seconds, as created_at does.
CountedFromSecond == {b \in votes : since = 0 \/ Second(stamp[b]) >= Second(since)}

\* cumulative_tally: created_at >= marker, compared as text. The marker has
\* milliseconds and created_at none, so a ballot of the marker's own second
\* sorts before it.
Counted == {b \in votes : since = 0 \/ Second(stamp[b]) > Second(since)}

\* reset_tally, the SELECT of the clock.
StartReset(t) ==
  /\ Do("resets")
  /\ resetting[t] = 0
  /\ resetting' = [resetting EXCEPT ![t] = now]
  /\ UNCHANGED <<storeVars, shelfVars, labelVars, stamp, now, since>>

\* reset_tally, the write of the marker, which may have waited for the lock
\* while ballots were cast or another reset wrote a later one.
FinishReset(t) ==
  /\ resetting[t] # 0
  /\ since' = resetting[t]
  /\ resetting' = [resetting EXCEPT ![t] = 0]
  /\ UNCHANGED <<storeVars, shelfVars, labelVars, stamp, now, todo>>

TimePasses ==
  /\ Do("ticks")
  /\ now' = now + 1
  /\ UNCHANGED <<storeVars, shelfVars, labelVars, stamp, since, resetting>>

----------------------------------------------------------------------------
CatalogInit ==
  /\ StoreInit
  /\ alias = [k \in Song |-> NoSong]
  /\ members \in Seeds /\ active = members
  /\ renaming = {}
  /\ tags = [k \in Song |-> {}]
  /\ vocabulary = Category
  /\ assigning = {} /\ orphans = {} /\ overtaken = {}
  /\ stamp = [b \in {} |-> 0]
  /\ now = 1 /\ since = 0
  /\ resetting = [t \in Admin |-> 0]
  /\ todo \in Chores

CatalogNext ==
  \/ \E k \in Song : Play(k) \/ Delete(k)
  \/ \E k \in Song, out \in BOOLEAN : Exclude(k, out)
  \/ \E r \in DOMAIN rounds : Decide(r)
  \/ \E r \in DOMAIN rounds, v \in Voter, k \in Song : Vote(r, v, k) \/ Unvote(r, v, k)
  \/ \E k, s \in Song : StartAddAlias(k, s) \/ StartMerge(k, s)
  \/ FinishRename
  \/ \E x \in Show, keys \in SUBSET Song : SyncShow(x, keys)
  \/ \E k \in Song, cs \in SUBSET Category : StartSetCategories(k, cs)
  \/ FinishSetCategories
  \/ \E names \in SUBSET Category : SetCategoryVocabulary(names)
  \/ \E t \in Admin : StartReset(t) \/ FinishReset(t)
  \/ TimePasses

CatalogSpec == CatalogInit /\ [][CatalogNext]_catalogVars

----------------------------------------------------------------------------
(* Properties *)

CatalogTypeOK ==
  /\ TypeOK
  /\ alias \in [Song -> Song \cup {NoSong}]
  /\ members \subseteq Show \X songs
  /\ active \subseteq members
  /\ renaming \in SUBSET Rename
  /\ tags \in [Song -> SUBSET Category]
  /\ \A s \in Song \ songs : tags[s] = {}
  /\ vocabulary \subseteq Category
  /\ assigning \in SUBSET [song : Song, tags : SUBSET Category]
  /\ orphans \subseteq Category /\ overtaken \subseteq Category
  /\ stamp \in [votes -> 1..now]
  /\ now \in Nat \ {0} /\ since \in 0..now
  /\ resetting \in [Admin -> 0..now]
  /\ todo \in [Work -> Nat]

\* However renames are stacked, one hop of resolve_key reaches a song that has
\* its row and is nobody's alias (store.py:445-449, 501-514, 564-568).
NoAliasChains ==
  \A k \in Song : alias[k] # NoSong =>
    alias[k] \in songs /\ alias[alias[k]] = NoSong

VotersOf(r, s) == {b.voter : b \in {x \in votes : x.round = r /\ x.song = s}}

\* When the song a key leads to loses its row, the key leads on to the song
\* that took over its rounds, wins and ballots, or else there were none
\* (store.py:516-520, 559-568, 605-607).
RenamesCarryHistory ==
  [][\A k \in Song :
       LET s == Resolve(k)
           t == Resolve(k)'
       IN  s \in songs \ songs' =>
             \/ ~Referenced(s)
             \/ /\ t \in songs'
                /\ \A r \in DOMAIN rounds :
                     /\ rounds[r].song = s => rounds'[r].song = t
                     /\ rounds[r].winner = s => rounds'[r].winner = t
                     /\ VotersOf(r, s) \subseteq VotersOf(r, Resolve(k))'
    ]_catalogVars

\* Nothing that changes the songs table changes how many ballots a voter holds
\* in any round: a merge never turns two of them into one (store.py:561).
CatalogueKeepsBallots ==
  [][songs' # songs =>
       \A r \in DOMAIN rounds, v \in Voter :
         Cardinality(Selection(r, v)') = Cardinality(Selection(r, v))]_catalogVars

\* As long as no song row goes, no membership row goes, and one step changes
\* the active members of one show only (reconcile.py:18-20, 81-84).
SyncTouchesOneShow ==
  [][songs \subseteq songs' =>
       /\ members \subseteq members'
       /\ \E x \in Show : \A m \in Show \X Song :
            m[1] # x => (m \in active) = (m \in active')]_catalogVars

\* A category a song carries outside the vocabulary was in the admin's last list
\* of orphans, unless it was dropped while being assigned: set_categories writes
\* after its check, and that answer misses it (store.py:350-366, 648-662).
OrphansAreReported ==
  \A s \in songs : tags[s] \subseteq vocabulary \cup orphans \cup overtaken

\* Every ballot in the cumulative tally was cast after the instant of its marker,
\* those of the marker's own second left out; and one that was left out comes
\* back only when a reset that read the clock before the marker now in force
\* is late to write its own (store.py:1115-1124, 1159-1176).
TallyStartsAtReset ==
  [][/\ \A b \in Counted' : since' = 0 \/ stamp'[b] > since'
     /\ \A b \in votes \cap votes' :
          b \in Counted' =>
            \/ b \in Counted
            \/ \E t \in Admin : resetting[t] \in 1..(since - 1) /\ since' = resetting[t]
    ]_catalogVars
===============================================================================
