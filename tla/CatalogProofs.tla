----------------------------- MODULE CatalogProofs -----------------------------
(***************************************************************************)
(* The catalogue proved for every number of songs, shows, categories and   *)
(* chores.                                                                 *)
(*                                                                         *)
(* Its voting steps are steps of BallotStore, so the store's lemmas hold   *)
(* for them; merge_songs and sync_show, which are not, are proved here to  *)
(* keep what those lemmas need. The rest of the invariant falls into three *)
(* parts that no step mixes: keys and memberships, categories, the tally.  *)
(***************************************************************************)
EXTENDS Catalog, BallotStoreProofs

\* The voting tables, as BallotStoreProofs needs them.
TablesInv == TypeOK /\ OnlyNewestOpen /\ HistoryKeepsItsSongs

\* What stays true of a rename between its reads and its writes: its target is
\* not itself an alias, and no alias leads to a key that is about to become one.
RenameInv ==
  /\ renaming \in SUBSET Rename
  /\ \A job \in renaming :
       /\ job.old # job.new
       /\ alias[job.new] = NoSong
       /\ job.op = "alias" => \A k \in Song : alias[k] # job.old

\* Keys and memberships.
ShelfInv ==
  /\ alias \in [Song -> Song \cup {NoSong}]
  /\ NoAliasChains
  /\ members \subseteq Show \X songs
  /\ active \subseteq members
  /\ RenameInv

\* Categories: an assignment under way names nothing the admin was not told of.
LabelInv ==
  /\ tags \in [Song -> SUBSET Category]
  /\ \A s \in Song \ songs : tags[s] = {}
  /\ vocabulary \subseteq Category
  /\ orphans \subseteq Category /\ overtaken \subseteq Category
  /\ assigning \in SUBSET [song : Song, tags : SUBSET Category]
  /\ \A job \in assigning : job.tags \subseteq vocabulary \cup overtaken
  /\ OrphansAreReported

\* The tally.
ClockInv ==
  /\ stamp \in [votes -> 1..now]
  /\ now \in Nat \ {0} /\ since \in 0..now
  /\ resetting \in [Admin -> 0..now]

CatalogInv == TablesInv /\ ShelfInv /\ LabelInv /\ ClockInv /\ todo \in [Work -> Nat]

----------------------------------------------------------------------------
(* Lemmas about the operators *)

\* resolve_key answers a song key, and one that nothing forwards on.
LEMMA ResolveKey ==
  ASSUME alias \in [Song -> Song \cup {NoSong}], NEW k \in Song
  PROVE  /\ Resolve(k) \in Song
         /\ NoAliasChains => alias[Resolve(k)] = NoSong
<1>1. QED
  BY DEF Resolve, NoAliasChains

\* A rename under way names two different songs, and one that is written finds
\* its target there and, if it is a merge, no ballot doubled.
LEMMA RenameShape ==
  ASSUME ShelfInv, NEW job \in renaming
  PROVE  /\ job.old \in Song /\ job.new \in Song /\ job.old # job.new
         /\ alias[job.new] = NoSong
         /\ AddAlias(job) => job.op = "alias" /\ job.new \in songs
         /\ MergeSongs(job) => job.new \in songs /\ ~Doubled(job.old, job.new)
<1>1. QED
  BY DEF ShelfInv, RenameInv, Rename, AddAlias, MergeSongs, Refused

\* Replacing a key by another keeps the rows rows, one for one.
LEMMA MovedRoundsShape ==
  ASSUME rounds \in Seq(RoundRow), NEW old \in Song, NEW new \in Song
  PROVE  /\ MovedRounds(old, new) \in Seq(RoundRow)
         /\ Len(MovedRounds(old, new)) = Len(rounds)
         /\ DOMAIN MovedRounds(old, new) = DOMAIN rounds
         /\ \A r \in DOMAIN rounds :
              LET To(s) == IF s = old THEN new ELSE s
              IN  /\ MovedRounds(old, new)[r].song = To(rounds[r].song)
                  /\ MovedRounds(old, new)[r].winner = To(rounds[r].winner)
                  /\ MovedRounds(old, new)[r].open = rounds[r].open
<1> DEFINE To(s) == IF s = old THEN new ELSE s
           row(r) == [rounds[r] EXCEPT !.song = To(@), !.winner = To(@)]
<1>1. DOMAIN rounds = 1..Len(rounds) /\ Len(rounds) \in Nat
  OBVIOUS
<1>2. ASSUME NEW r \in DOMAIN rounds
      PROVE  /\ row(r) \in RoundRow
             /\ row(r).song = To(rounds[r].song)
             /\ row(r).winner = To(rounds[r].winner)
             /\ row(r).open = rounds[r].open
  <2>1. rounds[r] \in RoundRow
    OBVIOUS
  <2> DEFINE a == To(rounds[r].song)
             w == To(rounds[r].winner)
  <2>2. a \in Song /\ w \in Song \cup {NoSong}
    BY <2>1 DEF RoundRow
  <2>3. row(r) = [rounds[r] EXCEPT !.song = a, !.winner = w]
    BY <2>1 DEF RoundRow
  <2> HIDE DEF a, w
  <2>4. [rounds[r] EXCEPT !.song = a, !.winner = w] \in RoundRow
    BY <2>1, <2>2 DEF RoundRow
  <2>5. LET x == [rounds[r] EXCEPT !.song = a, !.winner = w]
        IN  x.song = a /\ x.winner = w /\ x.open = rounds[r].open
    BY <2>1 DEF RoundRow
  <2>6. QED
    BY <2>3, <2>4, <2>5 DEF a, w
<1>3. MovedRounds(old, new) = [r \in 1..Len(rounds) |-> row(r)]
  BY <1>1 DEF MovedRounds
<1>4. MovedRounds(old, new) \in [1..Len(rounds) -> RoundRow]
  <2>1. \A r \in 1..Len(rounds) : row(r) \in RoundRow
    BY <1>1, <1>2
  <2> HIDE DEF row
  <2>2. QED
    BY <1>3, <2>1
<1>5. /\ MovedRounds(old, new) \in Seq(RoundRow)
      /\ Len(MovedRounds(old, new)) = Len(rounds)
      /\ DOMAIN MovedRounds(old, new) = DOMAIN rounds
  BY <1>1, <1>4
<1>6. \A r \in DOMAIN rounds : MovedRounds(old, new)[r] = row(r)
  BY <1>1, <1>3
<1>7. QED
  BY <1>2, <1>5, <1>6

\* The same for the ballots: none is lost, and none is doubled if none was.
LEMMA MovedVotesShape ==
  ASSUME votes \subseteq VoteRow, IsFiniteSet(votes), NEW old \in Song, NEW new \in Song
  PROVE  LET To(s) == IF s = old THEN new ELSE s
             Moved == {[b EXCEPT !.song = To(@)] : b \in votes}
         IN  Moved \subseteq VoteRow /\ IsFiniteSet(Moved)
<1> DEFINE To(s) == IF s = old THEN new ELSE s
           move(b) == [b EXCEPT !.song = To(@)]
           Moved == {move(b) : b \in votes}
           f == [b \in votes |-> move(b)]
<1>1. \A b \in votes : move(b) \in VoteRow
  BY DEF VoteRow
<1>2. f \in Surjection(votes, Moved)
  BY DEF Surjection
<1>3. IsFiniteSet(Moved)
  BY <1>2, FS_Surjection
<1>4. QED
  BY <1>1, <1>3

----------------------------------------------------------------------------
(* The voting tables *)

\* Playing, deciding, voting, excluding and deleting go through the store's
\* methods, with the key resolved first.
LEMMA VotingUsesStore ==
  ASSUME TablesInv, ShelfInv,
         \/ \E k \in Song : Play(k) \/ Delete(k)
         \/ \E k \in Song, out \in BOOLEAN : Exclude(k, out)
         \/ \E r \in DOMAIN rounds : Decide(r)
         \/ \E r \in DOMAIN rounds, v \in Voter, k \in Song : Vote(r, v, k) \/ Unvote(r, v, k)
  PROVE  StoreNext \/ UNCHANGED storeVars
<1>1. \A k \in Song : Resolve(k) \in Song
  BY ResolveKey DEF ShelfInv
<1>2. DOMAIN rounds \subseteq 0..Len(rounds) /\ Len(rounds) \in Nat
  BY DEF TablesInv, TypeOK
<1>3. CASE \E k \in Song : Play(k) \/ Delete(k)
  BY <1>1, <1>3 DEF Play, Delete, StoreNext
<1>4. CASE \E k \in Song, out \in BOOLEAN : Exclude(k, out)
  BY <1>1, <1>4 DEF Exclude, StoreNext
<1>5. ASSUME NEW r \in DOMAIN rounds, Decide(r) PROVE StoreNext
  <2>1. PICK w \in Winners(r) : SetWinner(r, w)
    BY <1>5 DEF Decide
  <2>2. w \in Song
    BY DEF Winners, VotedFor, TablesInv, TypeOK, VoteRow
  <2>3. QED
    BY <2>1, <2>2 DEF StoreNext
<1>6. ASSUME NEW r \in DOMAIN rounds, NEW v \in Voter, NEW k \in Song, Vote(r, v, k)
      PROVE  StoreNext
  <2>1. CastVote(r, v, Resolve(k), VoteableCatalog({Resolve(j) : j \in Song}))
    BY <1>6 DEF Vote
  <2>2. VoteableCatalog({Resolve(j) : j \in Song}) \in SUBSET Song
    BY <1>1 DEF VoteableCatalog
  <2>3. QED
    BY <1>1, <1>2, <2>1, <2>2 DEF StoreNext
<1>7. ASSUME NEW r \in DOMAIN rounds, NEW v \in Voter, NEW k \in Song, Unvote(r, v, k)
      PROVE  StoreNext \/ UNCHANGED storeVars
  <2> DEFINE b == [round |-> r, voter |-> v, song |-> Resolve(k)]
  <2>1. RetractVote(r, v, Resolve(k))
    BY <1>7 DEF Unvote
  <2>2. CASE b \in votes
    <3>1. RetractVote(b.round, b.voter, b.song)
      BY <2>1
    <3>2. QED
      BY <2>2, <3>1 DEF StoreNext
  <2>3. CASE b \notin votes
    BY <2>1, <2>3 DEF RetractVote, storeVars
  <2>4. QED
    BY <2>2, <2>3
<1>8. QED
  BY <1>3, <1>4, <1>5, <1>6, <1>7

\* A merge: nothing refers to the old row any more when it goes (store.py:559-568).
LEMMA MergeKeepsTables ==
  ASSUME TablesInv, ShelfInv, NEW job \in renaming, MergeSongs(job)
  PROVE  TablesInv'
<1> DEFINE old == job.old
           new == job.new
           To(s) == IF s = old THEN new ELSE s
<1>1. old \in Song /\ new \in Song /\ old # new /\ new \in songs
  BY RenameShape
<1>2. /\ votes' = {[b EXCEPT !.song = To(@)] : b \in votes}
      /\ rounds' = MovedRounds(old, new)
      /\ songs' = songs \ {old} /\ excluded' = excluded \ {old}
      /\ UNCHANGED <<allowance, cooldown, enabled>>
  BY DEF MergeSongs
<1> HIDE DEF old, new
<1>3. /\ rounds' \in Seq(RoundRow) /\ Len(rounds') = Len(rounds) /\ DOMAIN rounds' = DOMAIN rounds
      /\ \A r \in DOMAIN rounds :
           /\ rounds'[r].song = To(rounds[r].song)
           /\ rounds'[r].winner = To(rounds[r].winner)
           /\ rounds'[r].open = rounds[r].open
  BY <1>1, <1>2, MovedRoundsShape DEF TablesInv, TypeOK
<1>4. votes' \subseteq VoteRow /\ IsFiniteSet(votes')
  BY <1>1, <1>2, MovedVotesShape DEF TablesInv, TypeOK
<1>5. TypeOK'
  BY <1>1, <1>2, <1>3, <1>4 DEF TablesInv, TypeOK, RoundRow, VoteRow
<1>6. OnlyNewestOpen'
  BY <1>3 DEF TablesInv, OnlyNewestOpen
<1>7. \A s \in songs : To(s) \in songs'
  BY <1>1, <1>2
<1>8. To(NoSong) = NoSong
  BY <1>1, StoreAssumption
<1>9. ASSUME NEW b \in votes' PROVE b.song \in songs'
  <2>1. PICK c \in votes : b = [c EXCEPT !.song = To(@)]
    BY <1>2
  <2>2. b.song = To(c.song)
    BY <2>1 DEF TablesInv, TypeOK, VoteRow
  <2>3. QED
    BY <1>7, <2>2 DEF TablesInv, HistoryKeepsItsSongs
<1>10. ASSUME NEW r \in DOMAIN rounds'
       PROVE  rounds'[r].song \in songs' /\ rounds'[r].winner \in songs' \cup {NoSong}
  <2>1. rounds[r].song \in songs /\ rounds[r].winner \in songs \cup {NoSong}
    BY <1>3 DEF TablesInv, HistoryKeepsItsSongs
  <2> HIDE DEF To
  <2>2. QED
    BY <1>3, <1>7, <1>8, <2>1
<1>11. HistoryKeepsItsSongs'
  BY <1>9, <1>10 DEF HistoryKeepsItsSongs
<1>12. QED
  BY <1>5, <1>6, <1>11 DEF TablesInv

LEMMA TablesStep ==
  ASSUME TablesInv, ShelfInv, [CatalogNext]_catalogVars
  PROVE  TablesInv'
<1>1. ASSUME StoreNext \/ UNCHANGED storeVars PROVE TablesInv'
  <2>1. CASE StoreNext
    BY <2>1, TypeOKStep, OnlyNewestOpenStep, HistoryKeepsItsSongsStep DEF TablesInv
  <2>2. CASE UNCHANGED storeVars
    BY <2>2 DEF storeVars, TablesInv, TypeOK, OnlyNewestOpen, HistoryKeepsItsSongs
  <2>3. QED
    BY <1>1, <2>1, <2>2
<1>2. ASSUME NEW x \in Show, NEW keys \in SUBSET Song, SyncShow(x, keys) PROVE TablesInv'
  <2>1. songs' = songs \cup keys /\ UNCHANGED <<rounds, votes, excluded, allowance, cooldown, enabled>>
    BY <1>2 DEF SyncShow
  <2>2. TypeOK' /\ OnlyNewestOpen'
    BY <2>1 DEF TablesInv, TypeOK, OnlyNewestOpen, RoundRow, VoteRow
  <2>3. HistoryKeepsItsSongs'
    BY <2>1 DEF TablesInv, HistoryKeepsItsSongs
  <2>4. QED
    BY <2>2, <2>3 DEF TablesInv
<1>3. QED
  BY <1>1, <1>2, VotingUsesStore, MergeKeepsTables
  DEF CatalogNext, catalogVars, StartAddAlias, StartMerge, FinishRename, AddAlias,
      AbandonRename, StartSetCategories, FinishSetCategories,
      SetCategoryVocabulary, StartReset, FinishReset, TimePasses

----------------------------------------------------------------------------
(* Keys and memberships *)

\* Every rename leads straight to a song that is not itself renamed: add_alias
\* stores the resolved target and refuses a key that is a song; merge_songs takes
\* whatever pointed at the old key along (store.py:501-514, 564-568).
LEMMA ShelfStep ==
  ASSUME TablesInv, ShelfInv, [CatalogNext]_catalogVars
  PROVE  ShelfInv'
<1>1. songs \subseteq Song /\ NoSong \notin Song /\ \A k \in Song : Resolve(k) \in Song
  BY ResolveKey, StoreAssumption DEF TablesInv, TypeOK, ShelfInv
<1>0. renaming' = {} => RenameInv'
  BY DEF RenameInv
<1>2. CASE UNCHANGED <<songs, alias, members, active, renaming>>
  BY <1>2 DEF ShelfInv, NoAliasChains, RenameInv
<1>3. ASSUME NEW job \in renaming, AddAlias(job), renaming' = {} PROVE ShelfInv'
  <2> DEFINE k == job.old
             t == job.new
  <2>1. /\ k # t /\ t \in songs /\ k \in Song /\ t \in Song /\ alias[t] = NoSong
        /\ \A j \in Song : alias[j] # k
        /\ alias' = [alias EXCEPT ![k] = t] /\ UNCHANGED <<songs, members, active>>
    <3>1. job.op = "alias" /\ t \in songs /\ k # t /\ k \in Song /\ t \in Song /\ alias[t] = NoSong
      BY <1>3, RenameShape
    <3>2. alias' = [alias EXCEPT ![k] = t] /\ UNCHANGED <<songs, members, active>>
      BY <1>3 DEF AddAlias, storeVars
    <3>3. \A j \in Song : alias[j] # k
      BY <3>1 DEF ShelfInv, RenameInv
    <3>4. QED
      BY <3>1, <3>2, <3>3
  <2> HIDE DEF k, t
  <2>2. alias' \in [Song -> Song \cup {NoSong}]
    BY <2>1 DEF ShelfInv
  <2>3. NoAliasChains'
    BY <1>1, <2>1 DEF ShelfInv, NoAliasChains
  <2>4. QED
    BY <1>0, <1>3, <2>1, <2>2, <2>3 DEF ShelfInv
<1>4. ASSUME NEW job \in renaming, MergeSongs(job), renaming' = {} PROVE ShelfInv'
  <2> DEFINE old == job.old
             new == job.new
             To(s) == IF s = old THEN new ELSE s
  <2>1. /\ old \in Song /\ new \in Song /\ old # new /\ new \in songs /\ alias[new] = NoSong
        /\ songs' = songs \ {old} /\ alias' = Forward(old, new)
        /\ members' = {<<m[1], To(m[2])>> : m \in members}
        /\ active' = {<<m[1], To(m[2])>> : m \in active}
    BY <1>4, RenameShape DEF MergeSongs
  <2> HIDE DEF old, new
  <2>2. alias' \in [Song -> Song \cup {NoSong}]
    BY <2>1 DEF ShelfInv, Forward
  <2>3. NoAliasChains'
    BY <1>1, <2>1 DEF ShelfInv, NoAliasChains, Forward
  <2>4. members' \subseteq Show \X songs'
    BY <2>1 DEF ShelfInv
  <2>5. active' \subseteq members'
    BY <2>1 DEF ShelfInv
  <2>6. QED
    BY <1>0, <1>4, <2>2, <2>3, <2>4, <2>5 DEF ShelfInv
<1>5. ASSUME NEW k \in Song, Delete(k) PROVE ShelfInv'
  <2> DEFINE s == Resolve(k)
  <2>1. /\ s \in Song /\ songs' = songs \ {s}
        /\ alias' = [j \in Song |-> IF alias[j] = s THEN NoSong ELSE alias[j]]
        /\ members' = {m \in members : m[2] # s} /\ active' = active \cap members'
        /\ renaming' = renaming
    BY <1>1, <1>5 DEF Delete, DeleteSong
  <2> HIDE DEF s
  <2>2. alias' \in [Song -> Song \cup {NoSong}]
    BY <2>1 DEF ShelfInv
  <2>3. NoAliasChains'
    BY <1>1, <2>1 DEF ShelfInv, NoAliasChains
  <2>4. members' \subseteq Show \X songs' /\ active' \subseteq members'
    BY <2>1 DEF ShelfInv
  <2>5. RenameInv'
    <3>1. ASSUME NEW j \in Song PROVE alias'[j] \in {alias[j], NoSong}
      BY <2>1
    <3>2. ASSUME NEW job \in renaming
          PROVE  /\ alias'[job.new] = NoSong
                 /\ job.op = "alias" => \A j \in Song : alias'[j] # job.old
      <4>1. job.old \in Song /\ job.new \in Song
        BY RenameShape
      <4>2. QED
        BY <1>1, <3>1, <4>1 DEF ShelfInv, RenameInv
    <3>3. QED
      BY <2>1, <3>2 DEF ShelfInv, RenameInv
  <2>6. QED
    BY <2>2, <2>3, <2>4, <2>5 DEF ShelfInv
<1>6. ASSUME NEW x \in Show, NEW keys \in SUBSET Song, SyncShow(x, keys) PROVE ShelfInv'
  <2>1. /\ songs' = songs \cup keys /\ members' = members \cup {x} \X keys
        /\ active' = {m \in active : m[1] # x} \cup {x} \X keys /\ alias' = alias
        /\ renaming' = renaming
    BY <1>6 DEF SyncShow, Reconciled
  <2>2. members' \subseteq Show \X songs' /\ active' \subseteq members'
    BY <2>1 DEF ShelfInv
  <2>3. NoAliasChains'
    BY <2>1 DEF ShelfInv, NoAliasChains
  <2>4. RenameInv'
    BY <2>1 DEF ShelfInv, RenameInv
  <2>5. QED
    BY <2>1, <2>2, <2>3, <2>4 DEF ShelfInv
<1>7. ASSUME NEW k \in Song, NEW s \in Song, StartAddAlias(k, s) PROVE ShelfInv'
  <2> DEFINE t == Resolve(s)
  <2>1. /\ k # t /\ k \notin songs /\ t \in Song /\ alias[t] = NoSong
        /\ renaming' = {[op |-> "alias", old |-> k, new |-> t, bare |-> FALSE]}
        /\ UNCHANGED <<songs, alias, members, active>>
    BY <1>1, <1>7, ResolveKey DEF StartAddAlias, storeVars, ShelfInv
  <2> HIDE DEF t
  <2>2. \A j \in Song : alias[j] # k
    BY <1>1, <2>1 DEF ShelfInv, NoAliasChains
  <2>3. RenameInv'
    BY <2>1, <2>2 DEF RenameInv, Rename
  <2>4. QED
    BY <2>1, <2>3 DEF ShelfInv, NoAliasChains
<1>8. ASSUME NEW k \in Song, NEW n \in Song, StartMerge(k, n) PROVE ShelfInv'
  <2> DEFINE old == Resolve(k)
             new == Resolve(n)
             b == tags[Resolve(n)] = {}
  <2>1. /\ old \in Song /\ new \in Song /\ old # new /\ alias[new] = NoSong
        /\ renaming' = {[op |-> "merge", old |-> old, new |-> new, bare |-> b]}
        /\ UNCHANGED <<songs, alias, members, active>>
    BY <1>1, <1>8, ResolveKey DEF StartMerge, storeVars, ShelfInv
  <2>2. b \in BOOLEAN
    OBVIOUS
  <2> HIDE DEF old, new, b
  <2>3. RenameInv'
    BY <2>1, <2>2 DEF RenameInv, Rename
  <2>4. QED
    BY <2>1, <2>3 DEF ShelfInv, NoAliasChains
<1>9. ASSUME NEW job \in renaming, AbandonRename(job), renaming' = {} PROVE ShelfInv'
  BY <1>0, <1>9 DEF AbandonRename, storeVars, ShelfInv, NoAliasChains
<1>10. ASSUME FinishRename PROVE ShelfInv'
  BY <1>3, <1>4, <1>9, <1>10 DEF FinishRename
<1>11. QED
  BY <1>2, <1>5, <1>6, <1>7, <1>8, <1>10
  DEF CatalogNext, catalogVars, storeVars, shelfVars, Play, EnsureRound, Decide, SetWinner,
      Vote, CastVote, Unvote, RetractVote, Exclude, SetExcluded, StartSetCategories,
      FinishSetCategories, SetCategoryVocabulary, StartReset, FinishReset, TimePasses

----------------------------------------------------------------------------
(* Categories *)

\* set_categories writes what it checked some time ago; what the vocabulary lost
\* meanwhile is exactly what overtaken holds (store.py:350-366, 648-662).
LEMMA LabelStep ==
  ASSUME TablesInv, ShelfInv, LabelInv, [CatalogNext]_catalogVars
  PROVE  LabelInv'
<1>1. songs \subseteq Song /\ \A k \in Song : Resolve(k) \in Song
  BY ResolveKey DEF TablesInv, TypeOK, ShelfInv
<1>2. CASE UNCHANGED <<songs, labelVars>>
  BY <1>2 DEF labelVars, LabelInv, OrphansAreReported
<1>3. ASSUME NEW job \in renaming, MergeSongs(job) PROVE LabelInv'
  <2> DEFINE old == job.old
             new == job.new
             adopt == job.bare /\ tags[old] # {}
             given == IF adopt THEN tags[old] ELSE tags[new]
  <2>1. /\ old \in Song /\ new \in Song /\ old # new /\ new \in songs
        /\ songs' = songs \ {old}
        /\ tags' = [tags EXCEPT ![old] = {}, ![new] = IF adopt THEN tags[old] ELSE @]
        /\ UNCHANGED <<vocabulary, assigning, orphans, overtaken>>
    BY <1>3, RenameShape DEF MergeSongs
  <2> HIDE DEF old, new, adopt
  <2>2. tags' \in [Song -> SUBSET Category]
    BY <2>1 DEF LabelInv
  <2>3. /\ tags'[old] = {} /\ tags'[new] = given
        /\ \A s \in Song \ {old, new} : tags'[s] = tags[s]
    BY <2>1 DEF LabelInv
  <2>4. given \subseteq vocabulary \cup orphans \cup overtaken
    BY <2>1 DEF LabelInv, OrphansAreReported
  <2> HIDE DEF given
  <2>5. OrphansAreReported'
    BY <1>1, <2>1, <2>3, <2>4 DEF LabelInv, OrphansAreReported
  <2>6. \A s \in Song \ songs' : tags'[s] = {}
    BY <2>1, <2>3 DEF LabelInv
  <2>7. QED
    BY <2>1, <2>2, <2>5, <2>6 DEF LabelInv
<1>4. ASSUME NEW k \in Song, Delete(k) PROVE LabelInv'
  <2> DEFINE s == Resolve(k)
  <2>1. /\ s \in Song /\ songs' = songs \ {s} /\ tags' = [tags EXCEPT ![s] = {}]
        /\ UNCHANGED <<vocabulary, assigning, orphans, overtaken>>
    BY <1>1, <1>4 DEF Delete, DeleteSong
  <2> HIDE DEF s
  <2>2. QED
    BY <1>1, <2>1 DEF LabelInv, OrphansAreReported
<1>5. ASSUME NEW x \in Show, NEW keys \in SUBSET Song, SyncShow(x, keys) PROVE LabelInv'
  <2>1. songs' = songs \cup keys /\ UNCHANGED labelVars
    BY <1>5 DEF SyncShow
  <2>2. \A s \in songs' \ songs : tags[s] = {}
    BY <2>1 DEF LabelInv
  <2>3. QED
    BY <1>1, <2>1, <2>2 DEF labelVars, LabelInv, OrphansAreReported
<1>6. ASSUME NEW k \in Song, NEW cs \in SUBSET Category, StartSetCategories(k, cs) PROVE LabelInv'
  <2>1. /\ cs \subseteq vocabulary /\ assigning' = {[song |-> k, tags |-> cs]}
        /\ UNCHANGED <<songs, tags, vocabulary, orphans, overtaken>>
    BY <1>6 DEF StartSetCategories, Known, storeVars
  <2>2. assigning' \in SUBSET [song : Song, tags : SUBSET Category]
    BY <2>1
  <2>3. \A job \in assigning' : job.tags \subseteq vocabulary
    BY <2>1
  <2>4. QED
    BY <2>1, <2>2, <2>3 DEF LabelInv, OrphansAreReported
<1>7. ASSUME FinishSetCategories PROVE LabelInv'
  <2>1. PICK job \in assigning :
          tags' = IF Resolve(job.song) \in songs
                    THEN [tags EXCEPT ![Resolve(job.song)] = job.tags] ELSE tags
    BY <1>7 DEF FinishSetCategories
  <2>2. assigning' = {} /\ UNCHANGED <<songs, vocabulary, orphans, overtaken>>
    BY <1>7 DEF FinishSetCategories, storeVars
  <2>3. job.tags \subseteq Category /\ job.tags \subseteq vocabulary \cup overtaken
    BY DEF LabelInv
  <2> DEFINE s == Resolve(job.song)
  <2>4. CASE s \in songs
    <3>1. tags' = [tags EXCEPT ![s] = job.tags]
      BY <2>1, <2>4
    <3> HIDE DEF s
    <3>2. QED
      BY <1>1, <2>2, <2>3, <2>4, <3>1 DEF LabelInv, OrphansAreReported
  <2>5. CASE s \notin songs
    BY <2>1, <2>2, <2>5 DEF LabelInv, OrphansAreReported
  <2>6. QED
    BY <2>4, <2>5
<1>8. ASSUME NEW names \in SUBSET Category, SetCategoryVocabulary(names) PROVE LabelInv'
  <2>1. /\ vocabulary' = names
        /\ orphans' = (UNION {tags[s] : s \in songs}) \ names
        /\ overtaken' = overtaken \cup ((UNION {job.tags : job \in assigning}) \ names)
        /\ UNCHANGED <<songs, tags, assigning>>
    BY <1>8 DEF SetCategoryVocabulary, storeVars
  <2>2. OrphansAreReported'
    <3>1. ASSUME NEW q \in songs, NEW c \in tags[q], c \notin names PROVE c \in orphans'
      <4> DEFINE carried == {tags[s] : s \in songs}
      <4>1. tags[q] \in carried /\ orphans' = (UNION carried) \ names
        BY <2>1
      <4> HIDE DEF carried
      <4>2. c \in UNION carried
        BY <3>1, <4>1, Zenon
      <4>3. QED
        BY <3>1, <4>1, <4>2
    <3>2. QED
      BY <2>1, <3>1 DEF OrphansAreReported
  <2>3. \A job \in assigning' : job.tags \subseteq vocabulary' \cup overtaken'
    <3>1. ASSUME NEW j \in assigning, NEW c \in j.tags, c \notin names PROVE c \in overtaken'
      <4> DEFINE named == {job.tags : job \in assigning}
      <4>1. j.tags \in named /\ overtaken' = overtaken \cup ((UNION named) \ names)
        BY <2>1
      <4> HIDE DEF named
      <4>2. c \in UNION named
        BY <3>1, <4>1, Zenon
      <4>3. QED
        BY <3>1, <4>1, <4>2
    <3>2. QED
      BY <2>1, <3>1
  <2>4. orphans' \subseteq Category /\ overtaken' \subseteq Category
    BY <1>1, <2>1 DEF LabelInv
  <2>5. QED
    BY <2>1, <2>2, <2>3, <2>4 DEF LabelInv
<1>9. QED
  BY <1>2, <1>3, <1>4, <1>5, <1>6, <1>7, <1>8
  DEF CatalogNext, catalogVars, storeVars, labelVars, Play, EnsureRound, Decide, SetWinner,
      Vote, CastVote, Unvote, RetractVote, Exclude, SetExcluded, StartAddAlias, StartMerge,
      FinishRename, AddAlias, AbandonRename, StartReset, FinishReset,
      TimePasses

----------------------------------------------------------------------------
(* The tally *)

\* Where a merge's ballots come from: under the guard, from exactly one ballot.
LEMMA MovedBallots ==
  ASSUME votes \subseteq VoteRow, NEW old \in Song, NEW new \in Song, old # new,
         ~Doubled(old, new),
         NEW m, \E b \in votes : m = [b EXCEPT !.song = IF @ = old THEN new ELSE @]
  PROVE  IF m \in votes
           THEN /\ m.song # old
                /\ \A b \in votes : m = [b EXCEPT !.song = IF @ = old THEN new ELSE @] => b = m
           ELSE /\ m.song = new /\ [m EXCEPT !.song = old] \in votes
                /\ \A b \in votes : m = [b EXCEPT !.song = IF @ = old THEN new ELSE @]
                                       => b = [m EXCEPT !.song = old]
<1> DEFINE move(b) == [b EXCEPT !.song = IF @ = old THEN new ELSE @]
<1>1. \A b \in votes : /\ b \in VoteRow
                       /\ b.song # old => move(b) = b
                       /\ b.song = old => move(b) = [b EXCEPT !.song = new]
  BY DEF VoteRow
<1>2. \A b \in votes : b.song = old =>
        /\ [b EXCEPT !.song = new] \notin votes
        /\ [b EXCEPT !.song = new].song = new
        /\ [[b EXCEPT !.song = new] EXCEPT !.song = old] = b
  BY DEF Doubled, VoteRow
<1>3. PICK c \in votes : m = move(c)
  OBVIOUS
<1> HIDE DEF move
<1>4. CASE c.song = old
  <2>1. m \notin votes /\ m.song = new /\ [m EXCEPT !.song = old] = c
    BY <1>1, <1>2, <1>3, <1>4
  <2>2. ASSUME NEW b \in votes, m = move(b) PROVE b = c
    <3>1. b.song = old
      BY <1>1, <2>1, <2>2
    <3>2. [[b EXCEPT !.song = new] EXCEPT !.song = old] = b /\ m = [b EXCEPT !.song = new]
      BY <1>1, <1>2, <2>2, <3>1
    <3>3. QED
      BY <2>1, <3>2
  <2>3. QED
    BY <2>1, <2>2 DEF move
<1>5. CASE c.song # old
  <2>1. m = c
    BY <1>1, <1>3, <1>5
  <2>2. ASSUME NEW b \in votes, m = move(b) PROVE b = m
    <3>1. b.song # old
      <4>1. c \in votes /\ b \in votes /\ m = c /\ m = move(b)
        BY <1>3, <2>1, <2>2
      <4>2. b.song = old => move(b) = [b EXCEPT !.song = new]
        BY <1>1, <4>1
      <4>3. b.song = old => [b EXCEPT !.song = new] \notin votes
        BY <1>2, <4>1
      <4>4. QED
        BY <4>1, <4>2, <4>3
    <3>2. QED
      BY <1>1, <2>2, <3>1
  <2>3. QED
    BY <1>5, <2>1, <2>2 DEF move
<1>6. QED
  BY <1>4, <1>5

\* A later second is a later instant (created_at keeps no more, schema.sql:126).
LEMMA SecondsInOrder ==
  ASSUME NEW i \in Nat, NEW j \in Nat
  PROVE  /\ Second(i) \in Nat /\ Second(j) \in Nat
         /\ Second(i) > Second(j) => i > j
<1>1. QED
  BY DEF Second

\* Every ballot has the instant it was cast at, and keeps it when it stays or is
\* moved to another key.
LEMMA ClockStep ==
  ASSUME TablesInv, ShelfInv, ClockInv, [CatalogNext]_catalogVars
  PROVE  /\ ClockInv'
         /\ now <= now'
         /\ \A b \in votes \cap votes' : stamp'[b] = stamp[b]
<1> DEFINE Goal == /\ ClockInv'
                   /\ now <= now'
                   /\ \A b \in votes \cap votes' : stamp'[b] = stamp[b]
<1>1. now \in Nat /\ since \in Nat
  BY DEF ClockInv
<1>2. ASSUME UNCHANGED <<votes, clockVars>> PROVE Goal
  BY <1>2, <1>1 DEF clockVars, ClockInv
<1>3. ASSUME NEW r \in DOMAIN rounds, NEW v \in Voter, NEW k \in Song, Vote(r, v, k)
      PROVE  Goal
  <2>1. /\ stamp' = [b \in votes' |-> IF b \in votes THEN stamp[b] ELSE now]
        /\ UNCHANGED <<now, since, resetting>>
    BY <1>3 DEF Vote
  <2>2. \A b \in votes' : (IF b \in votes THEN stamp[b] ELSE now) \in 1..now
    BY DEF ClockInv
  <2>3. stamp' \in [votes' -> 1..now]
    BY <2>1, <2>2
  <2>4. QED
    BY <1>1, <2>1, <2>3 DEF ClockInv
<1>4. ASSUME NEW r \in DOMAIN rounds, NEW v \in Voter, NEW k \in Song, Unvote(r, v, k)
      PROVE  Goal
  <2>1. votes' \subseteq votes /\ stamp' = [b \in votes' |-> stamp[b]] /\ UNCHANGED <<now, since, resetting>>
    BY <1>4 DEF Unvote, RetractVote, Restrict
  <2>2. stamp' \in [votes' -> 1..now]
    BY <2>1 DEF ClockInv
  <2>3. QED
    BY <1>1, <2>1, <2>2 DEF ClockInv
<1>5. ASSUME NEW job \in renaming, MergeSongs(job)
      PROVE  Goal
  <2> DEFINE old == job.old
             new == job.new
             when(b) == IF b \in votes THEN stamp[b] ELSE stamp[[b EXCEPT !.song = old]]
  <2>1. /\ old \in Song /\ new \in Song /\ old # new /\ ~Doubled(old, new)
        /\ votes' = {[b EXCEPT !.song = IF @ = old THEN new ELSE @] : b \in votes}
        /\ stamp' = [b \in votes' |-> when(b)]
        /\ UNCHANGED <<now, since, resetting>>
    BY <1>5, RenameShape DEF MergeSongs
  <2>2. ASSUME NEW b \in votes' PROVE when(b) \in 1..now
    <3>0. \E c \in votes : b = [c EXCEPT !.song = IF @ = old THEN new ELSE @]
      BY <2>1
    <3>1. b \in votes \/ [b EXCEPT !.song = old] \in votes
      BY <2>1, <3>0, MovedBallots DEF TablesInv, TypeOK
    <3>2. QED
      BY <3>1 DEF ClockInv
  <2>3. stamp' \in [votes' -> 1..now]
    <3> HIDE DEF when
    <3>1. QED
      BY <2>1, <2>2
  <2>4. QED
    BY <1>1, <2>1, <2>3 DEF ClockInv
<1>6. ASSUME NEW t \in Admin, StartReset(t) PROVE Goal
  BY <1>6, <1>1 DEF StartReset, storeVars, ClockInv
<1>7. ASSUME NEW t \in Admin, FinishReset(t) PROVE Goal
  BY <1>7, <1>1 DEF FinishReset, storeVars, ClockInv
<1>8. ASSUME TimePasses PROVE Goal
  <2>1. now' = now + 1 /\ UNCHANGED <<votes, stamp, since, resetting>>
    BY <1>8 DEF TimePasses, storeVars
  <2>2. /\ 1..now \subseteq 1..now' /\ 0..now \subseteq 0..now'
        /\ now' \in Nat \ {0} /\ since \in 0..now'
    BY <2>1 DEF ClockInv
  <2>3. stamp' \in [votes' -> 1..now']
    BY <2>1, <2>2 DEF ClockInv
  <2>4. QED
    BY <2>1, <2>2, <2>3 DEF ClockInv
<1> HIDE DEF Goal
<1>9. Goal
  BY <1>2, <1>3, <1>4, <1>5, <1>6, <1>8, <1>7
  DEF CatalogNext, catalogVars, storeVars, clockVars, Play, EnsureRound, Decide, SetWinner,
      Exclude, SetExcluded, Delete, DeleteSong, StartAddAlias, StartMerge, FinishRename,
      AddAlias, AbandonRename, SyncShow, StartSetCategories,
      FinishSetCategories, SetCategoryVocabulary
<1>10. QED
  BY <1>9 DEF Goal

----------------------------------------------------------------------------
(* The invariant *)

LEMMA CatalogInvInit == CatalogInit => CatalogInv
<1> SUFFICES ASSUME CatalogInit PROVE CatalogInv
  OBVIOUS
<1>1. TablesInv
  BY StoreInvInit DEF CatalogInit, StoreInv, TablesInv
<1>2. ShelfInv
  <2>1. songs \in Catalogues /\ members \in Seeds /\ active = members
    BY DEF CatalogInit, StoreInit
  <2>2. members \subseteq Show \X songs
    BY <2>1, CatalogAssumption
  <2>3. QED
    BY <2>1, <2>2 DEF CatalogInit, ShelfInv, NoAliasChains, RenameInv
<1>3. LabelInv
  <2>1. songs \subseteq Song
    BY <1>1 DEF TablesInv, TypeOK
  <2>2. QED
    BY <2>1 DEF CatalogInit, LabelInv, OrphansAreReported
<1>4. ClockInv
  BY DEF CatalogInit, StoreInit, ClockInv
<1>5. QED
  BY <1>1, <1>2, <1>3, <1>4, CatalogAssumption DEF CatalogInit, CatalogInv

LEMMA TodoStep ==
  ASSUME todo \in [Work -> Nat], [CatalogNext]_catalogVars
  PROVE  todo' \in [Work -> Nat]
<1>1. ASSUME NEW work \in Work, Do(work) PROVE todo' \in [Work -> Nat]
  BY <1>1 DEF Do
<1>2. {"rounds", "ballots", "renames", "exclusions", "syncs", "labels", "ticks",
      "resets"} \subseteq Work
  BY DEF Work
<1>3. QED
  BY <1>1, <1>2
  DEF CatalogNext, catalogVars, Play, Decide, Vote, Unvote, Exclude, Delete, StartAddAlias,
      StartMerge, FinishRename, AddAlias, AbandonRename,
      MergeSongs, SyncShow, StartSetCategories, FinishSetCategories, SetCategoryVocabulary,
      StartReset, FinishReset, TimePasses

LEMMA CatalogInvariant == CatalogSpec => []CatalogInv
<1>1. CatalogInv /\ [CatalogNext]_catalogVars => CatalogInv'
  BY TablesStep, ShelfStep, LabelStep, ClockStep, TodoStep DEF CatalogInv
<1>2. QED
  BY CatalogInvInit, <1>1, PTL DEF CatalogSpec

----------------------------------------------------------------------------
(* What follows from it *)

\* Every state of the catalogue has its types (store.py, schema.sql).
THEOREM CatalogTyped == CatalogSpec => []CatalogTypeOK
<1>1. CatalogInv => CatalogTypeOK
  BY DEF CatalogInv, TablesInv, ShelfInv, RenameInv, LabelInv, ClockInv, CatalogTypeOK
<1>2. QED
  BY <1>1, CatalogInvariant, PTL

\* However renames are stacked, one hop reaches the song (store.py:445-449).
THEOREM AliasesNeverChain == CatalogSpec => []NoAliasChains
<1>1. CatalogInv => NoAliasChains
  BY DEF CatalogInv, ShelfInv
<1>2. QED
  BY <1>1, CatalogInvariant, PTL

\* Merges, syncs and deletions leave no round or ballot without its song row.
THEOREM CatalogueKeepsHistory == CatalogSpec => []HistoryKeepsItsSongs
<1>1. CatalogInv => HistoryKeepsItsSongs
  BY DEF CatalogInv, TablesInv
<1>2. QED
  BY <1>1, CatalogInvariant, PTL

\* A category no longer in the vocabulary was reported, or overtaken by the change
\* while it was being assigned (store.py:350-366, 648-662).
THEOREM OrphansAreKnown == CatalogSpec => []OrphansAreReported
<1>1. CatalogInv => OrphansAreReported
  BY DEF CatalogInv, LabelInv
<1>2. QED
  BY <1>1, CatalogInvariant, PTL

----------------------------------------------------------------------------
(* What a step may never do *)

\* The tally holds only ballots cast after its marker, and what a marker left out
\* comes back only under a reset that is late to write an earlier one
\* (store.py:1115-1124, 1159-1176).
THEOREM ResetIsFinal == CatalogSpec => TallyStartsAtReset
<1> DEFINE Late == \E t \in Admin : resetting[t] \in 1..(since - 1) /\ since' = resetting[t]
           Tallied ==
             /\ \A b \in Counted' : since' = 0 \/ stamp'[b] > since'
             /\ \A b \in votes \cap votes' :
                  b \in Counted' =>
                    \/ b \in Counted
                    \/ \E t \in Admin : resetting[t] \in 1..(since - 1) /\ since' = resetting[t]
<1>1. ASSUME CatalogInv, CatalogNext PROVE Tallied
  <2>1. ClockInv /\ ClockInv' /\ \A b \in votes \cap votes' : stamp'[b] = stamp[b]
    BY <1>1, ClockStep DEF CatalogInv
  <2>2. ASSUME NEW b \in Counted', since' # 0 PROVE stamp'[b] > since'
    <3>1. stamp'[b] \in Nat /\ since' \in Nat /\ Second(stamp'[b]) > Second(since')
      BY <2>1, <2>2 DEF Counted, ClockInv
    <3>2. QED
      BY <3>1, SecondsInOrder
  <2>3. ASSUME NEW b \in votes \cap votes', b \in Counted', b \notin Counted PROVE Late
    <3>1. since \in Nat /\ since' \in Nat /\ stamp[b] \in Nat /\ stamp'[b] = stamp[b]
      BY <2>1 DEF ClockInv
    <3>2. since # 0 /\ Second(stamp[b]) <= Second(since)
      BY <2>3, <3>1, SecondsInOrder DEF Counted
    <3>3. since' = 0 \/ Second(stamp[b]) > Second(since')
      BY <2>3, <3>1 DEF Counted
    <3>4. since' # since
      BY <3>1, <3>2, <3>3, SecondsInOrder
    <3>5. PICK t \in Admin : FinishReset(t)
      BY <1>1, <3>4
      DEF CatalogNext, Play, Delete, Exclude, Decide, Vote, Unvote, StartAddAlias,
          StartMerge, FinishRename, AddAlias, MergeSongs, AbandonRename, SyncShow,
          StartSetCategories, FinishSetCategories, SetCategoryVocabulary, StartReset,
          TimePasses, clockVars
    <3>6. since' = resetting[t] /\ since' # 0
      BY <3>5 DEF FinishReset
    <3>7. since' < since
      BY <3>1, <3>2, <3>3, <3>6, SecondsInOrder
    <3>8. QED
      BY <3>1, <3>6, <3>7
  <2>4. QED
    BY <2>2, <2>3
<1>2. CatalogInv /\ [CatalogNext]_catalogVars => [Tallied]_catalogVars
  BY <1>1
<1>3. QED
  BY <1>2, CatalogInvariant, PTL DEF CatalogSpec, TallyStartsAtReset

\* As long as no row of songs goes, one step changes the active members of one
\* show only, and no membership row goes (reconcile.py:18-20, 81-84).
THEOREM OneShowAtATime == ASSUME Show # {} PROVE CatalogSpec => SyncTouchesOneShow
<1> DEFINE Touched ==
      songs \subseteq songs' =>
        /\ members \subseteq members'
        /\ \E x \in Show : \A m \in Show \X Song :
             m[1] # x => (m \in active) = (m \in active')
<1>1. ASSUME CatalogInv, CatalogNext, songs \subseteq songs'
      PROVE  /\ members \subseteq members'
             /\ \E x \in Show : \A m \in Show \X Song :
                  m[1] # x => (m \in active) = (m \in active')
  <2>1. CASE UNCHANGED <<members, active>>
    BY <2>1
  <2>2. ASSUME NEW x \in Show, NEW keys \in SUBSET Song, SyncShow(x, keys)
        PROVE  /\ members \subseteq members'
               /\ \A m \in Show \X Song : m[1] # x => (m \in active) = (m \in active')
    <3>1. members' = members \cup {x} \X keys
          /\ active' = {m \in active : m[1] # x} \cup {x} \X keys
      BY <2>2 DEF SyncShow, Reconciled
    <3>2. QED
      BY <3>1
  <2>3. ASSUME NEW k \in Song, Delete(k) PROVE FALSE
    BY <1>1, <2>3 DEF Delete, DeleteSong
  <2>4. ASSUME NEW job \in renaming, MergeSongs(job) PROVE UNCHANGED <<members, active>>
    <3> DEFINE old == job.old
               new == job.new
               To(s) == IF s = old THEN new ELSE s
    <3>1. /\ songs' = songs \ {old}
          /\ members' = {<<m[1], To(m[2])>> : m \in members}
          /\ active' = {<<m[1], To(m[2])>> : m \in active}
      BY <2>4 DEF MergeSongs
    <3> HIDE DEF old, new
    <3>2. old \notin songs
      BY <1>1, <3>1
    <3>3. \A m \in members : <<m[1], To(m[2])>> = m
      BY <1>1, <3>2 DEF CatalogInv, ShelfInv
    <3>4. active \subseteq members
      BY <1>1 DEF CatalogInv, ShelfInv
    <3> HIDE DEF To
    <3>5. QED
      BY <3>1, <3>3, <3>4
  <2>5. QED
    BY <1>1, <2>1, <2>2, <2>3, <2>4
    DEF CatalogNext, Play, Decide, Vote, Unvote, Exclude, StartAddAlias, StartMerge,
        FinishRename, AddAlias, AbandonRename, StartSetCategories,
        FinishSetCategories, SetCategoryVocabulary, StartReset, FinishReset, TimePasses,
        shelfVars
<1>2. CatalogInv /\ [CatalogNext]_catalogVars => [Touched]_catalogVars
  BY <1>1
<1>3. QED
  BY <1>2, CatalogInvariant, PTL DEF CatalogSpec, SyncTouchesOneShow

\* What a merge does to the ballots of one round: those of the old song are the
\* new song's, and everybody holds as many as before.
LEMMA MergeMovesBallots ==
  ASSUME TablesInv, NEW old \in Song, NEW new \in Song, old # new, ~Doubled(old, new),
         votes' = {[b EXCEPT !.song = IF @ = old THEN new ELSE @] : b \in votes},
         NEW r
  PROVE  /\ VotersOf(r, old) \subseteq VotersOf(r, new)'
         /\ \A v \in Voter : Cardinality(Selection(r, v)') = Cardinality(Selection(r, v))
<1> DEFINE move(b) == [b EXCEPT !.song = IF @ = old THEN new ELSE @]
<1>1. \A b \in votes : /\ move(b) \in votes'
                       /\ move(b).round = b.round /\ move(b).voter = b.voter
                       /\ b.song = old => move(b).song = new
  BY DEF TablesInv, TypeOK, VoteRow
<1>2. \A m \in votes' : \E b \in votes : m = move(b)
  OBVIOUS
<1>3. ASSUME NEW a \in votes, NEW b \in votes, NEW m \in votes', m = move(a), m = move(b)
      PROVE  a = b
  <2>1. votes \subseteq VoteRow
    BY DEF TablesInv, TypeOK
  <2>2. m \in votes => a = m /\ b = m
    BY <1>3, <2>1, MovedBallots
  <2>3. m \notin votes => a = [m EXCEPT !.song = old] /\ b = [m EXCEPT !.song = old]
    BY <1>3, <2>1, MovedBallots
  <2>4. QED
    BY <2>2, <2>3
<1> HIDE DEF move
<1>4. VotersOf(r, old) \subseteq VotersOf(r, new)'
  <2>1. ASSUME NEW b \in votes, b.round = r, b.song = old PROVE b.voter \in VotersOf(r, new)'
    BY <1>1, <2>1 DEF VotersOf
  <2>2. QED
    BY <2>1 DEF VotersOf
<1>5. ASSUME NEW v \in Voter
      PROVE  Cardinality(Selection(r, v)') = Cardinality(Selection(r, v))
  <2> DEFINE S == Selection(r, v)
             T == Selection(r, v)'
             f == [b \in S |-> move(b)]
  <2>1. IsFiniteSet(S)
    BY SelectionFinite DEF TablesInv, TypeOK
  <2>2. \A b \in S : b \in votes /\ move(b) \in T
    BY <1>1 DEF Selection
  <2>3. \A m \in T : \E b \in S : m = move(b)
    BY <1>1, <1>2 DEF Selection
  <2> HIDE DEF S, T
  <2>4. f \in Surjection(S, T)
    BY <2>2, <2>3 DEF Surjection
  <2>5. f \in Injection(S, T)
    <3>1. \A a, b \in S : move(a) = move(b) => a = b
      BY <1>1, <1>3, <2>2
    <3>2. QED
      BY <2>4, <3>1 DEF Surjection, Injection, IsInjective
  <2>6. Cardinality(T) = Cardinality(S)
    BY <2>1, <2>4, <2>5, FS_Surjection
  <2>7. QED
    BY <2>6 DEF S, T
<1>6. QED
  BY <1>4, <1>5

\* Nothing that changes the songs table changes how many ballots a voter holds
\* (store.py:561, 605-607, 674-698).
THEOREM BallotsOutliveTheCatalogue == CatalogSpec => CatalogueKeepsBallots
<1> DEFINE Kept ==
      songs' # songs =>
        \A r \in DOMAIN rounds, v \in Voter :
          Cardinality(Selection(r, v)') = Cardinality(Selection(r, v))
<1>1. ASSUME CatalogInv, CatalogNext PROVE Kept
  <2>1. CASE songs' = songs
    BY <2>1
  <2>2. CASE votes' = votes
    BY <2>2 DEF Selection
  <2>3. ASSUME NEW job \in renaming, MergeSongs(job) PROVE Kept
    <3>1. /\ job.old \in Song /\ job.new \in Song /\ job.old # job.new
          /\ ~Doubled(job.old, job.new) /\ TablesInv
          /\ votes' = {[b EXCEPT !.song = IF @ = job.old THEN job.new ELSE @] : b \in votes}
      BY <1>1, <2>3, RenameShape DEF CatalogInv, MergeSongs
    <3>2. QED
      BY <3>1, MergeMovesBallots
  <2>4. QED
    BY <1>1, <2>1, <2>2, <2>3
    DEF CatalogNext, storeVars, Play, EnsureRound, Decide, SetWinner, Vote, CastVote,
        Unvote,
        RetractVote, Exclude, SetExcluded, Delete, DeleteSong, StartAddAlias, StartMerge,
        FinishRename, AddAlias, AbandonRename, SyncShow,
        StartSetCategories, FinishSetCategories, SetCategoryVocabulary, StartReset,
        FinishReset,
        TimePasses
<1>2. CatalogInv /\ [CatalogNext]_catalogVars => [Kept]_catalogVars
  BY <1>1
<1>3. QED
  BY <1>2, CatalogInvariant, PTL DEF CatalogSpec, CatalogueKeepsBallots

\* A key never leads to nothing: the song that takes over a row takes over its
\* rounds, its wins and its ballots (store.py:516-520, 559-568, 605-607).
THEOREM HistoryFollowsTheKey == CatalogSpec => RenamesCarryHistory
<1> DEFINE Carried(k) ==
      LET s == Resolve(k)
          t == Resolve(k)'
      IN  s \in songs \ songs' =>
            \/ ~Referenced(s)
            \/ /\ t \in songs'
               /\ \A r \in DOMAIN rounds :
                    /\ rounds[r].song = s => rounds'[r].song = t
                    /\ rounds[r].winner = s => rounds'[r].winner = t
                    /\ VotersOf(r, s) \subseteq VotersOf(r, Resolve(k))'
<1>1. ASSUME CatalogInv, CatalogNext, NEW k \in Song PROVE Carried(k)
  <2>1. CASE songs \subseteq songs'
    BY <2>1
  <2>2. ASSUME NEW j \in Song, Delete(j) PROVE Carried(k)
    BY <2>2 DEF Delete, DeleteSong
  <2>3. ASSUME NEW job \in renaming, MergeSongs(job), Resolve(k) \in songs \ songs'
        PROVE  Carried(k)
    <3>0. PICK old \in Song, new \in Song :
            /\ old = job.old /\ new = job.new
            /\ old # new /\ new \in songs /\ ~Doubled(old, new)
      BY <1>1, <2>3, RenameShape DEF CatalogInv
    <3>1. /\ old # new /\ new \in songs /\ ~Doubled(old, new)
          /\ votes' = {[b EXCEPT !.song = IF @ = old THEN new ELSE @] : b \in votes}
          /\ rounds' = MovedRounds(old, new) /\ songs' = songs \ {old}
          /\ alias' = Forward(old, new) /\ TablesInv
      BY <1>1, <2>3, <3>0 DEF CatalogInv, MergeSongs
    <3>2. Resolve(k) = old
      BY <2>3, <3>1
    <3>3. Resolve(k)' = new
      <4>1. k = old \/ alias[k] = old
        BY <3>2 DEF Resolve
      <4>2. alias'[k] = new /\ new # NoSong
        BY <3>1, <4>1, StoreAssumption DEF Forward
      <4>3. QED
        BY <4>2 DEF Resolve
    <3>4. \A r \in DOMAIN rounds :
            /\ rounds[r].song = old => rounds'[r].song = new
            /\ rounds[r].winner = old => rounds'[r].winner = new
      BY <3>1, MovedRoundsShape DEF TablesInv, TypeOK
    <3>5. ASSUME NEW r PROVE VotersOf(r, old) \subseteq VotersOf(r, new)'
      BY <3>1, MergeMovesBallots
    <3>6. ASSUME NEW r PROVE VotersOf(r, Resolve(k))' = VotersOf(r, new)'
      BY <3>3 DEF VotersOf
    <3>7. new \in songs'
      BY <3>1
    <3>8. QED
      BY <3>2, <3>3, <3>4, <3>5, <3>6, <3>7
  <2>4. QED
    BY <1>1, <2>1, <2>2, <2>3
    DEF CatalogNext, storeVars, Play, EnsureRound, Decide, SetWinner, Vote, CastVote,
        Unvote,
        RetractVote, Exclude, SetExcluded, StartAddAlias, StartMerge, FinishRename,
        AddAlias, AbandonRename, SyncShow,
        StartSetCategories, FinishSetCategories, SetCategoryVocabulary, StartReset,
        FinishReset,
        TimePasses
<1>2. CatalogInv /\ [CatalogNext]_catalogVars => [\A k \in Song : Carried(k)]_catalogVars
  BY <1>1
<1>3. QED
  BY <1>2, CatalogInvariant, PTL DEF CatalogSpec, RenamesCarryHistory

----------------------------------------------------------------------------
(* What the store promises of ballots, with a catalogue that moves songs *)

\* Every step of the catalogue is a step of the store or leaves its tables
\* alone, but for a merge and for a sync, which adds songs rows (store.py:674-698).
LEMMA CatalogUsesStore ==
  ASSUME TablesInv, ShelfInv, [CatalogNext]_catalogVars
  PROVE  \/ StoreNext
         \/ UNCHANGED <<rounds, votes, allowance>>
         \/ \E job \in renaming : MergeSongs(job)
<1>1. ASSUME NEW x \in Show, NEW keys \in SUBSET Song, SyncShow(x, keys)
      PROVE  UNCHANGED <<rounds, votes, allowance>>
  BY <1>1 DEF SyncShow
<1>2. UNCHANGED storeVars => UNCHANGED <<rounds, votes, allowance>>
  BY DEF storeVars
<1>3. QED
  BY <1>1, <1>2, VotingUsesStore
  DEF CatalogNext, catalogVars, StartAddAlias, StartMerge, FinishRename, AddAlias,
      AbandonRename, StartSetCategories,
      FinishSetCategories, SetCategoryVocabulary, StartReset, FinishReset, TimePasses

\* A merge keeps every round, every ballot's round, and everybody's number of
\* ballots (store.py:559-561).
LEMMA MergeKeepsCounts ==
  ASSUME TablesInv, ShelfInv, NEW job \in renaming, MergeSongs(job)
  PROVE  /\ DOMAIN rounds' = DOMAIN rounds
         /\ \A r \in DOMAIN rounds : rounds'[r].open = rounds[r].open
         /\ \A m \in votes' : \E b \in votes : m.round = b.round
         /\ \A r, v : v \in Voter =>
              Cardinality(Selection(r, v)') = Cardinality(Selection(r, v))
<1>0. PICK old \in Song, new \in Song :
        old = job.old /\ new = job.new /\ old # new /\ ~Doubled(old, new)
  BY RenameShape
<1>1. /\ old # new /\ ~Doubled(old, new) /\ rounds' = MovedRounds(old, new)
      /\ votes' = {[b EXCEPT !.song = IF @ = old THEN new ELSE @] : b \in votes}
  BY <1>0 DEF MergeSongs
<1>2. /\ DOMAIN rounds' = DOMAIN rounds
      /\ \A r \in DOMAIN rounds : rounds'[r].open = rounds[r].open
  BY <1>1, MovedRoundsShape DEF TablesInv, TypeOK
<1>3. \A m \in votes' : \E b \in votes : m.round = b.round
  BY <1>1 DEF TablesInv, TypeOK, VoteRow
<1>4. ASSUME NEW r, NEW v \in Voter
      PROVE  Cardinality(Selection(r, v)') = Cardinality(Selection(r, v))
  BY <1>1, MergeMovesBallots
<1>5. QED
  BY <1>2, <1>3, <1>4

\* The limit survives every step: the store's own by what cast_vote counts, a
\* merge because it neither adds nor joins ballots.
LEMMA BallotsWithinLimitKept ==
  ASSUME TablesInv, ShelfInv, BallotsWithinLimit, [CatalogNext]_catalogVars
  PROVE  BallotsWithinLimit'
<1>1. CASE StoreNext
  BY <1>1, BallotsWithinLimitStep DEF TablesInv
<1>2. CASE UNCHANGED <<rounds, votes, allowance>>
  BY <1>2 DEF BallotsWithinLimit, Selection
<1>3. ASSUME NEW job \in renaming, MergeSongs(job)
      PROVE  BallotsWithinLimit'
  <2>1. \A b \in votes' : b.round \in DOMAIN rounds'
    BY <1>3, MergeKeepsCounts DEF BallotsWithinLimit
  <2>2. ASSUME NEW r \in DOMAIN rounds', NEW v \in Voter
        PROVE  Cardinality(Selection(r, v)') <= VotesPerRoundLimit
    BY <1>3, MergeKeepsCounts DEF BallotsWithinLimit
  <2>3. QED
    BY <2>1, <2>2 DEF BallotsWithinLimit
<1>4. QED
  BY <1>1, <1>2, <1>3, CatalogUsesStore

\* No rename, merge, sync or deletion ever leaves a voter with more ballots in a
\* round than the limit, or a ballot without its round.
THEOREM CatalogBallotsBounded == CatalogSpec => []BallotsWithinLimit
<1>1. CatalogInit => BallotsWithinLimit
  BY StoreInvInit DEF CatalogInit, StoreInv
<1>2. CatalogInv /\ BallotsWithinLimit /\ [CatalogNext]_catalogVars => BallotsWithinLimit'
  BY BallotsWithinLimitKept DEF CatalogInv
<1>3. QED
  BY <1>1, <1>2, CatalogInvariant, PTL DEF CatalogSpec

\* A voter's ballots of a round grow only up to the allowance in force, whichever
\* alias each of them was cast under and whatever is merged in between
\* (store.py:936-971).
THEOREM CatalogAllowanceInForce == CatalogSpec => AllowanceRespected
<1> DEFINE Respected ==
      \A r \in DOMAIN rounds, v \in Voter :
        Cardinality(Selection(r, v)') > Cardinality(Selection(r, v))
          => Cardinality(Selection(r, v)') <= allowance
<1>1. ASSUME CatalogInv, [CatalogNext]_catalogVars,
             NEW r \in DOMAIN rounds, NEW v \in Voter,
             Cardinality(Selection(r, v)') > Cardinality(Selection(r, v))
      PROVE  Cardinality(Selection(r, v)') <= allowance
  <2>1. Cardinality(Selection(r, v)) \in Nat
    BY <1>1, SelectionFinite DEF CatalogInv, TablesInv, TypeOK
  <2>2. CASE StoreNext
    BY <1>1, <2>2, AllowanceStep DEF CatalogInv, TablesInv
  <2>3. CASE UNCHANGED <<rounds, votes, allowance>>
    <3>1. Selection(r, v)' = Selection(r, v)
      BY <2>3 DEF Selection
    <3>2. QED
      BY <1>1, <2>1, <3>1
  <2>4. ASSUME NEW job \in renaming, MergeSongs(job)
        PROVE  FALSE
    BY <1>1, <2>1, <2>4, MergeKeepsCounts DEF CatalogInv
  <2>5. QED
    BY <1>1, <2>2, <2>3, <2>4, CatalogUsesStore DEF CatalogInv
<1>2. CatalogInv /\ [CatalogNext]_catalogVars => [Respected]_storeVars
  BY <1>1
<1>3. QED
  BY <1>2, CatalogInvariant, PTL DEF CatalogSpec, AllowanceRespected

\* Replacing a key in the rounds table opens no second round
\* (store.py:559-560, 833-843).
THEOREM CatalogOneOpenRound == CatalogSpec => []OnlyNewestOpen
<1>1. CatalogInv => OnlyNewestOpen
  BY DEF CatalogInv, TablesInv
<1>2. QED
  BY <1>1, CatalogInvariant, PTL

\* A round that has ended never reopens, and no voter ever holds more ballots in
\* it than before, though a merge may rewrite what they are for
\* (store.py:559-561, 923-925).
THEOREM CatalogEndedRoundsSealed ==
  CatalogSpec =>
    [][\A r \in DOMAIN rounds :
         ~rounds[r].open =>
           /\ r \in DOMAIN rounds' /\ ~rounds'[r].open
           /\ \A v \in Voter :
                Cardinality(Selection(r, v)') <= Cardinality(Selection(r, v))]_catalogVars
<1> DEFINE Sealed(r) ==
      /\ r \in DOMAIN rounds' /\ ~rounds'[r].open
      /\ \A v \in Voter :
           Cardinality(Selection(r, v)') <= Cardinality(Selection(r, v))
<1>1. ASSUME CatalogInv, [CatalogNext]_catalogVars, NEW r \in DOMAIN rounds,
             ~rounds[r].open
      PROVE  Sealed(r)
  <2>1. \A v \in Voter : /\ IsFiniteSet(Selection(r, v))
                         /\ Cardinality(Selection(r, v)) \in Nat
    BY <1>1, SelectionFinite DEF CatalogInv, TablesInv, TypeOK
  <2>2. CASE StoreNext
    <3>1. /\ r \in DOMAIN rounds' /\ ~rounds'[r].open
          /\ \A b \in votes' : b.round = r => b \in votes
      BY <1>1, <2>2, EndedStep DEF CatalogInv, TablesInv
    <3>2. \A v \in Voter : Selection(r, v)' \subseteq Selection(r, v)
      BY <3>1 DEF Selection
    <3>3. \A v \in Voter :
            Cardinality(Selection(r, v)') <= Cardinality(Selection(r, v))
      BY <2>1, <3>2, FS_Subset
    <3>4. QED
      BY <3>1, <3>3
  <2>3. CASE UNCHANGED <<rounds, votes, allowance>>
    <3>1. \A v \in Voter : Selection(r, v)' = Selection(r, v)
      BY <2>3 DEF Selection
    <3>2. QED
      BY <1>1, <2>1, <2>3, <3>1
  <2>4. ASSUME NEW job \in renaming, MergeSongs(job)
        PROVE  Sealed(r)
    BY <1>1, <2>1, <2>4, MergeKeepsCounts DEF CatalogInv
  <2>5. QED
    BY <1>1, <2>2, <2>3, <2>4, CatalogUsesStore DEF CatalogInv
<1>2. CatalogInv /\ [CatalogNext]_catalogVars =>
        [\A r \in DOMAIN rounds : ~rounds[r].open => Sealed(r)]_catalogVars
  BY <1>1
<1>3. QED
  BY <1>2, CatalogInvariant, PTL DEF CatalogSpec
===============================================================================
