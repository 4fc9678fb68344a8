------------------------------ MODULE Connection ------------------------------
(***************************************************************************)
(* Opening the database file: connect, the migration ladder, one connection *)
(* per thread, re-entrant transactions and the voter salt                  *)
(* (src/fppvote/db/connection.py, schema.sql, voter_salt in store.py).     *)
(*                                                                         *)
(* An opener is a thread of the service, or tools/init_db.py, using        *)
(* Database.connection. schema_version is read before BEGIN IMMEDIATE, and *)
(* a fresh file is filled by executescript, one statement at a time with   *)
(* no transaction around them. All the openers share one file.             *)
(*                                                                         *)
(* External: SQLite has one writer at a time; a statement that would wait  *)
(* longer than the busy timeout raises; a dead process loses its open      *)
(* transaction; with synchronous = NORMAL a power cut may take back the    *)
(* commits since the last checkpoint, newest first.                        *)
(*                                                                         *)
(* Abstracted: the rows, down to what the category migration and one store *)
(* method of two writes do to them. A file of version 1 or 2 is complete.  *)
(***************************************************************************)
EXTENDS Naturals, Sequences

CONSTANTS
  Opener,     \* the threads and processes that use the file
  NoOne,      \* nobody holds the write lock
  Salt,       \* what secrets.token_hex may return
  NoSalt,     \* no voter_salt row
  Allowance   \* BOUND: how often each kind of outside event may happen

Events == {"votes", "edits", "methods", "faults"}

ASSUME ConnectionAssumption ==
  /\ NoOne \notin Opener
  /\ NoSalt \notin Salt
  /\ Allowance \in [Events -> Nat]

SchemaVersion == 3

VARIABLES
  disk,    \* the file as committed: see File
  synced,  \* an earlier commit a power cut may go back to
  lock,    \* who is inside BEGIN IMMEDIATE, or NoOne
  draft,   \* what that transaction would commit
  conn,    \* per opener: see Unopened
  left     \* what remains of Allowance

connectionVars == <<disk, synced, lock, draft, conn, left>>

\* schema.sql, statement by statement; "others" stands for the seven tables
\* and the indexes that no migration touches.
Script == <<"songs", "categories", "others", "schema_meta", "version">>

\* The state of a file: its tables; of the columns of songs that migrations add,
\* those it has; the recorded version, 0 when there is none; whether somebody has
\* chosen categories by hand; the salt row and the salts its ballots were hashed
\* with; how many of the two writes of a store method it has.
Blank == [tables |-> {}, columns |-> {}, version |-> 0, curated |-> FALSE,
          salt |-> NoSalt, hashed |-> {}, writes |-> 0]

Columns(v) == (IF v >= 2 THEN {"categories"} ELSE {})
              \cup (IF v >= 3 THEN {"excluded"} ELSE {})

Tables(v) == {"songs", "others", "schema_meta"} \cup (IF v >= 2 THEN {"categories"} ELSE {})

Written(v) == [tables |-> Tables(v), columns |-> Columns(v), version |-> v,
               curated |-> FALSE, salt |-> NoSalt, hashed |-> {}, writes |-> 0]

Unopened == [pc |-> "closed", version |-> 0, at |-> 1, salt |-> NoSalt,
             depth |-> 0, wrote |-> FALSE]

Use(event) ==
  /\ left[event] > 0
  /\ left' = [left EXCEPT ![event] = @ - 1]

----------------------------------------------------------------------------
(* Opening: Database.connection and migrate *)

\* connect, then schema_version. A file of a later version raises DatabaseTooNew,
\* every time it is tried.
Connect(t) ==
  /\ conn[t].pc \in {"closed", "refused"}
  /\ conn' = [conn EXCEPT ![t].version = disk.version,
                          ![t].pc = IF disk.version > SchemaVersion THEN "refused"
                                    ELSE IF disk.version = 0 THEN "script" ELSE "ladder"]
  /\ UNCHANGED <<disk, synced, lock, draft, left>>

\* CREATE TABLE IF NOT EXISTS, and INSERT OR IGNORE of the version.
Executed(f, statement) ==
  CASE statement = "version" -> [f EXCEPT !.version = IF @ = 0 THEN SchemaVersion ELSE @]
    [] statement = "songs" /\ "songs" \notin f.tables ->
         [f EXCEPT !.tables = @ \cup {"songs"}, !.columns = Columns(SchemaVersion)]
    [] OTHER -> [f EXCEPT !.tables = @ \cup {statement}]

\* One statement of executescript, committed by itself.
RunStatement(t) ==
  /\ conn[t].pc = "script" /\ conn[t].at <= Len(Script)
  /\ lock = NoOne
  /\ disk' = Executed(disk, Script[conn[t].at])
  /\ conn' = [conn EXCEPT ![t].at = @ + 1]
  /\ UNCHANGED <<synced, lock, draft, left>>

\* The script is done: the version is read again.
Reread(t) ==
  /\ conn[t].pc = "script" /\ conn[t].at > Len(Script)
  /\ conn' = [conn EXCEPT ![t].pc = "ladder", ![t].version = disk.version]
  /\ UNCHANGED <<disk, synced, lock, draft, left>>

Begin(t) ==
  /\ conn[t].pc = "ladder" /\ conn[t].version < SchemaVersion
  /\ lock = NoOne
  /\ lock' = t
  /\ draft' = disk
  /\ conn' = [conn EXCEPT ![t].pc = "alter"]
  /\ UNCHANGED <<disk, synced, left>>

\* The column each rung of the ladder adds. The first one also folds the
\* categories of every show into the song's, over whatever it has.
Added(version) == IF version < 2 THEN "categories" ELSE "excluded"

Climbed(f, version) ==
  IF version < 2
    THEN [f EXCEPT !.tables = @ \cup {"categories"}, !.columns = @ \cup {"categories"},
                   !.curated = FALSE]
    ELSE [f EXCEPT !.columns = @ \cup {"excluded"}]

\* Mutant: no transaction around the ALTER.
AlterInTheOpen(t) ==
  /\ conn[t].pc = "alter"
  /\ Added(conn[t].version) \notin draft.columns
  /\ draft' = Climbed(draft, conn[t].version)
  /\ disk' = draft'
  /\ conn' = [conn EXCEPT ![t].pc = "bump"]
  /\ UNCHANGED <<synced, lock, left>>

\* Mutant: a column that is already there is not an error.
AlterIfMissing(t) ==
  /\ conn[t].pc = "alter"
  /\ draft' = Climbed(draft, conn[t].version)
  /\ conn' = [conn EXCEPT ![t].pc = "bump"]
  /\ UNCHANGED <<disk, synced, lock, left>>

Alter(t) ==
  /\ conn[t].pc = "alter"
  /\ Added(conn[t].version) \notin draft.columns
  /\ draft' = Climbed(draft, conn[t].version)
  /\ conn' = [conn EXCEPT ![t].pc = "bump"]
  /\ UNCHANGED <<disk, synced, lock, left>>

\* Somebody climbed this rung meanwhile: duplicate column name, ROLLBACK, raise.
\* The connection is not kept, so the next use of it starts over.
AlterFails(t) ==
  /\ conn[t].pc = "alter"
  /\ Added(conn[t].version) \in draft.columns
  /\ lock' = NoOne
  /\ draft' = Blank
  /\ conn' = [conn EXCEPT ![t] = Unopened]
  /\ UNCHANGED <<disk, synced, left>>

Bump(t) ==
  /\ conn[t].pc = "bump"
  /\ draft' = [draft EXCEPT !.version = IF conn[t].version < 2 THEN 2 ELSE 3]
  /\ conn' = [conn EXCEPT ![t].pc = "commit", ![t].version = draft'.version]
  /\ UNCHANGED <<disk, synced, lock, left>>

Commit(t) ==
  /\ conn[t].pc = "commit"
  /\ disk' = draft
  /\ lock' = NoOne
  /\ draft' = Blank
  /\ conn' = [conn EXCEPT ![t].pc = "ladder"]
  /\ UNCHANGED <<synced, left>>

\* migrate returned: the thread keeps the connection.
Arrive(t) ==
  /\ conn[t].pc = "ladder" /\ conn[t].version >= SchemaVersion
  /\ conn' = [conn EXCEPT ![t] = [Unopened EXCEPT !.pc = "open"]]
  /\ UNCHANGED <<disk, synced, lock, draft, left>>

\* Database.close, or the pool drops the thread.
Close(t) ==
  /\ conn[t].pc = "open"
  /\ conn' = [conn EXCEPT ![t] = Unopened]
  /\ UNCHANGED <<disk, synced, lock, draft, left>>

----------------------------------------------------------------------------
(* Using it: voter_hash and a vote, an edit by hand, a store method *)

ReadSalt(t) ==
  /\ Use("votes")
  /\ conn[t].pc = "open"
  /\ conn' = [conn EXCEPT ![t].salt = disk.salt,
                          ![t].pc = IF disk.salt = NoSalt THEN "unsalted" ELSE "hashed"]
  /\ UNCHANGED <<disk, synced, lock, draft>>

\* Mutant: INSERT OR REPLACE.
MakeSaltAnyway(t) ==
  /\ conn[t].pc = "unsalted"
  /\ lock = NoOne
  /\ \E s \in Salt :
       /\ disk' = [disk EXCEPT !.salt = s]
       /\ conn' = [conn EXCEPT ![t].salt = s, ![t].pc = "hashed"]
  /\ UNCHANGED <<synced, lock, draft, left>>

\* INSERT OR IGNORE and the read after it, one transaction.
MakeSalt(t) ==
  /\ conn[t].pc = "unsalted"
  /\ lock = NoOne
  /\ \E s \in Salt : disk' = [disk EXCEPT !.salt = IF @ = NoSalt THEN s ELSE @]
  /\ conn' = [conn EXCEPT ![t].salt = disk'.salt, ![t].pc = "hashed"]
  /\ UNCHANGED <<synced, lock, draft, left>>

\* cast_vote, some time after the hash was made.
StoreBallot(t) ==
  /\ conn[t].pc = "hashed"
  /\ lock = NoOne
  /\ disk' = [disk EXCEPT !.hashed = @ \cup {conn[t].salt}]
  /\ conn' = [conn EXCEPT ![t].salt = NoSalt, ![t].pc = "open"]
  /\ UNCHANGED <<synced, lock, draft, left>>

\* set_categories
Curate(t) ==
  /\ Use("edits")
  /\ conn[t].pc = "open"
  /\ lock = NoOne
  /\ disk' = [disk EXCEPT !.curated = TRUE]
  /\ UNCHANGED <<synced, lock, draft, conn>>

\* transaction(): BEGIN IMMEDIATE when nothing is open, else one level deeper,
\* as sync_show around save_memberships.
Enter(t) ==
  \/ /\ Use("methods")
     /\ conn[t].pc = "open"
     /\ lock = NoOne
     /\ lock' = t
     /\ draft' = disk
     /\ conn' = [conn EXCEPT ![t].pc = "method", ![t].depth = 1]
     /\ UNCHANGED <<disk, synced>>
  \/ /\ conn[t].pc = "method" /\ conn[t].depth = 1 /\ draft.writes < 2
     /\ conn' = [conn EXCEPT ![t].depth = 2, ![t].wrote = FALSE]
     /\ UNCHANGED <<disk, synced, lock, draft, left>>

Write(t) ==
  /\ conn[t].pc = "method" /\ draft.writes < 2
  /\ draft' = [draft EXCEPT !.writes = @ + 1]
  /\ conn' = [conn EXCEPT ![t].wrote = TRUE]
  /\ UNCHANGED <<disk, synced, lock, left>>

\* Mutant: every level commits what there is.
LeaveCommits(t) ==
  /\ conn[t].pc = "method"
  /\ disk' = draft
  /\ \/ /\ conn[t].depth = 2 /\ conn[t].wrote
        /\ conn' = [conn EXCEPT ![t].depth = 1]
        /\ UNCHANGED <<lock, draft>>
     \/ /\ conn[t].depth = 1 /\ draft.writes = 2
        /\ lock' = NoOne
        /\ draft' = Blank
        /\ conn' = [conn EXCEPT ![t] = [Unopened EXCEPT !.pc = "open"]]
  /\ UNCHANGED <<synced, left>>

\* Only the outermost level commits.
Leave(t) ==
  /\ conn[t].pc = "method"
  /\ \/ /\ conn[t].depth = 2 /\ conn[t].wrote
        /\ conn' = [conn EXCEPT ![t].depth = 1]
        /\ UNCHANGED <<disk, lock, draft>>
     \/ /\ conn[t].depth = 1 /\ draft.writes = 2
        /\ disk' = draft
        /\ lock' = NoOne
        /\ draft' = Blank
        /\ conn' = [conn EXCEPT ![t] = [Unopened EXCEPT !.pc = "open"]]
  /\ UNCHANGED <<synced, left>>

\* An exception anywhere inside unwinds every level and rolls back.
Raise(t) ==
  /\ Use("faults")
  /\ conn[t].pc = "method"
  /\ lock' = NoOne
  /\ draft' = Blank
  /\ conn' = [conn EXCEPT ![t] = [Unopened EXCEPT !.pc = "open"]]
  /\ UNCHANGED <<disk, synced>>

----------------------------------------------------------------------------
(* What goes wrong outside *)

\* The busy timeout: an opening fails and is tried again by the next use, a
\* request fails and the connection stays.
Locked(t) ==
  /\ Use("faults")
  /\ lock \notin {NoOne, t}
  /\ \/ /\ conn[t].pc \in {"script", "ladder"}
        /\ conn' = [conn EXCEPT ![t] = Unopened]
     \/ /\ conn[t].pc \in {"unsalted", "hashed"}
        /\ conn' = [conn EXCEPT ![t] = [Unopened EXCEPT !.pc = "open"]]
  /\ UNCHANGED <<disk, synced, lock, draft>>

\* One opener's process dies, and its transaction with it.
Crash(t) ==
  /\ Use("faults")
  /\ conn[t].pc # "closed"
  /\ conn' = [conn EXCEPT ![t] = Unopened]
  /\ IF lock = t THEN lock' = NoOne /\ draft' = Blank ELSE UNCHANGED <<lock, draft>>
  /\ UNCHANGED <<disk, synced>>

\* The write-ahead log is copied into the file and synced.
Checkpoint ==
  /\ synced # disk
  /\ synced' = disk
  /\ UNCHANGED <<disk, lock, draft, conn, left>>

PowerCut ==
  /\ Use("faults")
  /\ disk' = synced
  /\ lock' = NoOne
  /\ draft' = Blank
  /\ conn' = [t \in Opener |-> Unopened]
  /\ UNCHANGED synced

----------------------------------------------------------------------------
\* A file that does not exist yet, or one that some version of this code left,
\* later ones included.
ConnectionInit ==
  /\ disk \in {Blank} \cup {Written(v) : v \in 1 .. SchemaVersion + 1}
  /\ synced = disk
  /\ lock = NoOne
  /\ draft = Blank
  /\ conn = [t \in Opener |-> Unopened]
  /\ left = Allowance

Opening(t) ==
  \/ Connect(t) \/ RunStatement(t) \/ Reread(t)
  \/ Begin(t) \/ Alter(t) \/ AlterFails(t) \/ Bump(t) \/ Commit(t)
  \/ Arrive(t)

Serving(t) == MakeSalt(t) \/ StoreBallot(t) \/ Enter(t) \/ Write(t) \/ Leave(t)

ConnectionNext ==
  \/ \E t \in Opener :
       \/ Opening(t) \/ Close(t)
       \/ ReadSalt(t) \/ Curate(t) \/ Serving(t)
       \/ Raise(t) \/ Locked(t) \/ Crash(t)
  \/ Checkpoint \/ PowerCut

ConnectionSpec == ConnectionInit /\ [][ConnectionNext]_connectionVars

\* Every opener keeps using the file, and SQLite lets each writer in in the end.
FairConnection ==
  /\ ConnectionSpec
  /\ \A t \in Opener :
       WF_connectionVars(Opening(t)) /\ WF_connectionVars(Serving(t))

----------------------------------------------------------------------------
(* Properties *)

\* Whatever crashes and whoever opens it at the same time, the file is never a
\* half-applied migration, nor half of a store method: its columns are those of
\* the version it records, and a version is recorded only once every table is
\* there (connection.py:19-22, 107-109, 122-125; schema.sql:151-155). A thread
\* that holds a connection holds one on the current schema.
WholeOnDisk ==
  /\ disk.version > 0 => disk.tables = Tables(disk.version)
                         /\ disk.columns = Columns(disk.version)
  /\ disk.version = 0 => disk.columns \in {{}, Columns(SchemaVersion)}
  /\ disk.writes # 1
  /\ \A t \in Opener : conn[t].pc \in {"open", "unsalted", "hashed", "method"}
                          => disk.version = SchemaVersion

\* Every stored ballot was hashed with the salt the file has now, so a voter stays
\* the same voter over races, restarts and power cuts (store.py:228-246).
OneSalt == disk.hashed \subseteq {disk.salt} \ {NoSalt}

\* Each rung is climbed once: an opener that read an old version never puts it
\* back, nor folds the categories again over what somebody chose since, and a
\* file of a later version is left alone. Only a power cut takes anything back
\* (connection.py:47-52, 93-100, 106-136).
ClimbsOnce ==
  [][\/ PowerCut
     \/ /\ disk'.version >= disk.version
        /\ disk.curated => disk'.curated
        /\ disk.version > SchemaVersion => disk' = disk]_connectionVars

\* What a file holds, with its tables and columns left out.
Contents(f) == [version |-> f.version, curated |-> f.curated, salt |-> f.salt,
                hashed |-> f.hashed, writes |-> f.writes]

Promised == INSTANCE VotingFile WITH
  Latest <- SchemaVersion,
  file   <- Contents(disk),
  saved  <- Contents(synced)

\* Whoever opens the file at the same time and whatever dies halfway, what is
\* committed has taken one step of VotingFile, or none: every rung is climbed
\* once and takes nothing away, ballots only ever meet one salt, methods land
\* whole, and a file of a later version is left alone (connection.py:47-52,
\* 93-136, 225-263, store.py:228-246).
ImplementsVotingFile == Promised!Spec

\* Whoever needs the database gets it again and again, over duplicate-column
\* errors, busy timeouts and crashes in the middle of the script or a migration
\* (connection.py:225-232).
EverybodyOpens ==
  \A t \in Opener : []<>(conn[t].pc = "open" \/ disk.version > SchemaVersion)
===============================================================================
