--------------------------- MODULE ConnectionProofs ---------------------------
(***************************************************************************)
(* Proofs about opening the database: for any number of openers and any    *)
(* salts, no half-applied migration or method is ever on disk, every       *)
(* ballot is hashed with the file's salt and every rung is climbed once.   *)
(*                                                                         *)
(* The invariant says of every opener what its place in the ladder owes to *)
(* the file: what it has read is never ahead of the file, and while it is  *)
(* inside a transaction its draft is the file with that change alone.      *)
(***************************************************************************)
EXTENDS Connection, TLAPS

ScriptTables == {"songs", "categories", "others", "schema_meta"}

File == [tables : SUBSET ScriptTables, columns : SUBSET {"categories", "excluded"},
         version : Nat, curated : BOOLEAN, salt : Salt \cup {NoSalt},
         hashed : SUBSET Salt, writes : 0 .. 2]

Handle == [pc : {"closed", "refused", "script", "ladder", "alter", "bump", "commit",
                 "open", "unsalted", "hashed", "method"},
           version : Nat, at : 1 .. 6, salt : Salt \cup {NoSalt},
           depth : 0 .. 2, wrote : BOOLEAN]

\* A file some commit may leave behind.
Sound(f) ==
  /\ f \in File
  /\ f.version > 0 => f.tables = Tables(f.version) /\ f.columns = Columns(f.version)
  /\ f.version = 0 => \/ "songs" \in f.tables /\ f.columns = {"categories", "excluded"}
                      \/ "songs" \notin f.tables /\ f.columns = {}
  /\ f.writes # 1
  /\ f.curated => f.version >= SchemaVersion
  /\ f.hashed \subseteq {f.salt} \ {NoSalt}

Inside == {"alter", "bump", "commit", "method"}

\* What an opener on its way up owes to the file.
Climbing(t) ==
  LET c == conn[t]
  IN  /\ c.pc = "script" =>
           /\ disk.version \in {0, 3}
           /\ c.at > 1 => "songs" \in disk.tables
           /\ c.at > 2 => "categories" \in disk.tables
           /\ c.at > 3 => "others" \in disk.tables
           /\ c.at > 4 => "schema_meta" \in disk.tables
           /\ c.at > 5 => disk.version = 3
      /\ c.pc = "ladder" => 1 <= c.version /\ c.version <= disk.version /\ disk.version <= 3
      /\ c.pc = "alter" => /\ c.version \in {1, 2} /\ draft = disk
                           /\ c.version <= disk.version /\ disk.version <= 3
      /\ c.pc = "bump" => /\ c.version \in {1, 2} /\ c.version = disk.version
                          /\ draft = Climbed(disk, c.version)
      /\ c.pc = "commit" => /\ disk.version \in {1, 2} /\ c.version = disk.version + 1
                            /\ draft = [Climbed(disk, disk.version) EXCEPT !.version = c.version]

\* And one that uses it.
Using(t) ==
  LET c == conn[t]
  IN  /\ c.pc \in {"open", "unsalted", "hashed", "method"} => disk.version = 3
      /\ c.pc = "hashed" => c.salt = disk.salt /\ c.salt \in Salt
      /\ c.pc = "method" => draft = [disk EXCEPT !.writes = draft.writes]
                            /\ draft.writes \in 0 .. 2
      /\ c.pc \in Inside => lock = t

ConnectionInv ==
  /\ Sound(disk)
  /\ Sound(synced)
  /\ lock \in Opener \cup {NoOne}
  /\ conn \in [Opener -> Handle]
  /\ \A t \in Opener : Climbing(t) /\ Using(t)

\* What every step but a power cut does to the file.
Keeps ==
  /\ disk'.version >= disk.version
  /\ disk.curated => disk'.curated
  /\ disk.version > SchemaVersion => disk' = disk

----------------------------------------------------------------------------
(* Facts about files *)

\* Blank and the files of every version are sound (schema.sql).
LEMMA SoundFiles ==
  /\ Sound(Blank)
  /\ \A v \in 1 .. 4 : Sound(Written(v))
  <1>1. Blank \in File
    BY DEF Blank, File
  <1>2. Sound(Blank)
    BY <1>1 DEF Sound, Blank, SchemaVersion
  <1>3. ASSUME NEW v \in 1 .. 4 PROVE Sound(Written(v))
    <2>1. Tables(v) \in SUBSET ScriptTables /\ Columns(v) \in SUBSET {"categories", "excluded"}
      BY DEF Tables, Columns, ScriptTables
    <2>2. Written(v) \in File
      BY <2>1 DEF Written, File
    <2> QED BY <2>2 DEF Written, Sound, SchemaVersion
  <1> QED BY <1>2, <1>3

\* One rung of the ladder takes a sound file to a sound file (connection.py:106-136).
LEMMA RungIsSound ==
  ASSUME NEW f, Sound(f), f.version \in {1, 2}
  PROVE  LET g == Climbed(f, f.version)
         IN  g \in File /\ Sound([g EXCEPT !.version = f.version + 1])
  <1> DEFINE g == Climbed(f, f.version)
             h == [g EXCEPT !.version = f.version + 1]
  <1>1. g \in File
    BY DEF Sound, File, Climbed, ScriptTables
  <1>2. h \in File
    BY <1>1 DEF File
  <1>3. /\ h.version = f.version + 1 /\ h.writes = f.writes /\ h.salt = f.salt
        /\ h.hashed = f.hashed /\ h.tables = g.tables /\ h.columns = g.columns
        /\ h.curated = g.curated
    BY <1>1, <1>2 DEF File, Climbed, Sound
  <1>4. g.tables = Tables(f.version + 1)
    BY DEF Sound, File, Climbed, Tables
  <1>5. g.columns = Columns(f.version + 1)
    BY DEF Sound, File, Climbed, Columns
  <1>6. g.curated => f.version + 1 >= SchemaVersion
    BY DEF Sound, File, Climbed, SchemaVersion
  <1> QED
    BY <1>1, <1>2, <1>3, <1>4, <1>5, <1>6 DEF Sound

----------------------------------------------------------------------------
(* The invariant holds *)

LEMMA InvInit == ConnectionInit => ConnectionInv
  <1> SUFFICES ASSUME ConnectionInit PROVE ConnectionInv
    OBVIOUS
  <1>1. Sound(disk)
    BY SoundFiles DEF ConnectionInit, SchemaVersion
  <1>2. conn \in [Opener -> Handle] /\ \A t \in Opener : conn[t].pc = "closed"
    BY DEF ConnectionInit, Unopened, Handle
  <1> QED
    BY <1>1, <1>2 DEF ConnectionInit, ConnectionInv, Climbing, Using, Inside

\* What an opener owes stays paid when the file and the draft stay as they are.
LEMMA OthersUnmoved ==
  ASSUME ConnectionInv, NEW u \in Opener,
         UNCHANGED <<disk, lock, draft>>, conn'[u] = conn[u]
  PROVE  Climbing(u)' /\ Using(u)'
  BY DEF ConnectionInv, Climbing, Using, Climbed, Inside

\* Nor, outside every transaction, when the file only gains.
LEMMA OthersOutside ==
  ASSUME ConnectionInv, NEW u \in Opener, conn[u].pc \notin Inside, conn'[u] = conn[u],
         disk'.version = disk.version, disk.tables \subseteq disk'.tables,
         conn[u].pc = "hashed" => disk'.salt = disk.salt
  PROVE  Climbing(u)' /\ Using(u)'
  BY DEF ConnectionInv, Climbing, Using, Inside

\* Only the holder of the lock is inside a transaction.
LEMMA OnlyTheHolder ==
  ASSUME ConnectionInv, NEW t \in Opener, conn[t].pc \in Inside
  PROVE  lock = t /\ \A u \in Opener \ {t} : conn[u].pc \notin Inside
  BY DEF ConnectionInv, Using

\* Nobody is inside a transaction while the lock is free.
LEMMA FreeLock ==
  ASSUME ConnectionInv, lock = NoOne
  PROVE  \A u \in Opener : conn[u].pc \notin Inside
  BY ConnectionAssumption DEF ConnectionInv, Using

----------------------------------------------------------------------------
(* Opening *)

\* The handle a step leaves is again a handle.
LEMMA HandleType ==
  ASSUME ConnectionInv, NEW t \in Opener, NEW h \in Handle,
         conn' = [conn EXCEPT ![t] = h]
  PROVE  /\ conn' \in [Opener -> Handle]
         /\ conn'[t] = h
         /\ \A u \in Opener \ {t} : conn'[u] = conn[u]
  BY DEF ConnectionInv

LEMMA UnopenedType == Unopened \in Handle /\ [Unopened EXCEPT !.pc = "open"] \in Handle
  <1>1. Unopened \in Handle
    BY DEF Unopened, Handle
  <1>2. [Unopened EXCEPT !.pc = "open"] \in Handle
    BY <1>1 DEF Handle
  <1> QED BY <1>1, <1>2

\* Steps that only move the opener itself: connect, the second reading of the
\* version, keeping or closing the connection, reading the salt.
LEMMA OwnSteps ==
  ASSUME ConnectionInv, NEW t \in Opener,
         Connect(t) \/ Reread(t) \/ Arrive(t) \/ Close(t) \/ ReadSalt(t)
  PROVE  ConnectionInv'
  <1>0. /\ UNCHANGED <<disk, synced, lock, draft>>
        /\ \A u \in Opener \ {t} : conn'[u] = conn[u]
    BY DEF ConnectionInv, Connect, Reread, Arrive, Close, ReadSalt
  <1> DEFINE c == conn[t]
  <1>t. c \in Handle /\ conn \in [Opener -> Handle] /\ Sound(disk) /\ Climbing(t) /\ Using(t)
    BY DEF ConnectionInv
  <1>1. conn' \in [Opener -> Handle] /\ Climbing(t)' /\ Using(t)'
    <2>1. CASE Connect(t)
      <3> DEFINE h == [c EXCEPT !.version = disk.version,
                                !.pc = IF disk.version > SchemaVersion THEN "refused"
                                       ELSE IF disk.version = 0 THEN "script" ELSE "ladder"]
      <3>1. disk.version \in Nat
        BY <1>t DEF Sound, File
      <3>2. h \in Handle
        BY <1>t, <3>1 DEF Handle
      <3>3. conn' = [conn EXCEPT ![t] = h]
        BY <2>1 DEF Connect
      <3>4. conn' \in [Opener -> Handle] /\ conn'[t] = h
        BY <3>2, <3>3, HandleType
      <3> QED
        BY <1>t, <3>1, <3>4, <1>0, <2>1 DEF Connect, Climbing, Using, Inside, SchemaVersion, Handle
    <2>2. CASE Reread(t)
      <3> DEFINE h == [c EXCEPT !.pc = "ladder", !.version = disk.version]
      <3>1. disk.version \in Nat /\ disk.version = 3
        BY <1>t, <2>2 DEF Sound, File, Reread, Climbing, Script, Handle
      <3>2. h \in Handle
        BY <1>t, <3>1 DEF Handle
      <3>3. conn' = [conn EXCEPT ![t] = h]
        BY <2>2 DEF Reread
      <3>4. conn' \in [Opener -> Handle] /\ conn'[t] = h
        BY <3>2, <3>3, HandleType
      <3>5. h.pc = "ladder" /\ h.version = 3
        BY <1>t, <3>1 DEF Handle
      <3> QED
        BY <3>1, <3>4, <3>5, <1>0 DEF Climbing, Using, Inside
    <2>3. CASE Arrive(t)
      <3> DEFINE h == [Unopened EXCEPT !.pc = "open"]
      <3>0. c.version \in Nat /\ disk.version \in Nat
        BY <1>t DEF Sound, File, Handle
      <3>1. disk.version = 3
        BY <1>t, <3>0, <2>3 DEF Arrive, Climbing, SchemaVersion
      <3>2. conn' \in [Opener -> Handle] /\ conn'[t] = h
        BY <2>3, UnopenedType, HandleType DEF Arrive
      <3>3. h.pc = "open"
        BY DEF Unopened
      <3> QED
        BY <3>1, <3>2, <3>3, <1>0 DEF Climbing, Using, Inside
    <2>4. CASE Close(t)
      <3>1. conn' \in [Opener -> Handle] /\ conn'[t] = Unopened
        BY <2>4, UnopenedType, HandleType DEF Close
      <3> QED
        BY <3>1 DEF Climbing, Using, Inside, Unopened
    <2>5. CASE ReadSalt(t)
      <3> DEFINE h == [c EXCEPT !.salt = disk.salt,
                                !.pc = IF disk.salt = NoSalt THEN "unsalted" ELSE "hashed"]
      <3>1. disk.salt \in Salt \cup {NoSalt} /\ disk.version = 3
        BY <1>t, <2>5 DEF Sound, File, ReadSalt, Using
      <3>2. h \in Handle
        BY <1>t, <3>1 DEF Handle
      <3>3. conn' = [conn EXCEPT ![t] = h]
        BY <2>5 DEF ReadSalt
      <3>4. conn' \in [Opener -> Handle] /\ conn'[t] = h
        BY <3>2, <3>3, HandleType
      <3>5. /\ h.pc = IF disk.salt = NoSalt THEN "unsalted" ELSE "hashed"
            /\ h.salt = disk.salt
        BY <1>t DEF Handle
      <3> QED
        BY <3>1, <3>4, <3>5, <1>0 DEF Climbing, Using, Inside
    <2> QED BY <2>1, <2>2, <2>3, <2>4, <2>5
  <1>2. \A u \in Opener \ {t} : Climbing(u)' /\ Using(u)'
    BY <1>0, OthersUnmoved
  <1> QED
    BY <1>0, <1>1, <1>2 DEF ConnectionInv, Sound

\* The current version has every table and every column.
LEMMA AllColumns == Columns(3) = {"categories", "excluded"} /\ Tables(3) = ScriptTables
  <1>1. Columns(3) = {"categories"} \cup {"excluded"}
    BY DEF Columns
  <1>2. Tables(3) = {"songs", "others", "schema_meta"} \cup {"categories"}
    BY DEF Tables
  <1> QED BY <1>1, <1>2 DEF ScriptTables

\* One statement of schema.sql, in an order that ends with the version.
LEMMA StatementFacts ==
  ASSUME NEW f, Sound(f), f.version \in {0, 3}, NEW i \in 1 .. 5,
         i > 1 => "songs" \in f.tables,
         i > 4 => f.tables = ScriptTables,
         NEW g, g = Executed(f, Script[i])
  PROVE  /\ Sound(g)
         /\ f.tables \subseteq g.tables
         /\ i < 5 => Script[i] \in g.tables /\ g.version = f.version
         /\ i = 5 => g.version = 3
         /\ g.salt = f.salt /\ g.curated = f.curated
  <1>0. f \in File
    BY DEF Sound
  <1>1. CASE i = 1 /\ "songs" \notin f.tables
    <2> DEFINE h == [f EXCEPT !.tables = @ \cup {"songs"}]
               k == [h EXCEPT !.columns = Columns(SchemaVersion)]
    <2>1. f.version = 0
      BY <1>1 DEF Sound, Tables
    <2>2. Script[i] = "songs" /\ g = k
      BY <1>1 DEF Executed, Script
    <2>3. h \in File
      BY <1>0 DEF File, ScriptTables
    <2>4. k \in File
      BY <2>3 DEF File, Columns
    <2>5. /\ k.tables = f.tables \cup {"songs"} /\ k.version = f.version /\ k.salt = f.salt
          /\ k.curated = f.curated /\ k.writes = f.writes /\ k.hashed = f.hashed
          /\ k.columns = Columns(SchemaVersion)
      BY <1>0, <2>3, <2>4 DEF File
    <2>6. Columns(SchemaVersion) = {"categories", "excluded"}
      BY AllColumns DEF SchemaVersion
    <2>7. Sound(k)
      <3>1. k.writes # 1 /\ (k.curated => k.version >= SchemaVersion)
            /\ k.hashed \subseteq {k.salt} \ {NoSalt}
        BY <2>5 DEF Sound
      <3> HIDE DEF k
      <3> QED BY <2>1, <2>4, <2>5, <2>6, <3>1 DEF Sound
    <2>8. Script[1] = "songs"
      BY DEF Script
    <2> HIDE DEF k
    <2> QED BY <1>1, <2>2, <2>5, <2>7, <2>8
  <1>2. CASE i < 5 /\ ~(i = 1 /\ "songs" \notin f.tables)
    <2> DEFINE h == [f EXCEPT !.tables = @ \cup {Script[i]}]
    <2>1. Script[i] \in ScriptTables /\ (Script[i] = "songs" <=> i = 1) /\ Script[i] # "version"
      BY <1>2 DEF Script, ScriptTables
    <2>2. g = h
      BY <1>2, <2>1 DEF Executed
    <2>3. h \in File
      BY <1>0, <2>1 DEF File
    <2>4. /\ h.tables = f.tables \cup {Script[i]} /\ h.version = f.version /\ h.salt = f.salt
          /\ h.curated = f.curated /\ h.writes = f.writes /\ h.hashed = f.hashed
          /\ h.columns = f.columns
      BY <1>0, <2>3 DEF File
    <2>5. "songs" \in f.tables
      BY <1>2
    <2>6. f.version = 3 => h.tables = f.tables
      BY <2>1, <2>4 DEF Sound, Tables, ScriptTables
    <2> QED BY <1>2, <2>1, <2>2, <2>3, <2>4, <2>5, <2>6 DEF Sound
  <1>3. CASE i = 5
    <2> DEFINE h == [f EXCEPT !.version = 3]
    <2>1. Script[i] = "version" /\ g = h
      BY <1>0, <1>3 DEF Executed, Script, SchemaVersion, File
    <2>2. h \in File
      BY <1>0 DEF File
    <2>3. /\ h.tables = f.tables /\ h.version = 3 /\ h.salt = f.salt /\ h.columns = f.columns
          /\ h.curated = f.curated /\ h.writes = f.writes /\ h.hashed = f.hashed
      BY <1>0, <2>2 DEF File
    <2>4. f.tables = Tables(3) /\ f.columns = Columns(3)
      BY <1>3, AllColumns, "songs" \in ScriptTables DEF Sound, ScriptTables
    <2>5. Sound(h)
      <3>1. h.writes # 1 /\ (h.curated => h.version >= SchemaVersion)
            /\ h.hashed \subseteq {h.salt} \ {NoSalt}
        BY <2>3 DEF Sound, SchemaVersion
      <3> HIDE DEF h
      <3> QED BY <2>2, <2>3, <2>4, <3>1 DEF Sound
    <2> HIDE DEF h
    <2> QED BY <1>3, <2>1, <2>3, <2>5
  <1> QED BY <1>1, <1>2, <1>3

\* A step that leaves the file alone keeps it.
LEMMA SameFileKeeps == ConnectionInv /\ disk' = disk => Keeps
  <1> SUFFICES ASSUME ConnectionInv, disk' = disk PROVE Keeps
    OBVIOUS
  <1>1. disk.version \in Nat
    BY DEF ConnectionInv, Sound, File
  <1> QED BY <1>1 DEF Keeps

\* executescript, one statement, with nobody in a transaction (connection.py:102-104).
LEMMA RunStatementKeeps ==
  ASSUME ConnectionInv, NEW t \in Opener, RunStatement(t)
  PROVE  ConnectionInv' /\ Keeps
  <1> DEFINE c == conn[t]
             h == [c EXCEPT !.at = @ + 1]
  <1>1. /\ c \in Handle /\ conn \in [Opener -> Handle] /\ Sound(disk) /\ Climbing(t)
        /\ disk.version \in Nat
    BY DEF ConnectionInv, Sound, File
  <1>2. /\ c.pc = "script" /\ c.at \in 1 .. 5 /\ disk.version \in {0, 3}
        /\ disk' = Executed(disk, Script[c.at])
        /\ conn' = [conn EXCEPT ![t] = h] /\ UNCHANGED <<synced, lock, draft>>
    BY <1>1 DEF RunStatement, Script, Climbing, Handle
  <1>3. h \in Handle /\ h.pc = "script" /\ h.at = c.at + 1
    BY <1>1, <1>2 DEF Handle
  <1>4. /\ conn' \in [Opener -> Handle] /\ conn'[t] = h
        /\ \A u \in Opener \ {t} : conn'[u] = conn[u]
    BY <1>2, <1>3, HandleType
  <1>5. disk.tables \subseteq ScriptTables
    BY <1>1 DEF Sound, File
  <1>6. c.at > 1 => "songs" \in disk.tables
    BY <1>1, <1>2 DEF Climbing
  <1>7. c.at > 4 => disk.tables = ScriptTables
    BY <1>1, <1>2, <1>5 DEF Climbing, ScriptTables
  <1>8. /\ Sound(disk')
        /\ disk.tables \subseteq disk'.tables
        /\ c.at < 5 => Script[c.at] \in disk'.tables /\ disk'.version = disk.version
        /\ c.at = 5 => disk'.version = 3
        /\ disk'.salt = disk.salt /\ disk'.curated = disk.curated
    BY <1>1, <1>2, <1>6, <1>7, StatementFacts
  <1>9. disk'.version \in {0, 3} /\ (disk.version = 3 => disk'.version = 3)
    BY <1>2, <1>8
  <1>10. /\ c.at = 1 => "songs" \in disk'.tables
         /\ c.at = 2 => "categories" \in disk'.tables
         /\ c.at = 3 => "others" \in disk'.tables
         /\ c.at = 4 => "schema_meta" \in disk'.tables
    BY <1>8 DEF Script
  <1>11. Climbing(t)'
    <2>1. Climbing(t) /\ c.pc = "script"
      BY <1>1, <1>2
    <2> QED BY <2>1, <1>2, <1>3, <1>4, <1>8, <1>9, <1>10 DEF Climbing
  <1>12. Using(t)'
    BY <1>3, <1>4 DEF Using, Inside
  <1>13. ASSUME NEW u \in Opener \ {t} PROVE Climbing(u)' /\ Using(u)'
    <2>1. conn[u].pc \notin Inside
      BY FreeLock DEF RunStatement
    <2>2. conn'[u] = conn[u] /\ Climbing(u) /\ Using(u)
      BY <1>4 DEF ConnectionInv
    <2>3. Climbing(u)'
      <3>1. CASE conn[u].pc = "script"
        BY <2>2, <3>1, <1>8, <1>9 DEF Climbing
      <3>2. CASE conn[u].pc = "ladder"
        <4>1. conn[u].version \in Nat /\ disk.version # 0
          BY <1>1, <2>2, <3>2 DEF Climbing, Handle
        <4>2. disk.version = 3 /\ disk'.version = 3
          BY <1>2, <1>9, <4>1
        <4> QED BY <2>2, <3>2, <4>2 DEF Climbing
      <3> QED BY <2>1, <2>2, <3>1, <3>2 DEF Climbing, Inside
    <2>4. Using(u)'
      BY <2>1, <2>2, <1>8, <1>9 DEF Using, Inside
    <2> QED BY <2>3, <2>4
  <1>14. Sound(synced)' /\ lock' \in Opener \cup {NoOne}
    BY <1>2 DEF ConnectionInv
  <1>15. Keeps
    BY <1>2, <1>8, <1>9 DEF Keeps, SchemaVersion
  <1> QED
    BY <1>4, <1>8, <1>11, <1>12, <1>13, <1>14, <1>15 DEF ConnectionInv

\* BEGIN IMMEDIATE, and the three steps of a rung: what the transaction holds is
\* the file with that rung climbed, and a rung somebody else climbed is never
\* climbed again (connection.py:106-136).
LEMMA BeginKeeps ==
  ASSUME ConnectionInv, NEW t \in Opener, Begin(t)
  PROVE  ConnectionInv' /\ Keeps
  <1> DEFINE c == conn[t]
             h == [c EXCEPT !.pc = "alter"]
  <1>1. /\ c \in Handle /\ conn \in [Opener -> Handle] /\ Climbing(t)
        /\ c.pc = "ladder" /\ c.version < 3 /\ lock = NoOne /\ lock' = t /\ draft' = disk
        /\ conn' = [conn EXCEPT ![t] = h] /\ UNCHANGED <<disk, synced>>
    BY DEF ConnectionInv, Begin, SchemaVersion
  <1>2. h \in Handle /\ h.pc = "alter" /\ h.version = c.version
    BY <1>1 DEF Handle
  <1>3. /\ conn' \in [Opener -> Handle] /\ conn'[t] = h
        /\ \A u \in Opener \ {t} : conn'[u] = conn[u]
    BY <1>1, <1>2, HandleType
  <1>4. c.version \in {1, 2} /\ c.version <= disk.version /\ disk.version <= 3
    <2>1. c.version \in Nat
      BY <1>1 DEF Handle
    <2>2. 1 <= c.version /\ c.version <= disk.version /\ disk.version <= 3
      BY <1>1 DEF Climbing
    <2> QED BY <1>1, <2>1, <2>2
  <1>5. Climbing(t)' /\ Using(t)'
    BY <1>1, <1>2, <1>3, <1>4 DEF Climbing, Using
  <1>6. \A u \in Opener \ {t} : Climbing(u)' /\ Using(u)'
    BY <1>1, <1>3, FreeLock, OthersOutside
  <1>7. Sound(disk)' /\ Sound(synced)' /\ lock' \in Opener \cup {NoOne}
    BY <1>1 DEF ConnectionInv
  <1> QED
    BY <1>1, <1>3, <1>5, <1>6, <1>7, SameFileKeeps DEF ConnectionInv

LEMMA AlterKeeps ==
  ASSUME ConnectionInv, NEW t \in Opener, Alter(t)
  PROVE  ConnectionInv' /\ Keeps
  <1> DEFINE c == conn[t]
             h == [c EXCEPT !.pc = "bump"]
  <1>1. /\ c \in Handle /\ conn \in [Opener -> Handle] /\ Climbing(t) /\ Using(t) /\ Sound(disk)
        /\ c.pc = "alter" /\ Added(c.version) \notin draft.columns
        /\ draft' = Climbed(draft, c.version)
        /\ conn' = [conn EXCEPT ![t] = h] /\ UNCHANGED <<disk, synced, lock>>
    BY DEF ConnectionInv, Alter
  <1>2. h \in Handle /\ h.pc = "bump" /\ h.version = c.version
    BY <1>1 DEF Handle
  <1>3. /\ conn' \in [Opener -> Handle] /\ conn'[t] = h
        /\ \A u \in Opener \ {t} : conn'[u] = conn[u]
    BY <1>1, <1>2, HandleType
  <1>4. /\ c.version \in {1, 2} /\ c.version <= disk.version /\ disk.version <= 3
        /\ draft = disk /\ disk.version \in Nat
    BY <1>1 DEF Climbing, Sound, File
  <1>5. c.version = disk.version
    <2>1. CASE disk.version = 3
      <3>1. disk.columns = {"categories", "excluded"}
        BY <1>1, <2>1, AllColumns DEF Sound
      <3> QED BY <1>1, <1>4, <3>1 DEF Added
    <2>2. CASE disk.version = 2
      <3>1. "categories" \in disk.columns
        BY <1>1, <2>2 DEF Sound, Columns
      <3>2. c.version # 1
        BY <1>1, <1>4, <3>1 DEF Added
      <3> QED BY <1>4, <2>2, <3>2
    <2> QED BY <1>4, <2>1, <2>2
  <1>6. lock = t /\ \A u \in Opener \ {t} : conn[u].pc \notin Inside
    BY <1>1, OnlyTheHolder DEF Inside
  <1>7. Climbing(t)' /\ Using(t)'
    BY <1>1, <1>2, <1>3, <1>4, <1>5, <1>6 DEF Climbing, Using
  <1>8. \A u \in Opener \ {t} : Climbing(u)' /\ Using(u)'
    BY <1>1, <1>3, <1>6, OthersOutside
  <1>9. Sound(disk)' /\ Sound(synced)' /\ lock' \in Opener \cup {NoOne}
    BY <1>1 DEF ConnectionInv
  <1> QED
    BY <1>1, <1>3, <1>7, <1>8, <1>9, SameFileKeeps DEF ConnectionInv

LEMMA BumpKeeps ==
  ASSUME ConnectionInv, NEW t \in Opener, Bump(t)
  PROVE  ConnectionInv' /\ Keeps
  <1> DEFINE c == conn[t]
             h == [c EXCEPT !.pc = "commit", !.version = draft'.version]
  <1>1. /\ c \in Handle /\ conn \in [Opener -> Handle] /\ Climbing(t) /\ Using(t) /\ Sound(disk)
        /\ c.pc = "bump"
        /\ draft' = [draft EXCEPT !.version = IF c.version < 2 THEN 2 ELSE 3]
        /\ UNCHANGED <<disk, synced, lock>>
    BY DEF ConnectionInv, Bump
  <1>c. conn' = [conn EXCEPT ![t] = h]
    <2>1. conn' = [conn EXCEPT ![t].pc = "commit", ![t].version = draft'.version]
      BY DEF Bump
    <2>2. ASSUME NEW v
          PROVE  [conn EXCEPT ![t].pc = "commit", ![t].version = v]
                   = [conn EXCEPT ![t] = [c EXCEPT !.pc = "commit", !.version = v]]
      OBVIOUS
    <2> QED BY <2>1, <2>2
  <1>2. /\ c.version \in {1, 2} /\ c.version = disk.version
        /\ draft = Climbed(disk, disk.version) /\ draft \in File
    <2>1. c.version \in {1, 2} /\ c.version = disk.version /\ draft = Climbed(disk, disk.version)
      BY <1>1 DEF Climbing
    <2>2. Climbed(disk, disk.version) \in File
      BY <1>1, <2>1, RungIsSound
    <2> QED BY <2>1, <2>2
  <1>3. draft'.version = c.version + 1
    <2>1. (IF c.version < 2 THEN 2 ELSE 3) = c.version + 1
      BY <1>2
    <2>2. draft' = [draft EXCEPT !.version = c.version + 1]
      BY <1>1, <2>1
    <2> QED BY <1>2, <2>2 DEF File
  <1>4. draft' = [Climbed(disk, disk.version) EXCEPT !.version = c.version + 1]
    BY <1>1, <1>2
  <1>5. h \in Handle /\ h.pc = "commit" /\ h.version = c.version + 1
    <2> DEFINE g == [c EXCEPT !.pc = "commit"]
    <2>1. g \in Handle /\ g.pc = "commit"
      BY <1>1 DEF Handle
    <2>2. c.version + 1 \in Nat /\ h = [g EXCEPT !.version = c.version + 1]
      BY <1>2, <1>3
    <2> HIDE DEF g
    <2> QED BY <2>1, <2>2 DEF Handle
  <1>6. /\ conn' \in [Opener -> Handle] /\ conn'[t] = h
        /\ \A u \in Opener \ {t} : conn'[u] = conn[u]
    BY <1>c, <1>5, HandleType
  <1>7. lock = t /\ \A u \in Opener \ {t} : conn[u].pc \notin Inside
    BY <1>1, OnlyTheHolder DEF Inside
  <1>8. Climbing(t)' /\ Using(t)'
    BY <1>1, <1>2, <1>4, <1>5, <1>6, <1>7 DEF Climbing, Using
  <1>9. \A u \in Opener \ {t} : Climbing(u)' /\ Using(u)'
    BY <1>1, <1>6, <1>7, OthersOutside
  <1>10. Sound(disk)' /\ Sound(synced)' /\ lock' \in Opener \cup {NoOne}
    BY <1>1 DEF ConnectionInv
  <1> QED
    BY <1>1, <1>6, <1>8, <1>9, <1>10, SameFileKeeps DEF ConnectionInv

LEMMA CommitKeeps ==
  ASSUME ConnectionInv, NEW t \in Opener, Commit(t)
  PROVE  ConnectionInv' /\ Keeps
  <1> DEFINE c == conn[t]
             h == [c EXCEPT !.pc = "ladder"]
  <1>1. /\ c \in Handle /\ conn \in [Opener -> Handle] /\ Climbing(t) /\ Using(t) /\ Sound(disk)
        /\ c.pc = "commit" /\ disk' = draft /\ lock' = NoOne
        /\ conn' = [conn EXCEPT ![t] = h] /\ UNCHANGED synced
    BY DEF ConnectionInv, Commit
  <1>2. /\ disk.version \in {1, 2} /\ c.version = disk.version + 1
        /\ disk' = [Climbed(disk, disk.version) EXCEPT !.version = disk.version + 1]
    BY <1>1 DEF Climbing
  <1>3. Sound(disk') /\ disk'.version = disk.version + 1
    <2>1. Climbed(disk, disk.version) \in File /\ Sound(disk')
      BY <1>1, <1>2, RungIsSound
    <2> QED BY <1>2, <2>1 DEF File
  <1>4. h \in Handle /\ h.pc = "ladder" /\ h.version = c.version
    BY <1>1 DEF Handle
  <1>5. /\ conn' \in [Opener -> Handle] /\ conn'[t] = h
        /\ \A u \in Opener \ {t} : conn'[u] = conn[u]
    BY <1>1, <1>4, HandleType
  <1>6. Climbing(t)' /\ Using(t)'
    BY <1>2, <1>3, <1>4, <1>5 DEF Climbing, Using, Inside
  <1>7. ASSUME NEW u \in Opener \ {t} PROVE Climbing(u)' /\ Using(u)'
    <2>1. conn[u].pc \notin Inside
      BY <1>1, OnlyTheHolder DEF Inside
    <2>2. conn'[u] = conn[u] /\ Climbing(u) /\ Using(u) /\ conn[u].version \in Nat
      BY <1>1, <1>5 DEF ConnectionInv, Handle
    <2>3. conn[u].pc \notin {"script", "open", "unsalted", "hashed", "method"}
      BY <1>2, <2>2 DEF Climbing, Using
    <2>4. Climbing(u)'
      BY <1>2, <1>3, <2>1, <2>2, <2>3 DEF Climbing, Inside
    <2>5. Using(u)'
      BY <2>1, <2>2, <2>3 DEF Using, Inside
    <2> QED BY <2>4, <2>5
  <1>8. Sound(synced)' /\ lock' \in Opener \cup {NoOne}
    BY <1>1 DEF ConnectionInv
  <1>9. Keeps
    <2>1. ~disk.curated
      BY <1>1, <1>2 DEF Sound, SchemaVersion
    <2> QED BY <1>2, <1>3, <2>1 DEF Keeps, SchemaVersion
  <1> QED
    BY <1>3, <1>5, <1>6, <1>7, <1>8, <1>9 DEF ConnectionInv

----------------------------------------------------------------------------
(* Using it *)

\* INSERT OR IGNORE of the salt: a salt somebody already hashed with stays
\* (store.py:228-246).
LEMMA MakeSaltKeeps ==
  ASSUME ConnectionInv, NEW t \in Opener, MakeSalt(t)
  PROVE  ConnectionInv' /\ Keeps
  <1> DEFINE c == conn[t]
  <1>1. /\ c \in Handle /\ conn \in [Opener -> Handle] /\ Using(t) /\ Sound(disk)
        /\ c.pc = "unsalted" /\ lock = NoOne /\ UNCHANGED <<synced, lock, draft>>
        /\ disk.version = 3
    BY DEF ConnectionInv, MakeSalt, Using
  <1>2. PICK s \in Salt : disk' = [disk EXCEPT !.salt = IF disk.salt = NoSalt THEN s ELSE disk.salt]
    BY DEF MakeSalt
  <1> DEFINE n == IF disk.salt = NoSalt THEN s ELSE disk.salt
             h == [c EXCEPT !.salt = n, !.pc = "hashed"]
  <1>3. n \in Salt /\ disk \in File
    BY <1>1 DEF Sound, File
  <1>4. /\ disk' \in File /\ disk'.salt = n /\ disk'.version = 3
        /\ disk'.tables = disk.tables /\ disk'.columns = disk.columns
        /\ disk'.writes = disk.writes /\ disk'.curated = disk.curated
        /\ disk'.hashed = disk.hashed
    <2> HIDE DEF n
    <2>1. disk' = [disk EXCEPT !.salt = n]
      BY <1>2 DEF n
    <2> QED BY <1>1, <1>3, <2>1 DEF File
  <1>5. disk.hashed \subseteq {n} \ {NoSalt}
    BY <1>1 DEF Sound
  <1>6. Sound(disk')
    BY <1>1, <1>4, <1>5 DEF Sound
  <1>7. h \in Handle /\ h.pc = "hashed" /\ h.salt = n
    <2> HIDE DEF n
    <2> QED BY <1>1, <1>3 DEF Handle
  <1>8. conn' = [conn EXCEPT ![t] = h]
    BY <1>4 DEF MakeSalt
  <1>9. /\ conn' \in [Opener -> Handle] /\ conn'[t] = h
        /\ \A u \in Opener \ {t} : conn'[u] = conn[u]
    BY <1>7, <1>8, HandleType
  <1>10. Climbing(t)' /\ Using(t)'
    BY <1>3, <1>4, <1>7, <1>9 DEF Climbing, Using, Inside
  <1>11. ASSUME NEW u \in Opener \ {t} PROVE Climbing(u)' /\ Using(u)'
    <2>1. conn[u].pc = "hashed" => disk'.salt = disk.salt
      BY <1>4, ConnectionAssumption DEF ConnectionInv, Using
    <2> QED BY <1>1, <1>4, <1>9, <2>1, FreeLock, OthersOutside
  <1>12. Sound(synced)' /\ lock' \in Opener \cup {NoOne}
    BY <1>1 DEF ConnectionInv
  <1>13. Keeps
    BY <1>1, <1>4 DEF Keeps, SchemaVersion
  <1> QED
    BY <1>6, <1>9, <1>10, <1>11, <1>12, <1>13 DEF ConnectionInv

\* cast_vote: the salt the hash was made with is still the file's (store.py:228-246).
LEMMA StoreBallotKeeps ==
  ASSUME ConnectionInv, NEW t \in Opener, StoreBallot(t)
  PROVE  ConnectionInv' /\ Keeps
  <1> DEFINE c == conn[t]
             h == [c EXCEPT !.salt = NoSalt, !.pc = "open"]
  <1>1. /\ c \in Handle /\ conn \in [Opener -> Handle] /\ Using(t) /\ Sound(disk)
        /\ c.pc = "hashed" /\ lock = NoOne /\ UNCHANGED <<synced, lock, draft>>
        /\ disk.version = 3 /\ c.salt = disk.salt /\ c.salt \in Salt
        /\ disk' = [disk EXCEPT !.hashed = @ \cup {c.salt}]
        /\ conn' = [conn EXCEPT ![t] = h]
    BY DEF ConnectionInv, StoreBallot, Using
  <1>2. disk \in File
    BY <1>1 DEF Sound
  <1>3. /\ disk' \in File /\ disk'.hashed = disk.hashed \cup {c.salt} /\ disk'.version = 3
        /\ disk'.tables = disk.tables /\ disk'.columns = disk.columns /\ disk'.salt = disk.salt
        /\ disk'.writes = disk.writes /\ disk'.curated = disk.curated
    BY <1>1, <1>2 DEF File
  <1>4. disk'.hashed \subseteq {disk.salt} \ {NoSalt}
    BY <1>1, <1>3, ConnectionAssumption DEF Sound
  <1>5. Sound(disk')
    BY <1>1, <1>3, <1>4 DEF Sound
  <1>6. h \in Handle /\ h.pc = "open"
    BY <1>1 DEF Handle
  <1>7. /\ conn' \in [Opener -> Handle] /\ conn'[t] = h
        /\ \A u \in Opener \ {t} : conn'[u] = conn[u]
    BY <1>1, <1>6, HandleType
  <1>8. Climbing(t)' /\ Using(t)'
    BY <1>3, <1>6, <1>7 DEF Climbing, Using, Inside
  <1>9. \A u \in Opener \ {t} : Climbing(u)' /\ Using(u)'
    BY <1>1, <1>3, <1>7, FreeLock, OthersOutside
  <1>10. Sound(synced)' /\ lock' \in Opener \cup {NoOne}
    BY <1>1 DEF ConnectionInv
  <1>11. Keeps
    BY <1>1, <1>3 DEF Keeps, SchemaVersion
  <1> QED
    BY <1>5, <1>7, <1>8, <1>9, <1>10, <1>11 DEF ConnectionInv

LEMMA CurateKeeps ==
  ASSUME ConnectionInv, NEW t \in Opener, Curate(t)
  PROVE  ConnectionInv' /\ Keeps
  <1>1. /\ conn \in [Opener -> Handle] /\ Using(t) /\ Sound(disk)
        /\ lock = NoOne /\ UNCHANGED <<synced, lock, draft, conn>>
        /\ disk.version = 3 /\ disk' = [disk EXCEPT !.curated = TRUE]
    BY DEF ConnectionInv, Curate, Using
  <1>2. disk \in File
    BY <1>1 DEF Sound
  <1>3. /\ disk' \in File /\ disk'.hashed = disk.hashed /\ disk'.version = 3
        /\ disk'.tables = disk.tables /\ disk'.columns = disk.columns /\ disk'.salt = disk.salt
        /\ disk'.writes = disk.writes /\ disk'.curated = TRUE
    BY <1>1, <1>2 DEF File
  <1>4. Sound(disk')
    BY <1>1, <1>3 DEF Sound, SchemaVersion
  <1>5. \A u \in Opener : Climbing(u)' /\ Using(u)'
    BY <1>1, <1>3, FreeLock, OthersOutside
  <1>6. Sound(synced)' /\ lock' \in Opener \cup {NoOne}
    BY <1>1 DEF ConnectionInv
  <1>7. Keeps
    BY <1>1, <1>3 DEF Keeps, SchemaVersion
  <1> QED
    BY <1>1, <1>4, <1>5, <1>6, <1>7 DEF ConnectionInv

\* transaction(): a method's draft is the file with its writes, and only the
\* outermost level commits, when both are there (connection.py:231-263).
LEMMA EnterKeeps ==
  ASSUME ConnectionInv, NEW t \in Opener, Enter(t)
  PROVE  ConnectionInv' /\ Keeps
  <1> DEFINE c == conn[t]
  <1>1. /\ c \in Handle /\ conn \in [Opener -> Handle] /\ Climbing(t) /\ Using(t)
        /\ disk \in File /\ UNCHANGED <<disk, synced>>
    BY DEF ConnectionInv, Enter, Sound
  <1>2. Sound(disk)' /\ Sound(synced)'
    BY <1>1 DEF ConnectionInv
  <1>3. CASE c.pc = "open" /\ lock = NoOne /\ lock' = t /\ draft' = disk
             /\ conn' = [conn EXCEPT ![t].pc = "method", ![t].depth = 1]
    <2> DEFINE h == [c EXCEPT !.pc = "method", !.depth = 1]
    <2>0. 1 \in 0 .. 2
      OBVIOUS
    <2>1. h \in Handle /\ h.pc = "method"
      BY <1>1, <2>0 DEF Handle
    <2>2. conn' = [conn EXCEPT ![t] = h]
      BY <1>3
    <2>3. /\ conn' \in [Opener -> Handle] /\ conn'[t] = h
          /\ \A u \in Opener \ {t} : conn'[u] = conn[u]
      BY <2>1, <2>2, HandleType
    <2>4. disk = [disk EXCEPT !.writes = disk.writes] /\ disk.writes \in 0 .. 2
      BY <1>1 DEF File
    <2>5. Climbing(t)' /\ Using(t)'
      BY <1>1, <1>3, <2>1, <2>3, <2>4 DEF Climbing, Using
    <2>6. \A u \in Opener \ {t} : Climbing(u)' /\ Using(u)'
      BY <1>1, <1>3, <2>3, FreeLock, OthersOutside
    <2> QED
      BY <1>1, <1>2, <1>3, <2>3, <2>5, <2>6, SameFileKeeps DEF ConnectionInv
  <1>4. CASE c.pc = "method" /\ UNCHANGED <<lock, draft>>
             /\ conn' = [conn EXCEPT ![t].depth = 2, ![t].wrote = FALSE]
    <2> DEFINE h == [c EXCEPT !.depth = 2, !.wrote = FALSE]
    <2>0. 2 \in 0 .. 2
      OBVIOUS
    <2>1. h \in Handle /\ h.pc = c.pc
      BY <1>1, <2>0 DEF Handle
    <2>2. conn' = [conn EXCEPT ![t] = h]
      BY <1>4
    <2>3. /\ conn' \in [Opener -> Handle] /\ conn'[t] = h
          /\ \A u \in Opener \ {t} : conn'[u] = conn[u]
      BY <2>1, <2>2, HandleType
    <2>4. Climbing(t)' /\ Using(t)'
      BY <1>1, <1>4, <2>1, <2>3 DEF Climbing, Using
    <2>5. \A u \in Opener \ {t} : Climbing(u)' /\ Using(u)'
      BY <1>1, <1>4, <2>3, OthersUnmoved
    <2> QED
      BY <1>1, <1>2, <1>4, <2>3, <2>4, <2>5, SameFileKeeps DEF ConnectionInv
  <1> QED BY <1>3, <1>4 DEF Enter

LEMMA WriteKeeps ==
  ASSUME ConnectionInv, NEW t \in Opener, Write(t)
  PROVE  ConnectionInv' /\ Keeps
  <1> DEFINE c == conn[t]
             h == [c EXCEPT !.wrote = TRUE]
  <1>1. /\ c \in Handle /\ conn \in [Opener -> Handle] /\ Using(t) /\ disk \in File
        /\ c.pc = "method" /\ draft.writes < 2 /\ UNCHANGED <<disk, synced, lock>>
        /\ draft' = [draft EXCEPT !.writes = @ + 1]
        /\ conn' = [conn EXCEPT ![t] = h]
    BY DEF ConnectionInv, Write, Sound
  <1>2. draft = [disk EXCEPT !.writes = draft.writes] /\ draft.writes \in 0 .. 2
    BY <1>1 DEF Using
  <1>3. draft' = [disk EXCEPT !.writes = draft'.writes] /\ draft'.writes \in 0 .. 2
    <2> DEFINE w == draft.writes + 1
    <2>1. w \in 0 .. 2
      BY <1>1, <1>2
    <2>2. draft' = [disk EXCEPT !.writes = w]
      BY <1>1, <1>2
    <2>3. draft'.writes = w
      BY <1>1, <2>2 DEF File
    <2> QED BY <2>1, <2>2, <2>3
  <1>4. h \in Handle /\ h.pc = "method"
    BY <1>1 DEF Handle
  <1>5. /\ conn' \in [Opener -> Handle] /\ conn'[t] = h
        /\ \A u \in Opener \ {t} : conn'[u] = conn[u]
    BY <1>1, <1>4, HandleType
  <1>6. lock = t /\ \A u \in Opener \ {t} : conn[u].pc \notin Inside
    BY <1>1, OnlyTheHolder DEF Inside
  <1>7. Climbing(t)' /\ Using(t)'
    BY <1>1, <1>3, <1>4, <1>5, <1>6 DEF Climbing, Using
  <1>8. \A u \in Opener \ {t} : Climbing(u)' /\ Using(u)'
    BY <1>1, <1>5, <1>6, OthersOutside
  <1>9. Sound(disk)' /\ Sound(synced)' /\ lock' \in Opener \cup {NoOne}
    BY <1>1 DEF ConnectionInv
  <1> QED
    BY <1>1, <1>5, <1>7, <1>8, <1>9, SameFileKeeps DEF ConnectionInv

LEMMA LeaveKeeps ==
  ASSUME ConnectionInv, NEW t \in Opener, Leave(t)
  PROVE  ConnectionInv' /\ Keeps
  <1> DEFINE c == conn[t]
  <1>1. /\ c \in Handle /\ conn \in [Opener -> Handle] /\ Using(t) /\ Sound(disk) /\ disk \in File
        /\ c.pc = "method" /\ UNCHANGED synced /\ disk.version = 3
    BY DEF ConnectionInv, Leave, Sound, Using
  <1>2. lock = t /\ \A u \in Opener \ {t} : conn[u].pc \notin Inside
    BY <1>1, OnlyTheHolder DEF Inside
  <1>3. Sound(synced)'
    BY <1>1 DEF ConnectionInv
  <1>4. CASE conn' = [conn EXCEPT ![t].depth = 1] /\ UNCHANGED <<disk, lock, draft>>
    <2> DEFINE h == [c EXCEPT !.depth = 1]
    <2>1. h \in Handle /\ h.pc = "method"
      BY <1>1 DEF Handle
    <2>2. /\ conn' \in [Opener -> Handle] /\ conn'[t] = h
          /\ \A u \in Opener \ {t} : conn'[u] = conn[u]
      BY <1>4, <2>1, HandleType
    <2>3. Climbing(t)' /\ Using(t)'
      BY <1>1, <1>4, <2>1, <2>2 DEF Climbing, Using
    <2>4. \A u \in Opener \ {t} : Climbing(u)' /\ Using(u)'
      BY <1>4, <2>2, OthersUnmoved
    <2>5. Sound(disk)' /\ lock' \in Opener \cup {NoOne}
      BY <1>4 DEF ConnectionInv
    <2> QED
      BY <1>3, <1>4, <2>2, <2>3, <2>4, <2>5, SameFileKeeps DEF ConnectionInv
  <1>5. CASE /\ draft.writes = 2 /\ disk' = draft /\ lock' = NoOne /\ draft' = Blank
             /\ conn' = [conn EXCEPT ![t] = [Unopened EXCEPT !.pc = "open"]]
    <2> DEFINE h == [Unopened EXCEPT !.pc = "open"]
    <2>1. h.pc = "open"
      BY DEF Unopened
    <2>2. /\ conn' \in [Opener -> Handle] /\ conn'[t] = h
          /\ \A u \in Opener \ {t} : conn'[u] = conn[u]
      BY <1>5, UnopenedType, HandleType
    <2>3. disk' = [disk EXCEPT !.writes = 2]
      BY <1>1, <1>5 DEF Using
    <2>4. /\ disk' \in File /\ disk'.hashed = disk.hashed /\ disk'.version = 3
          /\ disk'.tables = disk.tables /\ disk'.columns = disk.columns /\ disk'.salt = disk.salt
          /\ disk'.writes = 2 /\ disk'.curated = disk.curated
      BY <1>1, <2>3 DEF File
    <2>5. Sound(disk')
      BY <1>1, <2>4 DEF Sound
    <2>6. Climbing(t)' /\ Using(t)'
      BY <2>1, <2>2, <2>4 DEF Climbing, Using, Inside
    <2>7. \A u \in Opener \ {t} : Climbing(u)' /\ Using(u)'
      BY <1>1, <1>2, <2>2, <2>4, OthersOutside
    <2>8. Keeps
      BY <1>1, <2>4 DEF Keeps, SchemaVersion
    <2> QED
      BY <1>3, <1>5, <2>2, <2>5, <2>6, <2>7, <2>8 DEF ConnectionInv
  <1> QED BY <1>4, <1>5 DEF Leave

----------------------------------------------------------------------------
(* What goes wrong, and the whole step *)

\* An opening or a method that fails, or a process that dies, leaves the file and
\* everybody else as they were (connection.py:114-119, 253-256).
LEMMA BackOutKeeps ==
  ASSUME ConnectionInv, NEW t \in Opener,
         AlterFails(t) \/ Raise(t) \/ Locked(t) \/ Crash(t)
  PROVE  ConnectionInv' /\ Keeps
  <1> DEFINE c == conn[t]
             o == [Unopened EXCEPT !.pc = "open"]
  <1>1. conn \in [Opener -> Handle] /\ Using(t) /\ UNCHANGED <<disk, synced>>
    BY DEF ConnectionInv, AlterFails, Raise, Locked, Crash
  <1>2. PICK h \in {Unopened, o} :
          /\ conn' = [conn EXCEPT ![t] = h]
          /\ h = o => c.pc \in {"unsalted", "hashed", "method"}
    <2>1. Unopened # o
      BY DEF Unopened
    <2> QED BY <2>1 DEF AlterFails, Raise, Locked, Crash
  <1>3. /\ conn' \in [Opener -> Handle] /\ conn'[t] = h
        /\ \A u \in Opener \ {t} : conn'[u] = conn[u]
    BY <1>2, UnopenedType, HandleType
  <1>4. \/ UNCHANGED <<lock, draft>>
        \/ lock' = NoOne /\ \A u \in Opener \ {t} : conn[u].pc \notin Inside
    <2>1. CASE AlterFails(t) \/ Raise(t)
      <3>1. c.pc \in Inside
        BY <2>1 DEF AlterFails, Raise, Inside
      <3> QED BY <2>1, <3>1, OnlyTheHolder DEF AlterFails, Raise
    <2>2. CASE Locked(t)
      BY <2>2 DEF Locked
    <2>3. CASE Crash(t)
      BY <2>3 DEF Crash, ConnectionInv, Using
    <2> QED BY <2>1, <2>2, <2>3
  <1>5. Climbing(t)' /\ Using(t)'
    <2>1. CASE h = Unopened
      BY <1>3, <2>1 DEF Climbing, Using, Inside, Unopened
    <2>2. CASE h = o
      <3>1. disk.version = 3 /\ o.pc = "open"
        BY <1>1, <1>2, <2>2 DEF Using, Unopened
      <3> QED BY <1>1, <1>3, <2>2, <3>1 DEF Climbing, Using, Inside
    <2> QED BY <1>2, <2>1, <2>2
  <1>6. \A u \in Opener \ {t} : Climbing(u)' /\ Using(u)'
    BY <1>1, <1>3, <1>4, OthersUnmoved, OthersOutside
  <1>7. Sound(disk)' /\ Sound(synced)' /\ lock' \in Opener \cup {NoOne}
    BY <1>1, <1>4 DEF ConnectionInv
  <1> QED
    BY <1>1, <1>3, <1>5, <1>6, <1>7, SameFileKeeps DEF ConnectionInv

LEMMA CheckpointKeeps == ConnectionInv /\ Checkpoint => ConnectionInv' /\ Keeps
  <1> SUFFICES ASSUME ConnectionInv, Checkpoint PROVE ConnectionInv' /\ Keeps
    OBVIOUS
  <1>1. UNCHANGED <<disk, lock, draft, conn>> /\ synced' = disk
    BY DEF Checkpoint
  <1>2. \A u \in Opener : Climbing(u)' /\ Using(u)'
    BY <1>1, OthersUnmoved
  <1> QED
    BY <1>1, <1>2, SameFileKeeps DEF ConnectionInv

LEMMA PowerCutInv == ConnectionInv /\ PowerCut => ConnectionInv'
  <1> SUFFICES ASSUME ConnectionInv, PowerCut PROVE ConnectionInv'
    OBVIOUS
  <1>1. /\ disk' = synced /\ synced' = synced /\ lock' = NoOne
        /\ conn' = [t \in Opener |-> Unopened]
    BY DEF PowerCut
  <1>2. conn' \in [Opener -> Handle] /\ \A u \in Opener : Climbing(u)' /\ Using(u)'
    BY <1>1, UnopenedType DEF Climbing, Using, Inside, Unopened
  <1> QED
    BY <1>1, <1>2 DEF ConnectionInv

LEMMA StepKeeps ==
  ConnectionInv /\ [ConnectionNext]_connectionVars => ConnectionInv' /\ (PowerCut \/ Keeps)
  <1> SUFFICES ASSUME ConnectionInv, [ConnectionNext]_connectionVars
               PROVE  ConnectionInv' /\ (PowerCut \/ Keeps)
    OBVIOUS
  <1>1. ASSUME NEW t \in Opener, Opening(t) PROVE ConnectionInv' /\ Keeps
    <2>1. CASE Connect(t) \/ Reread(t) \/ Arrive(t)
      BY <2>1, OwnSteps, SameFileKeeps DEF Connect, Reread, Arrive
    <2>2. CASE AlterFails(t)
      BY <2>2, BackOutKeeps
    <2> QED
      BY <1>1, <2>1, <2>2, RunStatementKeeps, BeginKeeps, AlterKeeps, BumpKeeps, CommitKeeps
      DEF Opening
  <1>2. ASSUME NEW t \in Opener, Close(t) \/ ReadSalt(t) PROVE ConnectionInv' /\ Keeps
    BY <1>2, OwnSteps, SameFileKeeps DEF Close, ReadSalt
  <1>3. ASSUME NEW t \in Opener, Curate(t) \/ Serving(t) PROVE ConnectionInv' /\ Keeps
    BY <1>3, CurateKeeps, MakeSaltKeeps, StoreBallotKeeps, EnterKeeps, WriteKeeps, LeaveKeeps
    DEF Serving
  <1>4. ASSUME NEW t \in Opener, Raise(t) \/ Locked(t) \/ Crash(t) PROVE ConnectionInv' /\ Keeps
    BY <1>4, BackOutKeeps
  <1>5. CASE UNCHANGED connectionVars
    <2>1. UNCHANGED <<disk, synced, lock, draft, conn>>
      BY <1>5 DEF connectionVars
    <2>2. \A u \in Opener : Climbing(u)' /\ Using(u)'
      BY <2>1, OthersUnmoved
    <2> QED BY <2>1, <2>2, SameFileKeeps DEF ConnectionInv
  <1> QED
    BY <1>1, <1>2, <1>3, <1>4, <1>5, CheckpointKeeps, PowerCutInv DEF ConnectionNext

\* What every opener owes to the file, it has paid, whatever crashes and whoever
\* opens it at the same time (connection.py:69-158, 207-263).
THEOREM LadderInvariant == ConnectionSpec => []ConnectionInv
  <1>1. ConnectionInv /\ [ConnectionNext]_connectionVars => ConnectionInv'
    BY StepKeeps
  <1> QED
    BY InvInit, <1>1, PTL DEF ConnectionSpec

----------------------------------------------------------------------------
(* What follows from it *)

\* The file is never a half-applied migration nor half of a store method, and a
\* connection that is kept is on the current schema (connection.py:106-136, 231-263).
THEOREM FileStaysWhole == ConnectionSpec => []WholeOnDisk
  <1>1. ConnectionInv => WholeOnDisk
    <2> SUFFICES ASSUME ConnectionInv PROVE WholeOnDisk
      OBVIOUS
    <2>1. Sound(disk) /\ disk.version \in Nat /\ \A t \in Opener : Using(t)
      BY DEF ConnectionInv, Sound, File
    <2>2. disk.version = 0 => disk.columns \in {{}, Columns(SchemaVersion)}
      BY <2>1, AllColumns DEF Sound, SchemaVersion
    <2>3. \A t \in Opener : conn[t].pc \in {"open", "unsalted", "hashed", "method"}
                                => disk.version = SchemaVersion
      BY <2>1 DEF Using, SchemaVersion
    <2> QED BY <2>1, <2>2, <2>3 DEF WholeOnDisk, Sound
  <1> QED
    BY LadderInvariant, <1>1, PTL

\* Every stored ballot was hashed with the salt the file has (store.py:228-246).
THEOREM SaltNeverChanges == ConnectionSpec => []OneSalt
  <1>1. ConnectionInv => OneSalt
    BY DEF ConnectionInv, Sound, OneSalt
  <1> QED
    BY LadderInvariant, <1>1, PTL

\* No opener that read an old version puts it back or folds the categories again,
\* and a later version's file is left alone (connection.py:93-136).
THEOREM LadderClimbsOnce == ConnectionSpec => ClimbsOnce
  <1>1. ConnectionInv /\ [ConnectionNext]_connectionVars
          => [PowerCut \/ Keeps]_connectionVars
    BY StepKeeps
  <1>2. [PowerCut \/ Keeps]_connectionVars
          => [\/ PowerCut
              \/ /\ disk'.version >= disk.version
                 /\ disk.curated => disk'.curated
                 /\ disk.version > SchemaVersion => disk' = disk]_connectionVars
    BY DEF Keeps
  <1> QED
    BY LadderInvariant, <1>1, <1>2, PTL DEF ConnectionSpec, ClimbsOnce

----------------------------------------------------------------------------
(* The file keeps the promises of VotingFile *)

\* Writing one column of what a file holds.
LEMMA ContentsWritten ==
  ASSUME NEW f, NEW g
  PROVE  /\ /\ g.curated = f.curated /\ g.salt = f.salt /\ g.hashed = f.hashed
            /\ g.writes = f.writes
            => Contents(g) = [Contents(f) EXCEPT !.version = g.version]
         /\ /\ g.version = f.version /\ g.salt = f.salt /\ g.hashed = f.hashed
            /\ g.writes = f.writes
            => Contents(g) = [Contents(f) EXCEPT !.curated = g.curated]
         /\ /\ g.version = f.version /\ g.curated = f.curated /\ g.hashed = f.hashed
            /\ g.writes = f.writes
            => Contents(g) = [Contents(f) EXCEPT !.salt = g.salt]
         /\ /\ g.version = f.version /\ g.curated = f.curated /\ g.salt = f.salt
            /\ g.writes = f.writes
            => Contents(g) = [Contents(f) EXCEPT !.hashed = g.hashed]
         /\ /\ g.version = f.version /\ g.curated = f.curated /\ g.salt = f.salt
            /\ g.hashed = f.hashed
            => Contents(g) = [Contents(f) EXCEPT !.writes = g.writes]
  BY DEF Contents

LEMMA ContentsFields ==
  ASSUME NEW f
  PROVE  /\ Contents(f).version = f.version /\ Contents(f).curated = f.curated
         /\ Contents(f).salt = f.salt /\ Contents(f).hashed = f.hashed
         /\ Contents(f).writes = f.writes
  BY DEF Contents

\* A step that commits nothing is a stutter.
LEMMA SameFileStutters ==
  ASSUME UNCHANGED <<disk, synced>>
  PROVE  UNCHANGED Promised!vars
  BY DEF Promised!vars, Contents

\* The script: only its last statement is seen, and only in a file without a version.
LEMMA RunStatementCreates ==
  ASSUME ConnectionInv, NEW t \in Opener, RunStatement(t)
  PROVE  [Promised!Next]_(Promised!vars)
  <1> DEFINE i == conn[t].at
  <1>1. /\ Sound(disk) /\ disk \in File /\ disk.version \in {0, 3}
        /\ i \in 1 .. 5 /\ synced' = synced
        /\ disk' = Executed(disk, Script[i])
    BY DEF ConnectionInv, Sound, Climbing, RunStatement, Handle, Script
  <1>2. CASE i = 5 /\ disk.version = 0
    <2> DEFINE h == [disk EXCEPT !.version = 3]
    <2>1. disk' = h
      BY <1>1, <1>2 DEF Executed, Script, SchemaVersion, File
    <2>2. /\ h.version = 3 /\ h.curated = disk.curated /\ h.salt = disk.salt
          /\ h.hashed = disk.hashed /\ h.writes = disk.writes
      BY <1>1 DEF File
    <2> HIDE DEF h
    <2>3. Contents(disk') = [Contents(disk) EXCEPT !.version = 3]
      BY <2>1, <2>2, ContentsWritten
    <2>4. Promised!Create
      BY <1>1, <1>2, <2>3, ContentsFields DEF Promised!Create, SchemaVersion
    <2> QED BY <2>4 DEF Promised!Next
  <1>3. CASE ~(i = 5 /\ disk.version = 0)
    <2>1. /\ disk'.version = disk.version /\ disk'.curated = disk.curated
          /\ disk'.salt = disk.salt /\ disk'.hashed = disk.hashed
          /\ disk'.writes = disk.writes
      <3>1. CASE i = 5
        <4> DEFINE h == [disk EXCEPT !.version = 3]
        <4>1. disk' = h
          BY <1>1, <1>3, <3>1 DEF Executed, Script, SchemaVersion, File
        <4>2. /\ h.version = 3 /\ h.curated = disk.curated /\ h.salt = disk.salt
              /\ h.hashed = disk.hashed /\ h.writes = disk.writes
          BY <1>1 DEF File
        <4> HIDE DEF h
        <4> QED BY <1>1, <1>3, <3>1, <4>1, <4>2
      <3>2. CASE i < 5 /\ Script[i] = "songs" /\ "songs" \notin disk.tables
        <4> DEFINE g == [disk EXCEPT !.tables = @ \cup {"songs"}]
                   h == [g EXCEPT !.columns = Columns(SchemaVersion)]
        <4>1. disk' = h
          BY <1>1, <3>2 DEF Executed
        <4>2. g \in File
          BY <1>1 DEF File, ScriptTables
        <4>3. h \in File
          BY <4>2, AllColumns DEF File, SchemaVersion
        <4>4. /\ h.version = disk.version /\ h.curated = disk.curated
              /\ h.salt = disk.salt /\ h.hashed = disk.hashed /\ h.writes = disk.writes
          BY <1>1, <4>2, <4>3 DEF File
        <4> HIDE DEF h
        <4> QED BY <4>1, <4>4
      <3>3. CASE i < 5 /\ ~(Script[i] = "songs" /\ "songs" \notin disk.tables)
        <4> DEFINE h == [disk EXCEPT !.tables = @ \cup {Script[i]}]
        <4>1. Script[i] # "version"
          BY <1>1, <3>3 DEF Script
        <4>2. disk' = h
          BY <1>1, <3>3, <4>1 DEF Executed
        <4>3. /\ h.version = disk.version /\ h.curated = disk.curated
              /\ h.salt = disk.salt /\ h.hashed = disk.hashed /\ h.writes = disk.writes
          BY <1>1 DEF File
        <4> HIDE DEF h
        <4> QED BY <4>2, <4>3
      <3> QED BY <1>1, <3>1, <3>2, <3>3
    <2>2. Contents(disk') = Contents(disk)
      BY <2>1 DEF Contents
    <2> QED BY <1>1, <2>2 DEF Promised!vars, Contents
  <1> QED BY <1>2, <1>3

\* A migration is committed as one rung: nothing chosen by hand could be there to
\* be folded over.
LEMMA CommitClimbs ==
  ASSUME ConnectionInv, NEW t \in Opener, Commit(t)
  PROVE  Promised!Climb
  <1>1. /\ Sound(disk) /\ disk \in File /\ disk.version \in {1, 2}
        /\ synced' = synced /\ disk' = draft
        /\ draft = [Climbed(disk, disk.version) EXCEPT !.version = disk.version + 1]
    BY DEF ConnectionInv, Sound, Climbing, Commit
  <1>2. ~disk.curated
    BY <1>1 DEF Sound, SchemaVersion
  <1> DEFINE g == Climbed(disk, disk.version)
             h == [g EXCEPT !.version = disk.version + 1]
  <1>3. g \in File
    BY <1>1, RungIsSound
  <1>4. /\ g.salt = disk.salt /\ g.hashed = disk.hashed /\ g.writes = disk.writes
        /\ g.curated = disk.curated
    BY <1>1, <1>2 DEF Climbed, File
  <1> HIDE DEF g
  <1>5. /\ h.version = disk.version + 1 /\ h.salt = g.salt /\ h.hashed = g.hashed
        /\ h.writes = g.writes /\ h.curated = g.curated
    BY <1>3 DEF File
  <1>6. disk' = h
    BY <1>1 DEF g
  <1> HIDE DEF h
  <1>7. Contents(disk') = [Contents(disk) EXCEPT !.version = disk.version + 1]
    BY <1>4, <1>5, <1>6, ContentsWritten
  <1>8. Contents(disk') = [Contents(disk) EXCEPT !.version = Contents(disk).version + 1]
    BY <1>7, ContentsFields
  <1> QED
    BY <1>1, <1>8, ContentsFields DEF Promised!Climb, SchemaVersion

\* INSERT OR IGNORE: the salt is chosen once.
LEMMA MakeSaltChooses ==
  ASSUME ConnectionInv, NEW t \in Opener, MakeSalt(t)
  PROVE  [Promised!Next]_(Promised!vars)
  <1>1. PICK s \in Salt : disk' = [disk EXCEPT !.salt = IF @ = NoSalt THEN s ELSE @]
    BY DEF MakeSalt
  <1>2. disk \in File /\ disk.version = 3 /\ synced' = synced
    BY DEF ConnectionInv, Sound, Using, MakeSalt
  <1> DEFINE new == IF disk.salt = NoSalt THEN s ELSE disk.salt
             h == [disk EXCEPT !.salt = new]
  <1>3. disk' = h
    BY <1>1
  <1> HIDE DEF new
  <1>4. /\ h.version = disk.version /\ h.curated = disk.curated /\ h.salt = new
        /\ h.hashed = disk.hashed /\ h.writes = disk.writes
    BY <1>2 DEF File
  <1> HIDE DEF h
  <1>5. Contents(disk') = [Contents(disk) EXCEPT !.salt = new]
    BY <1>3, <1>4, ContentsWritten
  <1>6. CASE disk.salt = NoSalt
    <2>1. Promised!ChooseSalt(s)
      BY <1>2, <1>5, <1>6, ContentsFields DEF new, Promised!ChooseSalt, SchemaVersion
    <2> QED BY <2>1 DEF Promised!Next
  <1>7. CASE disk.salt # NoSalt
    <2>1. h.salt = disk.salt
      BY <1>4, <1>7 DEF new
    <2>2. Contents(disk') = Contents(disk)
      BY <1>3, <1>4, <2>1 DEF Contents
    <2> QED BY <1>2, <2>2 DEF Promised!vars, Contents
  <1> QED BY <1>6, <1>7

\* The hash a vote brings was made with the salt of the file.
LEMMA BallotIsStored ==
  ASSUME ConnectionInv, NEW t \in Opener, StoreBallot(t)
  PROVE  Promised!StoreBallot
  <1>1. /\ disk \in File /\ disk.version = 3 /\ synced' = synced
        /\ conn[t].salt = disk.salt /\ disk.salt \in Salt
        /\ disk' = [disk EXCEPT !.hashed = @ \cup {conn[t].salt}]
    BY DEF ConnectionInv, Sound, Using, StoreBallot
  <1> DEFINE h == [disk EXCEPT !.hashed = disk.hashed \cup {disk.salt}]
  <1>2. disk' = h
    BY <1>1
  <1>3. /\ h.version = disk.version /\ h.curated = disk.curated /\ h.salt = disk.salt
        /\ h.hashed = disk.hashed \cup {disk.salt} /\ h.writes = disk.writes
    BY <1>1 DEF File
  <1> HIDE DEF h
  <1>4. Contents(disk') = [Contents(disk) EXCEPT !.hashed = disk.hashed \cup {disk.salt}]
    BY <1>2, <1>3, ContentsWritten
  <1> QED
    BY <1>1, <1>4, ContentsFields, ConnectionAssumption
    DEF Promised!StoreBallot, SchemaVersion, Contents

\* A choice by hand is made on a file of the current version.
LEMMA ChoiceIsMade ==
  ASSUME ConnectionInv, NEW t \in Opener, Curate(t)
  PROVE  Promised!Curate
  <1>1. /\ disk \in File /\ disk.version = 3 /\ synced' = synced
        /\ disk' = [disk EXCEPT !.curated = TRUE]
    BY DEF ConnectionInv, Sound, Using, Curate
  <1>2. /\ disk'.version = disk.version /\ disk'.curated = TRUE /\ disk'.salt = disk.salt
        /\ disk'.hashed = disk.hashed /\ disk'.writes = disk.writes
    BY <1>1 DEF File
  <1>3. Contents(disk') = [Contents(disk) EXCEPT !.curated = TRUE]
    BY <1>2, ContentsWritten
  <1> QED
    BY <1>1, <1>3, ContentsFields DEF Promised!Curate, SchemaVersion, Contents

\* A store method is committed with both its writes, by its outermost level.
LEMMA MethodIsApplied ==
  ASSUME ConnectionInv, NEW t \in Opener, Leave(t)
  PROVE  [Promised!Next]_(Promised!vars)
  <1>1. /\ disk \in File /\ disk.version = 3 /\ synced' = synced
        /\ draft = [disk EXCEPT !.writes = draft.writes]
        /\ disk' = disk \/ (disk' = draft /\ draft.writes = 2)
    BY DEF ConnectionInv, Sound, Using, Leave
  <1>2. CASE disk' = disk
    BY <1>1, <1>2, SameFileStutters
  <1>3. CASE disk' = draft /\ draft.writes = 2
    <2> DEFINE h == [disk EXCEPT !.writes = 2]
    <2>1. disk' = h
      BY <1>1, <1>3
    <2>2. /\ h.version = disk.version /\ h.curated = disk.curated /\ h.salt = disk.salt
          /\ h.hashed = disk.hashed /\ h.writes = 2
      BY <1>1 DEF File
    <2> HIDE DEF h
    <2>3. Contents(disk') = [Contents(disk) EXCEPT !.writes = 2]
      BY <2>1, <2>2, ContentsWritten
    <2>4. Promised!Apply
      BY <1>1, <2>3, ContentsFields DEF Promised!Apply, SchemaVersion, Contents
    <2> QED BY <2>4 DEF Promised!Next
  <1> QED BY <1>1, <1>2, <1>3

\* Every commit is one step of VotingFile.
LEMMA FileStep ==
  ASSUME ConnectionInv, [ConnectionNext]_connectionVars
  PROVE  [Promised!Next]_(Promised!vars)
  <1>1. ASSUME NEW t \in Opener, Opening(t) PROVE [Promised!Next]_(Promised!vars)
    <2>1. CASE Connect(t) \/ Reread(t) \/ Begin(t) \/ Alter(t) \/ AlterFails(t) \/ Bump(t)
               \/ Arrive(t)
      BY <2>1, SameFileStutters
      DEF Connect, Reread, Begin, Alter, AlterFails, Bump, Arrive
    <2>2. CASE Commit(t)
      BY <2>2, CommitClimbs DEF Promised!Next
    <2> QED BY <1>1, <2>1, <2>2, RunStatementCreates DEF Opening
  <1>2. ASSUME NEW t \in Opener, Close(t) \/ ReadSalt(t) \/ Raise(t) \/ Locked(t) \/ Crash(t)
        PROVE  [Promised!Next]_(Promised!vars)
    BY <1>2, SameFileStutters DEF Close, ReadSalt, Raise, Locked, Crash
  <1>3. ASSUME NEW t \in Opener, Curate(t) \/ Serving(t)
        PROVE  [Promised!Next]_(Promised!vars)
    <2>1. CASE Enter(t) \/ Write(t)
      BY <2>1, SameFileStutters DEF Enter, Write
    <2>2. CASE Curate(t)
      BY <2>2, ChoiceIsMade DEF Promised!Next
    <2>3. CASE StoreBallot(t)
      BY <2>3, BallotIsStored DEF Promised!Next
    <2> QED
      BY <1>3, <2>1, <2>2, <2>3, MakeSaltChooses, MethodIsApplied DEF Serving
  <1>4. CASE Checkpoint
    BY <1>4 DEF Checkpoint, Promised!Save, Promised!Next
  <1>5. CASE PowerCut
    BY <1>5 DEF PowerCut, Promised!PowerCut, Promised!Next
  <1>6. CASE UNCHANGED connectionVars
    BY <1>6, SameFileStutters DEF connectionVars
  <1> QED
    BY <1>1, <1>2, <1>3, <1>4, <1>5, <1>6 DEF ConnectionNext

\* Blank and the files of every version are where VotingFile starts.
LEMMA FileInit ==
  ASSUME ConnectionInit
  PROVE  Promised!Init
  <1>1. Contents(disk) = [version |-> disk.version, curated |-> FALSE, salt |-> NoSalt,
                          hashed |-> {}, writes |-> 0]
        /\ disk.version \in 0 .. SchemaVersion + 1
    <2>1. CASE disk = Blank
      BY <2>1 DEF Blank, Contents, SchemaVersion
    <2>2. ASSUME NEW v \in 1 .. SchemaVersion + 1, disk = Written(v)
          PROVE  /\ Contents(disk) = [version |-> disk.version, curated |-> FALSE,
                                      salt |-> NoSalt, hashed |-> {}, writes |-> 0]
                 /\ disk.version \in 0 .. SchemaVersion + 1
      BY <2>2 DEF Written, Contents, SchemaVersion
    <2> QED BY <2>1, <2>2 DEF ConnectionInit
  <1>2. synced = disk
    BY DEF ConnectionInit
  <1> QED
    BY <1>1, <1>2 DEF Promised!Init

\* However many openers race, crash or time out on their way up, the file they
\* leave is one that VotingFile allows (connection.py:69-158, 207-263;
\* store.py:228-246).
THEOREM ConnectionImplementsVotingFile == ConnectionSpec => ImplementsVotingFile
  <1>1. ConnectionInit => Promised!Init
    BY FileInit
  <1>2. ConnectionInv /\ [ConnectionNext]_connectionVars
          => [Promised!Next]_(Promised!vars)
    BY FileStep
  <1> QED
    BY <1>1, <1>2, LadderInvariant, PTL
    DEF ConnectionSpec, ImplementsVotingFile, Promised!Spec
===============================================================================
