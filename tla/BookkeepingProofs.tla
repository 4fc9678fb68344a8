--------------------------- MODULE BookkeepingProofs ---------------------------
(***************************************************************************)
(* The service implements Handover, for every playlist, voter, client and  *)
(* number of outside events: each call of a pass is one step of the        *)
(* abstract bookkeeping or leaves it where it was, and whatever request    *)
(* threads, the admin, FPP, exceptions and restarts do in between is a     *)
(* step of it too.                                                         *)
(*                                                                         *)
(* The steps alone do not say that a round which comes to be followed was  *)
(* never decided: after a stop the loop follows nothing, and finds its     *)
(* round by asking the database. LedgerInv adds what that needs.           *)
(***************************************************************************)
EXTENDS HandoverProofs

\* The calls of a pass that come after its round was found and is followed.
AfterEnsure == {"late", "lateRecord", "latePlay", "ontime", "record", "play"}

\* Only rounds that exist are decided, and those have ended, but for the one
\* that is followed. A loop about to leave its round has ended them all. A pass
\* that has its round follows it; the one it replaced is owed.
LedgerInv ==
  /\ fs.handed \subseteq DOMAIN rounds
  /\ \A r \in fs.handed : rounds[r].open => r = fs.round
  /\ tick.pc = "leave" => \A r \in DOMAIN rounds : ~rounds[r].open
  /\ tick.pc \in AfterEnsure => fs.round # 0
  /\ tick.pc = "late" => tick.prev \in superseded \cap DOMAIN rounds

----------------------------------------------------------------------------
(* What the abstract bookkeeping sees *)

\* What is due in each state of a pass.
LEMMA WhatIsDue ==
  /\ tick.pc \notin Deciding \cup LateDeciding => Promise = {}
  /\ tick.pc = "record" =>
       Promise = {[round |-> fs.round, song |-> tick.pick, stage |-> "chosen"]}
  /\ tick.pc = "lateRecord" =>
       Promise = {[round |-> tick.prev, song |-> tick.pick, stage |-> "chosen"]}
  /\ tick.pc = "play" =>
       Promise = {[round |-> fs.round, song |-> tick.pick, stage |-> "onRecord"]}
  /\ tick.pc = "latePlay" =>
       Promise = {[round |-> tick.prev, song |-> tick.pick, stage |-> "onRecord"]}
BY DEF Promise, Deciding, LateDeciding

\* The same after a step.
LEMMA WhatIsDueNext ==
  /\ tick'.pc \notin Deciding \cup LateDeciding => Promise' = {}
  /\ tick'.pc = "record" =>
       Promise' = {[round |-> fs'.round, song |-> tick'.pick, stage |-> "chosen"]}
  /\ tick'.pc = "lateRecord" =>
       Promise' = {[round |-> tick'.prev, song |-> tick'.pick, stage |-> "chosen"]}
  /\ tick'.pc = "play" =>
       Promise' = {[round |-> fs'.round, song |-> tick'.pick, stage |-> "onRecord"]}
  /\ tick'.pc = "latePlay" =>
       Promise' = {[round |-> tick'.prev, song |-> tick'.pick, stage |-> "onRecord"]}
BY DEF Promise, Deciding, LateDeciding

\* Rounds that keep their winners, and new ones that have none, leave the
\* history as it was.
LEMMA RecordedKept ==
  ASSUME \A r \in DOMAIN rounds :
           r \in DOMAIN rounds' /\ rounds'[r].winner = rounds[r].winner,
         \A r \in DOMAIN rounds' \ DOMAIN rounds : rounds'[r].winner = NoSong
  PROVE  Recorded' = Recorded
<1>1. ASSUME NEW x \in Recorded PROVE x \in Recorded'
  BY DEF Recorded
<1>2. ASSUME NEW x \in Recorded' PROVE x \in Recorded
  BY DEF Recorded
<1>3. QED
  BY <1>1, <1>2

\* Recording a winner replaces what the history shows for that round.
LEMMA RecordedWritten ==
  ASSUME rounds \in Seq(RoundRow), NEW r \in DOMAIN rounds, NEW w \in Song,
         rounds' = [rounds EXCEPT ![r].winner = w]
  PROVE  Recorded' = {x \in Recorded : x.round # r} \cup {[round |-> r, song |-> w]}
<1>1. rounds'[r].winner = w
  BY WinnerWritten
<1>2. /\ DOMAIN rounds' = DOMAIN rounds
      /\ \A i \in DOMAIN rounds : i # r => rounds'[i] = rounds[i]
  OBVIOUS
<1>3. w # NoSong
  BY StoreAssumption
<1>4. ASSUME NEW x \in Recorded'
      PROVE  x \in {y \in Recorded : y.round # r} \cup {[round |-> r, song |-> w]}
  <2>1. PICK i \in DOMAIN rounds' :
          /\ rounds'[i].winner # NoSong
          /\ x = [round |-> i, song |-> rounds'[i].winner]
    BY DEF Recorded
  <2>2. CASE i = r
    BY <1>1, <2>1, <2>2
  <2>3. CASE i # r
    <3>1. /\ i \in DOMAIN rounds /\ rounds[i].winner # NoSong
          /\ x = [round |-> i, song |-> rounds[i].winner]
      BY <1>2, <2>1, <2>3
    <3>2. x \in Recorded /\ x.round # r
      BY <2>3, <3>1 DEF Recorded
    <3>3. QED
      BY <3>2
  <2>4. QED
    BY <2>2, <2>3
<1>5. ASSUME NEW x \in Recorded, x.round # r
      PROVE  x \in Recorded'
  <2>1. PICK i \in DOMAIN rounds :
          /\ rounds[i].winner # NoSong
          /\ x = [round |-> i, song |-> rounds[i].winner]
    BY DEF Recorded
  <2>2. i # r
    BY <1>5, <2>1
  <2>3. QED
    BY <1>2, <2>1, <2>2 DEF Recorded
<1>6. [round |-> r, song |-> w] \in Recorded'
  BY <1>1, <1>2, <1>3 DEF Recorded
<1>7. QED
  BY <1>4, <1>5, <1>6

\* A step that touches none of it is a stutter of the bookkeeping.
LEMMA NothingSeen ==
  ASSUME fs'.round = fs.round, fs'.handed = fs.handed,
         UNCHANGED <<superseded, commands>>,
         Promise' = Promise, Recorded' = Recorded
  PROVE  UNCHANGED Bookkeeping!vars
BY DEF Bookkeeping!vars

\* Between passes, and up to the late path, nothing is due.
LEMMA NothingDueYet ==
  ASSUME SupersededAreHandedOver, tick.pc \notin Deciding \cup LateDeciding \cup {"late"}
  PROVE  Bookkeeping!NothingDue
<1>1. superseded \ fs.handed = {}
  BY DEF SupersededAreHandedOver
<1>2. Promise = {}
  BY WhatIsDue
<1>3. QED
  BY <1>1, <1>2 DEF Bookkeeping!NothingDue

----------------------------------------------------------------------------
(* The show stops *)

\* FPP seen idle: every round has ended, and one is still followed.
LEMMA IdleStutters ==
  ASSUME HandoverInv, LedgerInv, tick.pc = "idle", CloseOpenRound, Goto("leave"),
         UNCHANGED <<fs, superseded, commands>>
  PROVE  UNCHANGED Bookkeeping!vars /\ LedgerInv'
<1>1. /\ rounds \in Seq(RoundRow) /\ OnlyNewestOpen /\ FollowerTypes
  BY TypesSplit DEF HandoverInv, ServiceInv, StoreInv, TypeOK
<1>2. /\ DOMAIN rounds' = DOMAIN rounds
      /\ \A r \in DOMAIN rounds : rounds'[r].winner = rounds[r].winner /\ ~rounds'[r].open
  BY <1>1, EndCurrentShape DEF CloseOpenRound
<1>3. tick'.pc = "leave"
  BY <1>1 DEF Goto, FollowerTypes
<1>4. Recorded' = Recorded
  BY <1>2, RecordedKept
<1>5. Promise = {} /\ Promise' = {}
  BY <1>3, WhatIsDue, WhatIsDueNext DEF Deciding, LateDeciding
<1>6. LedgerInv'
  BY <1>2, <1>3 DEF LedgerInv, AfterEnsure
<1>7. QED
  BY <1>4, <1>5, <1>6, NothingSeen

\* The loop leaves its round.
LEMMA LeaveLeaves ==
  ASSUME HandoverInv, LedgerInv, TickLeave
  PROVE  Bookkeeping!Leave /\ LedgerInv'
<1>1. fs \in [round : Nat, voteable : SUBSET Song, handed : SUBSET Nat]
  BY TypesSplit DEF HandoverInv, ServiceInv, FollowerTypes
<1>2. /\ tick.pc = "leave" /\ tick'.pc = "idle"
      /\ fs'.round = 0 /\ fs'.handed = fs.handed
      /\ UNCHANGED <<superseded, commands, rounds>>
  BY <1>1 DEF TickLeave, IdleTick, storeVars
<1>3. Recorded' = Recorded
  BY <1>2 DEF Recorded
<1>4. Promise = {} /\ Promise' = {}
  BY <1>2, WhatIsDue, WhatIsDueNext DEF Deciding, LateDeciding
<1>5. Bookkeeping!NothingDue
  BY <1>2, NothingDueYet DEF HandoverInv, Deciding, LateDeciding
<1>6. LedgerInv'
  BY <1>2 DEF LedgerInv, AfterEnsure
<1>7. QED
  BY <1>2, <1>3, <1>4, <1>5, <1>6 DEF Bookkeeping!Leave

----------------------------------------------------------------------------
(* A round is found or opened, and followed *)

\* A round that was opened was never decided; what was followed still is.
LEMMA EnsureStutters ==
  ASSUME HandoverInv, LedgerInv, TickEnsure
  PROVE  UNCHANGED Bookkeeping!vars /\ LedgerInv'
<1>1. /\ OnlyNewestOpen /\ FollowerTypes /\ rounds \in Seq(RoundRow)
  BY TypesSplit DEF HandoverInv, ServiceInv, StoreInv, TypeOK
<1>2. /\ tick.pc = "ensure" /\ tick'.pc = "follow"
      /\ EnsureRound(tick.song) /\ UNCHANGED <<fs, superseded, commands>>
  BY <1>1 DEF TickEnsure, Goto, FollowerTypes
<1>3. DOMAIN rounds = 1..Len(rounds) /\ Len(rounds) \in Nat
  BY <1>1
<1>4. \/ rounds' = rounds
      \/ /\ DOMAIN rounds' = 1..(Len(rounds) + 1)
         /\ rounds'[Len(rounds) + 1].winner = NoSong
         /\ \A i \in DOMAIN rounds :
              rounds'[i].winner = rounds[i].winner /\ ~rounds'[i].open
  <2>1. CASE rounds' = Append(EndCurrent,
                              [song |-> tick.song, open |-> TRUE, winner |-> NoSong])
    <3>1. /\ EndCurrent \in Seq(RoundRow) /\ Len(EndCurrent) = Len(rounds)
          /\ \A i \in DOMAIN rounds :
               EndCurrent[i].winner = rounds[i].winner /\ ~EndCurrent[i].open
      BY <1>1, EndCurrentShape
    <3>2. /\ DOMAIN rounds' = 1..(Len(rounds) + 1)
          /\ \A i \in DOMAIN rounds : rounds'[i] = EndCurrent[i]
          /\ rounds'[Len(rounds) + 1] =
               [song |-> tick.song, open |-> TRUE, winner |-> NoSong]
      BY <1>3, <2>1, <3>1
    <3>3. QED
      BY <3>1, <3>2
  <2>2. QED
    BY <1>2, <2>1 DEF EnsureRound
<1>5. Recorded' = Recorded
  <2>1. \A i \in DOMAIN rounds :
          i \in DOMAIN rounds' /\ rounds'[i].winner = rounds[i].winner
    BY <1>3, <1>4
  <2>2. \A i \in DOMAIN rounds' \ DOMAIN rounds : rounds'[i].winner = NoSong
    BY <1>3, <1>4
  <2>3. QED
    BY <2>1, <2>2, RecordedKept
<1>6. Promise = {} /\ Promise' = {}
  BY <1>2, WhatIsDue, WhatIsDueNext DEF Deciding, LateDeciding
<1>7. LedgerInv'
  BY <1>2, <1>3, <1>4 DEF LedgerInv, AfterEnsure
<1>8. QED
  BY <1>2, <1>5, <1>6, <1>7, NothingSeen

\* The open round was never decided, if another one or none was followed; what
\* was followed is owed.
LEMMA FollowFollows ==
  ASSUME HandoverInv, LedgerInv, TickFollow
  PROVE  [Bookkeeping!Follow]_(Bookkeeping!vars) /\ LedgerInv'
<1>1. /\ OnlyNewestOpen /\ FollowerTypes /\ rounds \in Seq(RoundRow)
      /\ fs \in [round : Nat, voteable : SUBSET Song, handed : SUBSET Nat]
  BY TypesSplit DEF HandoverInv, ServiceInv, StoreInv, TypeOK, FollowerTypes
<1>2. PICK r \in DOMAIN rounds :
        /\ IsCurrent(r)
        /\ fs' = [fs EXCEPT !.round = r]
        /\ IF fs.round \in {0, r}
             THEN Goto("ontime") /\ UNCHANGED superseded
             ELSE /\ tick' = [tick EXCEPT !.pc = "late", !.prev = fs.round]
                  /\ superseded' = superseded \cup {fs.round}
  BY DEF TickFollow
<1>3. tick.pc = "follow" /\ UNCHANGED <<commands, rounds>>
  BY DEF TickFollow, storeVars
<1>4. fs'.round = r /\ fs'.handed = fs.handed
  BY <1>1, <1>2
<1>5. /\ DOMAIN rounds = 1..Len(rounds) /\ Len(rounds) \in Nat
      /\ r # 0 /\ r \in Nat /\ rounds[r].open /\ r = Len(rounds)
  BY <1>1, <1>2 DEF IsCurrent, OnlyNewestOpen
<1>6. Recorded' = Recorded
  BY <1>3 DEF Recorded
<1>7. /\ tick'.pc \in {"ontime", "late"}
      /\ tick'.pc = "late" => fs.round \notin {0, r} /\ tick'.prev = fs.round
  <2>1. CASE fs.round \in {0, r}
    BY <1>1, <1>2, <2>1 DEF Goto, FollowerTypes
  <2>2. CASE fs.round \notin {0, r}
    BY <1>1, <1>2, <2>2 DEF FollowerTypes
  <2>3. QED
    BY <2>1, <2>2
<1>8. Promise = {} /\ Promise' = {} /\ Bookkeeping!NothingDue
  BY <1>3, <1>7, WhatIsDue, WhatIsDueNext, NothingDueYet
  DEF HandoverInv, Deciding, LateDeciding
<1>9. superseded \subseteq fs.handed
  BY <1>3 DEF HandoverInv, SupersededAreHandedOver
\* The followed round is this one, or the one before it, or none.
<1>10. fs.round # 0 => fs.round \in DOMAIN rounds /\ fs.round <= r
  BY <1>1, <1>3, <1>5 DEF HandoverInv, FollowedRoundIsOpen, IsCurrent
<1>11. ASSUME fs.round # r
       PROVE  r > fs.round /\ r \notin fs.handed
  BY <1>1, <1>5, <1>10, <1>11 DEF LedgerInv
<1>12. [Bookkeeping!Follow]_(Bookkeeping!vars)
  <2>1. CASE fs.round = r
    <3>1. superseded' = superseded
      BY <1>2, <2>1
    <3>2. QED
      BY <1>3, <1>4, <1>6, <1>8, <2>1, <3>1, NothingSeen
  <2>2. CASE fs.round # r
    <3>1. superseded' \ fs.handed = {fs.round} \ (fs.handed \cup {0})
      <4>1. CASE fs.round = 0
        BY <1>2, <1>9, <4>1
      <4>2. CASE fs.round # 0
        BY <1>2, <1>9, <2>2, <4>2
      <4>3. QED
        BY <4>1, <4>2
    <3>2. QED
      BY <1>3, <1>4, <1>5, <1>6, <1>8, <1>11, <2>2, <3>1 DEF Bookkeeping!Follow
  <2>3. QED
    BY <2>1, <2>2
<1>13. LedgerInv'
  <2>1. \A q \in fs.handed : rounds[q].open => q = r
    BY <1>1, <1>5 DEF LedgerInv, OnlyNewestOpen
  <2>2. tick'.pc = "late" => tick'.prev \in superseded' \cap DOMAIN rounds
    BY <1>2, <1>7, <1>10
  <2>3. QED
    BY <1>3, <1>4, <1>5, <1>7, <2>1, <2>2 DEF LedgerInv
<1>14. QED
  BY <1>12, <1>13

----------------------------------------------------------------------------
(* A round is decided *)

\* What deciding does to the bookkeeping, on time or late.
LEMMA DecideDecides ==
  ASSUME HandoverInv, NEW r \in Nat, r # 0, r \notin fs.handed,
         r \in superseded \/ (superseded \subseteq fs.handed /\ r = fs.round),
         Promise = {},
         fs'.round = fs.round, fs'.handed = fs.handed \cup {r},
         UNCHANGED <<superseded, commands, rounds>>,
         \/ Promise' = {}
         \/ \E s \in Song : Promise' = {[round |-> r, song |-> s, stage |-> "chosen"]}
  PROVE  Bookkeeping!Decide(r) /\ r \in (superseded \ fs.handed) \cup {fs.round}
<1>1. Recorded' = Recorded
  BY DEF Recorded
<1>2. superseded' \ fs'.handed = (superseded \ fs.handed) \ {r}
  OBVIOUS
<1>3. r \in superseded \ fs.handed \/ (superseded \ fs.handed = {} /\ r = fs.round)
  OBVIOUS
<1>4. QED
  BY <1>1, <1>2, <1>3 DEF Bookkeeping!Decide

\* The late path decides the round that was replaced.
LEMMA LateDecides ==
  ASSUME HandoverInv, LedgerInv, TickLate
  PROVE  [Bookkeeping!Next]_(Bookkeeping!vars) /\ LedgerInv'
<1>1. /\ TypeOK /\ OnlyNewestOpen /\ FollowerTypes
      /\ fs \in [round : Nat, voteable : SUBSET Song, handed : SUBSET Nat]
  BY TypesSplit DEF HandoverInv, ServiceInv, StoreInv, FollowerTypes
<1>2. tick.pc = "late" /\ Promise = {} /\ fs.round # 0
  BY WhatIsDue DEF TickLate, LedgerInv, AfterEnsure, Deciding, LateDeciding
<1>3. tick.prev \in superseded /\ tick.prev \in DOMAIN rounds /\ tick.prev # 0
  BY <1>1, <1>2 DEF LedgerInv, TypeOK
<1>4. UNCHANGED <<superseded, commands, rounds>>
  BY DEF TickLate, Decide, followerVars, storeVars
<1>5. CASE tick.prev \in fs.handed
  <2>1. fs' = fs /\ tick'.pc = "ontime"
    BY <1>1, <1>5 DEF TickLate, Goto, FollowerTypes
  <2>2. Promise' = {}
    BY <2>1, WhatIsDueNext DEF Deciding, LateDeciding
  <2>3. Recorded' = Recorded
    BY <1>4 DEF Recorded
  <2>4. UNCHANGED Bookkeeping!vars
    BY <1>2, <1>4, <2>1, <2>2, <2>3, NothingSeen
  <2>5. LedgerInv'
    BY <1>2, <1>4, <2>1 DEF LedgerInv
  <2>6. QED
    BY <2>4, <2>5
<1>6. CASE tick.prev \notin fs.handed
  <2>1. /\ fs'.round = fs.round /\ fs'.handed = fs.handed \cup {tick.prev}
        /\ \/ tick'.pc = "ontime"
           \/ \E w \in Winners(tick.prev) :
                tick' = [tick EXCEPT !.pc = "lateRecord", !.pick = w]
    BY <1>1, <1>6 DEF TickLate, Decide, Goto, FollowerTypes
  <2>2. \/ tick'.pc = "ontime" /\ Promise' = {}
        \/ /\ tick'.pc = "lateRecord"
           /\ \E s \in Song :
                Promise' = {[round |-> tick.prev, song |-> s, stage |-> "chosen"]}
    <3>1. CASE tick'.pc = "ontime"
      BY <3>1, WhatIsDueNext DEF Deciding, LateDeciding
    <3>2. ASSUME NEW w \in Winners(tick.prev),
                 tick' = [tick EXCEPT !.pc = "lateRecord", !.pick = w]
          PROVE  /\ tick'.pc = "lateRecord"
                 /\ \E s \in Song :
                      Promise' = {[round |-> tick.prev, song |-> s, stage |-> "chosen"]}
      <4>1. tick'.pc = "lateRecord" /\ tick'.pick = w /\ tick'.prev = tick.prev
        BY <1>1, <3>2 DEF FollowerTypes
      <4>2. Promise' = {[round |-> tick.prev, song |-> w, stage |-> "chosen"]}
        BY <4>1, WhatIsDueNext
      <4>3. QED
        BY <1>1, <4>1, <4>2, WinnersAreSongs
    <3>3. QED
      BY <2>1, <3>1, <3>2
  <2>3. /\ Bookkeeping!Decide(tick.prev)
        /\ tick.prev \in (superseded \ fs.handed) \cup {fs.round}
    <3>1. \/ Promise' = {}
          \/ \E s \in Song :
               Promise' = {[round |-> tick.prev, song |-> s, stage |-> "chosen"]}
      BY <2>2
    <3>2. tick.prev \in Nat
      BY <1>1 DEF FollowerTypes
    <3>3. QED
      BY <1>2, <1>3, <1>4, <1>6, <2>1, <3>1, <3>2, DecideDecides
  <2>4. LedgerInv'
    <3>1. tick'.pc \notin {"late", "leave"}
      BY <2>2
    <3>2. IsCurrent(fs.round)
      BY <1>2 DEF HandoverInv, FollowedRoundIsOpen
    <3>3. \A q \in DOMAIN rounds : rounds[q].open => q = fs.round
      BY <1>1, <3>2 DEF IsCurrent, OnlyNewestOpen
    <3>4. QED
      BY <1>2, <1>3, <1>4, <2>1, <3>1, <3>3 DEF LedgerInv
  <2>5. QED
    BY <2>3, <2>4 DEF Bookkeeping!Next
<1>7. QED
  BY <1>5, <1>6

\* The on-time path decides the round that is followed, when none is owed.
LEMMA OnTimeDecides ==
  ASSUME HandoverInv, LedgerInv, TickOnTime
  PROVE  [Bookkeeping!Next]_(Bookkeeping!vars) /\ LedgerInv'
<1>1. /\ TypeOK /\ FollowerTypes
      /\ fs \in [round : Nat, voteable : SUBSET Song, handed : SUBSET Nat]
  BY TypesSplit DEF HandoverInv, ServiceInv, StoreInv, FollowerTypes
<1>2. tick.pc = "ontime" /\ Promise = {} /\ fs.round # 0 /\ fs.round \in DOMAIN rounds
  BY WhatIsDue
  DEF TickOnTime, LedgerInv, AfterEnsure, Deciding, LateDeciding, HandoverInv,
      FollowedRoundIsOpen, IsCurrent
<1>3. superseded \subseteq fs.handed
  BY <1>2 DEF HandoverInv, SupersededAreHandedOver
<1>4. UNCHANGED <<superseded, commands, rounds>>
  BY DEF TickOnTime, Decide, followerVars, storeVars
<1>5. CASE fs.round \in fs.handed \/ ~tick.window
  <2>1. fs' = fs /\ tick'.pc = "idle"
    BY <1>5 DEF TickOnTime, IdleTick
  <2>2. Promise' = {}
    BY <2>1, WhatIsDueNext DEF Deciding, LateDeciding
  <2>3. Recorded' = Recorded
    BY <1>4 DEF Recorded
  <2>4. UNCHANGED Bookkeeping!vars
    BY <1>2, <1>4, <2>1, <2>2, <2>3, NothingSeen
  <2>5. LedgerInv'
    BY <1>2, <1>4, <2>1 DEF LedgerInv
  <2>6. QED
    BY <2>4, <2>5
<1>6. CASE fs.round \notin fs.handed /\ tick.window
  <2>1. /\ fs'.round = fs.round /\ fs'.handed = fs.handed \cup {fs.round}
        /\ \/ tick' = IdleTick
           \/ \E w \in Winners(fs.round) :
                tick' = [tick EXCEPT !.pc = "record", !.pick = w]
    BY <1>1, <1>6 DEF TickOnTime, Decide
  <2>2. \/ tick'.pc = "idle" /\ Promise' = {}
        \/ /\ tick'.pc = "record"
           /\ \E s \in Song :
                Promise' = {[round |-> fs.round, song |-> s, stage |-> "chosen"]}
    <3>1. CASE tick' = IdleTick
      <4>1. tick'.pc = "idle"
        BY <3>1 DEF IdleTick
      <4>2. QED
        BY <4>1, WhatIsDueNext DEF Deciding, LateDeciding
    <3>2. ASSUME NEW w \in Winners(fs.round),
                 tick' = [tick EXCEPT !.pc = "record", !.pick = w]
          PROVE  /\ tick'.pc = "record"
                 /\ \E s \in Song :
                      Promise' = {[round |-> fs.round, song |-> s, stage |-> "chosen"]}
      <4>1. tick'.pc = "record" /\ tick'.pick = w
        BY <1>1, <3>2 DEF FollowerTypes
      <4>2. Promise' = {[round |-> fs.round, song |-> w, stage |-> "chosen"]}
        BY <2>1, <4>1, WhatIsDueNext
      <4>3. QED
        BY <1>1, <4>1, <4>2, WinnersAreSongs
    <3>3. QED
      BY <2>1, <3>1, <3>2
  <2>3. Bookkeeping!Decide(fs.round)
    <3>1. \/ Promise' = {}
          \/ \E s \in Song :
               Promise' = {[round |-> fs.round, song |-> s, stage |-> "chosen"]}
      BY <2>2
    <3>2. fs.round \in Nat
      BY <1>1
    <3>3. QED
      BY <1>2, <1>3, <1>4, <1>6, <2>1, <3>1, <3>2, DecideDecides
  <2>4. LedgerInv'
    <3>1. tick'.pc \notin {"late", "leave"}
      BY <2>2
    <3>2. QED
      BY <1>2, <1>4, <2>1, <3>1 DEF LedgerInv
  <2>5. QED
    BY <2>3, <2>4 DEF Bookkeeping!Next
<1>7. QED
  BY <1>5, <1>6

----------------------------------------------------------------------------
(* The winner goes on record, and FPP is asked *)

LEMMA RecordRecords ==
  ASSUME HandoverInv, LedgerInv, TickRecord \/ TickLateRecord
  PROVE  [Bookkeeping!Next]_(Bookkeeping!vars) /\ LedgerInv'
<1> DEFINE r == IF tick.pc = "record" THEN fs.round ELSE tick.prev
           p == [round |-> r, song |-> tick.pick, stage |-> "chosen"]
           q == [round |-> r, song |-> tick.pick, stage |-> "onRecord"]
<1>1. FollowerTypes /\ rounds \in Seq(RoundRow) /\ ServiceInv
  BY TypesSplit DEF HandoverInv, ServiceInv, TypeOK
<1>2. /\ r \in DOMAIN rounds
      /\ rounds' = [rounds EXCEPT ![r].winner = tick.pick]
      /\ tick.pc \in {"record", "lateRecord"}
  BY DEF TickRecord, TickLateRecord, SetWinner
<1>3. /\ UNCHANGED <<fs, superseded, commands>>
      /\ tick.pick \in Song
      /\ DOMAIN rounds' = DOMAIN rounds
      /\ \A i \in DOMAIN rounds : rounds'[i].open = rounds[i].open
  BY <1>1, RecordShape
<1>4. /\ tick'.prev = tick.prev /\ tick'.pick = tick.pick
      /\ \/ tick.pc = "record" /\ tick'.pc = "play"
         \/ tick.pc = "lateRecord" /\ tick'.pc \in {"ontime", "latePlay"}
  BY <1>1 DEF TickRecord, TickLateRecord, Goto, FollowerTypes
<1>5. Promise = {p}
  BY <1>2, WhatIsDue
<1>6. Promise' = {} \/ Promise' = {q}
  <2>1. CASE tick'.pc = "play"
    BY <1>3, <1>4, <2>1, WhatIsDueNext
  <2>2. CASE tick'.pc = "latePlay"
    BY <1>4, <2>2, WhatIsDueNext
  <2>3. CASE tick'.pc = "ontime"
    BY <2>3, WhatIsDueNext DEF Deciding, LateDeciding
  <2>4. QED
    BY <1>4, <2>1, <2>2, <2>3
<1> HIDE DEF r
<1>7. Recorded' = {x \in Recorded : x.round # r} \cup {[round |-> r, song |-> tick.pick]}
  BY <1>1, <1>2, <1>3, RecordedWritten
<1>8. Bookkeeping!Record(p)
  <2>1. [p EXCEPT !.stage = "onRecord"] = q
    OBVIOUS
  <2>2. p.round = r /\ p.song = tick.pick /\ p.stage = "chosen"
    OBVIOUS
  <2> HIDE DEF p, q
  <2>3. QED
    BY <1>3, <1>5, <1>6, <1>7, <2>1, <2>2 DEF Bookkeeping!Record
<1>9. LedgerInv'
  BY <1>3, <1>4 DEF LedgerInv, AfterEnsure
<1>10. QED
  BY <1>5, <1>8, <1>9 DEF Bookkeeping!Next

\* The call itself, on time or late, however it is sent and whether it arrives.
LEMMA JumpAsks ==
  ASSUME HandoverInv, LedgerInv, NEW r \in Nat,
         \/ tick.pc = "play" /\ r = fs.round /\ tick'.pc = "idle"
         \/ tick.pc = "latePlay" /\ r = tick.prev /\ tick'.pc = "ontime",
         UNCHANGED <<fs, superseded, rounds>>,
         commands' = commands \/ commands' = Append(commands, r)
  PROVE  [Bookkeeping!Next]_(Bookkeeping!vars) /\ LedgerInv'
<1> DEFINE p == [round |-> r, song |-> tick.pick, stage |-> "onRecord"]
<1>1. Promise = {p}
  BY WhatIsDue
<1>2. Promise' = {}
  BY WhatIsDueNext DEF Deciding, LateDeciding
<1>3. Recorded' = Recorded
  BY DEF Recorded
<1>4. Bookkeeping!Ask(p)
  BY <1>1, <1>2, <1>3 DEF Bookkeeping!Ask
<1>5. LedgerInv'
  BY DEF LedgerInv, AfterEnsure
<1>6. QED
  BY <1>1, <1>4, <1>5 DEF Bookkeeping!Next

----------------------------------------------------------------------------
(* What interrupts a pass *)

\* An exception, or a refused write, drops the rest of the pass.
LEMMA FailureForsakes ==
  ASSUME HandoverInv, LedgerInv, TickFails \/ TickForeignKey
  PROVE  Bookkeeping!Forsake /\ LedgerInv'
<1>1. /\ tick'.pc = "idle"
      /\ UNCHANGED <<fs, commands, rounds>>
  BY DEF TickFails, TickForeignKey, IdleTick, storeVars
<1>2. superseded' \ fs.handed = {}
  <2>1. CASE TickFails
    BY <2>1 DEF TickFails, HandoverInv, SupersededAreHandedOver
  <2>2. CASE TickForeignKey
    BY <2>2 DEF TickForeignKey, HandoverInv, SupersededAreHandedOver
  <2>3. QED
    BY <2>1, <2>2
<1>3. Promise' = {}
  BY <1>1, WhatIsDueNext DEF Deciding, LateDeciding
<1>4. Recorded' = Recorded
  BY <1>1 DEF Recorded
<1>5. LedgerInv'
  BY <1>1 DEF LedgerInv, AfterEnsure
<1>6. QED
  BY <1>1, <1>2, <1>3, <1>4, <1>5 DEF Bookkeeping!Forsake

\* A new process knows the winners on record and nothing else.
LEMMA RestartRestarts ==
  ASSUME Restart
  PROVE  Bookkeeping!Restart /\ LedgerInv'
<1>1. /\ fs'.round = 0 /\ fs'.handed = {} /\ superseded' = {} /\ commands' = <<>>
      /\ tick'.pc = "idle" /\ rounds' = rounds
  BY DEF Restart, RestartFollower, FreshState, IdleTick, storeVars
<1>2. Promise' = {}
  BY <1>1, WhatIsDueNext DEF Deciding, LateDeciding
<1>3. Recorded' = Recorded
  BY <1>1 DEF Recorded
<1>4. QED
  BY <1>1, <1>2, <1>3 DEF Bookkeeping!Restart, LedgerInv, AfterEnsure

\* A pass that only reads the playlist and the catalogue settles nothing.
LEMMA EarlySteps ==
  ASSUME HandoverInv, LedgerInv,
         tick.pc \in {"idle", "fetch", "catalogue"},
         tick'.pc \in {"idle", "fetch", "catalogue", "ensure"},
         fs'.round = fs.round, fs'.handed = fs.handed,
         UNCHANGED <<superseded, commands, rounds>>
  PROVE  UNCHANGED Bookkeeping!vars /\ LedgerInv'
<1>1. Promise = {} /\ Promise' = {}
  BY WhatIsDue, WhatIsDueNext DEF Deciding, LateDeciding
<1>2. Recorded' = Recorded
  BY DEF Recorded
<1>3. UNCHANGED Bookkeeping!vars
  BY <1>1, <1>2, NothingSeen
<1>4. LedgerInv'
  BY DEF LedgerInv, AfterEnsure
<1>5. QED
  BY <1>3, <1>4

\* Whoever leaves rounds and the follower alone leaves the bookkeeping alone.
LEMMA OthersStutter ==
  ASSUME LedgerInv, UNCHANGED <<rounds, followerVars>>
  PROVE  UNCHANGED Bookkeeping!vars /\ LedgerInv'
<1>1. UNCHANGED <<rounds, fs, tick, superseded, commands>>
  BY DEF followerVars
<1>2. Promise' = Promise /\ Recorded' = Recorded
  BY <1>1 DEF Promise, Recorded
<1>3. QED
  BY <1>1, <1>2, NothingSeen DEF LedgerInv

----------------------------------------------------------------------------
(* The refinement *)

LEMMA BookkeepingStep ==
  ASSUME HandoverInv, LedgerInv, [ServiceNext]_serviceVars
  PROVE  [Bookkeeping!Next]_(Bookkeeping!vars) /\ LedgerInv'
<1>1. /\ fs \in [round : Nat, voteable : SUBSET Song, handed : SUBSET Nat]
      /\ FollowerTypes
  BY TypesSplit DEF HandoverInv, ServiceInv, FollowerTypes
<1>2. CASE TickStep
  <2>1. CASE TickSkip \/ TickPlaying \/ TickFetch \/ TickCatalogue
    <3>1. tick.pc \in {"idle", "fetch", "catalogue"}
      BY <2>1 DEF TickSkip, TickPlaying, TickFetch, TickCatalogue
    <3>2. tick'.pc \in {"idle", "fetch", "catalogue", "ensure"}
      <4>1. CASE TickPlaying
        BY <4>1 DEF TickPlaying, IdleTick
      <4>2. CASE TickSkip
        BY <4>2 DEF TickSkip, followerVars
      <4>3. CASE TickFetch \/ TickCatalogue
        BY <1>1, <4>3 DEF TickFetch, TickCatalogue, Goto, FollowerTypes
      <4>4. QED
        BY <2>1, <4>1, <4>2, <4>3
    <3>3. fs'.round = fs.round /\ fs'.handed = fs.handed
      BY <1>1, <2>1 DEF TickSkip, TickPlaying, TickFetch, TickCatalogue, followerVars
    <3>4. UNCHANGED <<superseded, commands, rounds>>
      BY <2>1
      DEF TickSkip, TickPlaying, TickFetch, TickCatalogue, UpsertSong, followerVars,
          storeVars
    <3>5. QED
      BY <3>1, <3>2, <3>3, <3>4, EarlySteps
  <2>2. CASE TickIdle \/ TickLeave
    BY <2>2, IdleStutters, LeaveLeaves DEF TickIdle, Bookkeeping!Next
  <2>3. CASE TickEnsure \/ TickFollow
    BY <2>3, EnsureStutters, FollowFollows DEF Bookkeeping!Next
  <2>4. CASE TickLate
    BY <2>4, LateDecides
  <2>5. CASE TickOnTime
    BY <2>5, OnTimeDecides
  <2>6. CASE TickRecord \/ TickLateRecord
    BY <2>6, RecordRecords
  <2>7. CASE TickPlay
    <3>1. /\ UNCHANGED <<fs, superseded, rounds>>
          /\ commands' = commands \/ commands' = Append(commands, fs.round)
          /\ tick.pc = "play" /\ tick'.pc = "idle"
      BY <2>7 DEF TickPlay, Play, IdleTick, storeVars
    <3>2. QED
      BY <1>1, <3>1, JumpAsks
  <2>8. CASE TickLatePlay
    <3>1. /\ UNCHANGED <<fs, superseded, rounds>>
          /\ commands' = commands \/ commands' = Append(commands, tick.prev)
          /\ tick.pc = "latePlay" /\ tick'.pc = "ontime"
          /\ tick.prev \in Nat
      BY <1>1, <2>8 DEF TickLatePlay, Play, Goto, FollowerTypes, storeVars
    <3>2. QED
      BY <3>1, JumpAsks
  <2>9. CASE TickForeignKey
    BY <2>9, FailureForsakes DEF Bookkeeping!Next
  <2>10. QED
    BY <1>2, <2>1, <2>2, <2>3, <2>4, <2>5, <2>6, <2>7, <2>8, <2>9 DEF TickStep
<1>3. CASE TickFails
  BY <1>3, FailureForsakes DEF Bookkeeping!Next
<1>4. CASE Restart
  BY <1>4, RestartRestarts DEF Bookkeeping!Next
<1>5. CASE UNCHANGED <<rounds, followerVars>>
  BY <1>5, OthersStutter
<1>6. QED
  BY <1>2, <1>3, <1>4, <1>5, OthersLeaveFollower

LEMMA BookkeepingInit ==
  ASSUME ServiceInit
  PROVE  Bookkeeping!Init /\ LedgerInv
<1>1. /\ fs = FreshState /\ tick = IdleTick /\ superseded = {} /\ commands = <<>>
      /\ rounds = <<>>
  BY DEF ServiceInit, FollowerInit, StoreInit
<1>2. fs.round = 0 /\ fs.handed = {} /\ tick.pc = "idle"
  BY <1>1 DEF FreshState, IdleTick
<1>3. Promise = {} /\ Recorded = {}
  BY <1>1, <1>2, WhatIsDue DEF Deciding, LateDeciding, Recorded
<1>4. QED
  BY <1>1, <1>2, <1>3 DEF Bookkeeping!Init, LedgerInv, AfterEnsure

\* Only rounds that exist are ever decided, and one that was decided is never
\* found open again by a loop that follows none or an older one
\* (follower.py:200-203, 226-231).
THEOREM LedgerInvariant == ServiceSpec => []LedgerInv
<1>1. HandoverInv /\ LedgerInv /\ [ServiceNext]_serviceVars => LedgerInv'
  BY BookkeepingStep
<1>2. QED
  BY BookkeepingInit, <1>1, HandoverInvariant, PTL DEF ServiceSpec

\* The service keeps the promises of Handover: what was replaced is decided
\* before anything else, no round is decided twice, and FPP is asked only for
\* what is on record (follower.py:226-233, 248-250, 264-271, 283-291).
THEOREM ServiceImplementsHandover == ServiceSpec => ImplementsHandover
<1>1. ServiceInit => Bookkeeping!Init
  BY BookkeepingInit
<1>2. HandoverInv /\ LedgerInv /\ [ServiceNext]_serviceVars
        => [Bookkeeping!Next]_(Bookkeeping!vars)
  BY BookkeepingStep
<1>3. QED
  BY <1>1, <1>2, HandoverInvariant, LedgerInvariant, PTL
  DEF ServiceSpec, ImplementsHandover, Bookkeeping!Spec
===============================================================================
