------------------------------ MODULE VotingFile ------------------------------
(***************************************************************************)
(* What opening and using the database file promises, with no openers,     *)
(* locks, scripts or transactions: the file comes into being at the latest *)
(* version or climbs to it one rung at a time, is written to only there,   *)
(* gets its salt once, keeps what somebody chose by hand and takes a store *)
(* method whole or not at all. Only a power cut takes anything back, to    *)
(* what was saved last.                                                    *)
(*                                                                         *)
(* Connection implements this specification (see Promised there).          *)
(***************************************************************************)
EXTENDS Naturals

CONSTANTS
  Latest,    \* the version this code writes
  Salt,      \* what voters may be hashed with
  NoSalt     \* a file that has none yet

VARIABLES
  file,      \* what the database holds: [version, curated, salt, hashed, writes]
  saved      \* what a power cut leaves of it

vars == <<file, saved>>

\* Version 0 is a file that is not there, or not finished.
Init ==
  /\ file \in [version : 0 .. Latest + 1, curated : {FALSE}, salt : {NoSalt},
               hashed : {{}}, writes : {0}]
  /\ saved = file

Create ==
  /\ file.version = 0
  /\ file' = [file EXCEPT !.version = Latest]
  /\ UNCHANGED saved

\* One rung; what else the file holds stays.
Climb ==
  /\ file.version \in 1 .. Latest - 1
  /\ file' = [file EXCEPT !.version = @ + 1]
  /\ UNCHANGED saved

ChooseSalt(s) ==
  /\ file.version = Latest /\ file.salt = NoSalt
  /\ file' = [file EXCEPT !.salt = s]
  /\ UNCHANGED saved

\* A ballot is hashed with the one salt there is.
StoreBallot ==
  /\ file.version = Latest /\ file.salt # NoSalt
  /\ file' = [file EXCEPT !.hashed = @ \cup {file.salt}]
  /\ UNCHANGED saved

Curate ==
  /\ file.version = Latest
  /\ file' = [file EXCEPT !.curated = TRUE]
  /\ UNCHANGED saved

\* A store method of two writes.
Apply ==
  /\ file.version = Latest
  /\ file' = [file EXCEPT !.writes = 2]
  /\ UNCHANGED saved

Save ==
  /\ saved' = file
  /\ UNCHANGED file

PowerCut ==
  /\ file' = saved
  /\ UNCHANGED saved

Next ==
  \/ Create \/ Climb
  \/ \E s \in Salt : ChooseSalt(s)
  \/ StoreBallot \/ Curate \/ Apply
  \/ Save \/ PowerCut

Spec == Init /\ [][Next]_vars
===============================================================================
