------------------------------ MODULE MCService ------------------------------
(***************************************************************************)
(* Bounds for model-checking the whole service.                            *)
(***************************************************************************)
EXTENDS Service

CONSTANTS a, b, c, v1, v2, t1, t2

TitleRank == [s \in Song |-> CASE s = a -> 0 [] s = b -> 1 [] OTHER -> 2]

\* Two voters with one tab each, or one voter with two tabs.
TwoVoters == [t \in Client |-> IF t = t1 THEN v1 ELSE v2]
TwoTabs   == [t \in Client |-> v1]

OnePlaylist  == {<<a, b, c>>}
\* The playlist as first read, and after a song was put in front.
TwoPlaylists == {<<a, b, c>>, <<c, a, b>>}

Quiet == [plays |-> 0, edits |-> 0, faults |-> 0, taps |-> 0, admin |-> 0]

\* c is played by FPP before anyone reconciled it.
CNotYetSeen == {{a, b}}
AllSeen     == {{a, b, c}}

\* Voters race with each other and with the loop; FPP behaves.
RaceBudget == [Quiet EXCEPT !.plays = 2, !.taps = 2]

\* One voter; something breaks and the admin changes something.
FaultBudget == [Quiet EXCEPT !.plays = 2, !.taps = 1, !.faults = 2, !.admin = 1]

LiveBudget == [Quiet EXCEPT !.plays = 2, !.taps = 1, !.faults = 1]

\* One voter, a healthy service, and a human who edits the playlist once.
EditBudget == [Quiet EXCEPT !.plays = 2, !.taps = 1, !.edits = 1]
===============================================================================
