-------------------------------- MODULE MCPage --------------------------------
(***************************************************************************)
(* Bounds for model-checking the voter page.                               *)
(***************************************************************************)
EXTENDS VoterPage

CONSTANTS t1, v1, v2, v3, s1, s2

OneTitle  == [s \in Song |-> 0]
AllSeen   == {Song}
TwoOrAll  == {{s1, s2}, Song}

\* A browser with its token, or one that has none to begin with.
AnyBrowser  == [t \in Tab |-> {v1, NoVoter}]
PrivateMode == [t \in Tab |-> {NoVoter}]

\* One thing goes wrong while the voter taps twice and a song comes on, or taps
\* once and two songs come on; or the allowance moves between two taps, or
\* between a tap and its arrival.
BusyQuotas == {[taps |-> 2, songs |-> 1, rules |-> 0, faults |-> 1],
               [taps |-> 1, songs |-> 2, rules |-> 0, faults |-> 1],
               [taps |-> 2, songs |-> 1, rules |-> 1, faults |-> 0]}

\* To move a ballot takes a third song, beside the one it is for and the one that
\* is on; the other cases need two. The allowance moves before a voter with a token.
BusyInit ==
  /\ PageInit
  /\ IF quota["rules"] > 0
       THEN songs = Song /\ \A t \in Tab : page[t].token # NoVoter
       ELSE songs = {s1, s2}

BusyPage == BusyInit /\ [][PageNext]_pageVars /\ PageFairness

\* The first fetch may fail.
BootQuotas == {[taps |-> 1, songs |-> 1, rules |-> 0, faults |-> 1]}
===============================================================================
