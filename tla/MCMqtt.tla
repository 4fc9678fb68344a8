-------------------------------- MODULE MCMqtt --------------------------------
(***************************************************************************)
(* Bounds for model-checking the service with MQTT.                        *)
(***************************************************************************)
EXTENDS MqttService

CONSTANTS a, b, v1, t1

TitleRank   == [s \in Song |-> IF s = a THEN 0 ELSE 1]
OneClient   == [t \in Client |-> v1]
OnePlaylist == {<<a, b>>}
AllSeen     == {{a, b}}

Quiet == [plays |-> 0, edits |-> 0, faults |-> 0, taps |-> 0, admin |-> 0]

\* One song or a song and what follows it, one voter, one thing going wrong.
FaultyBudget == [Quiet EXCEPT !.plays = 1, !.taps = 1, !.faults = 1]

\* Nothing goes wrong: FPP moves on from one song to the next.
HealthyBudget == [Quiet EXCEPT !.plays = 2]
===============================================================================
