----------------------------- MODULE MCConnection -----------------------------
(***************************************************************************)
(* Bounds for model-checking the opening of the database.                  *)
(***************************************************************************)
EXTENDS Connection

\* Two votes, so that two threads can want the first salt; one edit by hand; one
\* store method; two of the crashes, power cuts, timeouts and exceptions.
BusyNight == [votes |-> 2, edits |-> 1, methods |-> 1, faults |-> 2]
===============================================================================
