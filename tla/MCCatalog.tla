------------------------------ MODULE MCCatalog ------------------------------
(***************************************************************************)
(* Bounds for model-checking the catalogue.                                *)
(***************************************************************************)
EXTENDS Catalog, TLC

OneTitle == [s \in Song |-> 0]

\* The follower catalogued some songs before any show was synced.
SomeSongs == {Song}

\* init_db.py built both shows from the same playlist.
SameShows == {Show \X Song}

\* One kind of work at a time, with what can get in its way. Two renames in a
\* row over songs with history, a sync that brings a renamed key back, and a
\* deletion, a sync or a new assignment between the reads of a rename and its
\* writes.
Renames ==
  [w \in Work |-> CASE w \in {"renames", "ballots", "labels"} -> 2
                    [] w \in {"rounds", "exclusions", "syncs"} -> 1
                    [] w \in {"ticks", "resets"} -> 0]

\* Assignments overtaken by a new vocabulary, and a merge across them.
Labels ==
  [w \in Work |-> CASE w = "labels" -> 3
                    [] w \in {"renames", "syncs", "exclusions"} -> 1
                    [] w \in {"rounds", "ballots", "ticks", "resets"} -> 0]

\* Three resets, two of them at once, with ballots before, in and after their seconds.
Resets ==
  [w \in Work |-> CASE w \in {"ticks", "resets"} -> 3
                    [] w = "ballots" -> 2
                    [] w \in {"rounds", "renames"} -> 1
                    [] w \in {"exclusions", "syncs", "labels"} -> 0]

SmallChores == {Renames, Labels, Resets}

Interchangeable == Permutations(Song) \cup Permutations(Show) \cup Permutations(Admin)
===============================================================================
