---------------------------- MODULE MCDrawUnit -----------------------------
(* Small instances of DrawUnit: sources are numbers, and source n shows    *)
(* pixels n. Source 1 is the draw buffer of a layer and also shows the     *)
(* pixels no source has the number of.                                     *)
EXTENDS DrawUnit

MCShows == [s \in Sources |->
              IF s = 1 THEN {1} \cup (Pixels \ Sources) ELSE {s}]
MCSize == [s \in Sources |-> 4 * s]
=============================================================================
