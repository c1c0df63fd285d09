--------------------------- MODULE MCResearchTrack ---------------------------
(* The instances of ResearchTrack that TLC checks. *)
EXTENDS ResearchTrack, TLC
==============================================================================
