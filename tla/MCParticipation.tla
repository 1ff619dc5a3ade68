--------------------------- MODULE MCParticipation ---------------------------
(* Instances of Participation for TLC. *)
EXTENDS Participation
==============================================================================
