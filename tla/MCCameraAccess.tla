--------------------------- MODULE MCCameraAccess ---------------------------
(* Instances of CameraAccess for TLC. *)
EXTENDS CameraAccess, TLC

CONSTANTS owner, hired, guest

Team == (owner :> "owner") @@ (hired :> "assigned") @@ (guest :> "unassigned")

Symmetry == Permutations(Cred) \cup Permutations(Connection)
            \cup Permutations(Request) \cup Permutations(Upload)
==============================================================================
