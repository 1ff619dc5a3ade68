------------------------------ MODULE MCMatching ------------------------------
(* Instances of Matching for TLC: one photo with the faces f1 and f2.        *)
EXTENDS Matching, TLC

CONSTANTS p1, f1, f2, a1

OnePhoto == (f1 :> p1)
GroupPhoto == (f1 :> p1) @@ (f2 :> p1)

OneOwner == <<a1, a1>>
ThreeByOne == <<a1, a1, a1>>

(* The first selfie is a bad one, it looks like f1 by mistake; the second is *)
(* right about f2 and not quite sure about f1.                               *)
WrongThenRight == [x \in Face \X (1..2) |->
                     IF x[2] = 1 THEN IF x[1] = f1 THEN "auto" ELSE "none"
                                 ELSE IF x[1] = f1 THEN "pending" ELSE "auto"]
AllAuto == [x \in Face \X Selfie |-> "auto"]
==============================================================================
