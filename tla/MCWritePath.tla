---------------------------- MODULE MCWritePath -----------------------------
(* Two writable ids: id 1 takes both setpoints, the other refuses zero.     *)
EXTENDS WritePath

CONSTANTS ch, other, zero, warm, none, w0, w1

MCEncode ==
    [v \in Setpoints |-> IF v = zero THEN w0 ELSE w1]
MCBelow == [id \in WriteIds |-> IF id = ch THEN {} ELSE {zero}]
MCAbove == [id \in WriteIds |-> {}]
MCWithin == [id \in WriteIds |-> Setpoints \ (MCBelow[id] \cup MCAbove[id])]

ASSUME NumbersOnly
=============================================================================
