------------------------------ MODULE MCOperator ------------------------------
(* An instance of Operator for TLC. *)
EXTENDS Operator

CONSTANTS m1, m2

TwoMessages == {m1, m2}
=============================================================================
