------------------------------ MODULE MCTmsClient ------------------------------
(***************************************************************************)
(* A small instance of TmsClient: two bookings of the same load and reads  *)
(* with a budget of two attempts.                                          *)
(***************************************************************************)
EXTENDS TmsClient

CONSTANT l1

MCLoadOf == [b \in Books |-> l1]
=============================================================================
