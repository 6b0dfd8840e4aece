------------------------------ MODULE MCRateDesk ------------------------------
(***************************************************************************)
(* Small instances of the desk.  The settings are the shipped ones: three  *)
(* rounds, a 3% ceiling buffer, a 2% auto-accept band, figures of three    *)
(* digits and more protected.                                              *)
(***************************************************************************)
EXTENDS GuardedDesk

(* A missing RATE (read as 0), a load posted well under the ceilings, one  *)
(* inside the buffer of the lower ceiling, one at it, one above it.        *)
MCPostedRates == {0, 2000, 2480, 2500, 2900}

(* Withheld, two ordinary ceilings, and one dollar, where the cap is 0.    *)
MCCeilings == {NoRate, 1, 2500, 3000}

(* At the posted rate and just past its auto-accept band, at the ceilings, *)
(* one dollar over, inside the buffer, and out of reach.                   *)
MCAsks == {1, 1999, 2040, 2041, 2480, 2500, 2501, 2800, 3000, 6000}

=============================================================================
