------------------------------ MODULE MCBoardIndex ------------------------------
(***************************************************************************)
(* A small board: two vans and a reefer, one stale get next to the loop.   *)
(***************************************************************************)
EXTENDS BoardIndex, TLC

CONSTANTS van, reefer, v1, v2, f1

(* v1 leaves Fresno, CA on the morning of the first day; v2 leaves Dallas, *)
(* TX on the fifth; the reefer leaves Los Angeles, CA at no given time.    *)
MCRow ==
    v1 :> [equipment |-> van, pickup |-> 0,
           origin_state |-> "CA", origin_city |-> {"fresno"},
           destination_state |-> "TX", destination_city |-> {"austin"}]
    @@ v2 :> [equipment |-> van, pickup |-> 4 * DayLength,
              origin_state |-> "TX", origin_city |-> {"dallas", "dal"},
              destination_state |-> "TX", destination_city |-> {"houston"}]
    @@ f1 :> [equipment |-> reefer, pickup |-> None,
              origin_state |-> "CA", origin_city |-> {"los angeles"},
              destination_state |-> "NV", destination_city |-> {"reno"}]

(* Days 1 and 2 are within three days of both given pickups, day 0 of one. *)
MCFilters ==
    [equipment : {None, van, reefer}, pickup_date : {None, 0, 1, 2},
     origin_state : {None, "CA"}, origin_city : {None, "dal"},
     destination_state : {None, "TX"}, destination_city : {None, "austin"}]
=============================================================================
