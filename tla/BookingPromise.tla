----------------------------- MODULE BookingPromise -----------------------------
(***************************************************************************)
(* What book_load promises its caller (app/tms/client.py:110, errors.py):  *)
(* a booking is taken at most once, a confirmation is true, a refusal is   *)
(* final, and whatever is neither is owned up to as uncertain.  Nothing is *)
(* said here of sockets, attempts or answers.                              *)
(***************************************************************************)
CONSTANTS
    Books,          \* booking requests
    Loads,          \* load ids
    LoadOf,         \* the load each booking request is for
    Stranger,       \* whoever books without this client
    None

VARIABLES
    holder,         \* whose booking each load is, in the system of record
    verdict         \* what the caller of each booking has been told

vars == <<holder, verdict>>

Verdict == {"pending", "confirmed", "refused", "uncertain"}

Init ==
    /\ holder = [l \in Loads |-> None]
    /\ verdict = [b \in Books |-> "pending"]

Holds(b) == holder[LoadOf[b]] = b

Takes(who, l) == holder[l] = None /\ holder' = [holder EXCEPT ![l] = who]
Tells(b, v) ==
    verdict[b] = "pending" /\ verdict' = [verdict EXCEPT ![b] = v]

(* A refused booking never lands, an uncertain one still may.              *)
Commit(b) ==
    /\ verdict[b] \in {"pending", "uncertain"}
    /\ Takes(b, LoadOf[b])
    /\ UNCHANGED verdict

Lose(l) == Takes(Stranger, l) /\ UNCHANGED verdict

Confirm(b) == Holds(b) /\ Tells(b, "confirmed") /\ UNCHANGED holder
Refuse(b) == ~Holds(b) /\ Tells(b, "refused") /\ UNCHANGED holder
Doubt(b) == Tells(b, "uncertain") /\ UNCHANGED holder

Next ==
    \/ \E b \in Books : Commit(b) \/ Confirm(b) \/ Refuse(b) \/ Doubt(b)
    \/ \E l \in Loads : Lose(l)

Spec == Init /\ [][Next]_vars
=============================================================================
