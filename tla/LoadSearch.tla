------------------------------ MODULE LoadSearch ------------------------------
(***************************************************************************)
(* Load search and load detail (app/api/routes/loads.py).  What the TMS    *)
(* or the snapshot matches is a choice of the environment; what the search *)
(* does to the call with it is the code's.  `board' is whether BoardIndex  *)
(* holds a snapshot: it stays once a first sweep succeeded.                *)
(***************************************************************************)
EXTENDS CallSession

(* fault: the call record is not consulted.                                *)
SearchedNever(c, f) == FALSE

Searched(c, f) ==
    \E i \in DOMAIN session[c].searches : session[c].searches[i].filter = f

Used(c) == Len(session[c].searches)

(* fault: off by one in the per-call cap.                                  *)
BudgetSpentLate(c) == board /\ Used(c) > MaxSearches

BudgetSpent(c) == board /\ Used(c) >= MaxSearches

(* respond(): what is handed over enters the ledger, and the attempt is    *)
(* written down under the number the handler computed before its await.    *)

(* fault: only the load that is pitched enters the ledger.                 *)
HandedOverTop(s, loads) ==
    [s EXCEPT !.offered = @ \cup {CHOOSE l \in loads : TRUE}]

HandedOver(s, loads) == [s EXCEPT !.offered = @ \cup loads]

(* fault: the number is the searches used, this one not included.          *)
RecordedFromZero(s, q, loads) ==
    [HandedOver(s, loads) EXCEPT
        !.searches = Append(@, [number |-> q.used, filter |-> q.filter,
                                loads |-> loads])]

Recorded(s, q, loads) ==
    [HandedOver(s, loads) EXCEPT
        !.searches = Append(@, [number |-> q.used + 1, filter |-> q.filter,
                                loads |-> loads])]

(* The guards up to the wire query.  A repeated fingerprint is answered    *)
(* from the record and a search without wire filters hands nothing over:   *)
(* neither changes the call.                                               *)
Search(c, r, f) ==
    /\ MayCall(c)
    /\ Passes(session[c], IDENTITY_VERIFIED)
    /\ ~Searched(c, f)
    /\ ~BudgetSpent(c)
    /\ Suspend(r, [op |-> "search", call |-> c, filter |-> f,
                   used |-> Used(c), snapshot |-> board])
    /\ UNCHANGED <<session, tms, orphans, board, trail>>

(* The cap hands over the board for their equipment and records nothing.   *)
SearchOverBudget(c, loads) ==
    /\ MayCall(c)
    /\ Passes(session[c], IDENTITY_VERIFIED)
    /\ BudgetSpent(c)
    /\ Becomes(c, HandedOver(session[c], loads))
    /\ UNCHANGED <<request, tms, orphans, board, trail>>

(* Exact matches on the wire, or, with a snapshot captured before the      *)
(* await, matches further down the ladder (also when the TMS is down and   *)
(* the snapshot is not stale).                                             *)
SearchMatched(r, loads) ==
    LET q == request[r] IN
    /\ Awaiting(r, "search")
    /\ loads # {}
    /\ Becomes(q.call, Recorded(session[q.call], q, loads))
    /\ Resume(r)
    /\ UNCHANGED <<tms, orphans, board, trail>>

(* Nothing on the wire, and no snapshot or nothing at any rung.            *)
SearchEmpty(r) ==
    LET q == request[r] IN
    /\ Awaiting(r, "search")
    /\ Becomes(q.call, [session[q.call] EXCEPT !.outcome = "no_loads"])
    /\ Resume(r)
    /\ UNCHANGED <<tms, orphans, board, trail>>

(* The TMS rejects the query, or is down without a usable snapshot.        *)
SearchDegraded(r) ==
    /\ Awaiting(r, "search")
    /\ Resume(r)
    /\ UNCHANGED <<session, tms, orphans, board, trail>>

(* The first sweep that gets an answer from any shard.                     *)
BoardWarms ==
    /\ ~board
    /\ board' = TRUE
    /\ UNCHANGED <<session, request, tms, orphans, trail>>

-----------------------------------------------------------------------------
(* The offer ledger, enforced once something has been offered.             *)
Offerable(s, l) == s.offered = {} \/ l \in s.offered

Detail(c, r, l) ==
    /\ MayCall(c)
    /\ Passes(session[c], IDENTITY_VERIFIED)
    /\ Offerable(session[c], l)
    /\ Suspend(r, [op |-> "detail", call |-> c, load |-> l])
    /\ UNCHANGED <<session, tms, orphans, board, trail>>

DetailFound(r) ==
    LET q == request[r] IN
    /\ Awaiting(r, "detail")
    /\ Becomes(q.call, AdvanceTo([session[q.call] EXCEPT !.selected = q.load],
                                 LOAD_SELECTED))
    /\ Resume(r)
    /\ UNCHANGED <<tms, orphans, board, trail>>

(* 404, 503, or any other TMS error.                                       *)
DetailFailed(r) ==
    /\ Awaiting(r, "detail")
    /\ Resume(r)
    /\ UNCHANGED <<session, tms, orphans, board, trail>>
=============================================================================
