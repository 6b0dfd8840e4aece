-------------------------------- MODULE Deals --------------------------------
(***************************************************************************)
(* Negotiation, booking and the senior-rep handoff                         *)
(* (app/api/routes/deals.py).  Pricing a load for the first time awaits    *)
(* the TMS for its rate and ceiling; booking awaits LOAD_BOOK, whose write *)
(* may land whether or not the bridge hears of it.                         *)
(***************************************************************************)
EXTENDS CallSession

(* fault: an unknown load is priced whatever has been offered.             *)
PriceableAlways(s, l) == TRUE

(* The offer ledger again, as _negotiation_for checks it.                  *)
Priceable(s, l) == s.offered = {} \/ l \in s.offered

(* What negotiate does to the call once evaluate has decided.  A repeat of *)
(* the same number leaves the call alone.                                  *)
Priced(s, l, ask, recent) ==
    LET old == s.negotiations[l]
        new == Evaluated(old, ask, recent)
        t == [s EXCEPT !.negotiations[l] = new]
    IN  IF Replays(old, ask, recent) THEN s
        ELSE CASE DecisionOf(old, ask, recent) = "accepted" ->
                     AdvanceTo([t EXCEPT !.agreed = new.agreed, !.selected = l],
                               RATE_AGREED)
               [] DecisionOf(old, ask, recent) = "rejected" ->
                     [t EXCEPT !.outcome = "failed_negotiation"]
               [] DecisionOf(old, ask, recent) = "countered" -> t

Named(c, l, ask) == trail' = [trail EXCEPT ![c].named = @ \cup {<<l, ask>>}]

(* A load already under negotiation is decided without an await.           *)
Negotiate(c, l, ask, recent) ==
    /\ MayCall(c)
    /\ Passes(session[c], IDENTITY_VERIFIED)
    /\ session[c].negotiations[l] # None
    /\ Becomes(c, Priced(session[c], l, ask, recent))
    /\ Named(c, l, ask)
    /\ UNCHANGED <<request, tms, orphans, board>>

(* fault: the stored negotiation is not looked up first.                   *)
OpenNegotiationAgain(c, r, l, ask) ==
    /\ MayCall(c)
    /\ Passes(session[c], IDENTITY_VERIFIED)
    /\ Priceable(session[c], l)
    /\ Suspend(r, [op |-> "negotiate", call |-> c, load |-> l, ask |-> ask])
    /\ UNCHANGED <<session, tms, orphans, board, trail>>

OpenNegotiation(c, r, l, ask) ==
    /\ MayCall(c)
    /\ Passes(session[c], IDENTITY_VERIFIED)
    /\ session[c].negotiations[l] = None
    /\ Priceable(session[c], l)
    /\ Suspend(r, [op |-> "negotiate", call |-> c, load |-> l, ask |-> ask])
    /\ UNCHANGED <<session, tms, orphans, board, trail>>

(* get_load answers: a new Negotiation is stored, over any that another    *)
(* request stored meanwhile, and the ask is its first round.               *)
NegotiationOpened(r) ==
    LET q == request[r]
        s == session[q.call]
        t == [s EXCEPT !.negotiations[q.load]
                          = Opened(PostedRate[q.load], MaxBuy[q.load]),
                       !.selected = q.load]
    IN
    /\ Awaiting(r, "negotiate")
    /\ Becomes(q.call, Priced(AdvanceTo(t, LOAD_SELECTED), q.load, q.ask, FALSE))
    /\ Named(q.call, q.load, q.ask)
    /\ Resume(r)
    /\ UNCHANGED <<tms, orphans, board>>

(* 404, 503, or any other TMS error.                                       *)
NegotiationNotOpened(r) ==
    /\ Awaiting(r, "negotiate")
    /\ Resume(r)
    /\ UNCHANGED <<session, tms, orphans, board, trail>>

-----------------------------------------------------------------------------
(* Booking.                                                                *)

(* fault: the last line of defence is gone.                                *)
AffordableAlways(n) == TRUE

(* "a booking must never be able to exceed the ceiling regardless of how   *)
(* it was reached"; a load without a ceiling is never agreed.              *)
Affordable(n) == n.ceiling = NoRate \/ n.agreed <= n.ceiling

Book(c, r, l) ==
    LET s == session[c]
        n == s.negotiations[l]
    IN
    /\ MayCall(c)
    /\ Passes(s, RATE_AGREED)
    /\ s.booked # l
    /\ n # None
    /\ n.status = "agreed"
    /\ Affordable(n)
    /\ s.mc # None
    /\ Suspend(r, [op |-> "book", call |-> c, load |-> l, mc |-> s.mc,
                   rate |-> n.agreed, reply |-> "none"])
    /\ UNCHANGED <<session, tms, orphans, board, trail>>

BookingOf(q) == [call |-> q.call, load |-> q.load, mc |-> q.mc, rate |-> q.rate]
Replied(r, reply) == request' = [request EXCEPT ![r].reply = reply]

(* The TMS takes the command; the answer is on its way.                    *)
TmsBooks(r) ==
    LET q == request[r] IN
    /\ Awaiting(r, "book")
    /\ q.reply = "none"
    /\ tms[q.load] = None
    /\ tms' = [tms EXCEPT ![q.load] = BookingOf(q)]
    /\ Replied(r, "confirmed")
    /\ UNCHANGED <<session, orphans, board, trail>>

TmsHasItBooked(r) ==
    /\ Awaiting(r, "book")
    /\ request[r].reply = "none"
    /\ tms[request[r].load] # None
    /\ Replied(r, "already_booked")
    /\ UNCHANGED <<session, tms, orphans, board, trail>>

(* Any other deterministic code, INVALID_RATE or AUTH_FAILED.              *)
TmsRejects(r) ==
    /\ Awaiting(r, "book")
    /\ request[r].reply = "none"
    /\ Replied(r, "rejected")
    /\ UNCHANGED <<session, tms, orphans, board, trail>>

(* A command the bridge gave up on lands after all.                        *)
OrphanLands(o) ==
    /\ tms[o.load] = None
    /\ tms' = [tms EXCEPT ![o.load] = o]
    /\ orphans' = orphans \ {o}
    /\ UNCHANGED <<session, request, board, trail>>

(* Somebody books the load elsewhere.                                      *)
StrangerBooks(l) ==
    /\ tms[l] = None
    /\ tms' = [tms EXCEPT ![l] = Stranger]
    /\ UNCHANGED <<session, request, orphans, board, trail>>

(* fault: an answer without a record is taken for a confirmation.          *)
ConfirmsWithoutRecord(reply) == reply \in {"confirmed", "none"}

(* fault: ALREADY_BOOKED is read as "it was us, the first time".           *)
ConfirmsAlreadyBooked(reply) == reply \in {"confirmed", "already_booked"}

Confirms(reply) == reply = "confirmed"

BookConfirmed(r) ==
    LET q == request[r] IN
    /\ Awaiting(r, "book")
    /\ Confirms(q.reply)
    /\ Becomes(q.call, AdvanceTo([session[q.call] EXCEPT !.booked = q.load,
                                                         !.outcome = "booked"],
                                 BOOKED))
    /\ trail' = [trail EXCEPT ![q.call].confirmed = @ \cup {q.load}]
    /\ Resume(r)
    /\ UNCHANGED <<tms, orphans, board>>

(* TmsCommandError: audited, and the call is left as it was.  So it is     *)
(* when the error line cannot be parsed and the request ends in a 500.     *)
BookRefused(r) ==
    /\ Awaiting(r, "book")
    /\ request[r].reply \in {"already_booked", "rejected"}
    /\ Resume(r)
    /\ UNCHANGED <<session, tms, orphans, board, trail>>

(* fault: the uncertain write is not put up for a manual check.            *)
DoubtUnlogged(t, l) == t

Doubted(t, l) == [t EXCEPT !.uncertain = @ \cup {l}]

(* A timeout, a cut or garbled answer, or an empty one.  If the TMS has    *)
(* not acted yet, its command is still out there.                          *)
BookUncertain(r) ==
    LET q == request[r] IN
    /\ Awaiting(r, "book")
    /\ orphans' = IF q.reply = "none" THEN orphans \cup {BookingOf(q)} ELSE orphans
    /\ trail' = [trail EXCEPT ![q.call] = Doubted(@, q.load)]
    /\ Resume(r)
    /\ UNCHANGED <<session, tms, board>>

-----------------------------------------------------------------------------
(* Handoff.                                                                *)

NegotiationFailed(s) ==
    \/ s.outcome = "failed_negotiation"
    \/ \E l \in Loads : s.negotiations[l] # None /\ s.negotiations[l].status = "failed"

(* fault: the stage alone decides, and CLOSED is the highest stage.        *)
TransferableByStage(s) == ~NegotiationFailed(s) /\ s.stage >= BOOKED

Transferable(s) == ~s.terminated /\ ~NegotiationFailed(s) /\ s.stage >= BOOKED

(* Only a booked call is promoted.                                         *)
HandedOff(s) ==
    [s EXCEPT !.handed = TRUE,
              !.outcome = IF @ = "booked" THEN "transferred" ELSE @]

Handoff(c) ==
    /\ MayCall(c)
    /\ Transferable(session[c])
    /\ Becomes(c, AdvanceTo(HandedOff(session[c]), CLOSED))
    /\ UNCHANGED <<request, tms, orphans, board, trail>>
=============================================================================
