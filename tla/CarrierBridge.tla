----------------------------- MODULE CarrierBridge -----------------------------
(***************************************************************************)
(* The bridge as a whole: every route that moves a call, its suspended     *)
(* requests, the TMS and the FMCSA behind it.                              *)
(***************************************************************************)
EXTENDS Verification, LoadSearch, Deals

(* POST /v1/calls/close.  Nothing is awaited and no stage is required.     *)
CloseCall(c) ==
    LET s == session[c] IN
    /\ MayCall(c)
    /\ Becomes(c, Terminate([s EXCEPT !.outcome =
                                 IF @ = "in_progress" THEN "abandoned" ELSE @]))
    /\ UNCHANGED <<request, tms, orphans, board, trail>>

VerifyingCarrier(c) ==
    \/ \E digits \in BOOLEAN : VerifyGarbled(c, digits)
    \/ \E r \in Requests, mc \in MCs, padded \in BOOLEAN : VerifyCarrier(c, r, mc, padded)

ProvingIdentity(c) ==
    \/ SendOtp(c)
    \/ OtpExpires(c)
    \/ \E correct \in BOOLEAN : VerifyOtp(c, correct)

FindingLoads(c) ==
    \/ \E r \in Requests, f \in Filters : Search(c, r, f)
    \/ \E loads \in SUBSET Loads : SearchOverBudget(c, loads)
    \/ \E r \in Requests, l \in Loads : Detail(c, r, l)

Dealing(c) ==
    \/ \E l \in Loads, ask \in Asks, recent \in BOOLEAN : Negotiate(c, l, ask, recent)
    \/ \E r \in Requests, l \in Loads, ask \in Asks : OpenNegotiation(c, r, l, ask)
    \/ \E r \in Requests, l \in Loads : Book(c, r, l)
    \/ Handoff(c)

(* What the remote party does about a request, before the bridge hears.    *)
AtTheTms(r) == TmsBooks(r) \/ TmsHasItBooked(r) \/ TmsRejects(r)

(* The bridge hears of the booking, or gives up on it.                     *)
BookSettles(r) == BookConfirmed(r) \/ BookRefused(r) \/ BookUncertain(r)

Resumes(r) ==
    \/ AuthorityConfirmed(r) \/ AuthorityRefused(r) \/ AuthorityUnavailable(r)
    \/ \E loads \in SUBSET Loads : SearchMatched(r, loads)
    \/ SearchEmpty(r) \/ SearchDegraded(r)
    \/ DetailFound(r) \/ DetailFailed(r)
    \/ NegotiationOpened(r) \/ NegotiationNotOpened(r)
    \/ BookSettles(r)

Next ==
    \/ \E c \in Calls : \/ VerifyingCarrier(c) \/ ProvingIdentity(c)
                        \/ FindingLoads(c) \/ Dealing(c) \/ CloseCall(c)
    \/ \E r \in Requests : AtTheTms(r) \/ Resumes(r)
    \/ \E o \in orphans : OrphanLands(o)
    \/ \E l \in Loads : StrangerBooks(l)
    \/ BoardWarms

Spec == Init /\ [][Next]_vars

(* LOAD_BOOK is sent once, and every wait of its round trip is under       *)
(* tms_timeout_seconds, so the await of a booking ends.                    *)
FairSpec == Spec /\ \A r \in Requests : WF_vars(BookSettles(r))

-----------------------------------------------------------------------------
(* Safety, whatever overlaps.                                              *)

HeldFor(c, l) == tms[l] \in Booking /\ tms[l].call = c

(* "OTP bypasses: load data reached a carrier whose code was never         *)
(* verified" stay at zero (QA_AND_KPIS.md:11): a call that was offered,    *)
(* shown, priced or booked anything has had a code verified, and a code is *)
(* only ever verified after the FMCSA cleared a carrier on that call.      *)
TouchedFreight(s) ==
    \/ s.offered # {} \/ s.selected # None \/ s.booked # None
    \/ \E l \in Loads : s.negotiations[l] # None

CodeBeforeFreight ==
    \A c \in Calls :
        /\ TouchedFreight(session[c]) => trail[c].proven # {}
        /\ trail[c].proven # {} => trail[c].cleared # {}

(* No call reaches a senior rep without a booking reference, and a call    *)
(* that is logged as booked or transferred has one.                        *)
HandoffMeansBooked ==
    \A c \in Calls :
        session[c].handed \/ session[c].outcome \in {"booked", "transferred"}
            => session[c].booked # None

(* A reference the call holds, or ever read out, is a booking the TMS      *)
(* holds for that call.                                                    *)
ConfirmedIsReal ==
    \A c \in Calls :
        /\ session[c].booked # None => session[c].booked \in trail[c].confirmed
        /\ \A l \in trail[c].confirmed : HeldFor(c, l)

(* A load is confirmed to one call at most: two carriers are never both    *)
(* read a reference for the same freight.                                  *)
OneHolder ==
    \A c, d \in Calls :
        c # d => trail[c].confirmed \cap trail[d].confirmed = {}

(* Whatever the bridge writes to the system of record, even a write it     *)
(* gave up on, is within the load's ceiling, at a number the carrier named *)
(* for that load on that call.                                             *)
BookedAsAgreed ==
    \A l \in Loads : tms[l] \in Booking =>
        /\ MaxBuy[l] # NoRate
        /\ tms[l].rate <= MaxBuy[l]
        /\ <<l, tms[l].rate>> \in trail[tms[l].call].named

(* Every negotiation the bridge holds, whichever request stored it, keeps  *)
(* the rate desk's rules.                                                  *)
NegotiationsSound ==
    \A c \in Calls, l \in Loads :
        session[c].negotiations[l] # None => Sound(session[c].negotiations[l])

(* The ledger holds whatever a recorded search handed over, so a repeated  *)
(* answer never names a load that is then refused.                         *)
LedgerHoldsSearches ==
    \A c \in Calls : \A i \in DOMAIN session[c].searches :
        session[c].searches[i].loads \subseteq session[c].offered

(* The stage only ever increases, and a closed call is never reopened.     *)
StageOnlyAdvances ==
    [][\A c \in Calls :
          /\ session'[c].stage >= session[c].stage
          /\ session[c].terminated => session'[c].terminated]_vars

(* Freight work that is suspended on an await, per call.                   *)
FreightRequests(c) ==
    {r \in Requests : request[r].op \in {"search", "detail", "negotiate", "book"}
                      /\ request[r].call = c}

(* A terminated call, a burned code included, proves nothing more, is not  *)
(* handed off and starts no more freight work.                             *)
TerminatedIsRefused ==
    [][\A c \in Calls : session[c].terminated =>
          /\ trail'[c].proven = trail[c].proven
          /\ session'[c].handed = session[c].handed
          /\ FreightRequests(c)' \subseteq FreightRequests(c)]_vars

(* "Burned.  A fresh code is not offered on this call": once the attempts  *)
(* on a code are used up, the call never gets or verifies another.         *)
BurnedIsFinal ==
    [][\A c \in Calls : LET otp == session[c].otp IN
          otp # None /\ ~otp.verified /\ otp.attempts >= MaxAttempts
            => /\ session'[c].otp.attempts = otp.attempts
               /\ trail'[c].proven = trail[c].proven]_vars

-----------------------------------------------------------------------------
(* The promise, as SalesCall states it.                                    *)

Clearances == [c \in Calls |-> trail[c].cleared]
Proofs == [c \in Calls |-> trail[c].proven]
Shown == [c \in Calls |-> TouchedFreight(session[c])]
Numbers == [c \in Calls |-> trail[c].named]
Told == [c \in Calls |-> trail[c].confirmed]
Doubts == [c \in Calls |-> trail[c].uncertain]
WithRep == [c \in Calls |-> session[c].handed]
Ended == [c \in Calls |-> session[c].terminated]

Sales == INSTANCE SalesCall WITH
    Carriers <- Mc,
    Offers <- Asks,
    cleared <- Clearances,
    proven <- Proofs,
    shown <- Shown,
    named <- Numbers,
    holder <- tms,
    told <- Told,
    doubted <- Doubts,
    handed <- WithRep,
    ended <- Ended

(* Whatever overlaps, every step of the bridge is a step SalesCall allows  *)
(* of the call, the carrier and the system of record, or none at all: an   *)
(* answer that lands late, on a call that has ended, been transferred or   *)
(* changed its load meanwhile, moves nothing the promise forbids.          *)
SellsAsPromised == Sales!Spec

-----------------------------------------------------------------------------
(* The manager's dashboard (app/api/routes/ops.py), read off the sessions  *)
(* the store still keeps: those idle for longer than its TTL are gone, and *)
(* a call id that comes back after that is another call.                   *)

(* The store is a dict in memory, and the TMS lists finitely many loads.   *)
ASSUME DashboardAssumption == IsFiniteSet(Calls) /\ IsFiniteSet(Loads)

CallsAt(kept, stage) == Cardinality({c \in kept : session[c].stage >= stage})
CallsThatEnded(kept, outcomes) ==
    Cardinality({c \in kept : session[c].outcome \in outcomes})

NegotiationsThatAre(kept, status) ==
    {d \in kept \X Loads :
        LET n == session[d[1]].negotiations[d[2]]
        IN  n # None /\ n.status = status}

Dashboard(kept) ==
    [authority |-> CallsAt(kept, AUTHORITY_VERIFIED),
     identity |-> CallsAt(kept, IDENTITY_VERIFIED),
     agreed |-> Cardinality(NegotiationsThatAre(kept, "agreed")),
     booked |-> CallsThatEnded(kept, {"booked", "transferred"}),
     transferred |-> CallsThatEnded(kept, {"transferred"})]

(* The funnel never shows more downstream than upstream, whichever calls   *)
(* the store has forgotten: a transfer was a booking, a booking an agreed  *)
(* rate on a verified call, and every booking it counts is one load the    *)
(* TMS holds for one of the calls that are counted.                        *)
FunnelNarrows ==
    \A kept \in SUBSET Calls :
        LET shows == Dashboard(kept) IN
        /\ shows.transferred <= shows.booked
        /\ shows.booked <= shows.agreed
        /\ shows.booked <= shows.identity
        /\ shows.identity <= shows.authority
        /\ shows.booked
             <= Cardinality({l \in Loads : \E c \in kept : HeldFor(c, l)})

-----------------------------------------------------------------------------
(* Safety when the agent waits for each answer (Overlap = FALSE).          *)

(* Until it books, an open call past the code speaks for a carrier that    *)
(* was cleared by the FMCSA and verified by a code.                        *)
IdentityIntact ==
    \A c \in Calls :
        session[c].stage >= IDENTITY_VERIFIED /\ ~session[c].terminated
          /\ session[c].booked = None
            => session[c].mc \in trail[c].proven \cap trail[c].cleared

(* A load's rate desk: a new one until the load is first priced.           *)
Bargain(s, l) ==
    IF s.negotiations[l] = None THEN Opened(PostedRate[l], MaxBuy[l])
                                ELSE s.negotiations[l]

Desk(c, l) == INSTANCE RateDesk WITH
    PostedRates <- {PostedRate[l]},
    Ceilings <- {MaxBuy[l]},
    neg <- Bargain(session[c], l)

(* Every load of every call is negotiated at a rate desk of its own, which *)
(* is opened once and never replaced: whatever the routes store, search or *)
(* book in between, one carrier ask at a time takes a negotiation on, so   *)
(* that its rounds, its failure and the rules of RateDesk stick.           *)
NegotiatedAtTheDesk ==
    /\ \A c \in Calls, l \in Loads : Desk(c, l)!Init
    /\ [][\A c \in Calls, l \in Loads : [Desk(c, l)!Next]_(Desk(c, l)!vars)]_vars

(* Once anything has been offered, a load outside the ledger is not priced *)
(* for the first time.                                                     *)
LedgerEnforced ==
    [][\A c \in Calls, l \in Loads :
          session[c].offered # {} /\ l \notin session[c].offered
            => (session'[c].negotiations[l] # None
                  => session[c].negotiations[l] # None)]_vars

(* The search record never repeats a fingerprint, numbers its attempts     *)
(* 1, 2, 3, ..., and no search that saw a snapshot is recorded past the    *)
(* per-call cap.                                                           *)
SearchesCounted ==
    \A c \in Calls : LET done == session[c].searches IN
        \A i, j \in DOMAIN done :
            /\ done[i].number = i
            /\ done[i].filter = done[j].filter => i = j

BudgetRespected ==
    [][\A r \in Requests :
          request[r].op = "search" /\ request[r].snapshot =>
            LET c == request[r].call IN
            session'[c].searches # session[c].searches
              => Len(session'[c].searches) <= MaxSearches]_vars

-----------------------------------------------------------------------------
(* Liveness.                                                               *)

(* A load the TMS booked for a call never stays unaccounted for: the       *)
(* booking is confirmed, or the write is put up for a manual check.        *)
NoLostBooking ==
    \A c \in Calls, l \in Loads :
        HeldFor(c, l) ~> (l \in trail[c].confirmed \cup trail[c].uncertain)

-----------------------------------------------------------------------------
(* What the repository says of the program, and the code does not keep.    *)

(* "Someone else took that load" (deals.py:268) is only said when somebody *)
(* else did; "Booking is idempotent per load, per call" (deals.py:193).    *)
ToldTheTruth ==
    \A r \in Requests :
        request[r].op = "book" /\ request[r].reply = "already_booked"
            => ~HeldFor(request[r].call, request[r].load)

(* "leave the call intact rather than terminating on top of a booking"     *)
(* (verification.py:98): a booked call stays logged as one.                *)
BookedCallIntact ==
    [][\A c \in Calls :
          session[c].outcome \in {"booked", "transferred"}
            => session'[c].outcome \in {"booked", "transferred"}]_vars
=============================================================================
