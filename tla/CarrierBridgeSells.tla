-------------------------- MODULE CarrierBridgeSells --------------------------
(***************************************************************************)
(* The bridge implements SalesCall: for any number of calls, requests,     *)
(* carriers and loads, every step of it is one the promise allows, or none *)
(* at all.  One lemma per route, in the order of CarrierBridge!Next.       *)
(***************************************************************************)
EXTENDS CarrierBridgeProofs

(* Freight that a number was named for has been shown.                     *)
Acquainted == \A c \in Calls : Numbers[c] # {} => Shown[c]

(* A refusal shows nothing, and may end the call.                          *)
LEMMA RefusedSeen ==
    ASSUME NEW s \in CallRecord, NEW mc \in Mc
    PROVE  /\ TouchedFreight(Refused(s, mc)) = TouchedFreight(s)
           /\ Refused(s, mc).handed = s.handed
           /\ Refused(s, mc).terminated \in {s.terminated, TRUE}
<1> DEFINE n == [s EXCEPT !.mc = mc, !.outcome = "rejected_authority"]
<1>1. /\ n \in CallRecord
      /\ n.booked = s.booked /\ n.handed = s.handed /\ n.offered = s.offered
      /\ n.selected = s.selected /\ n.negotiations = s.negotiations
      /\ n.terminated = s.terminated
  BY DEF CallRecord, Outcome
<1>2. TouchedFreight(n) = TouchedFreight(s)
  BY <1>1 DEF TouchedFreight
<1>3. Refused(s, mc) \in {n, Terminate(n)}
  BY DEF Refused
<1> HIDE DEF n
<1>4. TouchedFreight(Terminate(n)) = TouchedFreight(n)
  BY <1>1, Terminated DEF TouchedFreight
<1>5. Terminate(n).handed = n.handed /\ Terminate(n).terminated = TRUE
  BY <1>1 DEF Terminate, CallRecord
<1> QED  BY <1>1, <1>2, <1>3, <1>4, <1>5

(* A payload without a lookup may end the call; a lookup is not seen.      *)
LEMMA VerifyingPromised ==
    ASSUME BridgeKept, NEW c \in Calls, VerifyingCarrier(c)
    PROVE  Promised
<1>1. ASSUME NEW digits \in BOOLEAN, VerifyGarbled(c, digits)
      PROVE  Promised
  <2> DEFINE z == Refused(session[c], Garbled)
  <2>1. Becomes(c, z) /\ UNCHANGED <<tms, trail>>
    BY <1>1 DEF VerifyGarbled
  <2>2. Garbled \in Mc
    BY DEF Mc
  <2>3. /\ TouchedFreight(z) = TouchedFreight(session[c])
        /\ z.handed = session[c].handed
        /\ z.terminated \in {session[c].terminated, TRUE}
    BY <2>2, RefusedSeen, CallFacts
  <2> HIDE DEF z
  <2> QED  BY <2>1, <2>3, QuietPromised
<1>2. ASSUME NEW r \in Requests, NEW mc \in MCs, NEW padded \in BOOLEAN,
             VerifyCarrier(c, r, mc, padded)
      PROVE  Promised
  BY <1>2, NothingPromised DEF VerifyCarrier
<1> QED  BY <1>1, <1>2 DEF VerifyingCarrier

(* Only a right code on a call that has not ended is seen.                 *)
LEMMA ProvingPromised ==
    ASSUME BridgeKept, NEW c \in Calls, ProvingIdentity(c)
    PROVE  Promised
<1> DEFINE s == session[c]
           t == trail[c]
<1>1. s \in CallRecord /\ t \in Trail /\ Gated(s, t)
  BY CallFacts DEF CallKept
<1>2. CASE SendOtp(c)
  <2> DEFINE n == [s EXCEPT !.otp = FreshChallenge]
             z == AdvanceTo(n, OTP_SENT)
  <2>1. Becomes(c, z) /\ UNCHANGED <<tms, trail>>
    BY <1>2 DEF SendOtp
  <2>2. /\ TouchedFreight(z) = TouchedFreight(s)
        /\ z.handed = s.handed /\ z.terminated = s.terminated
    BY <1>1 DEF AdvanceTo, TouchedFreight, CallRecord
  <2> HIDE DEF z
  <2> QED  BY <2>1, <2>2, QuietPromised
<1>3. CASE OtpExpires(c)
  <2> DEFINE z == [s EXCEPT !.otp = [s.otp EXCEPT !.expired = TRUE]]
  <2>1. Becomes(c, z) /\ UNCHANGED <<tms, trail>>
    BY <1>1, <1>3 DEF OtpExpires, Becomes, BridgeKept, TypeOK, CallRecord
  <2>2. /\ TouchedFreight(z) = TouchedFreight(s)
        /\ z.handed = s.handed /\ z.terminated = s.terminated
    BY <1>1 DEF TouchedFreight, CallRecord
  <2> HIDE DEF z
  <2> QED  BY <2>1, <2>2, QuietPromised
<1>4. ASSUME NEW correct \in BOOLEAN, VerifyOtp(c, correct)
      PROVE  Promised
  <2> DEFINE otp == Tried(s.otp)
             sure == [otp EXCEPT !.verified = TRUE]
  <2>1. Passes(s, OTP_SENT) /\ UNCHANGED <<request, tms, orphans, board>>
    BY <1>4 DEF VerifyOtp
  <2> HIDE DEF otp, sure
  <2>2. CASE CodeAccepted(c, sure)
    <3> DEFINE z == AdvanceTo([s EXCEPT !.otp = sure], IDENTITY_VERIFIED)
               u == [t EXCEPT !.proven = @ \cup {s.mc}]
    <3>1. Becomes(c, z) /\ Logs(c, u)
      BY <2>2 DEF CodeAccepted, Logs, BridgeKept, TypeOK
    <3>2. /\ TouchedFreight(z) = TouchedFreight(s)
          /\ z.handed = s.handed /\ z.terminated = s.terminated
      BY <1>1 DEF AdvanceTo, TouchedFreight, CallRecord
    <3>3. /\ u.proven = t.proven \cup {s.mc}
          /\ u.cleared = t.cleared /\ u.named = t.named
          /\ u.confirmed = t.confirmed /\ u.uncertain = t.uncertain
      BY <1>1 DEF Trail
    <3> HIDE DEF z, u
    <3>4. UNCHANGED <<tms, Shown, WithRep, Ended>>
      BY <2>1, <3>1, <3>2, CallSeen, SameAgain
    <3>5. UNCHANGED <<Clearances, Numbers, Told, Doubts>>
      BY <3>1, <3>3, TrailSeen, SameAgain
    <3>6. Proofs' = [Proofs EXCEPT ![c] = @ \cup {s.mc}]
      <4>1. Proofs' = [Proofs EXCEPT ![c] = u.proven] /\ Proofs[c] = t.proven
        BY <3>1, TrailSeen DEF Proofs
      <4> QED  BY <3>3, <4>1
    <3>7. Clearances[c] # {} /\ ~Ended[c]
      <4>1. t.cleared # {} /\ ~s.terminated
        BY <1>1, <2>1 DEF Gated, Passes, CallRecord, Stage, CLOSED, STARTED,
                          AUTHORITY_VERIFIED, OTP_SENT, IDENTITY_VERIFIED,
                          LOAD_SELECTED, RATE_AGREED, BOOKED
      <4> QED  BY <4>1 DEF Clearances, Ended
    <3>8. s.mc \in Mc
      BY <1>1 DEF CallRecord
    <3>9. Sales!Prove(c, s.mc)
      BY <3>4, <3>5, <3>6, <3>7 DEF Sales!Prove, Sales!Gains
    <3> QED  BY <3>8, <3>9 DEF Promised, Sales!Next
  <2>3. CASE CodeBurned(c, otp)
    <3> DEFINE z == Terminate([s EXCEPT !.otp = otp, !.outcome = "failed_identity"])
    <3>1. Becomes(c, z) /\ UNCHANGED <<tms, trail>>
      BY <2>1, <2>3 DEF CodeBurned
    <3>2. /\ TouchedFreight(z) = TouchedFreight(s)
          /\ z.handed = s.handed /\ z.terminated = TRUE
      BY <1>1 DEF Terminate, TouchedFreight, CallRecord
    <3> HIDE DEF z
    <3> QED  BY <3>1, <3>2, QuietPromised
  <2>4. CASE CodeWrong(c, otp)
    <3> DEFINE z == [s EXCEPT !.otp = otp]
    <3>1. Becomes(c, z) /\ UNCHANGED <<tms, trail>>
      BY <2>1, <2>4 DEF CodeWrong
    <3>2. /\ TouchedFreight(z) = TouchedFreight(s)
          /\ z.handed = s.handed /\ z.terminated = s.terminated
      BY <1>1 DEF TouchedFreight, CallRecord
    <3> HIDE DEF z
    <3> QED  BY <3>1, <3>2, QuietPromised
  <2> QED  BY <1>4, <2>2, <2>3, <2>4 DEF VerifyOtp, otp, sure
<1> QED  BY <1>2, <1>3, <1>4 DEF ProvingIdentity

(* Loads handed over are shown, to a call past the code.                   *)
LEMMA FindingPromised ==
    ASSUME BridgeKept, NEW c \in Calls, FindingLoads(c)
    PROVE  Promised
<1>1. ASSUME NEW r \in Requests, NEW f \in Filters, Search(c, r, f)
      PROVE  Promised
  BY <1>1, NothingPromised DEF Search
<1>2. ASSUME NEW loads \in SUBSET Loads, SearchOverBudget(c, loads)
      PROVE  Promised
  <2> DEFINE s == session[c]
             z == HandedOver(s, loads)
  <2>1. Becomes(c, z) /\ UNCHANGED <<tms, trail>>
    BY <1>2 DEF SearchOverBudget
  <2>2. trail[c].proven # {}
    BY <1>2, GateMeansProof DEF SearchOverBudget
  <2>3. /\ TouchedFreight(z) \in {TouchedFreight(s), TRUE}
        /\ z.handed = s.handed /\ z.terminated = s.terminated
    BY CallFacts DEF HandedOver, TouchedFreight, CallRecord
  <2> HIDE DEF z
  <2> QED  BY <2>1, <2>2, <2>3, ShowPromised
<1>3. ASSUME NEW r \in Requests, NEW l \in Loads, Detail(c, r, l)
      PROVE  Promised
  BY <1>3, NothingPromised DEF Detail
<1> QED  BY <1>1, <1>2, <1>3 DEF FindingLoads

(* An ask is Name, a transfer HandOver; the awaits are not seen.           *)
LEMMA DealingPromised ==
    ASSUME BridgeKept, NEW c \in Calls, Dealing(c)
    PROVE  Promised
<1>1. ASSUME NEW l \in Loads, NEW ask \in Asks, NEW recent \in BOOLEAN,
             Negotiate(c, l, ask, recent)
      PROVE  Promised
  BY <1>1, NegotiateMoves
<1>2. ASSUME NEW r \in Requests, NEW l \in Loads, NEW ask \in Asks,
             OpenNegotiation(c, r, l, ask)
      PROVE  Promised
  BY <1>2, NothingPromised DEF OpenNegotiation
<1>3. ASSUME NEW r \in Requests, NEW l \in Loads, Book(c, r, l)
      PROVE  Promised
  BY <1>3, NothingPromised DEF Book
<1>4. CASE Handoff(c)
  <2> DEFINE s == session[c]
             t == trail[c]
             z == AdvanceTo(HandedOff(s), CLOSED)
  <2>1. s \in CallRecord /\ Gated(s, t)
    BY CallFacts DEF CallKept
  <2>2. Becomes(c, z) /\ UNCHANGED <<tms, trail>>
    BY <1>4 DEF Handoff
  <2>3. /\ TouchedFreight(z) = TouchedFreight(s)
        /\ z.handed = TRUE /\ z.terminated = s.terminated
    BY <2>1 DEF AdvanceTo, HandedOff, TouchedFreight, CallRecord
  <2> HIDE DEF z
  <2>4. UNCHANGED <<tms, Clearances, Proofs, Numbers, Told, Doubts, Shown, Ended>>
    BY <2>2, <2>3, CallSeen, TrailUnseen, SameAgain
  <2>5. WithRep' = [WithRep EXCEPT ![c] = TRUE]
    BY <2>2, <2>3, CallSeen
  <2>6. s.stage >= BOOKED /\ ~s.terminated
    BY <1>4 DEF Handoff, Transferable
  <2>7. Told[c] # {} /\ ~Ended[c]
    BY <2>1, <2>6 DEF Gated, Told, Ended
  <2>8. Sales!HandOver(c)
    BY <2>4, <2>5, <2>7 DEF Sales!HandOver, Sales!Becomes
  <2> QED  BY <2>8 DEF Promised, Sales!Next
<1> QED  BY <1>1, <1>2, <1>3, <1>4 DEF Dealing

(* Closing a call is End.                                                  *)
LEMMA ClosePromised ==
    ASSUME BridgeKept, NEW c \in Calls, CloseCall(c)
    PROVE  Promised
<1> DEFINE s == session[c]
           z == Terminate([s EXCEPT !.outcome =
                             IF @ = "in_progress" THEN "abandoned" ELSE @])
<1>1. Becomes(c, z) /\ UNCHANGED <<tms, trail>>
  BY DEF CloseCall
<1>2. /\ TouchedFreight(z) = TouchedFreight(s)
      /\ z.handed = s.handed /\ z.terminated = TRUE
  BY CallFacts DEF Terminate, TouchedFreight, CallRecord
<1> HIDE DEF z
<1> QED  BY <1>1, <1>2, QuietPromised

(* A booking takes a free load for a call that named its rate.             *)
LEMMA TakenPromised ==
    ASSUME BridgeKept, NEW b \in Booking, BookingKept(b, trail),
           tms[b.load] = None, tms' = [tms EXCEPT ![b.load] = b],
           UNCHANGED <<session, trail>>
    PROVE  Promised
<1>1. b.call \in Calls /\ b.load \in Loads /\ b.mc \in Mc
      /\ b = [call |-> b.call, load |-> b.load, mc |-> b.mc, rate |-> b.rate]
  BY DEF Booking
<1>2. <<b.load, b.rate>> \in Numbers[b.call] /\ b.rate \in Asks
  <2>1. trail[b.call].named \in SUBSET (Loads \X Asks)
    BY <1>1, CallFacts DEF Trail
  <2> QED  BY <1>1, <2>1 DEF BookingKept, Numbers
<1>3. MaxBuy[b.load] # NoRate /\ b.rate <= MaxBuy[b.load]
  BY DEF BookingKept
<1>4. UNCHANGED <<Clearances, Proofs, Numbers, Told, Doubts, Shown, WithRep, Ended>>
  BY CallUnseen, TrailUnseen
<1>5. Sales!Commit(b.call, b.load, b.mc, b.rate)
  BY <1>1, <1>2, <1>3, <1>4 DEF Sales!Commit
<1> QED  BY <1>1, <1>2, <1>5 DEF Promised, Sales!Next

(* The TMS taking the command is Commit.                                   *)
LEMMA TmsPromised ==
    ASSUME BridgeKept, NEW r \in Requests, AtTheTms(r)
    PROVE  Promised
<1>1. CASE TmsBooks(r)
  <2> DEFINE b == BookingOf(request[r])
  <2>1. Awaiting(r, "book") /\ tms[request[r].load] = None
        /\ tms' = [tms EXCEPT ![request[r].load] = b] /\ UNCHANGED <<session, trail>>
    BY <1>1 DEF TmsBooks
  <2>2. b \in Booking /\ BookingKept(b, trail)
    BY <2>1, RequestFacts DEF Awaiting, RequestKept, BookingKept
  <2>3. b.load = request[r].load
    BY DEF BookingOf
  <2> HIDE DEF b
  <2> QED  BY <2>1, <2>2, <2>3, TakenPromised
<1>2. CASE TmsHasItBooked(r) \/ TmsRejects(r)
  BY <1>2, NothingPromised DEF TmsHasItBooked, TmsRejects
<1> QED  BY <1>1, <1>2 DEF AtTheTms

(* So is an orphan that lands; a stranger is Lose.                         *)
LEMMA ElsewherePromised ==
    ASSUME BridgeKept,
           \/ \E o \in orphans : OrphanLands(o)
           \/ \E l \in Loads : StrangerBooks(l)
           \/ BoardWarms
    PROVE  Promised
<1>1. ASSUME NEW o \in orphans, OrphanLands(o)
      PROVE  Promised
  <2>1. o \in Booking /\ BookingKept(o, trail)
    BY DEF BridgeKept, OrphansKept, BookingKept
  <2>2. tms[o.load] = None /\ tms' = [tms EXCEPT ![o.load] = o]
        /\ UNCHANGED <<session, trail>>
    BY <1>1 DEF OrphanLands
  <2> QED  BY <2>1, <2>2, TakenPromised
<1>2. ASSUME NEW l \in Loads, StrangerBooks(l)
      PROVE  Promised
  <2>1. UNCHANGED <<Clearances, Proofs, Numbers, Told, Doubts, Shown, WithRep, Ended>>
    BY <1>2, CallUnseen, TrailUnseen DEF StrangerBooks
  <2>2. Sales!Lose(l)
    BY <1>2, <2>1 DEF StrangerBooks, Sales!Lose
  <2> QED  BY <2>2 DEF Promised, Sales!Next
<1>3. CASE BoardWarms
  BY <1>3, NothingPromised DEF BoardWarms
<1> QED  BY <1>1, <1>2, <1>3

(* The answer of a lookup, whatever has happened to the call meanwhile.    *)
LEMMA LookupPromised ==
    ASSUME BridgeKept, NEW r \in Requests,
           AuthorityConfirmed(r) \/ AuthorityRefused(r)
    PROVE  Promised
<1> DEFINE q == request[r]
           s == session[q.call]
           t == trail[q.call]
<1>1. q.call \in Calls /\ q.mc \in MCs /\ q.mc \in Mc
  BY RequestFacts DEF AuthorityConfirmed, AuthorityRefused, Awaiting, VerifyRequest, Mc
<1>2. s \in CallRecord /\ t \in Trail
  BY <1>1, CallFacts
<1>3. CASE AuthorityConfirmed(r)
  <2> DEFINE z == Authorised(s, q.mc)
             u == [t EXCEPT !.cleared = @ \cup {q.mc}]
  <2>1. Becomes(q.call, z) /\ Logs(q.call, u) /\ UNCHANGED tms
    BY <1>1, <1>3 DEF AuthorityConfirmed, Logs, BridgeKept, TypeOK
  <2>2. /\ TouchedFreight(z) = TouchedFreight(s)
        /\ z.handed = s.handed /\ z.terminated = s.terminated
    BY <1>2 DEF Authorised, AdvanceTo, TouchedFreight, CallRecord
  <2>3. /\ u.cleared = t.cleared \cup {q.mc}
        /\ u.proven = t.proven /\ u.named = t.named
        /\ u.confirmed = t.confirmed /\ u.uncertain = t.uncertain
    BY <1>2 DEF Trail
  <2> HIDE DEF z, u
  <2>4. UNCHANGED <<tms, Shown, WithRep, Ended>>
    BY <1>1, <2>1, <2>2, CallSeen, SameAgain
  <2>5. UNCHANGED <<Proofs, Numbers, Told, Doubts>>
    BY <1>1, <2>1, <2>3, TrailSeen, SameAgain
  <2>6. Clearances' = [Clearances EXCEPT ![q.call] = @ \cup {q.mc}]
    <3>1. Clearances' = [Clearances EXCEPT ![q.call] = u.cleared]
          /\ Clearances[q.call] = t.cleared
      BY <1>1, <2>1, TrailSeen DEF Clearances
    <3> QED  BY <2>3, <3>1
  <2>7. Sales!Clear(q.call, q.mc)
    BY <2>4, <2>5, <2>6 DEF Sales!Clear, Sales!Gains
  <2> QED  BY <1>1, <2>7 DEF Promised, Sales!Next
<1>4. CASE AuthorityRefused(r)
  <2> DEFINE z == Refused(s, q.mc)
  <2>1. Becomes(q.call, z) /\ UNCHANGED <<tms, trail>>
    BY <1>4 DEF AuthorityRefused
  <2>2. /\ TouchedFreight(z) = TouchedFreight(s)
        /\ z.handed = s.handed /\ z.terminated \in {s.terminated, TRUE}
    BY <1>1, <1>2, RefusedSeen
  <2> HIDE DEF z, q
  <2> QED  BY <1>1, <2>1, <2>2, QuietPromised DEF q
<1> QED  BY <1>3, <1>4

(* The answer of a search or a detail.                                     *)
LEMMA AnswerPromised ==
    ASSUME BridgeKept, NEW r \in Requests,
           \/ \E loads \in SUBSET Loads : SearchMatched(r, loads)
           \/ SearchEmpty(r)
           \/ DetailFound(r)
    PROVE  Promised
<1> DEFINE q == request[r]
           s == session[q.call]
<1>1. q.call \in Calls /\ trail[q.call].proven # {}
  BY RequestFacts DEF SearchMatched, SearchEmpty, DetailFound, Awaiting,
                      SearchRequest, DetailRequest, RequestKept, FreightOps
<1>2. s \in CallRecord
  BY <1>1, CallFacts
<1>3. ASSUME NEW loads \in SUBSET Loads, SearchMatched(r, loads)
      PROVE  Promised
  <2> DEFINE z == Recorded(s, q, loads)
  <2>1. Becomes(q.call, z) /\ UNCHANGED <<tms, trail>>
    BY <1>3 DEF SearchMatched
  <2>2. /\ TouchedFreight(z) \in {TouchedFreight(s), TRUE}
        /\ z.handed = s.handed /\ z.terminated = s.terminated
    BY <1>2 DEF Recorded, HandedOver, TouchedFreight, CallRecord
  <2> HIDE DEF z, q
  <2> QED  BY <1>1, <2>1, <2>2, ShowPromised DEF q
<1>4. CASE SearchEmpty(r)
  <2> DEFINE z == [s EXCEPT !.outcome = "no_loads"]
  <2>1. Becomes(q.call, z) /\ UNCHANGED <<tms, trail>>
    BY <1>4 DEF SearchEmpty
  <2>2. /\ TouchedFreight(z) = TouchedFreight(s)
        /\ z.handed = s.handed /\ z.terminated = s.terminated
    BY <1>2 DEF TouchedFreight, CallRecord
  <2> HIDE DEF z, q
  <2> QED  BY <1>1, <2>1, <2>2, QuietPromised DEF q
<1>5. CASE DetailFound(r)
  <2> DEFINE z == AdvanceTo([s EXCEPT !.selected = q.load], LOAD_SELECTED)
  <2>1. Becomes(q.call, z) /\ UNCHANGED <<tms, trail>>
    BY <1>5 DEF DetailFound
  <2>2. q.load # None
    BY <1>5, RequestFacts, SessionAssumption DEF DetailFound, Awaiting, DetailRequest
  <2>3. /\ TouchedFreight(z) \in {TouchedFreight(s), TRUE}
        /\ z.handed = s.handed /\ z.terminated = s.terminated
    BY <1>2, <2>2 DEF AdvanceTo, TouchedFreight, CallRecord
  <2> HIDE DEF z, q
  <2> QED  BY <1>1, <2>1, <2>3, ShowPromised DEF q
<1> QED  BY <1>3, <1>4, <1>5

(* The end of a booking the bridge waited for.                             *)
LEMMA BookingPromised ==
    ASSUME BridgeKept, Acquainted, NEW r \in Requests,
           BookConfirmed(r) \/ BookUncertain(r)
    PROVE  Promised
<1> DEFINE q == request[r]
           s == session[q.call]
           t == trail[q.call]
<1>1. q \in BookRequest /\ RequestKept(q, trail, tms)
  BY RequestFacts DEF BookConfirmed, BookUncertain, Awaiting
<1>2. /\ q.call \in Calls /\ q.load \in Loads /\ t.proven # {}
      /\ BookingKept(BookingOf(q), trail)
      /\ q.reply = "confirmed" => Holds(tms, q.call, q.load)
  BY <1>1 DEF BookRequest, RequestKept, FreightOps
<1>3. s \in CallRecord /\ t \in Trail
  BY <1>2, CallFacts
<1>4. CASE BookConfirmed(r)
  <2> DEFINE z == AdvanceTo([s EXCEPT !.booked = q.load, !.outcome = "booked"], BOOKED)
             u == [t EXCEPT !.confirmed = @ \cup {q.load}]
  <2>1. Becomes(q.call, z) /\ Logs(q.call, u) /\ UNCHANGED tms
    BY <1>2, <1>4 DEF BookConfirmed, Logs, BridgeKept, TypeOK
  <2>2. q.load # None
    BY <1>2, SessionAssumption
  <2>3. /\ TouchedFreight(z) = TRUE
        /\ z.handed = s.handed /\ z.terminated = s.terminated
    BY <1>3, <2>2 DEF AdvanceTo, TouchedFreight, CallRecord
  <2>4. TouchedFreight(s) = TRUE
    <3>1. Numbers[q.call] # {}
      BY <1>2 DEF BookingKept, BookingOf, Numbers
    <3>2. Shown[q.call]
      BY <1>2, <3>1 DEF Acquainted
    <3>3. TouchedFreight(s) \in BOOLEAN
      BY DEF TouchedFreight
    <3> QED  BY <1>2, <3>2, <3>3 DEF Shown
  <2>5. /\ u.confirmed = t.confirmed \cup {q.load}
        /\ u.proven = t.proven /\ u.named = t.named
        /\ u.cleared = t.cleared /\ u.uncertain = t.uncertain
    BY <1>3 DEF Trail
  <2> HIDE DEF z, u
  <2>6. UNCHANGED <<tms, Shown, WithRep, Ended>>
    <3>1. /\ Shown' = [Shown EXCEPT ![q.call] = TouchedFreight(z)]
          /\ WithRep' = [WithRep EXCEPT ![q.call] = z.handed]
          /\ Ended' = [Ended EXCEPT ![q.call] = z.terminated]
      BY <1>2, <2>1, CallSeen
    <3>2. TouchedFreight(z) = TouchedFreight(s)
      BY <2>3, <2>4
    <3> QED  BY <1>2, <2>1, <2>3, <3>1, <3>2, SameAgain
  <2>7. UNCHANGED <<Clearances, Proofs, Numbers, Doubts>>
    BY <1>2, <2>1, <2>5, TrailSeen, SameAgain
  <2>8. Told' = [Told EXCEPT ![q.call] = @ \cup {q.load}]
    <3>1. Told' = [Told EXCEPT ![q.call] = u.confirmed] /\ Told[q.call] = t.confirmed
      BY <1>2, <2>1, TrailSeen DEF Told
    <3> QED  BY <2>5, <3>1
  <2>9. Sales!Held(q.call, q.load)
    BY <1>2, <1>4, HolderAssumption DEF BookConfirmed, Confirms, Holds, Sales!Held
  <2>10. Sales!Tell(q.call, q.load)
    BY <2>6, <2>7, <2>8, <2>9 DEF Sales!Tell, Sales!Gains
  <2> QED  BY <1>2, <2>10 DEF Promised, Sales!Next
<1>5. CASE BookUncertain(r)
  <2> DEFINE u == Doubted(t, q.load)
  <2>1. Logs(q.call, u) /\ UNCHANGED <<tms, session>>
    BY <1>2, <1>5 DEF BookUncertain, Logs, BridgeKept, TypeOK
  <2>2. /\ u.uncertain = t.uncertain \cup {q.load}
        /\ u.proven = t.proven /\ u.named = t.named
        /\ u.cleared = t.cleared /\ u.confirmed = t.confirmed
    BY <1>3 DEF Doubted, Trail
  <2> HIDE DEF u
  <2>3. UNCHANGED <<tms, Shown, WithRep, Ended>>
    BY <2>1, CallUnseen
  <2>4. UNCHANGED <<Clearances, Proofs, Numbers, Told>>
    BY <1>2, <2>1, <2>2, TrailSeen, SameAgain
  <2>5. Doubts' = [Doubts EXCEPT ![q.call] = @ \cup {q.load}]
    <3>1. Doubts' = [Doubts EXCEPT ![q.call] = u.uncertain] /\ Doubts[q.call] = t.uncertain
      BY <1>2, <2>1, TrailSeen DEF Doubts
    <3> QED  BY <2>2, <3>1
  <2>6. Proofs[q.call] # {}
    BY <1>2 DEF Proofs
  <2>7. Sales!Doubt(q.call, q.load)
    BY <2>3, <2>4, <2>5, <2>6 DEF Sales!Doubt, Sales!Gains
  <2> QED  BY <1>2, <2>7 DEF Promised, Sales!Next
<1> QED  BY <1>4, <1>5

(* Whatever a suspended request resumes with.                              *)
LEMMA ResumePromised ==
    ASSUME BridgeKept, Acquainted, NEW r \in Requests, Resumes(r)
    PROVE  Promised
<1>1. CASE AuthorityConfirmed(r) \/ AuthorityRefused(r)
  BY <1>1, LookupPromised
<1>2. CASE \/ \E loads \in SUBSET Loads : SearchMatched(r, loads)
           \/ SearchEmpty(r)
           \/ DetailFound(r)
  BY <1>2, AnswerPromised
<1>3. CASE NegotiationOpened(r)
  BY <1>3, NegotiationOpens
<1>4. CASE BookConfirmed(r) \/ BookUncertain(r)
  BY <1>4, BookingPromised
<1>5. CASE \/ AuthorityUnavailable(r) \/ SearchDegraded(r) \/ DetailFailed(r)
           \/ NegotiationNotOpened(r) \/ BookRefused(r)
  BY <1>5, NothingPromised DEF AuthorityUnavailable, SearchDegraded, DetailFailed,
                               NegotiationNotOpened, BookRefused
<1> QED  BY <1>1, <1>2, <1>3, <1>4, <1>5 DEF Resumes, BookSettles

(* Every step of the bridge is one the promise allows.                     *)
LEMMA StepPromised ==
    ASSUME BridgeKept, Acquainted, [Next]_vars
    PROVE  Promised
<1>1. CASE UNCHANGED vars
  BY <1>1, NothingPromised DEF vars
<1>2. ASSUME NEW c \in Calls,
             \/ VerifyingCarrier(c) \/ ProvingIdentity(c)
             \/ FindingLoads(c) \/ Dealing(c) \/ CloseCall(c)
      PROVE  Promised
  BY <1>2, VerifyingPromised, ProvingPromised, FindingPromised, DealingPromised,
     ClosePromised
<1>3. ASSUME NEW r \in Requests, AtTheTms(r) \/ Resumes(r)
      PROVE  Promised
  BY <1>3, TmsPromised, ResumePromised
<1>4. CASE \/ \E o \in orphans : OrphanLands(o)
           \/ \E l \in Loads : StrangerBooks(l)
           \/ BoardWarms
  BY <1>4, ElsewherePromised
<1> QED  BY <1>1, <1>2, <1>3, <1>4 DEF Next

(* A step the promise allows names only what it shows.                     *)
LEMMA AcquaintedStays ==
    ASSUME Acquainted, Promised
    PROVE  Acquainted'
<1>0. Numbers = [c \in Calls |-> trail[c].named]
      /\ Shown = [c \in Calls |-> TouchedFreight(session[c])]
  BY DEF Numbers, Shown
<1>1. CASE UNCHANGED <<Numbers, Shown>>
  BY <1>1 DEF Acquainted
<1>2. ASSUME NEW c \in Calls,
             /\ Shown' = [Shown EXCEPT ![c] = TRUE]
             /\ \A d \in Calls : d # c => Numbers'[d] = Numbers[d]
      PROVE  Acquainted'
  BY <1>0, <1>2 DEF Acquainted
<1>3. ASSUME NEW c \in Calls, Sales!Show(c)
      PROVE  Acquainted'
  BY <1>2, <1>3 DEF Sales!Show, Sales!Becomes
<1>4. ASSUME NEW c \in Calls, NEW l \in Loads, NEW ask \in Asks, Sales!Name(c, l, ask)
      PROVE  Acquainted'
  BY <1>0, <1>2, <1>4 DEF Sales!Name, Sales!Becomes, Sales!Gains
<1>5. ASSUME NEW c \in Calls, Sales!HandOver(c) \/ Sales!End(c)
      PROVE  Acquainted'
  BY <1>1, <1>5 DEF Sales!HandOver, Sales!End
<1>6. ASSUME NEW c \in Calls, NEW mc \in Mc, Sales!Clear(c, mc) \/ Sales!Prove(c, mc)
      PROVE  Acquainted'
  BY <1>1, <1>6 DEF Sales!Clear, Sales!Prove
<1>7. ASSUME NEW c \in Calls, NEW l \in Loads, NEW mc \in Mc, NEW rate \in Asks,
             Sales!Commit(c, l, mc, rate)
      PROVE  Acquainted'
  BY <1>1, <1>7 DEF Sales!Commit
<1>8. ASSUME NEW c \in Calls, NEW l \in Loads, Sales!Tell(c, l) \/ Sales!Doubt(c, l)
      PROVE  Acquainted'
  BY <1>1, <1>8 DEF Sales!Tell, Sales!Doubt
<1>9. ASSUME NEW l \in Loads, Sales!Lose(l)
      PROVE  Acquainted'
  BY <1>1, <1>9 DEF Sales!Lose
<1>10. CASE UNCHANGED Sales!vars
  BY <1>1, <1>10 DEF Sales!vars
<1> QED  BY <1>3, <1>4, <1>5, <1>6, <1>7, <1>8, <1>9, <1>10 DEF Promised, Sales!Next

(* The first states of the bridge are first states of the promise.         *)
LEMMA InitPromised == Init => Sales!Init /\ Acquainted
<1> SUFFICES ASSUME Init PROVE Sales!Init /\ Acquainted
  OBVIOUS
<1>1. \A c \in Calls : trail[c] = NothingLogged /\ session[c] = FreshCall
  BY DEF Init
<1>2. Shown = [c \in Calls |-> FALSE]
  <2>1. TouchedFreight(FreshCall) = FALSE
    BY DEF TouchedFreight, FreshCall
  <2> QED  BY <1>1, <2>1 DEF Shown
<1>3. /\ Clearances = [c \in Calls |-> {}] /\ Proofs = [c \in Calls |-> {}]
      /\ Numbers = [c \in Calls |-> {}] /\ Told = [c \in Calls |-> {}]
      /\ Doubts = [c \in Calls |-> {}]
  BY <1>1 DEF NothingLogged, Clearances, Proofs, Numbers, Told, Doubts
<1>4. WithRep = [c \in Calls |-> FALSE] /\ Ended = [c \in Calls |-> FALSE]
  <2>1. FreshCall.handed = FALSE /\ FreshCall.terminated = FALSE
    BY DEF FreshCall
  <2>2. WithRep = [c \in Calls |-> FALSE]
    BY <1>1, <2>1 DEF WithRep
  <2>3. Ended = [c \in Calls |-> FALSE]
    BY <1>1, <2>1 DEF Ended
  <2> QED  BY <2>2, <2>3
<1>5. tms = [l \in Loads |-> None]
  BY DEF Init
<1>6. Acquainted
  BY <1>3 DEF Acquainted
<1> QED  BY <1>2, <1>3, <1>4, <1>5, <1>6 DEF Sales!Init

(* The bridge implements SalesCall for any number of calls, requests,      *)
(* carriers and loads: whatever overlaps, lands late or is lost, no step   *)
(* of it is one the promise does not allow.                                *)
THEOREM BridgeSells == Spec => SellsAsPromised
<1>1. BridgeKept /\ Acquainted /\ [Next]_vars => [Sales!Next]_(Sales!vars) /\ Acquainted'
  BY StepPromised, AcquaintedStays DEF Promised
<1> QED  BY <1>1, InitPromised, AlwaysKept, PTL DEF Spec, SellsAsPromised, Sales!Spec

=============================================================================
