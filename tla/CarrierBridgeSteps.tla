--------------------------- MODULE CarrierBridgeSteps ---------------------------
(***************************************************************************)
(* What one step may never do to a call, for any number of calls, requests *)
(* and loads, whatever overlaps: the stage goes up, a call that has ended  *)
(* proves nothing and starts nothing more, a burned code is final, the     *)
(* ledger holds what the searches handed over, and no booking the TMS took *)
(* goes unheard of.                                                        *)
(***************************************************************************)
EXTENDS CarrierBridgeProofs

(* A code whose attempts are used up.                                      *)
Burned(otp) == otp # None /\ ~otp.verified /\ otp.attempts >= MaxAttempts

LedgerKept(s) ==
    \A i \in DOMAIN s.searches : s.searches[i].loads \subseteq s.offered

(* From one state of a call to a later one.                                *)
Onward(s, z) ==
    /\ z.stage >= s.stage
    /\ s.terminated => z.terminated /\ z.handed = s.handed
    /\ LedgerKept(s) => LedgerKept(z)
    /\ Burned(z.otp) => Burned(s.otp) \/ z.terminated
    /\ s.terminated /\ Burned(s.otp) => z.otp.attempts = s.otp.attempts

AllOnward == \A c \in Calls : Onward(session[c], session'[c])

(* Stages are numbers, CLOSED the highest.                                 *)
LEMMA StageOrder ==
    ASSUME NEW s \in CallRecord
    PROVE  /\ s.stage \in Nat /\ CLOSED >= s.stage
           /\ Stage \subseteq Nat /\ CLOSED \in Stage
BY DEF CallRecord, Stage, STARTED, AUTHORITY_VERIFIED, OTP_SENT,
       IDENTITY_VERIFIED, LOAD_SELECTED, RATE_AGREED, BOOKED, CLOSED

(* Nothing of interest happens to a call that is left alone.               *)
LEMMA Same ==
    ASSUME NEW s \in CallRecord
    PROVE  Onward(s, s)
BY StageOrder DEF Onward

(* Nor to one whose code and searches are left alone, while its stage and  *)
(* its ledger grow.                                                        *)
LEMMA Calm ==
    ASSUME NEW s \in CallRecord, NEW z \in CallRecord,
           z.stage >= s.stage, z.otp = s.otp, z.searches = s.searches,
           s.offered \subseteq z.offered,
           s.terminated => z.terminated /\ z.handed = s.handed
    PROVE  Onward(s, z)
BY DEF Onward, LedgerKept

(* A step moves one call.                                                  *)
LEMMA OneOnward ==
    ASSUME BridgeKept, NEW c \in Calls, NEW z, Becomes(c, z), Onward(session[c], z)
    PROVE  AllOnward
BY Same DEF AllOnward, Becomes, BridgeKept, TypeOK

(* Nor does a step that leaves the calls alone move one back.              *)
LEMMA NoneMoved ==
    ASSUME BridgeKept, UNCHANGED session
    PROVE  AllOnward
BY Same DEF AllOnward, BridgeKept, TypeOK

(* What advancing and terminating leave of a call.                         *)
LEMMA AdvancedOnly ==
    ASSUME NEW s \in CallRecord, NEW stage \in Stage
    PROVE  /\ AdvanceTo(s, stage) \in CallRecord
           /\ AdvanceTo(s, stage).stage >= s.stage
           /\ AdvanceTo(s, stage).otp = s.otp
           /\ AdvanceTo(s, stage).searches = s.searches
           /\ AdvanceTo(s, stage).offered = s.offered
           /\ AdvanceTo(s, stage).terminated = s.terminated
           /\ AdvanceTo(s, stage).handed = s.handed
<1>1. s.stage \in Nat /\ stage \in Nat
  BY StageOrder
<1>2. CASE stage > s.stage
  BY <1>1, <1>2 DEF AdvanceTo, CallRecord
<1>3. CASE ~(stage > s.stage)
  BY <1>1, <1>3 DEF AdvanceTo
<1> QED  BY <1>2, <1>3

(* Nor does terminating it move the code, the searches or the ledger.      *)
LEMMA TerminatedOnly ==
    ASSUME NEW s \in CallRecord
    PROVE  /\ Terminate(s) \in CallRecord
           /\ Terminate(s).stage >= s.stage
           /\ Terminate(s).otp = s.otp
           /\ Terminate(s).searches = s.searches
           /\ Terminate(s).offered = s.offered
           /\ Terminate(s).terminated
           /\ Terminate(s).handed = s.handed
<1> QED  BY StageOrder DEF Terminate, CallRecord

-----------------------------------------------------------------------------
(* The routes, one after the other.                                        *)

(* The authority check: Refused and Authorised leave the code, the ledger  *)
(* and the searches alone.                                                 *)
LEMMA RefusedOnward ==
    ASSUME NEW s \in CallRecord, NEW mc \in Mc
    PROVE  Onward(s, Refused(s, mc))
<1> DEFINE n == [s EXCEPT !.mc = mc, !.outcome = "rejected_authority"]
<1>1. /\ n \in CallRecord /\ n.stage = s.stage /\ n.otp = s.otp
      /\ n.searches = s.searches /\ n.offered = s.offered
      /\ n.terminated = s.terminated /\ n.handed = s.handed
  BY DEF CallRecord, Outcome
<1>2. Refused(s, mc) \in {n, Terminate(n)}
  BY DEF Refused
<1> HIDE DEF n
<1>3. n.stage >= s.stage
  BY <1>1, StageOrder
<1>4. Onward(s, n)
  BY <1>1, <1>3, Calm
<1>5. Onward(s, Terminate(n))
  BY <1>1, TerminatedOnly, Calm
<1> QED  BY <1>2, <1>4, <1>5

(* A carrier the FMCSA clears advances its call and nothing else.          *)
LEMMA AuthorisedOnward ==
    ASSUME NEW s \in CallRecord, NEW mc \in MCs
    PROVE  Onward(s, Authorised(s, mc))
<1> DEFINE n == [s EXCEPT !.mc = mc]
<1>1. /\ n \in CallRecord /\ n.stage = s.stage /\ n.otp = s.otp
      /\ n.searches = s.searches /\ n.offered = s.offered
      /\ n.terminated = s.terminated /\ n.handed = s.handed
  BY DEF CallRecord, Mc
<1>2. Authorised(s, mc) = AdvanceTo(n, AUTHORITY_VERIFIED)
  BY DEF Authorised
<1>3. AUTHORITY_VERIFIED \in Stage
  BY DEF Stage
<1> HIDE DEF n
<1> QED  BY <1>1, <1>2, <1>3, AdvancedOnly, Calm

(* The passcode: a fresh one only on an open call, and an attempt too many *)
(* ends the call.                                                          *)
LEMMA ProvingOnward ==
    ASSUME BridgeKept, NEW c \in Calls, ProvingIdentity(c)
    PROVE  AllOnward
<1> DEFINE s == session[c]
<1>1. s \in CallRecord /\ s.otp \in OtpChallenge \cup {None}
  BY CallFacts DEF CallRecord
<1>2. CASE SendOtp(c)
  <2> DEFINE n == [s EXCEPT !.otp = FreshChallenge]
  <2>1. FreshChallenge \in OtpChallenge /\ ~Burned(FreshChallenge)
    BY SessionAssumption DEF FreshChallenge, OtpChallenge, Burned
  <2>2. /\ n \in CallRecord /\ n.stage = s.stage /\ n.otp = FreshChallenge
        /\ n.searches = s.searches /\ n.offered = s.offered
    BY <1>1, <2>1 DEF CallRecord
  <2>3. ~s.terminated /\ Becomes(c, AdvanceTo(n, OTP_SENT))
    BY <1>2 DEF SendOtp, Passes
  <2>4. OTP_SENT \in Stage
    BY DEF Stage
  <2> HIDE DEF n
  <2>5. Onward(s, AdvanceTo(n, OTP_SENT))
    BY <2>1, <2>2, <2>3, <2>4, AdvancedOnly DEF Onward, LedgerKept
  <2> QED  BY <2>3, <2>5, OneOnward
<1>3. CASE OtpExpires(c)
  <2> DEFINE otp == [s.otp EXCEPT !.expired = TRUE]
             n == [s EXCEPT !.otp = otp]
  <2>1. s.otp \in OtpChallenge
    BY <1>1, <1>3 DEF OtpExpires
  <2>2. otp \in OtpChallenge /\ otp.attempts = s.otp.attempts
        /\ otp.verified = s.otp.verified /\ s.otp # None
    BY <1>3, <2>1 DEF OtpExpires, OtpChallenge
  <2>3. Becomes(c, n)
    BY <1>3 DEF OtpExpires, Becomes, BridgeKept, TypeOK
  <2> HIDE DEF otp
  <2>4. /\ n.stage = s.stage /\ n.otp = otp /\ n.terminated = s.terminated
        /\ n.handed = s.handed /\ n.searches = s.searches /\ n.offered = s.offered
    BY <1>1, <2>2 DEF CallRecord
  <2> HIDE DEF n
  <2>5. Onward(s, n)
    BY <1>1, <2>2, <2>4, StageOrder DEF Onward, LedgerKept, Burned
  <2> QED  BY <2>3, <2>5, OneOnward
<1>4. ASSUME NEW correct \in BOOLEAN, VerifyOtp(c, correct)
      PROVE  AllOnward
  <2> DEFINE otp == Tried(s.otp)
             n == [s EXCEPT !.otp = [otp EXCEPT !.verified = TRUE]]
             b == [s EXCEPT !.otp = otp, !.outcome = "failed_identity"]
             w == [s EXCEPT !.otp = otp]
  <2>1. s.otp \in OtpChallenge /\ ~s.terminated
    BY <1>1, <1>4 DEF VerifyOtp, Passes
  <2>2. otp \in OtpChallenge /\ [otp EXCEPT !.verified = TRUE] \in OtpChallenge
    BY <2>1, TriedType
  <2>3. CASE CodeAccepted(c, [otp EXCEPT !.verified = TRUE])
    <3>1. ~Burned([otp EXCEPT !.verified = TRUE])
      BY <2>2 DEF Burned, OtpChallenge
    <3>2. /\ n \in CallRecord /\ n.stage = s.stage
          /\ n.otp = [otp EXCEPT !.verified = TRUE]
          /\ n.searches = s.searches /\ n.offered = s.offered
      BY <1>1, <2>2 DEF CallRecord
    <3>3. Becomes(c, AdvanceTo(n, IDENTITY_VERIFIED))
      BY <2>3 DEF CodeAccepted
    <3>4. IDENTITY_VERIFIED \in Stage
      BY DEF Stage
    <3> HIDE DEF n, otp
    <3>5. Onward(s, AdvanceTo(n, IDENTITY_VERIFIED))
      BY <2>1, <3>1, <3>2, <3>4, AdvancedOnly DEF Onward, LedgerKept
    <3> QED  BY <3>3, <3>5, OneOnward
  <2>4. CASE CodeBurned(c, otp)
    <3>1. /\ b \in CallRecord /\ b.stage = s.stage
          /\ b.searches = s.searches /\ b.offered = s.offered
      BY <1>1, <2>2 DEF CallRecord, Outcome
    <3>2. Becomes(c, Terminate(b))
      BY <2>4 DEF CodeBurned
    <3> HIDE DEF b, otp
    <3>3. Onward(s, Terminate(b))
      BY <2>1, <3>1, TerminatedOnly DEF Onward, LedgerKept
    <3> QED  BY <3>2, <3>3, OneOnward
  <2>5. CASE ~Matches(s.otp, correct) /\ ~Burns(s.otp, correct) /\ CodeWrong(c, otp)
    <3>1. ~Burned(otp)
      BY <2>2, <2>5, SessionAssumption DEF Burned, Burns, OtpChallenge
    <3>2. /\ w.stage = s.stage /\ w.otp = otp
          /\ w.searches = s.searches /\ w.offered = s.offered
      BY <1>1, <2>2 DEF CallRecord
    <3>3. Becomes(c, w)
      BY <2>5 DEF CodeWrong
    <3> HIDE DEF w, otp
    <3>4. Onward(s, w)
      BY <1>1, <2>1, <3>1, <3>2, StageOrder DEF Onward, LedgerKept
    <3> QED  BY <3>3, <3>4, OneOnward
  <2> HIDE DEF otp, n, b, w
  <2> QED  BY <1>4, <2>3, <2>4, <2>5 DEF VerifyOtp, otp
<1> QED  BY <1>2, <1>3, <1>4 DEF ProvingIdentity

(* What a search hands over enters the ledger with its record.             *)
LEMMA HandedOverOnward ==
    ASSUME NEW s \in CallRecord, NEW loads \in SUBSET Loads
    PROVE  HandedOver(s, loads) \in CallRecord /\ Onward(s, HandedOver(s, loads))
<1> DEFINE z == HandedOver(s, loads)
<1>1. /\ z \in CallRecord /\ z.stage = s.stage /\ z.otp = s.otp
      /\ z.searches = s.searches /\ z.offered = s.offered \cup loads
      /\ z.terminated = s.terminated /\ z.handed = s.handed
  BY DEF HandedOver, CallRecord
<1> HIDE DEF z
<1> QED  BY <1>1, StageOrder, Calm DEF z

(* A search is recorded together with what it handed over.                 *)
LEMMA RecordedOnward ==
    ASSUME NEW s \in CallRecord, NEW q \in SearchRequest,
           NEW loads \in SUBSET Loads
    PROVE  Onward(s, Recorded(s, q, loads))
<1> DEFINE a == [number |-> q.used + 1, filter |-> q.filter, loads |-> loads]
           h == HandedOver(s, loads)
           z == Recorded(s, q, loads)
<1>1. a.loads = loads /\ a \in SearchAttempt
  BY DEF SearchRequest, SearchAttempt
<1>2. /\ h.stage = s.stage /\ h.otp = s.otp
      /\ h.searches = s.searches /\ h.offered = s.offered \cup loads
      /\ h.terminated = s.terminated /\ h.handed = s.handed /\ h \in CallRecord
  BY DEF HandedOver, CallRecord
<1>3. z = [h EXCEPT !.searches = Append(h.searches, a)]
  BY DEF Recorded
<1>4. s.searches \in Seq(SearchAttempt)
  BY DEF CallRecord
<1> HIDE DEF a, h, z
<1>5. /\ z.stage = s.stage /\ z.otp = s.otp
      /\ z.searches = Append(s.searches, a) /\ z.offered = s.offered \cup loads
      /\ z.terminated = s.terminated /\ z.handed = s.handed
  BY <1>2, <1>3 DEF CallRecord
<1>6. LedgerKept(s) => LedgerKept(z)
  <2> SUFFICES ASSUME LedgerKept(s), NEW i \in DOMAIN z.searches
               PROVE  z.searches[i].loads \subseteq z.offered
    BY DEF LedgerKept
  <2>1. CASE i = Len(s.searches) + 1
    BY <1>1, <1>4, <1>5, <2>1
  <2>2. CASE i \in DOMAIN s.searches
    BY <1>1, <1>4, <1>5, <2>2 DEF LedgerKept
  <2> QED  BY <1>1, <1>4, <1>5, <2>1, <2>2
<1> QED  BY <1>5, <1>6, StageOrder DEF Onward, z

(* Pricing an ask writes the load's negotiation, the agreed rate, the      *)
(* selected load and the outcome.                                          *)
LEMMA PricedOnward ==
    ASSUME NEW s, NEW n \in CallRecord, NEW l \in Loads, NEW ask \in Asks,
           NEW recent \in BOOLEAN, Onward(s, n),
           n.negotiations[l] # None, Sound(n.negotiations[l]),
           s \in CallRecord, n.searches = s.searches, n.otp = s.otp,
           n.offered = s.offered, n.terminated = s.terminated, n.handed = s.handed
    PROVE  Onward(s, Priced(n, l, ask, recent))
<1> DEFINE old == n.negotiations[l]
           new == Evaluated(old, ask, recent)
           v == [n EXCEPT !.negotiations[l] = new]
           w == [v EXCEPT !.agreed = new.agreed, !.selected = l]
           x == [v EXCEPT !.outcome = "failed_negotiation"]
           z == Priced(n, l, ask, recent)
<1>1. new \in NegotiationRecord /\ new.agreed \in Rate \cup {NoRate}
  BY SessionAssumption, EvaluatedMoves DEF NegotiationRecord
<1> HIDE DEF new
<1>2. /\ v \in CallRecord /\ v.stage = n.stage /\ v.otp = n.otp
      /\ v.searches = n.searches /\ v.offered = n.offered
      /\ v.terminated = n.terminated /\ v.handed = n.handed
  BY <1>1 DEF CallRecord
<1> HIDE DEF v
<1>3. /\ w \in CallRecord /\ w.stage = n.stage /\ w.otp = n.otp
      /\ w.searches = n.searches /\ w.offered = n.offered
      /\ w.terminated = n.terminated /\ w.handed = n.handed
  BY <1>1, <1>2 DEF CallRecord
<1>4. /\ x \in CallRecord /\ x.stage = n.stage /\ x.otp = n.otp
      /\ x.searches = n.searches /\ x.offered = n.offered
      /\ x.terminated = n.terminated /\ x.handed = n.handed
  BY <1>1, <1>2 DEF CallRecord, Outcome
<1>5. z \in {n, AdvanceTo(w, RATE_AGREED), x, v}
  BY DEF Priced, DecisionOf, w, x, v, new
<1>6. RATE_AGREED \in Stage
  BY DEF Stage
<1> HIDE DEF w, x, z
<1>7. /\ AdvanceTo(w, RATE_AGREED) \in CallRecord
      /\ AdvanceTo(w, RATE_AGREED).stage >= n.stage
      /\ AdvanceTo(w, RATE_AGREED).otp = n.otp
      /\ AdvanceTo(w, RATE_AGREED).searches = n.searches
      /\ AdvanceTo(w, RATE_AGREED).offered = n.offered
      /\ AdvanceTo(w, RATE_AGREED).terminated = n.terminated
      /\ AdvanceTo(w, RATE_AGREED).handed = n.handed
  BY <1>3, <1>6, AdvancedOnly
<1>8. /\ z \in CallRecord /\ z.stage >= n.stage /\ z.otp = s.otp
      /\ z.searches = s.searches /\ z.offered = s.offered
      /\ z.terminated = s.terminated /\ z.handed = s.handed
  BY <1>2, <1>3, <1>4, <1>5, <1>7, StageOrder
<1>9. z.stage >= s.stage
  BY <1>8, StageOrder DEF Onward
<1> QED  BY <1>8, <1>9, Calm DEF z

(* The routes about one load, and closing.                                 *)
LEMMA DealingOnward ==
    ASSUME BridgeKept, NEW c \in Calls, Dealing(c)
    PROVE  AllOnward
<1> DEFINE s == session[c]
<1>1. s \in CallRecord /\ DealsKept(s, trail[c])
  BY CallFacts DEF CallKept
<1>2. ASSUME NEW l \in Loads, NEW ask \in Asks, NEW recent \in BOOLEAN,
             Negotiate(c, l, ask, recent)
      PROVE  AllOnward
  <2>1. s.negotiations[l] # None /\ Sound(s.negotiations[l])
        /\ Becomes(c, Priced(s, l, ask, recent))
    BY <1>1, <1>2 DEF Negotiate, DealsKept, Priceworthy
  <2>2. Onward(s, Priced(s, l, ask, recent))
    BY <1>1, <2>1, Same, PricedOnward
  <2> QED  BY <2>1, <2>2, OneOnward
<1>3. CASE Handoff(c)
  <2> DEFINE n == HandedOff(s)
  <2>1. ~s.terminated /\ Becomes(c, AdvanceTo(n, CLOSED))
    BY <1>3 DEF Handoff, Transferable
  <2>2. /\ n \in CallRecord /\ n.stage = s.stage /\ n.otp = s.otp
        /\ n.searches = s.searches /\ n.offered = s.offered
    BY <1>1 DEF HandedOff, CallRecord, Outcome
  <2> HIDE DEF n
  <2>3. Onward(s, AdvanceTo(n, CLOSED))
    BY <1>1, <2>1, <2>2, AdvancedOnly, StageOrder, Calm
  <2> QED  BY <2>1, <2>3, OneOnward
<1>4. ASSUME NEW r \in Requests, NEW l \in Loads, NEW ask \in Asks,
             OpenNegotiation(c, r, l, ask)
      PROVE  AllOnward
  BY <1>4, NoneMoved DEF OpenNegotiation
<1>5. ASSUME NEW r \in Requests, NEW l \in Loads, Book(c, r, l)
      PROVE  AllOnward
  BY <1>5, NoneMoved DEF Book
<1> QED  BY <1>2, <1>3, <1>4, <1>5 DEF Dealing

(* POST /v1/calls/close terminates the call and keeps what it recorded.    *)
LEMMA CloseOnward ==
    ASSUME BridgeKept, NEW c \in Calls, CloseCall(c)
    PROVE  AllOnward
<1> DEFINE s == session[c]
           n == [s EXCEPT !.outcome = IF @ = "in_progress" THEN "abandoned" ELSE @]
<1>1. s \in CallRecord
  BY CallFacts
<1>2. /\ n \in CallRecord /\ n.stage = s.stage /\ n.otp = s.otp
      /\ n.searches = s.searches /\ n.offered = s.offered
      /\ n.terminated = s.terminated /\ n.handed = s.handed
  BY <1>1 DEF CallRecord, Outcome
<1>3. Becomes(c, Terminate(n))
  BY DEF CloseCall
<1> HIDE DEF n
<1>4. Onward(s, Terminate(n))
  BY <1>1, <1>2, TerminatedOnly, Calm
<1> QED  BY <1>3, <1>4, OneOnward

(* A request resumes, on a call that may have moved on meanwhile.          *)
LEMMA ResumeOnward ==
    ASSUME BridgeKept, NEW r \in Requests, Resumes(r)
    PROVE  AllOnward
<1> DEFINE q == request[r]
           s == session[q.call]
<1>1. q.op \in FreightOps \cup {"verify"} => q.call \in Calls
  BY RequestFacts DEF Request, Free, VerifyRequest, SearchRequest, DetailRequest,
                      NegotiateRequest, BookRequest, FreightOps
<1>2. q.call \in Calls => s \in CallRecord /\ DealsKept(s, trail[q.call])
  BY CallFacts DEF CallKept
<1>3. CASE AuthorityConfirmed(r)
  <2>1. q \in VerifyRequest /\ Becomes(q.call, Authorised(s, q.mc))
    BY <1>3, RequestFacts DEF AuthorityConfirmed, Awaiting
  <2>2. q.call \in Calls /\ q.mc \in MCs
    BY <2>1 DEF VerifyRequest
  <2> QED  BY <1>2, <2>1, <2>2, AuthorisedOnward, OneOnward
<1>4. CASE AuthorityRefused(r)
  <2>1. q \in VerifyRequest /\ Becomes(q.call, Refused(s, q.mc))
    BY <1>4, RequestFacts DEF AuthorityRefused, Awaiting
  <2>2. q.call \in Calls /\ q.mc \in Mc
    BY <2>1 DEF VerifyRequest, Mc
  <2> QED  BY <1>2, <2>1, <2>2, RefusedOnward, OneOnward
<1>5. ASSUME NEW loads \in SUBSET Loads, SearchMatched(r, loads)
      PROVE  AllOnward
  <2>1. q \in SearchRequest /\ Becomes(q.call, Recorded(s, q, loads))
    BY <1>5, RequestFacts DEF SearchMatched, Awaiting
  <2>2. q.call \in Calls
    BY <2>1 DEF SearchRequest
  <2> QED  BY <1>2, <2>1, <2>2, RecordedOnward, OneOnward
<1>6. CASE SearchEmpty(r)
  <2> DEFINE n == [s EXCEPT !.outcome = "no_loads"]
  <2>1. q.call \in Calls /\ Becomes(q.call, n)
    BY <1>1, <1>6 DEF SearchEmpty, Awaiting, FreightOps
  <2>2. /\ n \in CallRecord /\ n.stage = s.stage /\ n.otp = s.otp
        /\ n.searches = s.searches /\ n.offered = s.offered
        /\ n.terminated = s.terminated /\ n.handed = s.handed
    BY <1>2, <2>1 DEF CallRecord, Outcome
  <2> HIDE DEF n
  <2>3. Onward(s, n)
    BY <1>2, <2>1, <2>2, StageOrder, Calm
  <2> QED  BY <2>1, <2>3, OneOnward
<1>7. CASE DetailFound(r)
  <2> DEFINE n == [s EXCEPT !.selected = q.load]
  <2>1. q \in DetailRequest /\ Becomes(q.call, AdvanceTo(n, LOAD_SELECTED))
    BY <1>7, RequestFacts DEF DetailFound, Awaiting
  <2>2. q.call \in Calls /\ q.load \in Loads /\ LOAD_SELECTED \in Stage
    BY <2>1 DEF DetailRequest, Stage
  <2>3. /\ n \in CallRecord /\ n.stage = s.stage /\ n.otp = s.otp
        /\ n.searches = s.searches /\ n.offered = s.offered
        /\ n.terminated = s.terminated /\ n.handed = s.handed
    BY <1>2, <2>2 DEF CallRecord
  <2> HIDE DEF n
  <2>4. Onward(s, AdvanceTo(n, LOAD_SELECTED))
    BY <1>2, <2>2, <2>3, AdvancedOnly, Calm
  <2> QED  BY <2>1, <2>2, <2>4, OneOnward
<1>8. CASE NegotiationOpened(r)
  <2> DEFINE fresh == Opened(PostedRate[q.load], MaxBuy[q.load])
             n == [s EXCEPT !.negotiations[q.load] = fresh, !.selected = q.load]
             a == AdvanceTo(n, LOAD_SELECTED)
  <2>1. /\ q \in NegotiateRequest
        /\ Becomes(q.call, Priced(a, q.load, q.ask, FALSE))
    BY <1>8, RequestFacts DEF NegotiationOpened, Awaiting
  <2>2. /\ q.call \in Calls /\ q.load \in Loads /\ q.ask \in Asks
        /\ LOAD_SELECTED \in Stage
    BY <2>1 DEF NegotiateRequest, Stage
  <2>3. Sound(fresh) /\ fresh \in NegotiationRecord /\ fresh # None
    <3>1. PostedRate[q.load] \in Rate /\ MaxBuy[q.load] \in Ceiling
      BY <2>2, SessionAssumption
    <3> QED  BY <3>1, OpenedSound, HolderAssumption DEF Sound
  <2> HIDE DEF fresh
  <2>4. /\ n \in CallRecord /\ n.stage = s.stage /\ n.otp = s.otp
        /\ n.searches = s.searches /\ n.offered = s.offered
        /\ n.terminated = s.terminated /\ n.handed = s.handed
        /\ n.negotiations = [s.negotiations EXCEPT ![q.load] = fresh]
    BY <1>2, <2>2, <2>3 DEF CallRecord
  <2>5. n.negotiations[q.load] = fresh
    BY <1>2, <2>2, <2>4 DEF CallRecord
  <2> HIDE DEF n
  <2>6. /\ a \in CallRecord /\ a.stage >= s.stage /\ a.otp = s.otp
        /\ a.searches = s.searches /\ a.offered = s.offered
        /\ a.terminated = s.terminated /\ a.handed = s.handed
        /\ a.negotiations[q.load] = fresh
    BY <2>2, <2>4, <2>5, Advanced, AdvancedOnly
  <2> HIDE DEF a
  <2>7. Onward(s, a)
    BY <1>2, <2>2, <2>6, Calm
  <2>8. Onward(s, Priced(a, q.load, q.ask, FALSE))
    BY <1>2, <2>2, <2>3, <2>6, <2>7, PricedOnward
  <2> QED  BY <2>1, <2>2, <2>8, OneOnward
<1>9. CASE BookConfirmed(r)
  <2> DEFINE n == [s EXCEPT !.booked = q.load, !.outcome = "booked"]
  <2>1. q \in BookRequest /\ Becomes(q.call, AdvanceTo(n, BOOKED))
    BY <1>9, RequestFacts DEF BookConfirmed, Awaiting
  <2>2. q.call \in Calls /\ q.load \in Loads /\ BOOKED \in Stage
    BY <2>1 DEF BookRequest, Stage
  <2>3. /\ n \in CallRecord /\ n.stage = s.stage /\ n.otp = s.otp
        /\ n.searches = s.searches /\ n.offered = s.offered
        /\ n.terminated = s.terminated /\ n.handed = s.handed
    BY <1>2, <2>2 DEF CallRecord, Outcome
  <2> HIDE DEF n
  <2>4. Onward(s, AdvanceTo(n, BOOKED))
    BY <1>2, <2>2, <2>3, AdvancedOnly, Calm
  <2> QED  BY <2>1, <2>2, <2>4, OneOnward
<1>10. CASE \/ AuthorityUnavailable(r) \/ SearchDegraded(r) \/ DetailFailed(r)
            \/ NegotiationNotOpened(r) \/ BookRefused(r) \/ BookUncertain(r)
  BY <1>10, NoneMoved DEF AuthorityUnavailable, SearchDegraded, DetailFailed,
                          NegotiationNotOpened, BookRefused, BookUncertain
<1> QED  BY <1>3, <1>4, <1>5, <1>6, <1>7, <1>8, <1>9, <1>10
         DEF Resumes, BookSettles

(* Every step of the bridge takes every call onward.                       *)
LEMMA StepOnward == BridgeKept /\ [Next]_vars => AllOnward
<1> SUFFICES ASSUME BridgeKept, [Next]_vars PROVE AllOnward
  OBVIOUS
<1>1. ASSUME NEW c \in Calls, VerifyingCarrier(c)
      PROVE  AllOnward
  <2>1. ASSUME NEW digits \in BOOLEAN, VerifyGarbled(c, digits)
        PROVE  AllOnward
    <3>1. session[c] \in CallRecord /\ Garbled \in Mc
      BY CallFacts DEF Mc
    <3> QED  BY <2>1, <3>1, RefusedOnward, OneOnward DEF VerifyGarbled
  <2>2. ASSUME NEW r \in Requests, NEW mc \in MCs, NEW padded \in BOOLEAN,
               VerifyCarrier(c, r, mc, padded)
        PROVE  AllOnward
    BY <2>2, NoneMoved DEF VerifyCarrier
  <2> QED  BY <1>1, <2>1, <2>2 DEF VerifyingCarrier
<1>2. ASSUME NEW c \in Calls, FindingLoads(c)
      PROVE  AllOnward
  <2>1. ASSUME NEW loads \in SUBSET Loads, SearchOverBudget(c, loads)
        PROVE  AllOnward
    <3>1. session[c] \in CallRecord
      BY CallFacts
    <3> QED  BY <2>1, <3>1, HandedOverOnward, OneOnward DEF SearchOverBudget
  <2>2. ASSUME NEW r \in Requests, NEW f \in Filters, Search(c, r, f)
        PROVE  AllOnward
    BY <2>2, NoneMoved DEF Search
  <2>3. ASSUME NEW r \in Requests, NEW l \in Loads, Detail(c, r, l)
        PROVE  AllOnward
    BY <2>3, NoneMoved DEF Detail
  <2> QED  BY <1>2, <2>1, <2>2, <2>3 DEF FindingLoads
<1>3. ASSUME NEW r \in Requests, AtTheTms(r)
      PROVE  AllOnward
  BY <1>3, NoneMoved DEF AtTheTms, TmsBooks, TmsHasItBooked, TmsRejects
<1>4. ASSUME NEW o \in orphans, OrphanLands(o)
      PROVE  AllOnward
  BY <1>4, NoneMoved DEF OrphanLands
<1>5. ASSUME NEW l \in Loads, StrangerBooks(l)
      PROVE  AllOnward
  BY <1>5, NoneMoved DEF StrangerBooks
<1>6. CASE BoardWarms \/ UNCHANGED vars
  BY <1>6, NoneMoved DEF BoardWarms, vars
<1> QED  BY <1>1, <1>2, <1>3, <1>4, <1>5, <1>6, ProvingOnward, DealingOnward,
            CloseOnward, ResumeOnward DEF Next

-----------------------------------------------------------------------------
(* What may be proven, and which freight requests start.                   *)

(* A code is verified on an open call only.                                *)
LEMMA ProvenOnOpenCalls ==
    ASSUME BridgeKept, [Next]_vars, NEW d \in Calls, session[d].terminated
    PROVE  trail'[d].proven = trail[d].proven
<1>1. trail \in [Calls -> Trail]
  BY DEF BridgeKept, TypeOK
<1>2. trail[d] \in Trail
  BY <1>1
<1>3. ASSUME NEW c \in Calls, ProvingIdentity(c)
      PROVE  trail'[d].proven = trail[d].proven
  BY <1>1, <1>3 DEF ProvingIdentity, SendOtp, OtpExpires, VerifyOtp, Passes,
                    CodeAccepted, CodeBurned, CodeWrong
<1>4. ASSUME NEW c \in Calls, Dealing(c)
      PROVE  trail'[d].proven = trail[d].proven
  <2>1. ASSUME NEW l \in Loads, NEW ask \in Asks, Named(c, l, ask)
        PROVE  trail'[d].proven = trail[d].proven
    BY <1>1, <1>2, <2>1 DEF Named, Trail
  <2> QED  BY <1>4, <2>1 DEF Dealing, Negotiate, OpenNegotiation, Book, Handoff
<1>5. ASSUME NEW c \in Calls, VerifyingCarrier(c) \/ FindingLoads(c) \/ CloseCall(c)
      PROVE  trail'[d].proven = trail[d].proven
  BY <1>5 DEF VerifyingCarrier, VerifyGarbled, VerifyCarrier, FindingLoads, Search,
              SearchOverBudget, Detail, CloseCall
<1>6. ASSUME NEW r \in Requests, Resumes(r)
      PROVE  trail'[d].proven = trail[d].proven
  <2>1. CASE AuthorityConfirmed(r)
    BY <1>1, <1>2, <2>1 DEF AuthorityConfirmed, Trail
  <2>2. CASE NegotiationOpened(r)
    BY <1>1, <1>2, <2>2 DEF NegotiationOpened, Named, Trail
  <2>3. CASE BookConfirmed(r)
    BY <1>1, <1>2, <2>3 DEF BookConfirmed, Trail
  <2>4. CASE BookUncertain(r)
    BY <1>1, <1>2, <2>4 DEF BookUncertain, Doubted, Trail
  <2>5. CASE \/ AuthorityRefused(r) \/ AuthorityUnavailable(r)
             \/ (\E loads \in SUBSET Loads : SearchMatched(r, loads))
             \/ SearchEmpty(r) \/ SearchDegraded(r)
             \/ DetailFound(r) \/ DetailFailed(r)
             \/ NegotiationNotOpened(r) \/ BookRefused(r)
    BY <2>5 DEF AuthorityRefused, AuthorityUnavailable, SearchMatched, SearchEmpty,
                SearchDegraded, DetailFound, DetailFailed, NegotiationNotOpened,
                BookRefused
  <2> QED  BY <1>6, <2>1, <2>2, <2>3, <2>4, <2>5 DEF Resumes, BookSettles
<1>7. ASSUME NEW r \in Requests, AtTheTms(r)
      PROVE  trail'[d].proven = trail[d].proven
  BY <1>7 DEF AtTheTms, TmsBooks, TmsHasItBooked, TmsRejects
<1>8. CASE \/ \E o \in orphans : OrphanLands(o)
           \/ \E l \in Loads : StrangerBooks(l)
           \/ BoardWarms \/ UNCHANGED vars
  BY <1>8 DEF OrphanLands, StrangerBooks, BoardWarms, vars
<1> QED  BY <1>3, <1>4, <1>5, <1>6, <1>7, <1>8 DEF Next

(* A request starts behind a gate, and what is suspended keeps its call    *)
(* and what it awaits until it resumes.                                    *)
LEMMA FreightOnOpenCalls ==
    ASSUME BridgeKept, [Next]_vars, NEW d \in Calls, session[d].terminated
    PROVE  FreightRequests(d)' \subseteq FreightRequests(d)
<1> SUFFICES ASSUME NEW r \in Requests,
                    request'[r].op \in FreightOps, request'[r].call = d
             PROVE  request[r].op \in FreightOps /\ request[r].call = d
  BY DEF FreightRequests, FreightOps
<1>1. request \in [Requests -> Request]
  BY DEF BridgeKept, TypeOK
<1>2. ASSUME NEW x \in Requests, Resume(x)
      PROVE  request'[r] = request[r]
  BY <1>1, <1>2 DEF Resume, Free, FreightOps
<1>3. ASSUME NEW c \in Calls, FindingLoads(c)
      PROVE  request[r].op \in FreightOps /\ request[r].call = d
  BY <1>1, <1>3 DEF FindingLoads, Search, SearchOverBudget, Detail, Suspend, Passes
<1>4. ASSUME NEW c \in Calls, Dealing(c)
      PROVE  request[r].op \in FreightOps /\ request[r].call = d
  <2>1. ASSUME NEW x \in Requests, NEW l \in Loads, NEW ask \in Asks,
               OpenNegotiation(c, x, l, ask)
        PROVE  request[r].op \in FreightOps /\ request[r].call = d
    BY <1>1, <2>1 DEF OpenNegotiation, Suspend, Passes
  <2>2. ASSUME NEW x \in Requests, NEW l \in Loads, Book(c, x, l)
        PROVE  request[r].op \in FreightOps /\ request[r].call = d
    BY <1>1, <2>2 DEF Book, Suspend, Passes
  <2> QED  BY <1>4, <2>1, <2>2 DEF Dealing, Negotiate, Handoff
<1>5. ASSUME NEW c \in Calls, VerifyingCarrier(c) \/ ProvingIdentity(c) \/ CloseCall(c)
      PROVE  request[r].op \in FreightOps /\ request[r].call = d
  <2>1. ASSUME NEW x \in Requests, NEW mc \in MCs, NEW padded \in BOOLEAN,
               VerifyCarrier(c, x, mc, padded)
        PROVE  request[r].op \in FreightOps /\ request[r].call = d
    BY <1>1, <2>1 DEF VerifyCarrier, Suspend, FreightOps
  <2>2. CASE UNCHANGED request
    BY <2>2
  <2>3. ASSUME NEW correct \in BOOLEAN, VerifyOtp(c, correct)
        PROVE  UNCHANGED request
    BY <2>3 DEF VerifyOtp
  <2> QED  BY <1>5, <2>1, <2>2, <2>3 DEF VerifyingCarrier, VerifyGarbled,
              ProvingIdentity, SendOtp, OtpExpires, CloseCall
<1>6. ASSUME NEW x \in Requests, AtTheTms(x)
      PROVE  request[r].op \in FreightOps /\ request[r].call = d
  <2>1. Awaiting(x, "book")
    BY <1>6 DEF AtTheTms, TmsBooks, TmsHasItBooked, TmsRejects
  <2>2. PICK reply : Replied(x, reply)
    BY <1>6 DEF AtTheTms, TmsBooks, TmsHasItBooked, TmsRejects
  <2>3. request[x] \in BookRequest
    BY <2>1, RequestFacts DEF Awaiting
  <2> QED  BY <1>1, <2>2, <2>3 DEF Replied, BookRequest
<1>7. ASSUME NEW x \in Requests, Resumes(x)
      PROVE  request[r].op \in FreightOps /\ request[r].call = d
  BY <1>2, <1>7 DEF Resumes, BookSettles, AuthorityConfirmed, AuthorityRefused,
             AuthorityUnavailable, SearchMatched, SearchEmpty, SearchDegraded,
             DetailFound, DetailFailed, NegotiationOpened, NegotiationNotOpened,
             BookConfirmed, BookRefused, BookUncertain
<1>8. CASE \/ \E o \in orphans : OrphanLands(o)
           \/ \E l \in Loads : StrangerBooks(l)
           \/ BoardWarms \/ UNCHANGED vars
  BY <1>8 DEF OrphanLands, StrangerBooks, BoardWarms, vars
<1> QED  BY <1>3, <1>4, <1>5, <1>6, <1>7, <1>8 DEF Next

-----------------------------------------------------------------------------
(* The ledger, and that a burned code ends its call, are inductive on top  *)
(* of BridgeKept.                                                          *)
RecordsKept ==
    \A c \in Calls :
        /\ LedgerKept(session[c])
        /\ Burned(session[c].otp) => session[c].terminated

(* Whatever overlaps, the ledger holds what the searches recorded, and an  *)
(* attempt too many has ended its call.                                    *)
THEOREM AlwaysRecorded == Spec => []RecordsKept
<1>1. Init => RecordsKept
  BY DEF Init, RecordsKept, LedgerKept, Burned, FreshCall
<1>2. BridgeKept /\ RecordsKept /\ [Next]_vars => RecordsKept'
  BY StepOnward DEF AllOnward, Onward, RecordsKept
<1> QED  BY <1>1, <1>2, AlwaysKept, PTL DEF Spec

(* Whatever a recorded search handed over is in the ledger: a repeated     *)
(* answer never names a load that is then refused.                         *)
THEOREM LedgerIsComplete == Spec => []LedgerHoldsSearches
<1>1. RecordsKept => LedgerHoldsSearches
  BY DEF RecordsKept, LedgerKept, LedgerHoldsSearches
<1> QED  BY <1>1, AlwaysRecorded, PTL

(* The stage never goes back, and no call is reopened, even by a request   *)
(* that resumes on a call that has ended.                                  *)
THEOREM StagesOnlyAdvance == Spec => StageOnlyAdvances
<1>1. BridgeKept /\ [Next]_vars =>
        [\A c \in Calls :
            /\ session'[c].stage >= session[c].stage
            /\ session[c].terminated => session'[c].terminated]_vars
  BY StepOnward DEF AllOnward, Onward
<1> QED  BY <1>1, AlwaysKept, PTL DEF Spec, StageOnlyAdvances

(* On a call that has ended no code is verified, nothing is handed off and *)
(* no freight work starts.                                                 *)
THEOREM TerminatedStaysRefused == Spec => TerminatedIsRefused
<1>1. BridgeKept /\ [Next]_vars =>
        [\A c \in Calls : session[c].terminated =>
            /\ trail'[c].proven = trail[c].proven
            /\ session'[c].handed = session[c].handed
            /\ FreightRequests(c)' \subseteq FreightRequests(c)]_vars
  BY StepOnward, ProvenOnOpenCalls, FreightOnOpenCalls DEF AllOnward, Onward
<1> QED  BY <1>1, AlwaysKept, PTL DEF Spec, TerminatedIsRefused

(* Once the attempts on a code are used up, the call gets no other one.    *)
THEOREM BurnedStaysBurned == Spec => BurnedIsFinal
<1>1. BridgeKept /\ RecordsKept /\ [Next]_vars =>
        [\A c \in Calls : LET otp == session[c].otp IN
            otp # None /\ ~otp.verified /\ otp.attempts >= MaxAttempts
              => /\ session'[c].otp.attempts = otp.attempts
                 /\ trail'[c].proven = trail[c].proven]_vars
  BY StepOnward, ProvenOnOpenCalls DEF AllOnward, Onward, RecordsKept, Burned
<1> QED  BY <1>1, AlwaysKept, AlwaysRecorded, PTL DEF Spec, BurnedIsFinal

-----------------------------------------------------------------------------
(* A booking the TMS took for a call is confirmed, put up for a manual     *)
(* check, or its confirmation is on its way to a request that still waits: *)
(* the part of NoLostBooking that needs no fairness.  A write that is      *)
(* still out there has been put up for a check already.                    *)
ConfirmationDue(r) == request[r].op = "book" /\ request[r].reply = "confirmed"

Heard(c, l) == l \in trail[c].confirmed \cup trail[c].uncertain

NoneUnheard ==
    \A c \in Calls, l \in Loads : HeldFor(c, l) =>
        \/ Heard(c, l)
        \/ \E r \in Requests :
              ConfirmationDue(r) /\ request[r].call = c /\ request[r].load = l

DoubtsLogged == \A o \in orphans : o.load \in trail[o.call].uncertain

(* What was confirmed or doubted stays on record.                          *)
LEMMA LogsGrow ==
    ASSUME BridgeKept, [Next]_vars, NEW d \in Calls
    PROVE  /\ trail[d].confirmed \subseteq trail'[d].confirmed
           /\ trail[d].uncertain \subseteq trail'[d].uncertain
<1> DEFINE Grew == /\ trail[d].confirmed \subseteq trail'[d].confirmed
                   /\ trail[d].uncertain \subseteq trail'[d].uncertain
<1>1. trail \in [Calls -> Trail] /\ trail[d] \in Trail
  BY DEF BridgeKept, TypeOK
<1>2. UNCHANGED trail => Grew
  OBVIOUS
<1>3. ASSUME NEW c \in Calls, ProvingIdentity(c) PROVE Grew
  <2>1. ASSUME NEW otp, CodeAccepted(c, otp) PROVE Grew
    BY <1>1, <2>1 DEF CodeAccepted, Trail
  <2> QED  BY <1>2, <1>3, <2>1 DEF ProvingIdentity, SendOtp, OtpExpires,
                                   VerifyOtp, CodeBurned, CodeWrong
<1>4. ASSUME NEW c \in Calls, Dealing(c) PROVE Grew
  <2>1. ASSUME NEW l \in Loads, NEW ask \in Asks, Named(c, l, ask) PROVE Grew
    BY <1>1, <2>1 DEF Named, Trail
  <2> QED  BY <1>2, <1>4, <2>1 DEF Dealing, Negotiate, OpenNegotiation, Book, Handoff
<1>5. ASSUME NEW c \in Calls, VerifyingCarrier(c) \/ FindingLoads(c) \/ CloseCall(c)
      PROVE  Grew
  BY <1>2, <1>5 DEF VerifyingCarrier, VerifyGarbled, VerifyCarrier, FindingLoads,
                    Search, SearchOverBudget, Detail, CloseCall
<1>6. ASSUME NEW r \in Requests, Resumes(r) PROVE Grew
  <2>1. CASE AuthorityConfirmed(r)
    BY <1>1, <2>1 DEF AuthorityConfirmed, Trail
  <2>2. CASE NegotiationOpened(r)
    BY <1>1, <2>2 DEF NegotiationOpened, Named, Trail
  <2>3. CASE BookConfirmed(r)
    BY <1>1, <2>3 DEF BookConfirmed, Trail
  <2>4. CASE BookUncertain(r)
    BY <1>1, <2>4 DEF BookUncertain, Doubted, Trail
  <2>5. CASE \/ AuthorityRefused(r) \/ AuthorityUnavailable(r)
             \/ (\E loads \in SUBSET Loads : SearchMatched(r, loads))
             \/ SearchEmpty(r) \/ SearchDegraded(r)
             \/ DetailFound(r) \/ DetailFailed(r)
             \/ NegotiationNotOpened(r) \/ BookRefused(r)
    BY <1>2, <2>5 DEF AuthorityRefused, AuthorityUnavailable, SearchMatched,
                SearchEmpty, SearchDegraded, DetailFound, DetailFailed,
                NegotiationNotOpened, BookRefused
  <2> QED  BY <1>6, <2>1, <2>2, <2>3, <2>4, <2>5 DEF Resumes, BookSettles
<1>7. ASSUME NEW r \in Requests, AtTheTms(r) PROVE Grew
  BY <1>2, <1>7 DEF AtTheTms, TmsBooks, TmsHasItBooked, TmsRejects
<1>8. CASE \/ \E o \in orphans : OrphanLands(o)
           \/ \E l \in Loads : StrangerBooks(l)
           \/ BoardWarms \/ UNCHANGED vars
  BY <1>2, <1>8 DEF OrphanLands, StrangerBooks, BoardWarms, vars
<1> QED  BY <1>3, <1>4, <1>5, <1>6, <1>7, <1>8 DEF Next

(* A confirmation on its way stays so until its request resumes with it or *)
(* gives it up.                                                            *)
LEMMA ConfirmationsWait ==
    ASSUME BridgeKept, [Next]_vars, NEW r \in Requests, ConfirmationDue(r)
    PROVE  request'[r] = request[r] \/ BookConfirmed(r) \/ BookUncertain(r)
<1> DEFINE Waits == request'[r] = request[r] \/ BookConfirmed(r) \/ BookUncertain(r)
<1>1. request \in [Requests -> Request] /\ request[r] # Free
  BY DEF BridgeKept, TypeOK, ConfirmationDue, Free
<1>2. UNCHANGED request => Waits
  OBVIOUS
<1>3. ASSUME NEW x \in Requests, NEW q, Suspend(x, q) PROVE Waits
  BY <1>1, <1>3 DEF Suspend
<1>4. ASSUME NEW x \in Requests, Resumes(x) PROVE Waits
  <2>1. Resume(x)
    BY <1>4 DEF Resumes, BookSettles, AuthorityConfirmed, AuthorityRefused,
             AuthorityUnavailable, SearchMatched, SearchEmpty, SearchDegraded,
             DetailFound, DetailFailed, NegotiationOpened, NegotiationNotOpened,
             BookConfirmed, BookRefused, BookUncertain
  <2>2. CASE x # r
    BY <1>1, <2>1, <2>2 DEF Resume
  <2>3. CASE x = r
    BY <1>4, <2>3 DEF ConfirmationDue, Resumes, BookSettles, AuthorityConfirmed,
             AuthorityRefused, AuthorityUnavailable, SearchMatched, SearchEmpty,
             SearchDegraded, DetailFound, DetailFailed, NegotiationOpened,
             NegotiationNotOpened, BookRefused, Awaiting
  <2> QED  BY <2>2, <2>3
<1>5. ASSUME NEW x \in Requests, AtTheTms(x) PROVE Waits
  <2>1. x # r /\ \E reply : Replied(x, reply)
    BY <1>5 DEF AtTheTms, TmsBooks, TmsHasItBooked, TmsRejects, ConfirmationDue
  <2> QED  BY <1>1, <2>1 DEF Replied
<1>6. ASSUME NEW c \in Calls,
             \/ VerifyingCarrier(c) \/ ProvingIdentity(c) \/ FindingLoads(c)
             \/ Dealing(c) \/ CloseCall(c)
      PROVE  Waits
  BY <1>2, <1>3, <1>6 DEF VerifyingCarrier, VerifyGarbled, VerifyCarrier,
     ProvingIdentity, SendOtp, OtpExpires, VerifyOtp, FindingLoads, Search,
     SearchOverBudget, Detail, Dealing, Negotiate, OpenNegotiation, Book, Handoff,
     CloseCall
<1>7. CASE \/ \E o \in orphans : OrphanLands(o)
           \/ \E l \in Loads : StrangerBooks(l)
           \/ BoardWarms \/ UNCHANGED vars
  BY <1>2, <1>7 DEF OrphanLands, StrangerBooks, BoardWarms, vars
<1> QED  BY <1>4, <1>5, <1>6, <1>7 DEF Next

(* A load is taken by a request that is told so, by a write that landed    *)
(* late, or by a stranger.                                                 *)
LEMMA TakenBySomebody ==
    ASSUME [Next]_vars
    PROVE  \/ UNCHANGED tms
           \/ \E r \in Requests : TmsBooks(r)
           \/ \E o \in orphans : OrphanLands(o)
           \/ \E l \in Loads : StrangerBooks(l)
<1>1. ASSUME NEW r \in Requests, Resumes(r) PROVE UNCHANGED tms
  BY <1>1 DEF Resumes, BookSettles, AuthorityConfirmed, AuthorityRefused,
             AuthorityUnavailable, SearchMatched, SearchEmpty, SearchDegraded,
             DetailFound, DetailFailed, NegotiationOpened, NegotiationNotOpened,
             BookConfirmed, BookRefused, BookUncertain
<1>2. ASSUME NEW c \in Calls,
             \/ VerifyingCarrier(c) \/ ProvingIdentity(c) \/ FindingLoads(c)
             \/ Dealing(c) \/ CloseCall(c)
      PROVE  UNCHANGED tms
  BY <1>2 DEF VerifyingCarrier, VerifyGarbled, VerifyCarrier, ProvingIdentity,
     SendOtp, OtpExpires, VerifyOtp, CodeAccepted, CodeBurned, CodeWrong,
     FindingLoads, Search, SearchOverBudget, Detail, Dealing, Negotiate,
     OpenNegotiation, Book, Handoff, CloseCall
<1>3. ASSUME NEW r \in Requests, AtTheTms(r)
      PROVE  UNCHANGED tms \/ TmsBooks(r)
  BY <1>3 DEF AtTheTms, TmsHasItBooked, TmsRejects
<1>4. BoardWarms \/ UNCHANGED vars => UNCHANGED tms
  BY DEF BoardWarms, vars
<1> QED  BY <1>1, <1>2, <1>3, <1>4 DEF Next

(* A write is only left behind by a booking that is put up for a check.    *)
LEMMA OrphansDoubted ==
    ASSUME [Next]_vars
    PROVE  orphans' \subseteq orphans \/ \E r \in Requests : BookUncertain(r)
<1>1. ASSUME NEW r \in Requests, Resumes(r)
      PROVE  UNCHANGED orphans \/ BookUncertain(r)
  BY <1>1 DEF Resumes, BookSettles, AuthorityConfirmed, AuthorityRefused,
             AuthorityUnavailable, SearchMatched, SearchEmpty, SearchDegraded,
             DetailFound, DetailFailed, NegotiationOpened, NegotiationNotOpened,
             BookConfirmed, BookRefused
<1>2. ASSUME NEW c \in Calls,
             \/ VerifyingCarrier(c) \/ ProvingIdentity(c) \/ FindingLoads(c)
             \/ Dealing(c) \/ CloseCall(c)
      PROVE  UNCHANGED orphans
  BY <1>2 DEF VerifyingCarrier, VerifyGarbled, VerifyCarrier, ProvingIdentity,
     SendOtp, OtpExpires, VerifyOtp, CodeAccepted, CodeBurned, CodeWrong,
     FindingLoads, Search, SearchOverBudget, Detail, Dealing, Negotiate,
     OpenNegotiation, Book, Handoff, CloseCall
<1>3. ASSUME NEW r \in Requests, AtTheTms(r) PROVE UNCHANGED orphans
  BY <1>3 DEF AtTheTms, TmsBooks, TmsHasItBooked, TmsRejects
<1>4. ASSUME NEW o \in orphans, OrphanLands(o) PROVE orphans' \subseteq orphans
  BY <1>4 DEF OrphanLands
<1>5. CASE (\E l \in Loads : StrangerBooks(l)) \/ BoardWarms \/ UNCHANGED vars
  BY <1>5 DEF StrangerBooks, BoardWarms, vars
<1> QED  BY <1>1, <1>2, <1>3, <1>4, <1>5 DEF Next

(* What a call is told of a booking that ends in doubt, or well.           *)
LEMMA SettledIsHeard ==
    ASSUME BridgeKept, NEW r \in Requests, BookConfirmed(r) \/ BookUncertain(r),
           NEW c, NEW l, c = request[r].call, l = request[r].load
    PROVE  /\ c \in Calls /\ Heard(c, l)'
           /\ BookUncertain(r) => l \in trail'[c].uncertain
<1>1. trail \in [Calls -> Trail]
  BY DEF BridgeKept, TypeOK
<1>2. c \in Calls
  BY RequestFacts DEF BookConfirmed, BookUncertain, Awaiting, BookRequest
<1>3. trail[c] \in Trail
  BY <1>1, <1>2
<1>4. BookConfirmed(r) => trail'[c].confirmed = trail[c].confirmed \cup {l}
  BY <1>1, <1>2, <1>3 DEF BookConfirmed, Trail
<1>5. BookUncertain(r) => l \in trail'[c].uncertain
  BY <1>1, <1>2, <1>3 DEF BookUncertain, Doubted, Trail
<1> QED  BY <1>2, <1>4, <1>5 DEF Heard

(* A write that lands late was put up for a manual check.                  *)
LEMMA DoubtsStayLogged ==
    ASSUME BridgeKept, DoubtsLogged, [Next]_vars
    PROVE  DoubtsLogged'
<1> SUFFICES ASSUME NEW o \in orphans'
             PROVE  o.load \in trail'[o.call].uncertain
  BY DEF DoubtsLogged
<1>1. orphans \subseteq Booking
  BY DEF BridgeKept, TypeOK
<1>2. CASE o \in orphans
  <2>1. o.call \in Calls /\ o.load \in trail[o.call].uncertain
    BY <1>1, <1>2 DEF Booking, DoubtsLogged
  <2> QED  BY <2>1, LogsGrow
<1>3. CASE o \notin orphans
  <2>1. PICK r \in Requests : BookUncertain(r)
    BY <1>3, OrphansDoubted
  <2>2. o.call = request[r].call /\ o.load = request[r].load
    BY <1>3, <2>1 DEF BookUncertain, BookingOf
  <2> QED  BY <2>1, <2>2, SettledIsHeard
<1> QED  BY <1>2, <1>3

(* However a load is taken, its booking is heard of.                       *)
LEMMA NoneGoesUnheard ==
    ASSUME BridgeKept, NoneUnheard, DoubtsLogged, [Next]_vars
    PROVE  NoneUnheard'
<1> SUFFICES ASSUME NEW c \in Calls, NEW l \in Loads, HeldFor(c, l)'
             PROVE  \/ Heard(c, l)'
                    \/ \E r \in Requests :
                         ConfirmationDue(r)' /\ request'[r].call = c
                                            /\ request'[r].load = l
  BY DEF NoneUnheard
<1>1. tms \in [Loads -> Booking \cup {None, Stranger}]
      /\ request \in [Requests -> Request] /\ orphans \subseteq Booking
  BY DEF BridgeKept, TypeOK
<1>2. Heard(c, l) => Heard(c, l)'
  BY LogsGrow DEF Heard
<1>3. CASE HeldFor(c, l)
  <2>1. CASE Heard(c, l)
    BY <1>2, <2>1
  <2>2. ASSUME NEW r \in Requests,
               ConfirmationDue(r), request[r].call = c, request[r].load = l
        PROVE  \/ Heard(c, l)'
               \/ ConfirmationDue(r)' /\ request'[r].call = c
                                      /\ request'[r].load = l
    <3>1. request'[r] = request[r] \/ BookConfirmed(r) \/ BookUncertain(r)
      BY <2>2, ConfirmationsWait
    <3>2. CASE request'[r] = request[r]
      BY <2>2, <3>2 DEF ConfirmationDue
    <3>3. CASE BookConfirmed(r) \/ BookUncertain(r)
      BY <2>2, <3>3, SettledIsHeard
    <3> QED  BY <3>1, <3>2, <3>3
  <2> QED  BY <1>3, <2>1, <2>2 DEF NoneUnheard
<1>4. CASE ~HeldFor(c, l)
  <2>1. tms'[l] # tms[l] /\ tms'[l] \in Booking /\ tms'[l].call = c
    BY <1>4 DEF HeldFor
  <2>2. ASSUME NEW r \in Requests, TmsBooks(r)
        PROVE  ConfirmationDue(r)' /\ request'[r].call = c /\ request'[r].load = l
    <3>1. request[r] \in BookRequest
      BY <2>2, RequestFacts DEF TmsBooks, Awaiting
    <3>2. request[r].load = l /\ request[r].call = c
      BY <1>1, <2>1, <2>2, <3>1 DEF TmsBooks, BookingOf, BookRequest
    <3>3. request'[r] = [request[r] EXCEPT !.reply = "confirmed"]
      BY <1>1, <2>2 DEF TmsBooks, Replied
    <3> QED  BY <3>1, <3>2, <3>3 DEF ConfirmationDue, BookRequest
  <2>3. ASSUME NEW o \in orphans, OrphanLands(o) PROVE Heard(c, l)'
    <3>1. o.load = l /\ o.call = c /\ UNCHANGED trail
      BY <1>1, <2>1, <2>3 DEF OrphanLands, Booking
    <3> QED  BY <3>1 DEF DoubtsLogged, Heard
  <2>4. ASSUME NEW k \in Loads, StrangerBooks(k) PROVE FALSE
    BY <1>1, <2>1, <2>4, HolderAssumption DEF StrangerBooks
  <2> QED  BY <2>1, <2>2, <2>3, <2>4, TakenBySomebody
<1> QED  BY <1>3, <1>4

(* Whatever overlaps and is lost, no booking the TMS took goes unheard of. *)
THEOREM BookingsAreHeardOf == Spec => [](NoneUnheard /\ DoubtsLogged)
<1>1. Init => NoneUnheard /\ DoubtsLogged
  BY HolderAssumption DEF Init, NoneUnheard, DoubtsLogged, HeldFor
<1>2. BridgeKept /\ NoneUnheard /\ DoubtsLogged /\ [Next]_vars
        => (NoneUnheard /\ DoubtsLogged)'
  BY NoneGoesUnheard, DoubtsStayLogged
<1> QED  BY <1>1, <1>2, AlwaysKept, PTL DEF Spec
=============================================================================
