-------------------------- MODULE CarrierBridgePatient --------------------------
(***************************************************************************)
(* What the bridge keeps when the agent waits for each answer              *)
(* (Overlap = FALSE), for any number of calls, requests, carriers and      *)
(* loads: the identity that was verified is the one that books, the rounds *)
(* spent on a load stay spent, the ledger is enforced, and the searches    *)
(* are counted.                                                            *)
(***************************************************************************)
EXTENDS CarrierBridgeSteps

(* A call that has not booked speaks for a carrier its stage vouches for.  *)
Identified(s, t) ==
    ~s.terminated /\ s.booked = None =>
        /\ s.stage >= AUTHORITY_VERIFIED => s.mc \in t.cleared
        /\ s.stage >= IDENTITY_VERIFIED => s.mc \in t.proven

Numbered(s) ==
    \A i, j \in DOMAIN s.searches :
        /\ s.searches[i].number = i
        /\ s.searches[i].filter = s.searches[j].filter => i = j

(* What its gate saw when it was suspended still holds of a request's call.*)
Fits(q, s) ==
    /\ q.op = "verify" /\ s.stage >= OTP_SENT /\ s.mc # None => q.mc = s.mc
    /\ q.op \in FreightOps => s.stage >= IDENTITY_VERIFIED
    /\ q.op = "search" =>
         /\ \A i \in DOMAIN s.searches : s.searches[i].filter # q.filter
         /\ q.used = Len(s.searches)
         /\ q.snapshot => q.used < MaxSearches
    /\ q.op = "negotiate" =>
         /\ s.negotiations[q.load] = None
         /\ s.offered = {} \/ q.load \in s.offered

Engaged(r) == request[r].op \in FreightOps \cup {"verify"}

OneAtATime ==
    \A r, x \in Requests :
        Engaged(r) /\ Engaged(x) /\ request[r].call = request[x].call => r = x

Patient ==
    /\ OneAtATime
    /\ \A r \in Requests : Engaged(r) => Fits(request[r], session[request[r].call])
    /\ \A c \in Calls : Identified(session[c], trail[c]) /\ Numbered(session[c])

-----------------------------------------------------------------------------
(* What a step may do to the negotiations of a call.                       *)
RoundsStay(s, z) ==
    \A l \in Loads : s.negotiations[l] # None =>
        /\ z.negotiations[l] # None
        /\ Len(z.negotiations[l].rounds) >= Len(s.negotiations[l].rounds)
        /\ s.negotiations[l].status # "open" => z.negotiations[l] = s.negotiations[l]

(* A carrier's ask takes a negotiation on, or leaves it where it is.       *)
Haggles(s, z) ==
    \A l \in Loads :
        \/ Bargain(z, l) = Bargain(s, l)
        \/ \E ask \in Asks, recent \in BOOLEAN :
              Bargain(z, l) = Evaluated(Bargain(s, l), ask, recent)

PricesFromLedger(s, z) ==
    \A l \in Loads :
        s.offered # {} /\ l \notin s.offered /\ z.negotiations[l] # None
          => s.negotiations[l] # None

(* A call's searches grow by what a suspended search records.              *)
Searching(c, z) ==
    \/ z.searches = session[c].searches
    \/ \E r \in Requests :
          /\ request[r].op = "search" /\ request[r].call = c
          /\ Len(z.searches) = request[r].used + 1

Holding(s, z, t, u) ==
    /\ Identified(s, t) => Identified(z, u)
    /\ Numbered(s) => Numbered(z)
    /\ RoundsStay(s, z)
    /\ Haggles(s, z)
    /\ PricesFromLedger(s, z)

Steady ==
    \A c \in Calls :
        /\ RoundsStay(session[c], session'[c])
        /\ Haggles(session[c], session'[c])
        /\ PricesFromLedger(session[c], session'[c])
        /\ Searching(c, session'[c])

(* A call left alone loses no rounds.                                      *)
LEMMA Untouched ==
    ASSUME NEW s \in CallRecord
    PROVE  RoundsStay(s, s) /\ Haggles(s, s) /\ PricesFromLedger(s, s)
<1>1. ASSUME NEW l \in Loads, s.negotiations[l] # None
      PROVE  Len(s.negotiations[l].rounds) \in Nat
  BY <1>1 DEF CallRecord, NegotiationRecord
<1> QED  BY <1>1 DEF RoundsStay, Haggles, Bargain, PricesFromLedger

(* A request is engaged exactly when its slot is taken.                    *)
LEMMA EngagedOrFree ==
    ASSUME BridgeKept, NEW r \in Requests
    PROVE  /\ ~Engaged(r) => request[r] = Free
           /\ Engaged(r) => request[r] # Free /\ request[r].call \in Calls
BY RequestFacts DEF Engaged, Request, Free, VerifyRequest, SearchRequest,
   DetailRequest, NegotiateRequest, BookRequest, FreightOps

(* A call's step disturbs nobody who is still suspended.                   *)
LEMMA PatientMoves ==
    ASSUME BridgeKept, Patient, NEW c \in Calls, NEW z, NEW u,
           Becomes(c, z), trail' = [trail EXCEPT ![c] = u],
           Holding(session[c], z, trail[c], u), Searching(c, z),
           \A x \in Requests :
               request'[x] # Free => request'[x] = request[x] /\ request[x].call # c
    PROVE  Patient' /\ Steady
<1>1. session \in [Calls -> CallRecord] /\ trail \in [Calls -> Trail]
  BY DEF BridgeKept, TypeOK
<1>2. \A x \in Requests : Engaged(x)' =>
         Engaged(x) /\ request'[x] = request[x] /\ request[x].call # c
  BY DEF Engaged, Free, FreightOps
<1>3. OneAtATime'
  BY <1>2 DEF Patient, OneAtATime
<1>4. \A x \in Requests : Engaged(x)' => Fits(request'[x], session'[request'[x].call])
  <2> SUFFICES ASSUME NEW x \in Requests, Engaged(x)'
               PROVE  Fits(request'[x], session'[request'[x].call])
    OBVIOUS
  <2>1. Engaged(x) /\ request'[x] = request[x] /\ request[x].call # c
    BY <1>2
  <2>2. request[x].call \in Calls
    BY <2>1, EngagedOrFree
  <2>3. session'[request[x].call] = session[request[x].call]
    BY <1>1, <2>1, <2>2 DEF Becomes
  <2> QED  BY <2>1, <2>3 DEF Patient
<1>5. \A d \in Calls : Identified(session'[d], trail'[d]) /\ Numbered(session'[d])
  BY <1>1 DEF Becomes, Patient, Holding
<1>6. Steady
  BY <1>1, Untouched DEF Becomes, Holding, Steady, Searching
<1> QED  BY <1>3, <1>4, <1>5, <1>6 DEF Patient

(* Nobody is suspended on a call whose handler may start.                  *)
LEMMA NobodyWaits ==
    ASSUME ~Overlap, BridgeKept, NEW c \in Calls, MayCall(c), UNCHANGED request
    PROVE  \A x \in Requests :
               request'[x] # Free => request'[x] = request[x] /\ request[x].call # c
BY DEF MayCall

(* Nor on one whose only request has just resumed.                         *)
LEMMA NobodyElseWaits ==
    ASSUME BridgeKept, Patient, NEW r \in Requests, Engaged(r), Resume(r)
    PROVE  \A x \in Requests :
               request'[x] # Free =>
                   request'[x] = request[x] /\ request[x].call # request[r].call
<1> SUFFICES ASSUME NEW x \in Requests, request'[x] # Free
             PROVE  request'[x] = request[x] /\ request[x].call # request[r].call
  OBVIOUS
<1>1. request \in [Requests -> Request]
  BY DEF BridgeKept, TypeOK
<1>2. x # r /\ request'[x] = request[x]
  BY <1>1 DEF Resume
<1>3. Engaged(x)
  BY <1>2, EngagedOrFree
<1> QED  BY <1>2, <1>3 DEF Patient, OneAtATime

(* A handler suspends on a call nobody else is suspended on.               *)
LEMMA PatientSuspends ==
    ASSUME ~Overlap, BridgeKept, Patient, NEW c \in Calls, NEW r \in Requests,
           MayCall(c), NEW q, Suspend(r, q), q.call = c, Fits(q, session[c]),
           UNCHANGED <<session, trail>>
    PROVE  Patient' /\ Steady
<1>1. request \in [Requests -> Request]
  BY DEF BridgeKept, TypeOK
<1>2. \A x \in Requests : x # r => request'[x] = request[x]
  BY <1>1 DEF Suspend
<1>3. request'[r] = q
  BY <1>1 DEF Suspend
<1>4. \A x \in Requests : Engaged(x) => request[x].call # c
  BY EngagedOrFree DEF MayCall
<1>5. OneAtATime'
  BY <1>2, <1>3, <1>4 DEF OneAtATime, Engaged, Patient
<1>6. \A x \in Requests : Engaged(x)' => Fits(request'[x], session'[request'[x].call])
  BY <1>2, <1>3 DEF Engaged, Patient
<1>7. Steady
  BY Untouched DEF Steady, Searching, BridgeKept, TypeOK
<1> QED  BY <1>5, <1>6, <1>7 DEF Patient

(* A request ends or hears of an answer, and its call is left alone.       *)
LEMMA PatientRests ==
    ASSUME BridgeKept, Patient, UNCHANGED session,
           \A d \in Calls : trail'[d].cleared = trail[d].cleared
                            /\ trail'[d].proven = trail[d].proven,
           \A x \in Requests : Engaged(x)' =>
               /\ Engaged(x)
               /\ request'[x].call = request[x].call
               /\ \A s : Fits(request[x], s) => Fits(request'[x], s)
    PROVE  Patient' /\ Steady
<1>1. Steady
  BY Untouched DEF Steady, Searching, BridgeKept, TypeOK
<1>2. Patient'
  BY DEF Patient, OneAtATime, Identified
<1> QED  BY <1>1, <1>2

-----------------------------------------------------------------------------
(* A step that leaves the carrier, the searches and the negotiations of a  *)
(* call alone, and its stage within what the history vouches for.          *)
LEMMA Plain ==
    ASSUME NEW s \in CallRecord, NEW z \in CallRecord, NEW t, NEW u,
           t.cleared \subseteq u.cleared, t.proven \subseteq u.proven,
           z.mc = s.mc, z.searches = s.searches, z.negotiations = s.negotiations,
           z.booked = s.booked \/ z.booked # None,
           \/ z.terminated
           \/ /\ z.terminated = s.terminated
              /\ \/ z.stage = s.stage
                 \/ s.stage >= AUTHORITY_VERIFIED /\ z.stage < IDENTITY_VERIFIED
                 \/ s.stage >= AUTHORITY_VERIFIED /\ s.mc \in u.proven
                 \/ s.stage >= IDENTITY_VERIFIED
    PROVE  Holding(s, z, t, u)
<1>1. s.stage \in Nat /\ z.stage \in Nat
  BY StageOrder
<1>2. Identified(s, t) => Identified(z, u)
  BY <1>1 DEF Identified, AUTHORITY_VERIFIED, IDENTITY_VERIFIED
<1>3. Numbered(s) => Numbered(z)
  BY DEF Numbered
<1>4. RoundsStay(s, z) /\ Haggles(s, z) /\ PricesFromLedger(s, z)
  BY Untouched DEF RoundsStay, Haggles, Bargain, PricesFromLedger
<1> QED  BY <1>2, <1>3, <1>4 DEF Holding

(* A handler without an await, whose step is done.                         *)
LEMMA HandlerDone ==
    ASSUME ~Overlap, BridgeKept, Patient, NEW c \in Calls, NEW z, MayCall(c),
           Becomes(c, z), UNCHANGED <<request, trail>>,
           Holding(session[c], z, trail[c], trail[c]), Searching(c, z)
    PROVE  Patient' /\ Steady
<1>1. trail' = [trail EXCEPT ![c] = trail[c]]
  BY DEF BridgeKept, TypeOK
<1> QED  BY <1>1, NobodyWaits, PatientMoves

(* A request that resumes and moves its call.                              *)
LEMMA RequestDone ==
    ASSUME BridgeKept, Patient, NEW r \in Requests, Engaged(r), Resume(r),
           NEW z, Becomes(request[r].call, z), UNCHANGED trail,
           Holding(session[request[r].call], z,
                   trail[request[r].call], trail[request[r].call]),
           Searching(request[r].call, z)
    PROVE  Patient' /\ Steady
<1>1. request[r].call \in Calls
  BY EngagedOrFree
<1>2. trail' = [trail EXCEPT ![request[r].call] = trail[request[r].call]]
  BY <1>1 DEF BridgeKept, TypeOK
<1> QED  BY <1>1, <1>2, NobodyElseWaits, PatientMoves

(* One that resumes and moves nothing.                                     *)
LEMMA RequestGone ==
    ASSUME BridgeKept, Patient, NEW r \in Requests, Resume(r),
           UNCHANGED session,
           \A d \in Calls : trail'[d].cleared = trail[d].cleared
                            /\ trail'[d].proven = trail[d].proven
    PROVE  Patient' /\ Steady
<1>1. request \in [Requests -> Request]
  BY DEF BridgeKept, TypeOK
<1>2. \A x \in Requests : Engaged(x)' => Engaged(x) /\ request'[x] = request[x]
  BY <1>1 DEF Resume, Engaged, Free, FreightOps
<1> QED  BY <1>2, PatientRests

(* A call that has ended or booked need not speak for anybody.             *)
LEMMA Vacant ==
    ASSUME NEW s \in CallRecord, NEW z, NEW t,
           z.searches = s.searches, z.negotiations = s.negotiations,
           z.terminated \/ z.booked # None
    PROVE  Holding(s, z, t, t)
BY Untouched
   DEF Holding, Identified, Numbered, RoundsStay, Haggles, Bargain,
       PricesFromLedger

-----------------------------------------------------------------------------
(* The routes.                                                             *)

(* A call whose carrier is refused has ended, or has booked before.        *)
LEMMA RefusedHolding ==
    ASSUME NEW s \in CallRecord, NEW mc \in Mc, NEW t
    PROVE  /\ Holding(s, Refused(s, mc), t, t)
           /\ Refused(s, mc).searches = s.searches
<1> DEFINE n == [s EXCEPT !.mc = mc, !.outcome = "rejected_authority"]
<1>1. /\ n \in CallRecord /\ n.searches = s.searches
      /\ n.negotiations = s.negotiations /\ n.booked = s.booked
  BY DEF CallRecord, Outcome
<1>2. s.booked = None => Refused(s, mc) = Terminate(n)
  BY DEF Refused
<1>3. s.booked # None => Refused(s, mc) = n
  BY DEF Refused
<1> HIDE DEF n
<1>4. /\ Terminate(n).searches = n.searches /\ Terminate(n).terminated
      /\ Terminate(n).negotiations = n.negotiations
  BY <1>1, Terminated, TerminatedOnly
<1> QED  BY <1>1, <1>2, <1>3, <1>4, Vacant

(* The authority check.  Behind the lock a late answer is about the carrier*)
(* the call already speaks for.                                            *)
LEMMA VerifyingPatient ==
    ASSUME ~Overlap, BridgeKept, Patient, NEW c \in Calls, VerifyingCarrier(c)
    PROVE  Patient' /\ Steady
<1>1. session[c] \in CallRecord
  BY CallFacts
<1>2. ASSUME NEW digits \in BOOLEAN, VerifyGarbled(c, digits)
      PROVE  Patient' /\ Steady
  <2> DEFINE z == Refused(session[c], Garbled)
  <2>1. Garbled \in Mc
    BY DEF Mc
  <2>2. MayCall(c) /\ Becomes(c, z) /\ UNCHANGED <<request, trail>>
    BY <1>2 DEF VerifyGarbled
  <2>3. Holding(session[c], z, trail[c], trail[c]) /\ Searching(c, z)
    BY <1>1, <2>1, RefusedHolding DEF Searching
  <2> HIDE DEF z
  <2> QED  BY <2>2, <2>3, HandlerDone
<1>3. ASSUME NEW r \in Requests, NEW mc \in MCs, NEW padded \in BOOLEAN,
             VerifyCarrier(c, r, mc, padded)
      PROVE  Patient' /\ Steady
  <2> DEFINE q == [op |-> "verify", call |-> c, mc |-> mc]
  <2>1. /\ MayCall(c) /\ Suspend(r, q) /\ q.call = c
        /\ UNCHANGED <<session, trail>>
    BY <1>3 DEF VerifyCarrier
  <2>2. Fits(q, session[c])
    BY <1>3 DEF Fits, VerifyCarrier, IdentityLocked, FreightOps
  <2> HIDE DEF q
  <2> QED  BY <2>1, <2>2, PatientSuspends
<1> QED  BY <1>2, <1>3 DEF VerifyingCarrier

(* The FMCSA answers on the carrier the call may still change to.          *)
LEMMA AuthorityPatient ==
    ASSUME BridgeKept, Patient, NEW r \in Requests, AuthorityConfirmed(r)
    PROVE  Patient' /\ Steady
<1> DEFINE q == request[r]
           c == q.call
           s == session[c]
           n == [s EXCEPT !.mc = q.mc]
           z == AdvanceTo(n, AUTHORITY_VERIFIED)
           t == trail[c]
           u == [t EXCEPT !.cleared = @ \cup {q.mc}]
<1>1. q.op = "verify" /\ c \in Calls /\ q.mc \in MCs /\ Engaged(r)
  BY RequestFacts DEF AuthorityConfirmed, Awaiting, VerifyRequest, Engaged
<1>2. s \in CallRecord /\ t \in Trail
  BY <1>1, CallFacts
<1>3. /\ n \in CallRecord /\ n.mc = q.mc /\ n.stage = s.stage
      /\ n.terminated = s.terminated /\ n.booked = s.booked
      /\ n.searches = s.searches /\ n.negotiations = s.negotiations
  BY <1>1, <1>2 DEF CallRecord, Mc
<1>4. /\ u.cleared = t.cleared \cup {q.mc} /\ u.proven = t.proven
      /\ t.cleared \subseteq MCs
  BY <1>1, <1>2 DEF Trail
<1>5. Becomes(c, z) /\ trail' = [trail EXCEPT ![c] = u] /\ Resume(r)
  BY <1>1 DEF AuthorityConfirmed, Authorised, BridgeKept, TypeOK
<1>6. AUTHORITY_VERIFIED \in Stage
  BY DEF Stage
<1> HIDE DEF n, u
<1>7. /\ z.stage \in {s.stage, AUTHORITY_VERIFIED} /\ z.mc = q.mc
      /\ z.terminated = s.terminated /\ z.booked = s.booked
      /\ z.searches = s.searches /\ z.negotiations = s.negotiations
  BY <1>3, <1>6, Advanced, AdvancedOnly
<1>8. Fits(q, s) /\ Identified(s, t)
  BY <1>1 DEF Patient
<1>9. Identified(z, u)
  <2>1. s.stage \in Nat /\ None \notin MCs
    BY <1>2, StageOrder, SessionAssumption
  <2>2. CASE ~z.terminated /\ z.booked = None /\ z.stage >= IDENTITY_VERIFIED
    <3>1. s.stage >= IDENTITY_VERIFIED /\ z.stage = s.stage
      BY <1>7, <2>2 DEF AUTHORITY_VERIFIED, IDENTITY_VERIFIED
    <3>2. s.mc \in t.cleared /\ s.mc \in t.proven
      BY <1>7, <1>8, <2>1, <2>2, <3>1
         DEF Identified, AUTHORITY_VERIFIED, IDENTITY_VERIFIED
    <3>3. s.mc # None /\ s.stage >= OTP_SENT
      BY <1>4, <2>1, <3>1, <3>2 DEF OTP_SENT, IDENTITY_VERIFIED
    <3>4. q.mc = s.mc
      BY <1>1, <1>8, <3>3 DEF Fits
    <3> QED  BY <1>4, <1>7, <3>2, <3>4 DEF Identified
  <2>3. CASE ~(~z.terminated /\ z.booked = None /\ z.stage >= IDENTITY_VERIFIED)
    BY <1>4, <1>7, <2>3 DEF Identified
  <2> QED  BY <2>2, <2>3
<1>10. Holding(s, z, t, u)
  BY <1>2, <1>7, <1>9, Untouched
     DEF Holding, Numbered, RoundsStay, Haggles, Bargain, PricesFromLedger
<1>11. Searching(c, z)
  BY <1>7 DEF Searching
<1> HIDE DEF z
<1> QED  BY <1>1, <1>5, <1>10, <1>11, NobodyElseWaits, PatientMoves

(* A code expires under whoever is suspended: no gate of theirs looks.     *)
LEMMA ExpiryPatient ==
    ASSUME BridgeKept, Patient, NEW c \in Calls, OtpExpires(c)
    PROVE  Patient' /\ Steady
<1>1. session \in [Calls -> CallRecord] /\ session[c] \in CallRecord
  BY DEF BridgeKept, TypeOK
<1>2. UNCHANGED <<request, trail>>
  BY DEF OtpExpires
<1>3. \A d \in Calls :
        /\ session'[d].stage = session[d].stage
        /\ session'[d].mc = session[d].mc
        /\ session'[d].terminated = session[d].terminated
        /\ session'[d].booked = session[d].booked
        /\ session'[d].searches = session[d].searches
        /\ session'[d].offered = session[d].offered
        /\ session'[d].negotiations = session[d].negotiations
  BY <1>1 DEF OtpExpires, CallRecord
<1>4. ASSUME NEW r \in Requests, Engaged(r)'
      PROVE  Fits(request'[r], session'[request'[r].call])
  <2>1. Engaged(r) /\ request'[r] = request[r] /\ request[r].call \in Calls
    BY <1>2, <1>4, EngagedOrFree DEF Engaged
  <2> DEFINE q == request[r]
             s == session[q.call]
             z == session'[q.call]
  <2>2. Fits(q, s)
    BY <2>1 DEF Patient
  <2>3. /\ z.stage = s.stage /\ z.mc = s.mc /\ z.searches = s.searches
        /\ z.offered = s.offered /\ z.negotiations = s.negotiations
    BY <1>3, <2>1
  <2> HIDE DEF q, s, z
  <2>4. Fits(q, z)
    BY <2>2, <2>3 DEF Fits
  <2> QED  BY <2>1, <2>4 DEF q, z
<1>5. OneAtATime'
  BY <1>2 DEF Patient, OneAtATime, Engaged
<1>6. \A d \in Calls : Identified(session'[d], trail'[d]) /\ Numbered(session'[d])
  BY <1>2, <1>3 DEF Patient, Identified, Numbered
<1>7. Steady
  BY <1>1, <1>3, Untouched
     DEF Steady, Searching, RoundsStay, Haggles, Bargain, PricesFromLedger
<1> QED  BY <1>4, <1>5, <1>6, <1>7 DEF Patient

(* The code is verified for the carrier the call speaks for, which was     *)
(* cleared.                                                                *)
LEMMA CodePatient ==
    ASSUME ~Overlap, BridgeKept, Patient, NEW c \in Calls, MayCall(c),
           NEW otp \in OtpChallenge, Passes(session[c], OTP_SENT),
           CodeAccepted(c, otp), UNCHANGED request
    PROVE  Patient' /\ Steady
<1> DEFINE s == session[c]
           n == [s EXCEPT !.otp = otp]
           z == AdvanceTo(n, IDENTITY_VERIFIED)
           t == trail[c]
           u == [t EXCEPT !.proven = @ \cup {s.mc}]
<1>1. s \in CallRecord /\ t \in Trail
  BY CallFacts
<1>2. /\ n \in CallRecord /\ n.mc = s.mc /\ n.stage = s.stage
      /\ n.terminated = s.terminated /\ n.booked = s.booked
      /\ n.searches = s.searches /\ n.negotiations = s.negotiations
  BY <1>1 DEF CallRecord
<1>3. /\ t.cleared \subseteq u.cleared /\ t.proven \subseteq u.proven
      /\ s.mc \in u.proven
  BY <1>1 DEF Trail
<1>4. Becomes(c, z) /\ trail' = [trail EXCEPT ![c] = u]
  BY DEF CodeAccepted, BridgeKept, TypeOK
<1>5. IDENTITY_VERIFIED \in Stage /\ s.stage \in Nat
  BY <1>1, StageOrder DEF Stage
<1>6. s.stage >= AUTHORITY_VERIFIED
  BY <1>5 DEF Passes, AUTHORITY_VERIFIED, OTP_SENT
<1> HIDE DEF n, u
<1>7. /\ z \in CallRecord /\ z.stage \in {s.stage, IDENTITY_VERIFIED}
      /\ z.mc = s.mc /\ z.terminated = s.terminated /\ z.booked = s.booked
      /\ z.searches = s.searches /\ z.negotiations = s.negotiations
  BY <1>2, <1>5, Advanced, AdvancedOnly
<1> HIDE DEF z
<1>8. Holding(s, z, t, u)
  BY <1>1, <1>3, <1>6, <1>7, Plain
<1>9. Searching(c, z)
  BY <1>7 DEF Searching
<1> QED  BY <1>4, <1>8, <1>9, NobodyWaits, PatientMoves

(* POST /v1/otp/send and /v1/otp/verify, and the passing of the TTL.       *)
LEMMA ProvingPatient ==
    ASSUME ~Overlap, BridgeKept, Patient, NEW c \in Calls, ProvingIdentity(c)
    PROVE  Patient' /\ Steady
<1> DEFINE s == session[c]
<1>1. s \in CallRecord /\ s.otp \in OtpChallenge \cup {None} /\ s.stage \in Nat
  BY CallFacts, StageOrder DEF CallRecord
<1>2. CASE SendOtp(c)
  <2> DEFINE n == [s EXCEPT !.otp = FreshChallenge]
             z == AdvanceTo(n, OTP_SENT)
  <2>1. FreshChallenge \in OtpChallenge
    BY SessionAssumption DEF FreshChallenge, OtpChallenge
  <2>2. /\ n \in CallRecord /\ n.mc = s.mc /\ n.stage = s.stage
        /\ n.terminated = s.terminated /\ n.booked = s.booked
        /\ n.searches = s.searches /\ n.negotiations = s.negotiations
    BY <1>1, <2>1 DEF CallRecord
  <2>3. /\ MayCall(c) /\ Becomes(c, z) /\ UNCHANGED <<request, trail>>
        /\ s.stage >= AUTHORITY_VERIFIED
    BY <1>2 DEF SendOtp, Passes
  <2>4. OTP_SENT \in Stage
    BY DEF Stage
  <2> HIDE DEF n
  <2>5. /\ z \in CallRecord /\ z.stage \in {s.stage, OTP_SENT}
        /\ z.mc = s.mc /\ z.terminated = s.terminated /\ z.booked = s.booked
        /\ z.searches = s.searches /\ z.negotiations = s.negotiations
    BY <2>2, <2>4, Advanced, AdvancedOnly
  <2> HIDE DEF z
  <2>6. Holding(s, z, trail[c], trail[c]) /\ Searching(c, z)
    BY <1>1, <2>3, <2>5, Plain DEF Searching, OTP_SENT, IDENTITY_VERIFIED
  <2> QED  BY <2>3, <2>6, HandlerDone
<1>3. CASE OtpExpires(c)
  BY <1>3, ExpiryPatient
<1>4. ASSUME NEW correct \in BOOLEAN, VerifyOtp(c, correct)
      PROVE  Patient' /\ Steady
  <2> DEFINE otp == Tried(s.otp)
             b == [s EXCEPT !.otp = otp, !.outcome = "failed_identity"]
             w == [s EXCEPT !.otp = otp]
  <2>1. /\ MayCall(c) /\ Passes(s, OTP_SENT) /\ UNCHANGED request
        /\ s.otp \in OtpChallenge
    BY <1>1, <1>4 DEF VerifyOtp
  <2>2. otp \in OtpChallenge /\ [otp EXCEPT !.verified = TRUE] \in OtpChallenge
    BY <2>1, TriedType
  <2>3. CASE CodeAccepted(c, [otp EXCEPT !.verified = TRUE])
    <3> HIDE DEF otp
    <3> QED  BY <2>1, <2>2, <2>3, CodePatient
  <2>4. CASE CodeBurned(c, otp)
    <3>1. /\ b \in CallRecord /\ b.searches = s.searches
          /\ b.negotiations = s.negotiations
      BY <1>1, <2>2 DEF CallRecord, Outcome
    <3>2. Becomes(c, Terminate(b)) /\ UNCHANGED trail
      BY <2>4 DEF CodeBurned
    <3> HIDE DEF b
    <3>3. /\ Terminate(b).terminated /\ Terminate(b).searches = s.searches
          /\ Terminate(b).negotiations = s.negotiations
      BY <3>1, Terminated, TerminatedOnly
    <3>4. Holding(s, Terminate(b), trail[c], trail[c]) /\ Searching(c, Terminate(b))
      BY <1>1, <3>3, Vacant DEF Searching
    <3> QED  BY <2>1, <3>2, <3>4, HandlerDone
  <2>5. CASE CodeWrong(c, otp)
    <3>1. /\ w \in CallRecord /\ w.mc = s.mc /\ w.stage = s.stage
          /\ w.terminated = s.terminated /\ w.booked = s.booked
          /\ w.searches = s.searches /\ w.negotiations = s.negotiations
      BY <1>1, <2>2 DEF CallRecord
    <3>2. Becomes(c, w) /\ UNCHANGED trail
      BY <2>5 DEF CodeWrong
    <3> HIDE DEF w
    <3>3. Holding(s, w, trail[c], trail[c]) /\ Searching(c, w)
      BY <1>1, <3>1, Plain DEF Searching
    <3> QED  BY <2>1, <3>2, <3>3, HandlerDone
  <2> HIDE DEF otp, b, w
  <2> QED  BY <1>4, <2>3, <2>4, <2>5 DEF VerifyOtp, otp
<1> QED  BY <1>2, <1>3, <1>4 DEF ProvingIdentity

(* Searching and looking, up to the await.                                 *)
LEMMA FindingPatient ==
    ASSUME ~Overlap, BridgeKept, Patient, NEW c \in Calls, FindingLoads(c)
    PROVE  Patient' /\ Steady
<1> DEFINE s == session[c]
<1>1. s \in CallRecord /\ s.searches \in Seq(SearchAttempt)
  BY CallFacts DEF CallRecord
<1>2. ASSUME NEW r \in Requests, NEW f \in Filters, Search(c, r, f)
      PROVE  Patient' /\ Steady
  <2> DEFINE q == [op |-> "search", call |-> c, filter |-> f,
                   used |-> Used(c), snapshot |-> board]
  <2>1. /\ MayCall(c) /\ Suspend(r, q) /\ q.call = c
        /\ UNCHANGED <<session, trail>>
    BY <1>2 DEF Search
  <2>2. /\ q.op = "search" /\ q.filter = f /\ q.used = Len(s.searches)
        /\ s.stage >= IDENTITY_VERIFIED
        /\ \A i \in DOMAIN s.searches : s.searches[i].filter # f
        /\ q.snapshot => q.used < MaxSearches
    <3>1. Len(s.searches) \in Nat /\ MaxSearches \in Nat
      BY <1>1, SessionAssumption
    <3> QED  BY <1>2, <3>1 DEF Search, Searched, Used, BudgetSpent, Passes
  <2> HIDE DEF q
  <2>3. Fits(q, s)
    BY <2>2 DEF Fits
  <2> QED  BY <2>1, <2>3, PatientSuspends
<1>3. ASSUME NEW loads \in SUBSET Loads, SearchOverBudget(c, loads)
      PROVE  Patient' /\ Steady
  <2> DEFINE z == HandedOver(s, loads)
  <2>1. MayCall(c) /\ Becomes(c, z) /\ UNCHANGED <<request, trail>>
    BY <1>3 DEF SearchOverBudget
  <2>2. /\ z \in CallRecord /\ z.mc = s.mc /\ z.stage = s.stage
        /\ z.terminated = s.terminated /\ z.booked = s.booked
        /\ z.searches = s.searches /\ z.negotiations = s.negotiations
    BY <1>1 DEF HandedOver, CallRecord
  <2> HIDE DEF z
  <2>3. Holding(s, z, trail[c], trail[c]) /\ Searching(c, z)
    BY <1>1, <2>2, Plain DEF Searching
  <2> QED  BY <2>1, <2>3, HandlerDone
<1>4. ASSUME NEW r \in Requests, NEW l \in Loads, Detail(c, r, l)
      PROVE  Patient' /\ Steady
  <2> DEFINE q == [op |-> "detail", call |-> c, load |-> l]
  <2>1. /\ MayCall(c) /\ Suspend(r, q) /\ q.call = c
        /\ UNCHANGED <<session, trail>>
    BY <1>4 DEF Detail
  <2>2. q.op = "detail" /\ s.stage >= IDENTITY_VERIFIED
    BY <1>4 DEF Detail, Passes
  <2> HIDE DEF q
  <2>3. Fits(q, s)
    BY <2>2 DEF Fits
  <2> QED  BY <2>1, <2>3, PatientSuspends
<1> QED  BY <1>2, <1>3, <1>4 DEF FindingLoads

(* An evaluation adds rounds and never takes any back, and a closed        *)
(* negotiation stands.                                                     *)
LEMMA EvaluatedAdds ==
    ASSUME NEW n, Sound(n), NEW ask \in Ask, NEW recent \in BOOLEAN
    PROVE  /\ Len(Evaluated(n, ask, recent).rounds) >= Len(n.rounds)
           /\ n.status # "open" => Evaluated(n, ask, recent) = n
<1> DEFINE m == Evaluated(n, ask, recent)
           k == Counted(n, ask)
<1>1. n \in NegotiationRecord /\ n.rounds \in Seq(Round) /\ Len(n.rounds) \in Nat
  BY DEF Sound, NegotiationRecord
<1>2. n.status # "open" => m = n
  BY DEF Evaluated, Stands
<1>3. k \in NegotiationRecord /\ k.rounds = n.rounds
  BY <1>1 DEF Counted, NegotiationRecord
<1>4. m \in {n, FailedOutright(n), Accepted(k, ask), Rejected(k, ask), Countered(k, ask)}
  BY DEF Evaluated
<1> HIDE DEF m, k
<1>5. FailedOutright(n).rounds = n.rounds
  BY <1>1 DEF FailedOutright, NegotiationRecord
<1>6. \A x \in {Accepted(k, ask), Rejected(k, ask), Countered(k, ask)} :
          \E r : x.rounds = Append(k.rounds, r)
  BY <1>3 DEF Accepted, Rejected, Countered, Written, NegotiationRecord
<1>7. \A r : Len(Append(n.rounds, r)) = Len(n.rounds) + 1
  BY <1>1
<1>8. Len(m.rounds) \in {Len(n.rounds), Len(n.rounds) + 1}
  BY <1>3, <1>4, <1>5, <1>6, <1>7
<1> QED  BY <1>1, <1>2, <1>8 DEF m

(* What negotiate leaves of a call, apart from the outcome.                *)
LEMMA PricedLeaves ==
    ASSUME NEW n \in CallRecord, NEW l \in Loads, NEW ask \in Asks,
           NEW recent \in BOOLEAN, n.negotiations[l] # None,
           Sound(n.negotiations[l]), NEW z, z = Priced(n, l, ask, recent)
    PROVE  /\ z.stage \in {n.stage, RATE_AGREED}
           /\ z.mc = n.mc /\ z.terminated = n.terminated /\ z.booked = n.booked
           /\ z.searches = n.searches
           /\ \A k \in Loads : k # l => z.negotiations[k] = n.negotiations[k]
           /\ z.negotiations[l] \in
                  {n.negotiations[l], Evaluated(n.negotiations[l], ask, recent)}
<1> DEFINE new == Evaluated(n.negotiations[l], ask, recent)
           v == [n EXCEPT !.negotiations[l] = new]
           w == [v EXCEPT !.agreed = new.agreed, !.selected = l]
           x == [v EXCEPT !.outcome = "failed_negotiation"]
<1>1. new \in NegotiationRecord /\ new.agreed \in Rate \cup {NoRate}
  BY SessionAssumption, EvaluatedMoves DEF NegotiationRecord
<1>2. z \in {n, AdvanceTo(w, RATE_AGREED), x, v}
  BY DEF Priced, DecisionOf
<1> HIDE DEF new
<1>3. n.negotiations \in [Loads -> NegotiationRecord \cup {None}]
  BY DEF CallRecord
<1>4. /\ v \in CallRecord /\ v.stage = n.stage /\ v.mc = n.mc
      /\ v.terminated = n.terminated /\ v.booked = n.booked
      /\ v.searches = n.searches
      /\ v.negotiations = [n.negotiations EXCEPT ![l] = new]
  BY <1>1, <1>3 DEF CallRecord
<1>5. /\ \A k \in Loads : k # l => v.negotiations[k] = n.negotiations[k]
      /\ v.negotiations[l] = new
  BY <1>3, <1>4
<1> HIDE DEF v
<1>6. /\ w \in CallRecord /\ w.stage = n.stage /\ w.mc = n.mc
      /\ w.terminated = n.terminated /\ w.booked = n.booked
      /\ w.searches = n.searches /\ w.negotiations = v.negotiations
  BY <1>1, <1>4 DEF CallRecord
<1>7. /\ x \in CallRecord /\ x.stage = n.stage /\ x.mc = n.mc
      /\ x.terminated = n.terminated /\ x.booked = n.booked
      /\ x.searches = n.searches /\ x.negotiations = v.negotiations
  BY <1>4 DEF CallRecord, Outcome
<1>8. RATE_AGREED \in Stage
  BY DEF Stage
<1> HIDE DEF w, x
<1>9. /\ AdvanceTo(w, RATE_AGREED).stage \in {n.stage, RATE_AGREED}
      /\ AdvanceTo(w, RATE_AGREED).mc = n.mc
      /\ AdvanceTo(w, RATE_AGREED).terminated = n.terminated
      /\ AdvanceTo(w, RATE_AGREED).booked = n.booked
      /\ AdvanceTo(w, RATE_AGREED).searches = n.searches
      /\ AdvanceTo(w, RATE_AGREED).negotiations = v.negotiations
  BY <1>6, <1>8, Advanced, AdvancedOnly
<1> HIDE DEF v
<1>10. CASE z = AdvanceTo(w, RATE_AGREED)
  BY <1>5, <1>9, <1>10 DEF new
<1>11. CASE z \in {n, v, x}
  BY <1>4, <1>5, <1>7, <1>11 DEF new
<1> QED  BY <1>2, <1>10, <1>11

(* Naming a number is no clearance and no proof.                           *)
LEMMA NamedLeaves ==
    ASSUME BridgeKept, NEW c \in Calls, NEW l \in Loads, NEW ask \in Asks,
           Named(c, l, ask)
    PROVE  \E u : /\ trail' = [trail EXCEPT ![c] = u]
                  /\ u.cleared = trail[c].cleared /\ u.proven = trail[c].proven
<1> DEFINE u == [trail[c] EXCEPT !.named = @ \cup {<<l, ask>>}]
<1>1. trail[c] \in Trail
  BY CallFacts
<1>2. trail' = [trail EXCEPT ![c] = u]
  BY DEF Named, BridgeKept, TypeOK
<1>3. u.cleared = trail[c].cleared /\ u.proven = trail[c].proven
  BY <1>1 DEF Trail
<1> QED  BY <1>2, <1>3

(* A load under negotiation, handed off, priced for the first time or sent *)
(* to be booked.                                                           *)
LEMMA DealingPatient ==
    ASSUME ~Overlap, BridgeKept, Patient, NEW c \in Calls, Dealing(c)
    PROVE  Patient' /\ Steady
<1> DEFINE s == session[c]
<1>1. s \in CallRecord /\ DealsKept(s, trail[c]) /\ s.stage \in Nat
  BY CallFacts, StageOrder DEF CallKept
<1>2. ASSUME NEW l \in Loads, NEW ask \in Asks, NEW recent \in BOOLEAN,
             Negotiate(c, l, ask, recent)
      PROVE  Patient' /\ Steady
  <2> DEFINE z == Priced(s, l, ask, recent)
             old == s.negotiations[l]
  <2>1. /\ MayCall(c) /\ Becomes(c, z) /\ UNCHANGED request
        /\ old # None /\ Sound(old) /\ s.stage >= IDENTITY_VERIFIED
    BY <1>1, <1>2 DEF Negotiate, DealsKept, Priceworthy, Passes
  <2>2. PICK u : /\ trail' = [trail EXCEPT ![c] = u]
                 /\ u.cleared = trail[c].cleared /\ u.proven = trail[c].proven
    BY <1>2, NamedLeaves DEF Negotiate
  <2>3. /\ z.stage \in {s.stage, RATE_AGREED} /\ z.mc = s.mc
        /\ z.terminated = s.terminated /\ z.booked = s.booked
        /\ z.searches = s.searches
        /\ \A k \in Loads : k # l => z.negotiations[k] = s.negotiations[k]
        /\ z.negotiations[l] \in {old, Evaluated(old, ask, recent)}
    BY <1>1, <2>1, PricedLeaves
  <2>4. /\ Evaluated(old, ask, recent) # None
        /\ Len(Evaluated(old, ask, recent).rounds) >= Len(old.rounds)
        /\ old.status # "open" => Evaluated(old, ask, recent) = old
    BY <2>1, SessionAssumption, HolderAssumption, EvaluatedMoves, EvaluatedAdds
  <2> HIDE DEF z
  <2>5. RoundsStay(s, z) /\ Haggles(s, z) /\ PricesFromLedger(s, z)
    BY <1>1, <2>1, <2>3, <2>4, Untouched
       DEF RoundsStay, Haggles, Bargain, PricesFromLedger
  <2>6. Identified(s, trail[c]) => Identified(z, u)
    BY <1>1, <2>1, <2>2, <2>3
       DEF Identified, AUTHORITY_VERIFIED, IDENTITY_VERIFIED
  <2>7. Holding(s, z, trail[c], u) /\ Searching(c, z)
    BY <2>3, <2>5, <2>6 DEF Holding, Numbered, Searching
  <2> QED  BY <2>1, <2>2, <2>7, NobodyWaits, PatientMoves
<1>3. CASE Handoff(c)
  <2> DEFINE n == HandedOff(s)
             z == AdvanceTo(n, CLOSED)
  <2>1. /\ MayCall(c) /\ Becomes(c, z) /\ UNCHANGED <<request, trail>>
        /\ s.stage >= IDENTITY_VERIFIED
    BY <1>1, <1>3 DEF Handoff, Transferable, BOOKED, IDENTITY_VERIFIED
  <2>2. /\ n \in CallRecord /\ n.mc = s.mc /\ n.terminated = s.terminated
        /\ n.booked = s.booked /\ n.searches = s.searches
        /\ n.negotiations = s.negotiations
    BY <1>1 DEF HandedOff, CallRecord, Outcome
  <2>3. CLOSED \in Stage
    BY DEF Stage
  <2> HIDE DEF n
  <2>4. /\ z \in CallRecord /\ z.mc = s.mc /\ z.terminated = s.terminated
        /\ z.booked = s.booked /\ z.searches = s.searches
        /\ z.negotiations = s.negotiations
    BY <2>2, <2>3, Advanced, AdvancedOnly
  <2> HIDE DEF z
  <2>5. Holding(s, z, trail[c], trail[c]) /\ Searching(c, z)
    BY <1>1, <2>1, <2>4, Plain DEF Searching
  <2> QED  BY <2>1, <2>5, HandlerDone
<1>4. ASSUME NEW r \in Requests, NEW l \in Loads, NEW ask \in Asks,
             OpenNegotiation(c, r, l, ask)
      PROVE  Patient' /\ Steady
  <2> DEFINE q == [op |-> "negotiate", call |-> c, load |-> l, ask |-> ask]
  <2>1. /\ MayCall(c) /\ Suspend(r, q) /\ q.call = c
        /\ UNCHANGED <<session, trail>>
    BY <1>4 DEF OpenNegotiation
  <2>2. /\ q.op = "negotiate" /\ q.load = l /\ s.stage >= IDENTITY_VERIFIED
        /\ s.negotiations[l] = None /\ (s.offered = {} \/ l \in s.offered)
    BY <1>4 DEF OpenNegotiation, Priceable, Passes
  <2> HIDE DEF q
  <2>3. Fits(q, s)
    BY <2>2 DEF Fits
  <2> QED  BY <2>1, <2>3, PatientSuspends
<1>5. ASSUME NEW r \in Requests, NEW l \in Loads, Book(c, r, l)
      PROVE  Patient' /\ Steady
  <2> DEFINE q == [op |-> "book", call |-> c, load |-> l, mc |-> s.mc,
                   rate |-> s.negotiations[l].agreed, reply |-> "none"]
  <2>1. /\ MayCall(c) /\ Suspend(r, q) /\ q.call = c
        /\ UNCHANGED <<session, trail>>
    BY <1>5 DEF Book
  <2>2. q.op = "book" /\ s.stage >= IDENTITY_VERIFIED
    BY <1>1, <1>5 DEF Book, Passes, RATE_AGREED, IDENTITY_VERIFIED
  <2> HIDE DEF q
  <2>3. Fits(q, s)
    BY <2>2 DEF Fits
  <2> QED  BY <2>1, <2>3, PatientSuspends
<1> QED  BY <1>2, <1>3, <1>4, <1>5 DEF Dealing

(* A closed call need not speak for anybody.                               *)
LEMMA ClosePatient ==
    ASSUME ~Overlap, BridgeKept, Patient, NEW c \in Calls, CloseCall(c)
    PROVE  Patient' /\ Steady
<1> DEFINE s == session[c]
           n == [s EXCEPT !.outcome = IF @ = "in_progress" THEN "abandoned" ELSE @]
           z == Terminate(n)
<1>1. s \in CallRecord
  BY CallFacts
<1>2. /\ n \in CallRecord /\ n.searches = s.searches
      /\ n.negotiations = s.negotiations
  BY <1>1 DEF CallRecord, Outcome
<1>3. MayCall(c) /\ Becomes(c, z) /\ UNCHANGED <<request, trail>>
  BY DEF CloseCall
<1> HIDE DEF n
<1>4. /\ z.terminated /\ z.searches = s.searches
      /\ z.negotiations = s.negotiations
  BY <1>2, Terminated, TerminatedOnly
<1> HIDE DEF z
<1>5. Holding(s, z, trail[c], trail[c]) /\ Searching(c, z)
  BY <1>1, <1>4, Vacant DEF Searching
<1> QED  BY <1>3, <1>5, HandlerDone

(* A search that resumes is the next one of its call.                      *)
LEMMA SearchPatient ==
    ASSUME BridgeKept, Patient, NEW r \in Requests, NEW loads \in SUBSET Loads,
           SearchMatched(r, loads)
    PROVE  Patient' /\ Steady
<1> DEFINE q == request[r]
           s == session[q.call]
           z == Recorded(s, q, loads)
           a == [number |-> q.used + 1, filter |-> q.filter, loads |-> loads]
<1>1. q \in SearchRequest /\ Engaged(r) /\ Resume(r) /\ Becomes(q.call, z)
      /\ UNCHANGED trail /\ q.op = "search"
  BY RequestFacts DEF SearchMatched, Awaiting, Engaged, FreightOps
<1>2. q.call \in Calls /\ q.used \in Nat /\ q.filter \in Filters
  BY <1>1 DEF SearchRequest
<1>3. s \in CallRecord /\ s.searches \in Seq(SearchAttempt)
  BY <1>2, CallFacts DEF CallRecord
<1>4. Fits(q, s) /\ Numbered(s)
  BY <1>1, <1>2 DEF Patient
<1>5. /\ q.used = Len(s.searches)
      /\ \A i \in DOMAIN s.searches : s.searches[i].filter # q.filter
  BY <1>1, <1>4 DEF Fits
<1>6. a \in SearchAttempt /\ a.number = q.used + 1 /\ a.filter = q.filter
  BY <1>2 DEF SearchAttempt
<1>7. /\ z.searches = Append(s.searches, a)
      /\ z.stage = s.stage /\ z.mc = s.mc /\ z.terminated = s.terminated
      /\ z.booked = s.booked /\ z.negotiations = s.negotiations
  BY <1>3 DEF Recorded, HandedOver, CallRecord
<1> HIDE DEF q, s, z, a
<1>8. /\ Len(z.searches) = q.used + 1
      /\ DOMAIN z.searches = 1 .. Len(s.searches) + 1
      /\ \A i \in DOMAIN s.searches : z.searches[i] = s.searches[i]
      /\ z.searches[Len(s.searches) + 1] = a
      /\ DOMAIN s.searches = 1 .. Len(s.searches) /\ Len(s.searches) \in Nat
  BY <1>3, <1>5, <1>6, <1>7
<1>9. Numbered(z)
  <2> SUFFICES ASSUME NEW i \in DOMAIN z.searches, NEW j \in DOMAIN z.searches
               PROVE  /\ z.searches[i].number = i
                      /\ z.searches[i].filter = z.searches[j].filter => i = j
    BY DEF Numbered
  <2>1. /\ i \in DOMAIN s.searches \/ i = Len(s.searches) + 1
        /\ j \in DOMAIN s.searches \/ j = Len(s.searches) + 1
    BY <1>8
  <2>2. z.searches[i].number = i
    BY <1>4, <1>5, <1>6, <1>8, <2>1 DEF Numbered
  <2>3. z.searches[i].filter = z.searches[j].filter => i = j
    BY <1>4, <1>5, <1>6, <1>8, <2>1 DEF Numbered
  <2> QED  BY <2>2, <2>3
<1>10. Identified(s, trail[q.call]) => Identified(z, trail[q.call])
  BY <1>7 DEF Identified
<1>11. RoundsStay(s, z) /\ Haggles(s, z) /\ PricesFromLedger(s, z)
  BY <1>3, <1>7, Untouched DEF RoundsStay, Haggles, Bargain, PricesFromLedger
<1>12. Holding(s, z, trail[q.call], trail[q.call])
  BY <1>9, <1>10, <1>11 DEF Holding
<1>13. Searching(q.call, z)
  BY <1>1, <1>8 DEF Searching, q
<1> QED  BY <1>1, <1>12, <1>13, RequestDone DEF q, s

(* A load that is priced for the first time is in the ledger, and nobody   *)
(* stored a negotiation on it meanwhile.                                   *)
LEMMA OpeningPatient ==
    ASSUME BridgeKept, Patient, NEW r \in Requests, NegotiationOpened(r)
    PROVE  Patient' /\ Steady
<1> DEFINE q == request[r]
           c == q.call
           l == q.load
           s == session[c]
           fresh == Opened(PostedRate[l], MaxBuy[l])
           t == [s EXCEPT !.negotiations[l] = fresh, !.selected = l]
           n == AdvanceTo(t, LOAD_SELECTED)
           z == Priced(n, l, q.ask, FALSE)
<1>1. q \in NegotiateRequest /\ Engaged(r) /\ Resume(r) /\ q.op = "negotiate"
  BY RequestFacts DEF NegotiationOpened, Awaiting, Engaged, FreightOps
<1>2. c \in Calls /\ l \in Loads /\ q.ask \in Asks /\ LOAD_SELECTED \in Stage
  BY <1>1 DEF NegotiateRequest, Stage
<1>3. s \in CallRecord /\ s.stage \in Nat
      /\ s.negotiations \in [Loads -> NegotiationRecord \cup {None}]
  BY <1>2, CallFacts, StageOrder DEF CallRecord
<1>4. Fits(q, s)
  BY <1>1, <1>2 DEF Patient
<1>5. /\ s.stage >= IDENTITY_VERIFIED /\ s.negotiations[l] = None
      /\ s.offered = {} \/ l \in s.offered
  BY <1>1, <1>4 DEF Fits, FreightOps
<1>6. Sound(fresh) /\ fresh \in NegotiationRecord /\ fresh # None
  <2>1. PostedRate[l] \in Rate /\ MaxBuy[l] \in Ceiling
    BY <1>2, SessionAssumption
  <2> QED  BY <2>1, OpenedSound, HolderAssumption DEF Sound
<1>7. Becomes(c, z) /\ Named(c, l, q.ask)
  BY DEF NegotiationOpened
<1> HIDE DEF fresh
<1>8. /\ t \in CallRecord /\ t.stage = s.stage /\ t.mc = s.mc
      /\ t.terminated = s.terminated /\ t.booked = s.booked
      /\ t.searches = s.searches
      /\ t.negotiations = [s.negotiations EXCEPT ![l] = fresh]
  BY <1>2, <1>3, <1>6 DEF CallRecord
<1>9. t.negotiations[l] = fresh
      /\ \A k \in Loads : k # l => t.negotiations[k] = s.negotiations[k]
  BY <1>2, <1>3, <1>8
<1> HIDE DEF t
<1>10. /\ n \in CallRecord /\ n.stage \in {s.stage, LOAD_SELECTED} /\ n.mc = s.mc
       /\ n.terminated = s.terminated /\ n.booked = s.booked
       /\ n.searches = s.searches /\ n.negotiations = t.negotiations
  BY <1>2, <1>8, Advanced, AdvancedOnly
<1> HIDE DEF n, l, q, c, s
<1>11. /\ z.stage \in {n.stage, RATE_AGREED} /\ z.mc = n.mc
       /\ z.terminated = n.terminated /\ z.booked = n.booked
       /\ z.searches = n.searches
       /\ \A k \in Loads : k # l => z.negotiations[k] = n.negotiations[k]
       /\ z.negotiations[l] \in
              {n.negotiations[l], Evaluated(n.negotiations[l], q.ask, FALSE)}
  <2> DEFINE ask == q.ask
             recent == FALSE
  <2>1. n.negotiations[l] # None /\ Sound(n.negotiations[l])
    BY <1>6, <1>9, <1>10
  <2>2. l \in Loads /\ ask \in Asks /\ recent \in BOOLEAN
    BY <1>2
  <2>3. z = Priced(n, l, ask, recent) /\ n \in CallRecord
    BY <1>10
  <2> HIDE DEF z, ask, recent
  <2>4. /\ z.stage \in {n.stage, RATE_AGREED} /\ z.mc = n.mc
        /\ z.terminated = n.terminated /\ z.booked = n.booked
        /\ z.searches = n.searches
        /\ \A k \in Loads : k # l => z.negotiations[k] = n.negotiations[k]
        /\ z.negotiations[l] \in
               {n.negotiations[l], Evaluated(n.negotiations[l], ask, recent)}
    BY ONLY <2>1, <2>2, <2>3, PricedLeaves
  <2> QED  BY <2>4 DEF ask, recent
<1> HIDE DEF z
<1>12. PICK u : /\ trail' = [trail EXCEPT ![c] = u]
                /\ u.cleared = trail[c].cleared /\ u.proven = trail[c].proven
  BY <1>2, <1>7, NamedLeaves
<1>13. RoundsStay(s, z) /\ Haggles(s, z) /\ PricesFromLedger(s, z)
  <2>1. /\ \A k \in Loads : k # l => z.negotiations[k] = s.negotiations[k]
        /\ z.negotiations[l] \in {fresh, Evaluated(fresh, q.ask, FALSE)}
    BY <1>9, <1>10, <1>11
  <2>2. fresh # None /\ Evaluated(fresh, q.ask, FALSE) # None
    <3>1. q.ask \in Ask
      BY <1>2, SessionAssumption
    <3> DEFINE ask == q.ask
               recent == FALSE
    <3>2. ask \in Ask /\ recent \in BOOLEAN
      BY <3>1
    <3> HIDE DEF ask, recent
    <3>3. Evaluated(fresh, ask, recent) \in NegotiationRecord
      BY ONLY <1>6, <3>2, EvaluatedMoves
    <3> QED  BY <1>6, <3>3, HolderAssumption DEF ask, recent
  <2>3. Bargain(s, l) = fresh /\ Bargain(z, l) = z.negotiations[l]
    BY <1>5, <2>1, <2>2 DEF Bargain, fresh
  <2>4. \A k \in Loads : k # l => Bargain(z, k) = Bargain(s, k)
    BY <2>1 DEF Bargain
  <2>5. Haggles(s, z)
    BY <1>2, <2>1, <2>3, <2>4 DEF Haggles
  <2>6. RoundsStay(s, z)
    BY <1>3, <1>5, <2>1, Untouched DEF RoundsStay
  <2>7. PricesFromLedger(s, z)
    BY <1>5, <2>1 DEF PricesFromLedger
  <2> QED  BY <2>5, <2>6, <2>7
<1>14. Identified(s, trail[c]) => Identified(z, u)
  BY <1>3, <1>5, <1>10, <1>11, <1>12
     DEF Identified, AUTHORITY_VERIFIED, IDENTITY_VERIFIED
<1>15. Numbered(s) => Numbered(z)
  BY <1>10, <1>11 DEF Numbered
<1>16. Holding(s, z, trail[c], u) /\ Searching(c, z)
  BY <1>10, <1>11, <1>13, <1>14, <1>15 DEF Holding, Searching, s
<1>17. \A x \in Requests :
         request'[x] # Free => request'[x] = request[x] /\ request[x].call # c
  BY <1>1, NobodyElseWaits DEF c, q
<1> QED  BY <1>2, <1>7, <1>12, <1>16, <1>17, PatientMoves DEF s

(* A booked call need not speak for anybody.                               *)
LEMMA ConfirmationPatient ==
    ASSUME BridgeKept, Patient, NEW r \in Requests, BookConfirmed(r)
    PROVE  Patient' /\ Steady
<1> DEFINE q == request[r]
           c == q.call
           s == session[c]
           n == [s EXCEPT !.booked = q.load, !.outcome = "booked"]
           z == AdvanceTo(n, BOOKED)
           u == [trail[c] EXCEPT !.confirmed = @ \cup {q.load}]
<1>1. q \in BookRequest /\ Engaged(r) /\ Resume(r) /\ Becomes(c, z)
  BY RequestFacts DEF BookConfirmed, Awaiting, Engaged, FreightOps
<1>2. c \in Calls /\ q.load \in Loads /\ q.load # None /\ BOOKED \in Stage
  BY <1>1, SessionAssumption DEF BookRequest, Stage
<1>3. s \in CallRecord
  BY <1>2, CallFacts
<1>4. trail' = [trail EXCEPT ![c] = u]
  BY DEF BookConfirmed, BridgeKept, TypeOK
<1>5. /\ n \in CallRecord /\ n.booked = q.load
      /\ n.searches = s.searches /\ n.negotiations = s.negotiations
  BY <1>2, <1>3 DEF CallRecord, Outcome
<1> HIDE DEF n, u
<1>6. /\ z.booked # None /\ z.searches = s.searches
      /\ z.negotiations = s.negotiations
  BY <1>2, <1>5, Advanced, AdvancedOnly
<1> HIDE DEF z
<1>7. Holding(s, z, trail[c], u)
  BY <1>3, <1>6, Untouched
     DEF Holding, Identified, Numbered, RoundsStay, Haggles, Bargain, PricesFromLedger
<1>8. Searching(c, z)
  BY <1>6 DEF Searching
<1>9. \A x \in Requests :
        request'[x] # Free => request'[x] = request[x] /\ request[x].call # c
  BY <1>1, NobodyElseWaits
<1> QED  BY <1>1, <1>2, <1>4, <1>7, <1>8, <1>9, PatientMoves

(* A request resumes, on a call that has waited for it.                    *)
LEMMA ResumePatient ==
    ASSUME BridgeKept, Patient, NEW r \in Requests, Resumes(r)
    PROVE  Patient' /\ Steady
<1> DEFINE q == request[r]
           s == session[q.call]
<1>1. CASE AuthorityRefused(r)
  <2> DEFINE z == Refused(s, q.mc)
  <2>1. /\ q \in VerifyRequest /\ Engaged(r) /\ Resume(r)
        /\ Becomes(q.call, z) /\ UNCHANGED trail
    BY <1>1, RequestFacts DEF AuthorityRefused, Awaiting, Engaged
  <2>2. q.call \in Calls /\ q.mc \in Mc
    BY <2>1 DEF VerifyRequest, Mc
  <2>3. s \in CallRecord
    BY <2>2, CallFacts
  <2>4. Holding(s, z, trail[q.call], trail[q.call]) /\ Searching(q.call, z)
    BY <2>2, <2>3, RefusedHolding DEF Searching
  <2> HIDE DEF z
  <2> QED  BY <2>1, <2>4, RequestDone
<1>2. CASE SearchEmpty(r)
  <2> DEFINE z == [s EXCEPT !.outcome = "no_loads"]
  <2>1. /\ q \in SearchRequest /\ Engaged(r) /\ Resume(r)
        /\ Becomes(q.call, z) /\ UNCHANGED trail
    BY <1>2, RequestFacts DEF SearchEmpty, Awaiting, Engaged, FreightOps
  <2>2. q.call \in Calls /\ s \in CallRecord
    BY <2>1, CallFacts DEF SearchRequest
  <2>3. /\ z \in CallRecord /\ z.stage = s.stage /\ z.mc = s.mc
        /\ z.terminated = s.terminated /\ z.booked = s.booked
        /\ z.searches = s.searches /\ z.negotiations = s.negotiations
    BY <2>2 DEF CallRecord, Outcome
  <2> HIDE DEF z
  <2>4. Holding(s, z, trail[q.call], trail[q.call]) /\ Searching(q.call, z)
    BY <2>2, <2>3, Plain DEF Searching
  <2> QED  BY <2>1, <2>4, RequestDone
<1>3. CASE DetailFound(r)
  <2> DEFINE n == [s EXCEPT !.selected = q.load]
             z == AdvanceTo(n, LOAD_SELECTED)
  <2>1. /\ q \in DetailRequest /\ Engaged(r) /\ Resume(r)
        /\ Becomes(q.call, z) /\ UNCHANGED trail /\ q.op \in FreightOps
    BY <1>3, RequestFacts DEF DetailFound, Awaiting, Engaged, FreightOps
  <2>2. q.call \in Calls /\ q.load \in Loads /\ LOAD_SELECTED \in Stage
    BY <2>1 DEF DetailRequest, Stage
  <2>3. s \in CallRecord /\ s.stage >= IDENTITY_VERIFIED
    BY <2>1, <2>2, CallFacts DEF Patient, Fits
  <2>4. /\ n \in CallRecord /\ n.mc = s.mc /\ n.stage = s.stage
        /\ n.terminated = s.terminated /\ n.booked = s.booked
        /\ n.searches = s.searches /\ n.negotiations = s.negotiations
    BY <2>2, <2>3 DEF CallRecord
  <2> HIDE DEF n
  <2>5. /\ z \in CallRecord /\ z.mc = s.mc /\ z.terminated = s.terminated
        /\ z.booked = s.booked /\ z.searches = s.searches
        /\ z.negotiations = s.negotiations
    BY <2>2, <2>4, Advanced, AdvancedOnly
  <2> HIDE DEF z
  <2>6. Holding(s, z, trail[q.call], trail[q.call]) /\ Searching(q.call, z)
    BY <2>3, <2>5, Plain DEF Searching
  <2> QED  BY <2>1, <2>6, RequestDone
<1>4. CASE \/ AuthorityUnavailable(r) \/ SearchDegraded(r) \/ DetailFailed(r)
           \/ NegotiationNotOpened(r) \/ BookRefused(r)
  <2>1. Resume(r) /\ UNCHANGED <<session, trail>>
    BY <1>4 DEF AuthorityUnavailable, SearchDegraded, DetailFailed,
                NegotiationNotOpened, BookRefused
  <2> QED  BY <2>1, RequestGone
<1>5. CASE BookUncertain(r)
  <2>1. Resume(r) /\ UNCHANGED session
    BY <1>5 DEF BookUncertain
  <2>2. trail \in [Calls -> Trail]
    BY DEF BridgeKept, TypeOK
  <2>3. \A d \in Calls : trail'[d].cleared = trail[d].cleared
                         /\ trail'[d].proven = trail[d].proven
    BY <1>5, <2>2 DEF BookUncertain, Doubted, Trail
  <2> QED  BY <2>1, <2>3, RequestGone
<1> HIDE DEF q, s
<1> QED  BY <1>1, <1>2, <1>3, <1>4, <1>5, AuthorityPatient, SearchPatient,
            OpeningPatient, ConfirmationPatient DEF Resumes, BookSettles

(* Nobody's call is touched by the TMS, a late write or a stranger.        *)
LEMMA ElsewherePatient ==
    ASSUME BridgeKept, Patient,
           \/ \E r \in Requests : AtTheTms(r)
           \/ \E o \in orphans : OrphanLands(o)
           \/ \E l \in Loads : StrangerBooks(l)
           \/ BoardWarms
           \/ UNCHANGED vars
    PROVE  Patient' /\ Steady
<1>1. UNCHANGED <<session, trail>>
  BY DEF AtTheTms, TmsBooks, TmsHasItBooked, TmsRejects, OrphanLands,
         StrangerBooks, BoardWarms, vars
<1>2. \A d \in Calls : trail'[d].cleared = trail[d].cleared
                       /\ trail'[d].proven = trail[d].proven
  BY <1>1
<1>3. CASE UNCHANGED request
  BY <1>1, <1>2, <1>3, PatientRests DEF Engaged
<1>4. ASSUME NEW r \in Requests, AtTheTms(r)
      PROVE  Patient' /\ Steady
  <2>1. request \in [Requests -> Request] /\ request[r] \in BookRequest
        /\ request[r].op = "book"
    BY <1>4, RequestFacts DEF BridgeKept, TypeOK, AtTheTms, TmsBooks,
                              TmsHasItBooked, TmsRejects, Awaiting
  <2>2. PICK reply : request' = [request EXCEPT ![r].reply = reply]
    BY <1>4 DEF AtTheTms, TmsBooks, TmsHasItBooked, TmsRejects, Replied
  <2>3. \A x \in Requests : x # r => request'[x] = request[x]
    BY <2>1, <2>2
  <2>4. /\ request'[r].op = "book" /\ request'[r].call = request[r].call
    BY <2>1, <2>2 DEF BookRequest
  <2>5. Engaged(r) /\ \A s : Fits(request[r], s) => Fits(request'[r], s)
    BY <2>1, <2>4 DEF Engaged, Fits, FreightOps
  <2>6. \A x \in Requests : Engaged(x)' =>
           /\ Engaged(x)
           /\ request'[x].call = request[x].call
           /\ \A s : Fits(request[x], s) => Fits(request'[x], s)
    BY <2>3, <2>4, <2>5 DEF Engaged
  <2> QED  BY <1>1, <1>2, <2>6, PatientRests
<1> QED  BY <1>3, <1>4 DEF OrphanLands, StrangerBooks, BoardWarms, vars

(* Fresh calls have nobody to speak for.                                   *)
LEMMA InitPatient == Init => Patient
BY
   DEF Init, Patient, OneAtATime, Engaged, Free, FreightOps, Identified,
       Numbered,
       FreshCall, STARTED, AUTHORITY_VERIFIED, IDENTITY_VERIFIED

(* Every step of a bridge whose agent waits keeps it so.                   *)
LEMMA StepPatient ==
    ASSUME ~Overlap, BridgeKept, Patient, [Next]_vars
    PROVE  Patient' /\ Steady
<1>1. CASE \E c \in Calls : \/ VerifyingCarrier(c) \/ ProvingIdentity(c)
                           \/ FindingLoads(c) \/ Dealing(c) \/ CloseCall(c)
  BY <1>1, VerifyingPatient, ProvingPatient, FindingPatient, DealingPatient,
     ClosePatient
<1>2. CASE \E r \in Requests : Resumes(r)
  BY <1>2, ResumePatient
<1> QED  BY <1>1, <1>2, ElsewherePatient DEF Next

(* A call that is served has one request at a time, its gate still holds   *)
(* when that request resumes, and its carrier is the one that was cleared  *)
(* and verified.                                                           *)
THEOREM AlwaysPatient ==
    ASSUME ~Overlap
    PROVE  Spec => []Patient
<1>1. BridgeKept /\ Patient /\ [Next]_vars => Patient'
  BY StepPatient
<1> QED  BY <1>1, InitPatient, AlwaysKept, PTL DEF Spec

(* The identity that books, searches and negotiates is the one that was    *)
(* cleared by the FMCSA and verified by a code.                            *)
THEOREM IdentityStaysIntact ==
    ASSUME ~Overlap
    PROVE  Spec => []IdentityIntact
<1>1. BridgeKept /\ Patient => IdentityIntact
  <2> SUFFICES ASSUME BridgeKept, Patient, NEW c \in Calls,
                      session[c].stage >= IDENTITY_VERIFIED,
                      ~session[c].terminated, session[c].booked = None
               PROVE  session[c].mc \in trail[c].proven \cap trail[c].cleared
    BY DEF IdentityIntact
  <2>1. Identified(session[c], trail[c]) /\ session[c].stage \in Nat
    BY CallFacts, StageOrder DEF Patient
  <2> QED  BY <2>1 DEF Identified, AUTHORITY_VERIFIED, IDENTITY_VERIFIED
<1> QED  BY <1>1, AlwaysPatient, AlwaysKept, PTL

(* Attempts are numbered 1, 2, 3, ... and no filter is searched twice.     *)
THEOREM SearchesStayCounted ==
    ASSUME ~Overlap
    PROVE  Spec => []SearchesCounted
<1>1. Patient => SearchesCounted
  BY DEF Patient, Numbered, SearchesCounted
<1> QED  BY <1>1, AlwaysPatient, PTL

(* The rounds spent on a load are never forgotten: a negotiation is only   *)
(* ever extended, so its cap and its failure stick.                        *)
RoundsKept ==
    [][\A c \in Calls : RoundsStay(session[c], session'[c])]_vars

(* The rounds a carrier has spent on a load stay spent.                    *)
THEOREM RoundsStayKept ==
    ASSUME ~Overlap
    PROVE  Spec => RoundsKept
<1>1. BridgeKept /\ Patient /\ [Next]_vars =>
        [\A c \in Calls : RoundsStay(session[c], session'[c])]_vars
  BY StepPatient DEF Steady
<1> QED  BY <1>1, AlwaysPatient, AlwaysKept, PTL DEF Spec, RoundsKept

(* The desk of a load evaluates an ask as the bridge does.                 *)
LEMMA DeskEvaluates ==
    ASSUME NEW c, NEW l, NEW n, NEW ask, NEW recent
    PROVE  Desk(c, l)!Evaluated(n, ask, recent) = Evaluated(n, ask, recent)
<1>1. /\ Desk(c, l)!Stands(n, ask, recent) = Stands(n, ask, recent)
      /\ Desk(c, l)!CannotDeal(n) = CannotDeal(n)
      /\ Desk(c, l)!FailedOutright(n) = FailedOutright(n)
      /\ Desk(c, l)!IsFinalRound(n) = IsFinalRound(n)
  BY
     DEF Desk!Stands, Desk!Replays, Desk!LastRound, Desk!RoundsUsed,
         Desk!CannotDeal,
         Desk!FailedOutright, Desk!IsFinalRound, Desk!RoundNumber,
         Stands, Replays, LastRound, RoundsUsed, CannotDeal, FailedOutright,
         IsFinalRound, RoundNumber
<1>2. /\ Desk(c, l)!WithinCeiling(n, ask) = WithinCeiling(n, ask)
      /\ Desk(c, l)!CloseEnough(n, ask) = CloseEnough(n, ask)
  BY DEF Desk!WithinCeiling, Desk!CloseEnough, WithinCeiling, CloseEnough
<1>3. /\ Desk(c, l)!Takes(n, ask) = Takes(n, ask)
      /\ Desk(c, l)!GivesUp(n, ask) = GivesUp(n, ask)
      /\ Desk(c, l)!Counted(n, ask) = Counted(n, ask)
  BY <1>1, <1>2
     DEF Desk!Takes, Desk!GivesUp, Desk!Counted, Takes, GivesUp, Counted
<1>4. \A m : /\ Desk(c, l)!Accepted(m, ask) = Accepted(m, ask)
             /\ Desk(c, l)!Rejected(m, ask) = Rejected(m, ask)
  BY DEF Desk!Accepted, Desk!Rejected, Desk!Written, Accepted, Rejected, Written
<1>5. \A m : Desk(c, l)!NextCounter(m, ask) = NextCounter(m, ask)
  BY DEF Desk!NextCounter, Desk!Target, Desk!CounterCap, Desk!Concession,
         Desk!RoundNumber, Desk!RoundsUsed, Desk!Least, Desk!Greatest,
         NextCounter, Target, CounterCap, Concession, RoundNumber, RoundsUsed,
         Least, Greatest
<1>6. \A m : Desk(c, l)!Countered(m, ask) = Countered(m, ask)
  BY <1>5 DEF Desk!Countered, Desk!Written, Countered, Written
<1> QED  BY <1>1, <1>3, <1>4, <1>6 DEF Desk!Evaluated, Evaluated

(* Every load of every call has a rate desk of its own, which takes one    *)
(* carrier ask at a time.                                                  *)
THEOREM EveryLoadHasItsDesk ==
    ASSUME ~Overlap
    PROVE  Spec => NegotiatedAtTheDesk
<1>1. Init => \A c \in Calls, l \in Loads : Desk(c, l)!Init
  BY DEF Init, Desk!Init, Bargain, FreshCall, Opened, Desk!Opened
<1>2. ASSUME BridgeKept, Patient, [Next]_vars, NEW c \in Calls, NEW l \in Loads
      PROVE  [Desk(c, l)!Next]_(Desk(c, l)!vars)
  <2>1. Haggles(session[c], session'[c])
    BY <1>2, StepPatient DEF Steady
  <2>2. CASE Bargain(session[c], l)' = Bargain(session[c], l)
    BY <2>2 DEF Desk!vars
  <2>3. ASSUME NEW ask \in Asks, NEW recent \in BOOLEAN,
               Bargain(session[c], l)'
                   = Evaluated(Bargain(session[c], l), ask, recent)
        PROVE  Desk(c, l)!Next
    BY <2>3, DeskEvaluates DEF Desk!Next, Desk!Put
  <2> QED  BY <2>1, <2>2, <2>3 DEF Haggles, Bargain
<1>3. BridgeKept /\ Patient /\ [Next]_vars =>
        [\A c \in Calls, l \in Loads : [Desk(c, l)!Next]_(Desk(c, l)!vars)]_vars
  BY <1>2
<1> QED  BY <1>1, <1>3, AlwaysPatient, AlwaysKept, PTL DEF Spec, NegotiatedAtTheDesk

(* What was never offered is not priced, once anything was.                *)
THEOREM LedgerStaysEnforced ==
    ASSUME ~Overlap
    PROVE  Spec => LedgerEnforced
<1>1. BridgeKept /\ Patient /\ [Next]_vars =>
        [\A c \in Calls, l \in Loads :
            session[c].offered # {} /\ l \notin session[c].offered
              => (session'[c].negotiations[l] # None
                    => session[c].negotiations[l] # None)]_vars
  BY StepPatient DEF Steady, PricesFromLedger
<1> QED  BY <1>1, AlwaysPatient, AlwaysKept, PTL DEF Spec, LedgerEnforced

(* A search that saw a snapshot is never recorded past the per-call cap.   *)
THEOREM BudgetStaysRespected ==
    ASSUME ~Overlap
    PROVE  Spec => BudgetRespected
<1>1. ASSUME BridgeKept, Patient, [Next]_vars, NEW r \in Requests,
             request[r].op = "search", request[r].snapshot,
             session'[request[r].call].searches # session[request[r].call].searches
      PROVE  Len(session'[request[r].call].searches) <= MaxSearches
  <2>1. request[r].call \in Calls /\ Engaged(r) /\ request[r].used \in Nat
    BY <1>1, RequestFacts DEF SearchRequest, Engaged, FreightOps
  <2>2. request[r].used < MaxSearches /\ MaxSearches \in Nat
    BY <1>1, <2>1, SessionAssumption DEF Patient, Fits
  <2>3. PICK x \in Requests :
          /\ request[x].op = "search" /\ request[x].call = request[r].call
          /\ Len(session'[request[r].call].searches) = request[x].used + 1
    BY <1>1, <2>1, StepPatient DEF Steady, Searching
  <2>4. x = r
    BY <1>1, <2>1, <2>3 DEF Patient, OneAtATime, Engaged, FreightOps
  <2> QED  BY <2>1, <2>2, <2>3, <2>4
<1>2. BridgeKept /\ Patient /\ [Next]_vars =>
        [\A r \in Requests :
            request[r].op = "search" /\ request[r].snapshot =>
              LET c == request[r].call IN
              session'[c].searches # session[c].searches
                => Len(session'[c].searches) <= MaxSearches]_vars
  BY <1>1
<1> QED  BY <1>2, AlwaysPatient, AlwaysKept, PTL DEF Spec, BudgetRespected

-----------------------------------------------------------------------------
(* The dashboard.                                                          *)

Agreed(s, l) == s.negotiations[l] # None /\ s.negotiations[l].status = "agreed"

(* A load is sent to be booked, and confirmed, at a rate that was agreed   *)
(* and stays agreed, on a call past every stage the funnel counts.         *)
Sealed ==
    /\ \A r \in Requests :
         request[r].op = "book" => Agreed(session[request[r].call], request[r].load)
    /\ \A c \in Calls : \A l \in trail[c].confirmed :
         Agreed(session[c], l) /\ session[c].stage >= BOOKED

(* A step that starts no booking and confirms none.                        *)
StartsNone ==
    \A r \in Requests : request'[r].op = "book" =>
        /\ request[r].op = "book"
        /\ request'[r].call = request[r].call /\ request'[r].load = request[r].load

ConfirmsNone == \A c \in Calls : trail'[c].confirmed = trail[c].confirmed

(* A freed or an idle slot books nothing.                                  *)
LEMMA SlotsFree ==
    ASSUME BridgeKept, UNCHANGED request \/ \E r \in Requests : Resume(r)
    PROVE  StartsNone
<1>1. request \in [Requests -> Request]
  BY DEF BridgeKept, TypeOK
<1> QED  BY <1>1 DEF StartsNone, Resume, Free

(* Nor does a slot that awaits something else.                             *)
LEMMA SlotTaken ==
    ASSUME BridgeKept, NEW r \in Requests, NEW q, Suspend(r, q), q.op # "book"
    PROVE  StartsNone
<1>1. request \in [Requests -> Request]
  BY DEF BridgeKept, TypeOK
<1> QED  BY <1>1 DEF StartsNone, Suspend

(* The history of one call grows by anything but a confirmation.           *)
LEMMA HistoryGrows ==
    ASSUME BridgeKept, NEW c \in Calls, NEW u, trail' = [trail EXCEPT ![c] = u],
           u.confirmed = trail[c].confirmed
    PROVE  ConfirmsNone
BY DEF ConfirmsNone, BridgeKept, TypeOK

(* What calls do, their bookings excepted.                                 *)
LEMMA CallsConfirmNone ==
    ASSUME BridgeKept, NEW c \in Calls,
           \/ VerifyingCarrier(c) \/ ProvingIdentity(c) \/ FindingLoads(c)
           \/ Dealing(c) \/ CloseCall(c)
    PROVE  /\ ConfirmsNone
           /\ \/ StartsNone
              \/ \E r \in Requests, l \in Loads : Book(c, r, l)
<1>1. trail \in [Calls -> Trail] /\ trail[c] \in Trail
  BY DEF BridgeKept, TypeOK
<1>2. UNCHANGED trail => ConfirmsNone
  BY DEF ConfirmsNone
<1>3. CASE VerifyingCarrier(c)
  <2>1. ASSUME NEW digits \in BOOLEAN, VerifyGarbled(c, digits)
        PROVE  StartsNone /\ ConfirmsNone
    BY <1>2, <2>1, SlotsFree DEF VerifyGarbled
  <2>2. ASSUME NEW r \in Requests, NEW mc \in MCs, NEW padded \in BOOLEAN,
               VerifyCarrier(c, r, mc, padded)
        PROVE  StartsNone /\ ConfirmsNone
    BY <1>2, <2>2, SlotTaken DEF VerifyCarrier
  <2> QED  BY <1>3, <2>1, <2>2 DEF VerifyingCarrier
<1>4. CASE ProvingIdentity(c)
  <2>1. CASE SendOtp(c) \/ OtpExpires(c)
    BY <1>2, <2>1, SlotsFree DEF SendOtp, OtpExpires
  <2>2. ASSUME NEW correct \in BOOLEAN, VerifyOtp(c, correct)
        PROVE  StartsNone /\ ConfirmsNone
    <3> DEFINE u == [trail[c] EXCEPT !.proven = @ \cup {session[c].mc}]
    <3>1. u.confirmed = trail[c].confirmed
      BY <1>1 DEF Trail
    <3>2. UNCHANGED trail \/ trail' = [trail EXCEPT ![c] = u]
      BY <1>1, <2>2 DEF VerifyOtp, CodeAccepted, CodeBurned, CodeWrong
    <3>3. ConfirmsNone
      BY <1>2, <3>1, <3>2, HistoryGrows
    <3> QED  BY <2>2, <3>3, SlotsFree DEF VerifyOtp
  <2> QED  BY <1>4, <2>1, <2>2 DEF ProvingIdentity
<1>5. CASE FindingLoads(c)
  <2>1. ASSUME NEW r \in Requests, NEW f \in Filters, Search(c, r, f)
        PROVE  StartsNone /\ ConfirmsNone
    BY <1>2, <2>1, SlotTaken DEF Search
  <2>2. ASSUME NEW loads \in SUBSET Loads, SearchOverBudget(c, loads)
        PROVE  StartsNone /\ ConfirmsNone
    BY <1>2, <2>2, SlotsFree DEF SearchOverBudget
  <2>3. ASSUME NEW r \in Requests, NEW l \in Loads, Detail(c, r, l)
        PROVE  StartsNone /\ ConfirmsNone
    BY <1>2, <2>3, SlotTaken DEF Detail
  <2> QED  BY <1>5, <2>1, <2>2, <2>3 DEF FindingLoads
<1>6. CASE Dealing(c)
  <2>1. ASSUME NEW l \in Loads, NEW ask \in Asks, NEW recent \in BOOLEAN,
               Negotiate(c, l, ask, recent)
        PROVE  StartsNone /\ ConfirmsNone
    <3> DEFINE u == [trail[c] EXCEPT !.named = @ \cup {<<l, ask>>}]
    <3>1. u.confirmed = trail[c].confirmed
      BY <1>1 DEF Trail
    <3>2. trail' = [trail EXCEPT ![c] = u]
      BY <1>1, <2>1 DEF Negotiate, Named
    <3> QED  BY <2>1, <3>1, <3>2, HistoryGrows, SlotsFree DEF Negotiate
  <2>2. ASSUME NEW r \in Requests, NEW l \in Loads, NEW ask \in Asks,
               OpenNegotiation(c, r, l, ask)
        PROVE  StartsNone /\ ConfirmsNone
    BY <1>2, <2>2, SlotTaken DEF OpenNegotiation
  <2>3. ASSUME NEW r \in Requests, NEW l \in Loads, Book(c, r, l)
        PROVE  ConfirmsNone
    BY <1>2, <2>3 DEF Book
  <2>4. CASE Handoff(c)
    BY <1>2, <2>4, SlotsFree DEF Handoff
  <2> QED  BY <1>6, <2>1, <2>2, <2>3, <2>4 DEF Dealing
<1>7. CASE CloseCall(c)
  BY <1>2, <1>7, SlotsFree DEF CloseCall
<1> QED  BY <1>3, <1>4, <1>5, <1>6, <1>7

(* And what requests do when they resume.                                  *)
LEMMA ResumptionsConfirmNone ==
    ASSUME BridgeKept, NEW r \in Requests, Resumes(r)
    PROVE  StartsNone /\ (ConfirmsNone \/ BookConfirmed(r))
<1> DEFINE q == request[r]
           t == trail[q.call]
<1>1. trail \in [Calls -> Trail]
  BY DEF BridgeKept, TypeOK
<1>2. UNCHANGED trail => ConfirmsNone
  BY DEF ConfirmsNone
<1>3. Resume(r)
  BY DEF Resumes, AuthorityConfirmed, AuthorityRefused, AuthorityUnavailable,
         SearchMatched, SearchEmpty, SearchDegraded, DetailFound, DetailFailed,
         NegotiationOpened, NegotiationNotOpened, BookSettles, BookConfirmed,
         BookRefused, BookUncertain
<1>4. CASE AuthorityConfirmed(r)
  <2> DEFINE u == [t EXCEPT !.cleared = @ \cup {q.mc}]
  <2>1. q.call \in Calls
    BY <1>4, RequestFacts DEF AuthorityConfirmed, Awaiting, VerifyRequest
  <2>2. u.confirmed = t.confirmed
    BY <1>1, <2>1 DEF Trail
  <2>3. trail' = [trail EXCEPT ![q.call] = u]
    BY <1>1, <1>4, <2>1 DEF AuthorityConfirmed
  <2> HIDE DEF u
  <2> QED  BY <1>3, <2>1, <2>2, <2>3, HistoryGrows, SlotsFree
<1>5. CASE NegotiationOpened(r)
  <2> DEFINE u == [t EXCEPT !.named = @ \cup {<<q.load, q.ask>>}]
  <2>1. q.call \in Calls
    BY <1>5, RequestFacts DEF NegotiationOpened, Awaiting, NegotiateRequest
  <2>2. u.confirmed = t.confirmed
    BY <1>1, <2>1 DEF Trail
  <2>3. trail' = [trail EXCEPT ![q.call] = u]
    BY <1>1, <1>5, <2>1 DEF NegotiationOpened, Named
  <2> HIDE DEF u
  <2> QED  BY <1>3, <2>1, <2>2, <2>3, HistoryGrows, SlotsFree
<1>6. CASE BookUncertain(r)
  <2> DEFINE u == Doubted(t, q.load)
  <2>1. q.call \in Calls
    BY <1>6, RequestFacts DEF BookUncertain, Awaiting, BookRequest
  <2>2. u.confirmed = t.confirmed
    BY <1>1, <2>1 DEF Doubted, Trail
  <2>3. trail' = [trail EXCEPT ![q.call] = u]
    BY <1>1, <1>6, <2>1 DEF BookUncertain
  <2> HIDE DEF u
  <2> QED  BY <1>3, <2>1, <2>2, <2>3, HistoryGrows, SlotsFree
<1>7. CASE BookConfirmed(r)
  BY <1>3, <1>7, SlotsFree
<1>8. CASE \/ AuthorityRefused(r) \/ AuthorityUnavailable(r)
           \/ \E loads \in SUBSET Loads : SearchMatched(r, loads)
           \/ SearchEmpty(r) \/ SearchDegraded(r) \/ DetailFound(r)
           \/ DetailFailed(r) \/ NegotiationNotOpened(r) \/ BookRefused(r)
  <2>1. UNCHANGED trail
    BY <1>8 DEF AuthorityRefused, AuthorityUnavailable, SearchMatched,
       SearchEmpty, SearchDegraded, DetailFound, DetailFailed,
       NegotiationNotOpened, BookRefused
  <2> QED  BY <1>2, <1>3, <2>1, SlotsFree
<1> QED  BY <1>4, <1>5, <1>6, <1>7, <1>8 DEF Resumes, BookSettles

(* Elsewhere nothing is booked through the bridge, nor confirmed by it.    *)
LEMMA ElsewhereConfirmsNone ==
    ASSUME BridgeKept,
           \/ \E r \in Requests : AtTheTms(r)
           \/ \E o \in orphans : OrphanLands(o)
           \/ \E l \in Loads : StrangerBooks(l)
           \/ BoardWarms
           \/ UNCHANGED vars
    PROVE  StartsNone /\ ConfirmsNone
<1>1. CASE UNCHANGED <<request, trail>>
  BY <1>1, SlotsFree DEF ConfirmsNone
<1>2. ASSUME NEW r \in Requests, AtTheTms(r)
      PROVE  StartsNone /\ ConfirmsNone
  <2>1. request \in [Requests -> Request] /\ request[r] \in BookRequest
        /\ UNCHANGED trail
    BY <1>2, RequestFacts DEF BridgeKept, TypeOK, AtTheTms, TmsBooks,
                              TmsHasItBooked, TmsRejects, Awaiting
  <2>2. PICK reply : request' = [request EXCEPT ![r].reply = reply]
    BY <1>2 DEF AtTheTms, TmsBooks, TmsHasItBooked, TmsRejects, Replied
  <2>3. /\ request'[r].op = request[r].op /\ request'[r].call = request[r].call
        /\ request'[r].load = request[r].load
    BY <2>1, <2>2 DEF BookRequest
  <2>4. \A x \in Requests : x # r => request'[x] = request[x]
    BY <2>1, <2>2
  <2>5. StartsNone
    BY <2>3, <2>4 DEF StartsNone
  <2> QED  BY <2>1, <2>5 DEF ConfirmsNone
<1> QED  BY <1>1, <1>2 DEF OrphanLands, StrangerBooks, BoardWarms, vars

(* Only Book starts a booking, and only BookConfirmed confirms one.        *)
LEMMA StepConfirms ==
    ASSUME BridgeKept, [Next]_vars
    PROVE  /\ \/ StartsNone
              \/ \E c \in Calls, r \in Requests, l \in Loads : Book(c, r, l)
           /\ ConfirmsNone \/ \E r \in Requests : BookConfirmed(r)
<1>1. CASE \E c \in Calls : \/ VerifyingCarrier(c) \/ ProvingIdentity(c)
                           \/ FindingLoads(c) \/ Dealing(c) \/ CloseCall(c)
  BY <1>1, CallsConfirmNone
<1>2. CASE \E r \in Requests : Resumes(r)
  BY <1>2, ResumptionsConfirmNone
<1> QED  BY <1>1, <1>2, ElsewhereConfirmsNone DEF Next

(* What was agreed stays agreed.                                           *)
LEMMA AgreedStays ==
    ASSUME BridgeKept, Steady, NEW c \in Calls, NEW l \in Loads, Agreed(session[c], l)
    PROVE  Agreed(session'[c], l)
BY DEF Steady, RoundsStay, Agreed

(* Every step keeps it so.                                                 *)
LEMMA SealedStays ==
    ASSUME ~Overlap, BridgeKept, Patient, Sealed, [Next]_vars
    PROVE  Sealed'
<1>1. Steady /\ AllOnward
  BY StepPatient, StepOnward
<1>2. /\ session \in [Calls -> CallRecord] /\ trail \in [Calls -> Trail]
      /\ request \in [Requests -> Request]
  BY DEF BridgeKept, TypeOK
<1>3. ASSUME NEW r \in Requests, request'[r].op = "book"
      PROVE  Agreed(session'[request'[r].call], request'[r].load)
  <2>1. CASE StartsNone
    <3>1. /\ request[r].op = "book" /\ request'[r].call = request[r].call
          /\ request'[r].load = request[r].load
      BY <1>3, <2>1 DEF StartsNone
    <3>2. request[r].call \in Calls /\ request[r].load \in Loads
      BY <3>1, RequestFacts DEF BookRequest
    <3>3. Agreed(session[request[r].call], request[r].load)
      BY <3>1 DEF Sealed
    <3> QED  BY <1>1, <3>1, <3>2, <3>3, AgreedStays
  <2>2. ASSUME NEW c \in Calls, NEW x \in Requests, NEW l \in Loads, Book(c, x, l)
        PROVE  Agreed(session'[request'[r].call], request'[r].load)
    <3>1. Agreed(session[c], l) /\ UNCHANGED session
      BY <2>2 DEF Book, Agreed
    <3>2. CASE r = x
      <4>1. request'[r].call = c /\ request'[r].load = l
        BY <1>2, <2>2, <3>2 DEF Book, Suspend
      <4> QED  BY <3>1, <4>1
    <3>3. CASE r # x
      <4>1. request'[r] = request[r]
        BY <1>2, <2>2, <3>3 DEF Book, Suspend
      <4> QED  BY <1>3, <3>1, <4>1 DEF Sealed
    <3> QED  BY <3>2, <3>3
  <2> QED  BY <2>1, <2>2, StepConfirms
<1>4. ASSUME NEW c \in Calls, NEW l \in trail'[c].confirmed
      PROVE  Agreed(session'[c], l) /\ session'[c].stage >= BOOKED
  <2>1. ASSUME l \in trail[c].confirmed
        PROVE  Agreed(session'[c], l) /\ session'[c].stage >= BOOKED
    <3>1. l \in Loads /\ Agreed(session[c], l) /\ session[c].stage >= BOOKED
      BY <1>2, <2>1 DEF Trail, Sealed
    <3>2. session'[c].stage >= session[c].stage
      BY <1>1 DEF AllOnward, Onward
    <3>3. session[c].stage \in Nat /\ session'[c].stage \in Nat
      <4>1. BridgeKept'
        BY StepKeeps
      <4> QED  BY <1>2, <4>1, StageOrder DEF BridgeKept, TypeOK
    <3> QED  BY <1>1, <3>1, <3>2, <3>3, AgreedStays DEF BOOKED
  <2>2. ASSUME NEW r \in Requests, BookConfirmed(r), l \notin trail[c].confirmed
        PROVE  Agreed(session'[c], l) /\ session'[c].stage >= BOOKED
    <3> DEFINE q == request[r]
               n == [session[q.call] EXCEPT !.booked = q.load, !.outcome = "booked"]
    <3>1. q.op = "book" /\ q.call \in Calls /\ q.load \in Loads
      BY <2>2, RequestFacts DEF BookConfirmed, Awaiting, BookRequest
    <3>2. c = q.call /\ l = q.load
      BY <1>2, <1>4, <2>2, <3>1 DEF BookConfirmed, Trail
    <3>3. Agreed(session[c], l)
      BY <3>1, <3>2 DEF Sealed
    <3>4. session'[c] = AdvanceTo(n, BOOKED)
      BY <1>2, <2>2, <3>2 DEF BookConfirmed, Becomes
    <3>5. n \in CallRecord /\ n.stage \in Nat
      <4>1. session[q.call] \in CallRecord
        BY <1>2, <3>1
      <4>2. n \in CallRecord
        BY <3>1, <4>1 DEF CallRecord, Outcome
      <4> HIDE DEF n
      <4> QED  BY <4>2, StageOrder
    <3> HIDE DEF n
    <3>6. session'[c].stage >= BOOKED
      BY <3>4, <3>5 DEF AdvanceTo, BOOKED, CallRecord
    <3> QED  BY <1>1, <3>1, <3>2, <3>3, <3>6, AgreedStays
  <2>3. CASE ConfirmsNone
    BY <1>4, <2>1, <2>3 DEF ConfirmsNone
  <2> QED  BY <2>1, <2>2, <2>3, StepConfirms
<1> QED  BY <1>3, <1>4 DEF Sealed

LEMMA InitSealed == Init => Sealed
BY DEF Init, Sealed, Free, NothingLogged

(* A booking is confirmed at a rate that was agreed for that load.         *)
THEOREM AlwaysSealed ==
    ASSUME ~Overlap
    PROVE  Spec => []Sealed
<1>1. BridgeKept /\ Patient /\ Sealed /\ [Next]_vars => Sealed'
  BY SealedStays
<1> QED  BY <1>1, InitSealed, AlwaysPatient, AlwaysKept, PTL DEF Spec

(* A set of calls is no larger than what each of them has of its own.      *)
LEMMA OneEach ==
    ASSUME NEW S, NEW T, NEW f \in [S -> T], IsFiniteSet(T),
           \A x, y \in S : f[x] = f[y] => x = y
    PROVE  Cardinality(S) <= Cardinality(T)
<1>1. f \in Injection(S, T)
  BY DEF Injection, IsInjective
<1> QED  BY <1>1, FS_Injection

(* The funnel, over any calls the store still keeps.                       *)
LEMMA FunnelFits ==
    ASSUME BridgeKept, Sealed PROVE FunnelNarrows
<1> SUFFICES ASSUME NEW kept \in SUBSET Calls
             PROVE  /\ Dashboard(kept).transferred <= Dashboard(kept).booked
                    /\ Dashboard(kept).booked <= Dashboard(kept).agreed
                    /\ Dashboard(kept).booked <= Dashboard(kept).identity
                    /\ Dashboard(kept).identity <= Dashboard(kept).authority
                    /\ Dashboard(kept).booked
                         <= Cardinality({l \in Loads : \E c \in kept : HeldFor(c, l)})
  BY DEF FunnelNarrows
<1> DEFINE sold == {c \in kept : session[c].outcome \in {"booked", "transferred"}}
           passed == {c \in kept : session[c].outcome \in {"transferred"}}
           known == {c \in kept : session[c].stage >= IDENTITY_VERIFIED}
           cleared == {c \in kept : session[c].stage >= AUTHORITY_VERIFIED}
           deals == NegotiationsThatAre(kept, "agreed")
           held == {l \in Loads : \E c \in kept : HeldFor(c, l)}
<1>1. /\ Dashboard(kept).transferred = Cardinality(passed)
      /\ Dashboard(kept).booked = Cardinality(sold)
      /\ Dashboard(kept).agreed = Cardinality(deals)
      /\ Dashboard(kept).identity = Cardinality(known)
      /\ Dashboard(kept).authority = Cardinality(cleared)
  BY DEF Dashboard, CallsThatEnded, CallsAt
<1>2. /\ IsFiniteSet(sold) /\ IsFiniteSet(known) /\ IsFiniteSet(cleared)
      /\ IsFiniteSet(deals) /\ IsFiniteSet(held)
  <2>1. IsFiniteSet(kept)
    BY DashboardAssumption, FS_Subset
  <2>2. IsFiniteSet(kept \X Loads)
    BY <2>1, DashboardAssumption, FS_Product
  <2> QED  BY <2>1, <2>2, DashboardAssumption, FS_Subset DEF NegotiationsThatAre
<1>3. \A c \in kept : session[c] \in CallRecord /\ session[c].stage \in Nat
  BY CallFacts, StageOrder
<1>4. ASSUME NEW c \in sold
      PROVE  /\ session[c].booked \in Loads
             /\ Agreed(session[c], session[c].booked)
             /\ session[c].stage >= BOOKED
             /\ HeldFor(c, session[c].booked)
  <2>1. session[c].booked # None /\ session[c].booked \in trail[c].confirmed
    BY <1>4, CallFacts DEF CallKept, Gated
  <2>2. session[c].booked \in Loads
    BY <1>3, <2>1 DEF CallRecord
  <2> QED  BY <2>1, <2>2 DEF Sealed, BridgeKept, ToldKept, Holds, HeldFor
<1>5. Cardinality(passed) <= Cardinality(sold)
  <2>1. passed \subseteq sold
    OBVIOUS
  <2> HIDE DEF sold, passed
  <2> QED  BY <1>2, <2>1, FS_Subset
<1>6. Cardinality(sold) <= Cardinality(known)
  <2>1. sold \subseteq known
    BY <1>3, <1>4 DEF BOOKED, IDENTITY_VERIFIED
  <2> HIDE DEF sold, known
  <2> QED  BY <1>2, <2>1, FS_Subset
<1>7. Cardinality(known) <= Cardinality(cleared)
  <2>1. known \subseteq cleared
    BY <1>3 DEF AUTHORITY_VERIFIED, IDENTITY_VERIFIED
  <2> HIDE DEF known, cleared
  <2> QED  BY <1>2, <2>1, FS_Subset
<1>8. Cardinality(sold) <= Cardinality(deals)
  <2> DEFINE f == [c \in sold |-> <<c, session[c].booked>>]
  <2>1. f \in [sold -> deals]
    BY <1>4 DEF Agreed, NegotiationsThatAre
  <2>2. \A c, d \in sold : f[c] = f[d] => c = d
    OBVIOUS
  <2> HIDE DEF f, sold, deals
  <2> QED  BY <1>2, <2>1, <2>2, OneEach
<1>9. Cardinality(sold) <= Cardinality(held)
  <2> DEFINE f == [c \in sold |-> session[c].booked]
  <2>1. f \in [sold -> held]
    BY <1>4
  <2>2. \A c, d \in sold : f[c] = f[d] => c = d
    BY <1>4 DEF HeldFor
  <2> HIDE DEF f, sold, held
  <2> QED  BY <1>2, <2>1, <2>2, OneEach
<1> QED  BY <1>1, <1>5, <1>6, <1>7, <1>8, <1>9

(* The dashboard never shows more bookings than agreed rates, verified     *)
(* calls or loads the TMS holds, whichever calls the store has forgotten.  *)
THEOREM FunnelAlwaysNarrows ==
    ASSUME ~Overlap
    PROVE  Spec => []FunnelNarrows
<1>1. BridgeKept /\ Sealed => FunnelNarrows
  BY FunnelFits
<1> QED  BY <1>1, AlwaysSealed, AlwaysKept, PTL
=============================================================================
