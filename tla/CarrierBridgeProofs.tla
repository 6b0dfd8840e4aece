-------------------------- MODULE CarrierBridgeProofs --------------------------
(***************************************************************************)
(* The safety of the bridge for any number of calls, requests, carriers    *)
(* and loads, whatever overlaps: its types, and the invariants             *)
(* CarrierBridge states for every schedule.                                *)
(***************************************************************************)
EXTENDS CarrierBridge, NegotiationTheorems

(* The inductive invariant, by the piece of state it speaks of.  A call:   *)
(* its stage has the history to show for it, as long as it is open.        *)
Gated(s, t) ==
    /\ t.proven # {} => t.cleared # {}
    /\ ~s.terminated =>
         /\ s.stage >= AUTHORITY_VERIFIED => t.cleared # {}
         /\ s.stage >= IDENTITY_VERIFIED => t.proven # {}
         /\ s.stage >= BOOKED => s.booked # None
    /\ TouchedFreight(s) => t.proven # {}
    /\ s.booked # None => s.booked \in t.confirmed
    /\ s.handed \/ s.outcome \in {"booked", "transferred"} => s.booked # None

(* What it has agreed on a load is within the load's ceiling unless the    *)
(* posted rate is above it, and is a number the carrier named.             *)
Priceworthy(n, l, t) ==
    /\ Sound(n)
    /\ n.ceiling = MaxBuy[l]
    /\ n.status = "agreed" => <<l, n.agreed>> \in t.named

DealsKept(s, t) ==
    \A l \in Loads :
        s.negotiations[l] # None => Priceworthy(s.negotiations[l], l, t)

CallKept(s, t) == Gated(s, t) /\ DealsKept(s, t)

(* A booking, wherever it is: in a request, under way, or in the TMS.      *)
BookingKept(b, tr) ==
    /\ b \in Booking
    /\ MaxBuy[b.load] # NoRate
    /\ b.rate <= MaxBuy[b.load]
    /\ <<b.load, b.rate>> \in tr[b.call].named

Holds(h, c, l) == h[l] \in Booking /\ h[l].call = c

FreightOps == {"search", "detail", "negotiate", "book"}

RequestKept(q, tr, h) ==
    /\ q.op \in FreightOps => tr[q.call].proven # {}
    /\ q.op = "book" => BookingKept(BookingOf(q), tr)
    /\ q.op = "book" /\ q.reply = "confirmed" => Holds(h, q.call, q.load)

RequestsKept(qs, tr, h) == \A r \in Requests : RequestKept(qs[r], tr, h)
CallsKept(ss, tr) == \A c \in Calls : CallKept(ss[c], tr[c])
OrphansKept(os, tr) == \A o \in os : BookingKept(o, tr)
HoldersKept(h, tr) ==
    \A l \in Loads : h[l] \in Booking => h[l].load = l /\ BookingKept(h[l], tr)
ToldKept(tr, h) == \A c \in Calls : \A l \in tr[c].confirmed : Holds(h, c, l)

BridgeKept ==
    /\ TypeOK
    /\ CallsKept(session, trail)
    /\ RequestsKept(request, trail, tms)
    /\ OrphansKept(orphans, trail)
    /\ HoldersKept(tms, trail)
    /\ ToldKept(trail, tms)

-----------------------------------------------------------------------------
(* Nothing the history or the TMS holds is ever taken back, and what is    *)
(* kept under it stays kept.                                               *)

Grows(t, u) ==
    /\ t.cleared \subseteq u.cleared
    /\ t.proven \subseteq u.proven
    /\ t.named \subseteq u.named
    /\ t.confirmed \subseteq u.confirmed

Grown(tr, ur) == \A c \in Calls : Grows(tr[c], ur[c])
Firm(h, g) == \A l \in Loads : h[l] \in Booking => g[l] = h[l]

(* A booking stays within its ceiling and at a named number.               *)
LEMMA BookingStays ==
    ASSUME NEW tr, NEW ur, Grown(tr, ur), NEW b, BookingKept(b, tr)
    PROVE  BookingKept(b, ur)
BY DEF BookingKept, Grown, Grows, Booking

(* A suspended request keeps what it may resume with.                      *)
LEMMA RequestStays ==
    ASSUME NEW tr, NEW ur, NEW h, NEW g, Grown(tr, ur), Firm(h, g),
           NEW q \in Request, RequestKept(q, tr, h)
    PROVE  RequestKept(q, ur, g)
<1>1. q.op \in FreightOps => q.call \in Calls
  BY DEF Request, Free, VerifyRequest, SearchRequest, DetailRequest,
         NegotiateRequest, BookRequest, FreightOps
<1>2. q.op = "book" => q.load \in Loads
  BY DEF Request, Free, VerifyRequest, SearchRequest, DetailRequest,
         NegotiateRequest, BookRequest
<1>3. q.op \in FreightOps => ur[q.call].proven # {}
  BY <1>1 DEF RequestKept, Grown, Grows
<1>4. q.op = "book" => BookingKept(BookingOf(q), ur)
  BY BookingStays DEF RequestKept
<1>5. q.op = "book" /\ q.reply = "confirmed" => Holds(g, q.call, q.load)
  BY <1>2 DEF RequestKept, Firm, Holds
<1> QED  BY <1>3, <1>4, <1>5 DEF RequestKept

(* So does every booking the TMS holds.                                    *)
LEMMA HoldersStay ==
    ASSUME NEW tr, NEW ur, NEW h, Grown(tr, ur), HoldersKept(h, tr)
    PROVE  HoldersKept(h, ur)
BY BookingStays DEF HoldersKept

(* And every booking still under way.                                      *)
LEMMA OrphansStay ==
    ASSUME NEW tr, NEW ur, NEW os, Grown(tr, ur), OrphansKept(os, tr)
    PROVE  OrphansKept(os, ur)
BY BookingStays DEF OrphansKept

(* And what was negotiated, as long as it is left alone.                   *)
LEMMA DealsStay ==
    ASSUME NEW s, NEW s2, NEW t, NEW u, t.named \subseteq u.named,
           s2.negotiations = s.negotiations, DealsKept(s, t)
    PROVE  DealsKept(s2, u)
BY DEF DealsKept, Priceworthy

(* All suspended requests, over a step that suspends or ends none.         *)
LEMMA RequestsStay ==
    ASSUME BridgeKept, NEW ur, NEW g, Grown(trail, ur), Firm(tms, g)
    PROVE  RequestsKept(request, ur, g)
<1> SUFFICES ASSUME NEW r \in Requests
             PROVE  RequestKept(request[r], ur, g)
  BY DEF RequestsKept
<1>1. request[r] \in Request
  BY DEF BridgeKept, TypeOK
<1>2. RequestKept(request[r], trail, tms)
  BY DEF BridgeKept, RequestsKept
<1> QED  BY <1>1, <1>2, RequestStays

(* One request is suspended, answered or resumed.                          *)
LEMMA RequestsMove ==
    ASSUME BridgeKept, NEW ur, NEW g, Grown(trail, ur), Firm(tms, g),
           NEW r \in Requests, NEW q \in Request, RequestKept(q, ur, g),
           NEW qs, qs = [request EXCEPT ![r] = q]
    PROVE  qs \in [Requests -> Request] /\ RequestsKept(qs, ur, g)
<1>1. RequestsKept(request, ur, g)
  BY RequestsStay
<1>2. request \in [Requests -> Request]
  BY DEF BridgeKept, TypeOK
<1> QED  BY <1>1, <1>2 DEF RequestsKept

(* A step that leaves the TMS alone and moves one call, its history and    *)
(* the requests.                                                           *)
LEMMA CallMoves ==
    ASSUME BridgeKept, NEW c \in Calls, NEW s \in CallRecord, NEW u \in Trail,
           Grows(trail[c], u), CallKept(s, u),
           \A l \in u.confirmed : Holds(tms, c, l),
           session' = [session EXCEPT ![c] = s],
           trail' = [trail EXCEPT ![c] = u],
           request' \in [Requests -> Request],
           RequestsKept(request', [trail EXCEPT ![c] = u], tms),
           orphans' \subseteq Booking,
           OrphansKept(orphans', [trail EXCEPT ![c] = u]),
           tms' = tms, board' \in BOOLEAN
    PROVE  BridgeKept'
<1> DEFINE ur == [trail EXCEPT ![c] = u]
<1>1. trail \in [Calls -> Trail] /\ session \in [Calls -> CallRecord]
  BY DEF BridgeKept, TypeOK
<1>2. Grown(trail, ur)
  BY <1>1 DEF Grown, Grows
<1>3. TypeOK'
  BY <1>1 DEF BridgeKept, TypeOK
<1>4. CallsKept(session', ur)
  <2> SUFFICES ASSUME NEW d \in Calls
               PROVE  CallKept(session'[d], ur[d])
    BY DEF CallsKept
  <2>1. CASE d = c
    BY <1>1, <2>1
  <2>2. CASE d # c
    BY <1>1, <2>2 DEF BridgeKept, CallsKept
  <2> QED  BY <2>1, <2>2
<1>5. HoldersKept(tms, ur)
  BY <1>2, HoldersStay DEF BridgeKept
<1>6. ToldKept(ur, tms)
  BY <1>1 DEF BridgeKept, ToldKept
<1> QED  BY <1>3, <1>4, <1>5, <1>6 DEF BridgeKept

(* One that leaves the history alone, too.                                 *)
LEMMA OneCallMoves ==
    ASSUME BridgeKept, NEW c \in Calls, NEW s \in CallRecord,
           CallKept(s, trail[c]), Becomes(c, s),
           request' \in [Requests -> Request], RequestsKept(request', trail, tms),
           UNCHANGED <<tms, orphans, board, trail>>
    PROVE  BridgeKept'
<1>1. trail \in [Calls -> Trail] /\ session \in [Calls -> CallRecord]
      /\ orphans \subseteq Booking /\ board \in BOOLEAN
  BY DEF BridgeKept, TypeOK
<1>2. trail = [trail EXCEPT ![c] = trail[c]]
  BY <1>1
<1>3. \A l \in trail[c].confirmed : Holds(tms, c, l)
  BY DEF BridgeKept, ToldKept
<1>4. OrphansKept(orphans, trail)
  BY DEF BridgeKept
<1>5. trail[c] \in Trail /\ Grows(trail[c], trail[c])
  BY <1>1 DEF Grows
<1> QED  BY <1>1, <1>2, <1>3, <1>4, <1>5, CallMoves DEF Becomes

(* One that moves a request and nothing else.                              *)
LEMMA OneRequestMoves ==
    ASSUME BridgeKept, NEW r \in Requests, NEW q \in Request,
           RequestKept(q, trail, tms), request' = [request EXCEPT ![r] = q],
           UNCHANGED <<session, tms, orphans, board, trail>>
    PROVE  BridgeKept'
<1>1. Grown(trail, trail) /\ Firm(tms, tms)
  BY DEF Grown, Grows, Firm
<1>2. request' \in [Requests -> Request] /\ RequestsKept(request', trail, tms)
  BY <1>1, RequestsMove
<1> QED  BY <1>2 DEF BridgeKept, TypeOK

-----------------------------------------------------------------------------
(* Parts of a call's record.                                               *)

(* What BridgeKept says of one call.                                       *)
LEMMA CallFacts ==
    ASSUME BridgeKept, NEW c \in Calls
    PROVE  /\ session[c] \in CallRecord
           /\ trail[c] \in Trail
           /\ CallKept(session[c], trail[c])
BY DEF BridgeKept, TypeOK, CallsKept

(* What BridgeKept says of one request, by what it awaits.                 *)
LEMMA RequestFacts ==
    ASSUME BridgeKept, NEW r \in Requests
    PROVE  /\ request[r] \in Request
           /\ RequestKept(request[r], trail, tms)
           /\ request[r].op = "verify" => request[r] \in VerifyRequest
           /\ request[r].op = "search" => request[r] \in SearchRequest
           /\ request[r].op = "detail" => request[r] \in DetailRequest
           /\ request[r].op = "negotiate" => request[r] \in NegotiateRequest
           /\ request[r].op = "book" => request[r] \in BookRequest
<1>1. request[r] \in Request /\ RequestKept(request[r], trail, tms)
  BY DEF BridgeKept, TypeOK, RequestsKept
<1> QED  BY <1>1 DEF Request, Free, VerifyRequest, SearchRequest, DetailRequest,
                     NegotiateRequest, BookRequest

(* Advancing touches the stage, and only upwards.                          *)
LEMMA Advanced ==
    ASSUME NEW s \in CallRecord, NEW stage \in Stage
    PROVE  /\ AdvanceTo(s, stage) \in CallRecord
           /\ AdvanceTo(s, stage).stage \in {s.stage, stage}
           /\ AdvanceTo(s, stage).terminated = s.terminated
           /\ AdvanceTo(s, stage).outcome = s.outcome
           /\ AdvanceTo(s, stage).offered = s.offered
           /\ AdvanceTo(s, stage).selected = s.selected
           /\ AdvanceTo(s, stage).booked = s.booked
           /\ AdvanceTo(s, stage).handed = s.handed
           /\ AdvanceTo(s, stage).negotiations = s.negotiations
           /\ AdvanceTo(s, stage).mc = s.mc
BY DEF AdvanceTo, CallRecord

(* A terminated call owes its stage nothing.                               *)
LEMMA Terminated ==
    ASSUME NEW s \in CallRecord
    PROVE  /\ Terminate(s) \in CallRecord
           /\ Terminate(s).terminated
           /\ Terminate(s).outcome = s.outcome
           /\ Terminate(s).offered = s.offered
           /\ Terminate(s).selected = s.selected
           /\ Terminate(s).booked = s.booked
           /\ Terminate(s).handed = s.handed
           /\ Terminate(s).negotiations = s.negotiations
BY DEF Terminate, CallRecord, Stage, CLOSED, STARTED, AUTHORITY_VERIFIED,
       OTP_SENT, IDENTITY_VERIFIED, LOAD_SELECTED, RATE_AGREED, BOOKED

(* The free slot, and what resuming a request leaves.                      *)
LEMMA Resumed ==
    ASSUME BridgeKept, NEW ur, Grown(trail, ur), NEW r \in Requests, Resume(r)
    PROVE  request' \in [Requests -> Request] /\ RequestsKept(request', ur, tms)
<1>1. Free \in Request /\ RequestKept(Free, ur, tms)
  BY DEF Request, Free, RequestKept, FreightOps
<1>2. Firm(tms, tms)
  BY DEF Firm
<1> QED  BY <1>1, <1>2, RequestsMove DEF Resume

(* The requests, when none of them moves.                                  *)
LEMMA Rested ==
    ASSUME BridgeKept, NEW ur, Grown(trail, ur), UNCHANGED request
    PROVE  request' \in [Requests -> Request] /\ RequestsKept(request', ur, tms)
<1>1. Firm(tms, tms) /\ request \in [Requests -> Request]
  BY DEF Firm, BridgeKept, TypeOK
<1> QED  BY <1>1, RequestsStay

-----------------------------------------------------------------------------
(* What evaluate() does to the numbers: the ceiling stands, and a rate is  *)
(* agreed at the ask that was just named or not at all.                    *)
LEMMA EvaluatedMoves ==
    ASSUME NEW n, Sound(n), NEW ask \in Ask, NEW recent \in BOOLEAN
    PROVE  /\ Sound(Evaluated(n, ask, recent))
           /\ Evaluated(n, ask, recent) \in NegotiationRecord
           /\ Evaluated(n, ask, recent).ceiling = n.ceiling
           /\ Evaluated(n, ask, recent).status = "agreed" =>
                 Evaluated(n, ask, recent) = n \/ Evaluated(n, ask, recent).agreed = ask
<1>1. Sound(Evaluated(n, ask, recent))
  BY EvaluatedSound
<1>2. Evaluated(n, ask, recent) \in NegotiationRecord /\ n \in NegotiationRecord
  BY <1>1 DEF Sound
<1>3. Counted(n, ask) \in NegotiationRecord /\ Counted(n, ask).ceiling = n.ceiling
  BY <1>2, CountedKeeps
<1>4. CASE Stands(n, ask, recent)
  BY <1>1, <1>2, <1>4 DEF Evaluated
<1>5. CASE ~Stands(n, ask, recent)
  <2>0. n.status = "open"
    BY <1>5 DEF Stands
  <2>1. FailedOutright(n).ceiling = n.ceiling /\ FailedOutright(n).status = "failed"
    BY <1>2 DEF FailedOutright, NegotiationRecord
  <2>2. /\ Accepted(Counted(n, ask), ask).ceiling = n.ceiling
        /\ Accepted(Counted(n, ask), ask).agreed = ask
    BY <1>3 DEF Accepted, NegotiationRecord
  <2>3. /\ Rejected(Counted(n, ask), ask).ceiling = n.ceiling
        /\ Rejected(Counted(n, ask), ask).status = "failed"
    BY <1>3 DEF Rejected, NegotiationRecord
  <2>4. Counted(n, ask).status = n.status
    BY <1>2 DEF Counted, NegotiationRecord
  <2>5. /\ Countered(Counted(n, ask), ask).ceiling = n.ceiling
        /\ Countered(Counted(n, ask), ask).status = "open"
    BY <1>3, <2>0, <2>4 DEF Countered, NegotiationRecord
  <2> QED  BY <1>1, <1>2, <1>5, <2>1, <2>2, <2>3, <2>5 DEF Evaluated
<1> QED  BY <1>4, <1>5

(* What negotiate leaves of the call: one more evaluation of the load's    *)
(* negotiation, an outcome, a stage of RATE_AGREED at most.                *)
LEMMA PricedMoves ==
    ASSUME NEW s \in CallRecord, NEW l \in Loads, NEW ask \in Asks,
           NEW recent \in BOOLEAN, NEW p, p = Priced(s, l, ask, recent),
           NEW t, NEW u, t.named \subseteq u.named, <<l, ask>> \in u.named,
           DealsKept(s, t), s.negotiations[l] # None
    PROVE  /\ p \in CallRecord
           /\ p.terminated = s.terminated
           /\ p.stage \in {s.stage, RATE_AGREED}
           /\ p.booked = s.booked
           /\ p.handed = s.handed
           /\ p.mc = s.mc
           /\ p.outcome \in {s.outcome, "failed_negotiation"}
           /\ p.negotiations[l] # None
           /\ DealsKept(p, u)
<1> DEFINE old == s.negotiations[l]
           new == Evaluated(old, ask, recent)
           v == [s EXCEPT !.negotiations[l] = new]
           w == [v EXCEPT !.agreed = new.agreed, !.selected = l]
           x == [v EXCEPT !.outcome = "failed_negotiation"]
<1>1. Priceworthy(old, l, t) /\ Sound(old)
  BY DEF DealsKept, Priceworthy
<1>2. ask \in Ask
  BY SessionAssumption
<1>3. /\ Sound(new) /\ new \in NegotiationRecord
      /\ new.ceiling = old.ceiling
      /\ new.status = "agreed" => new = old \/ new.agreed = ask
  BY <1>1, <1>2, EvaluatedMoves
<1>4. Priceworthy(new, l, u)
  BY <1>1, <1>3 DEF Priceworthy
<1>5. new # None
  BY <1>3, HolderAssumption
<1> HIDE DEF new
<1>6. s.negotiations \in [Loads -> NegotiationRecord \cup {None}]
  BY DEF CallRecord
<1>7. /\ v \in CallRecord
      /\ v.terminated = s.terminated /\ v.stage = s.stage /\ v.booked = s.booked
      /\ v.handed = s.handed /\ v.mc = s.mc /\ v.outcome = s.outcome
      /\ v.negotiations = [s.negotiations EXCEPT ![l] = new]
  BY <1>3, <1>6 DEF CallRecord
<1>8. DealsKept(v, u) /\ v.negotiations[l] = new
  BY <1>4, <1>6, <1>7 DEF DealsKept, Priceworthy
<1> HIDE DEF v
<1>9. new.agreed \in Rate \cup {NoRate}
  BY <1>3 DEF NegotiationRecord
<1>10. /\ w \in CallRecord
       /\ w.terminated = v.terminated /\ w.stage = v.stage /\ w.booked = v.booked
       /\ w.handed = v.handed /\ w.mc = v.mc /\ w.outcome = v.outcome
       /\ w.negotiations = v.negotiations
  BY <1>7, <1>9 DEF CallRecord
<1>11. /\ x \in CallRecord
       /\ x.terminated = v.terminated /\ x.stage = v.stage /\ x.booked = v.booked
       /\ x.handed = v.handed /\ x.mc = v.mc /\ x.outcome = "failed_negotiation"
       /\ x.negotiations = v.negotiations
  BY <1>7 DEF CallRecord, Outcome
<1> HIDE DEF w, x
<1>12. CASE Replays(old, ask, recent)
  <2>1. p = s
    BY <1>12 DEF Priced
  <2>2. DealsKept(s, u)
    BY DealsStay
  <2> QED  BY <2>1, <2>2
<1>13. CASE ~Replays(old, ask, recent)
  <2>1. DecisionOf(old, ask, recent) \in {"accepted", "rejected", "countered"}
    BY <1>13 DEF DecisionOf
  <2>2. CASE DecisionOf(old, ask, recent) = "accepted"
    <3>1. p = AdvanceTo(w, RATE_AGREED)
      BY <1>13, <2>2 DEF Priced, w, v, new
    <3>2. RATE_AGREED \in Stage
      BY DEF Stage
    <3>3. /\ p \in CallRecord /\ p.stage \in {w.stage, RATE_AGREED}
          /\ p.terminated = w.terminated /\ p.outcome = w.outcome
          /\ p.booked = w.booked /\ p.handed = w.handed
          /\ p.negotiations = w.negotiations /\ p.mc = w.mc
      BY <1>10, <3>1, <3>2, Advanced
    <3>4. DealsKept(p, u)
      BY <1>8, <1>10, <3>3 DEF DealsKept
    <3> QED  BY <1>5, <1>7, <1>8, <1>10, <3>3, <3>4
  <2>3. CASE DecisionOf(old, ask, recent) = "rejected"
    <3>1. p = x
      BY <1>13, <2>3 DEF Priced, x, v, new
    <3>2. DealsKept(p, u)
      BY <1>8, <1>11, <3>1 DEF DealsKept
    <3> QED  BY <1>5, <1>7, <1>8, <1>11, <3>1, <3>2
  <2>4. CASE DecisionOf(old, ask, recent) = "countered"
    <3>1. p = v
      BY <1>13, <2>4 DEF Priced, v, new
    <3> QED  BY <1>5, <1>7, <1>8, <3>1
  <2> QED  BY <2>1, <2>2, <2>3, <2>4
<1> QED  BY <1>12, <1>13

-----------------------------------------------------------------------------
(* A call that keeps its booking stays Gated as long as its stage, and the *)
(* freight it touches, have the history to show for it.                    *)
LEMMA GateKept ==
    ASSUME NEW s \in CallRecord, NEW z \in CallRecord, NEW t, NEW u,
           Gated(s, t), Grows(t, u), u.proven # {} => u.cleared # {},
           z.booked = s.booked, z.handed = s.handed,
           z.outcome = s.outcome \/ z.outcome \notin {"booked", "transferred"},
           TouchedFreight(z) => TouchedFreight(s) \/ u.proven # {},
           \/ z.terminated
           \/ /\ z.terminated = s.terminated
              /\ \/ z.stage = s.stage
                 \/ z.stage < IDENTITY_VERIFIED /\ u.cleared # {}
                 \/ z.stage < BOOKED /\ u.proven # {}
    PROVE  Gated(z, u)
<1>1. z.stage \in Nat /\ s.stage \in Nat
  BY DEF CallRecord, Stage, CLOSED, STARTED, AUTHORITY_VERIFIED, OTP_SENT,
         IDENTITY_VERIFIED, LOAD_SELECTED, RATE_AGREED, BOOKED
<1>2. ~z.terminated =>
         /\ z.stage >= AUTHORITY_VERIFIED => u.cleared # {}
         /\ z.stage >= IDENTITY_VERIFIED => u.proven # {}
         /\ z.stage >= BOOKED => z.booked # None
  BY <1>1 DEF Gated, Grows, AUTHORITY_VERIFIED, IDENTITY_VERIFIED, BOOKED
<1>3. TouchedFreight(z) => u.proven # {}
  BY DEF Gated, Grows
<1>4. z.booked # None => z.booked \in u.confirmed
  BY DEF Gated, Grows
<1>5. z.handed \/ z.outcome \in {"booked", "transferred"} => z.booked # None
  BY DEF Gated
<1> QED  BY <1>2, <1>3, <1>4, <1>5 DEF Gated

-----------------------------------------------------------------------------
(* The three shapes of a handler's step: it moves its call and its history,*)
(* its call alone, or just ends.                                           *)
LEMMA CallLogs ==
    ASSUME BridgeKept, NEW c \in Calls, NEW s \in CallRecord, NEW u \in Trail,
           Grows(trail[c], u), CallKept(s, u),
           \A l \in u.confirmed : Holds(tms, c, l),
           Becomes(c, s), trail' = [trail EXCEPT ![c] = u],
           \/ UNCHANGED request
           \/ \E r \in Requests : Resume(r),
           UNCHANGED <<tms, orphans, board>>
    PROVE  BridgeKept'
<1> DEFINE ur == [trail EXCEPT ![c] = u]
<1>1. trail \in [Calls -> Trail] /\ orphans \subseteq Booking /\ board \in BOOLEAN
  BY DEF BridgeKept, TypeOK
<1>2. Grown(trail, ur)
  BY <1>1 DEF Grown, Grows
<1>3. request' \in [Requests -> Request] /\ RequestsKept(request', ur, tms)
  BY <1>2, Resumed, Rested
<1>4. OrphansKept(orphans, ur)
  BY <1>2, OrphansStay DEF BridgeKept
<1>5. orphans' \subseteq Booking /\ OrphansKept(orphans', ur)
      /\ tms' = tms /\ board' \in BOOLEAN
  BY <1>1, <1>4
<1>6. session' = [session EXCEPT ![c] = s]
  BY DEF Becomes
<1> HIDE DEF ur
<1> QED  BY <1>3, <1>5, <1>6, CallMoves DEF ur

(* A step that moves a call, and logs nothing the history keeps.           *)
LEMMA CallSettles ==
    ASSUME BridgeKept, NEW c \in Calls, NEW s \in CallRecord,
           CallKept(s, trail[c]), Becomes(c, s),
           \/ UNCHANGED request
           \/ \E r \in Requests : Resume(r),
           UNCHANGED <<tms, orphans, board, trail>>
    PROVE  BridgeKept'
<1>1. Grown(trail, trail)
  BY DEF Grown, Grows
<1>2. request' \in [Requests -> Request] /\ RequestsKept(request', trail, tms)
  BY <1>1, Resumed, Rested
<1> QED  BY <1>2, OneCallMoves

(* A handler that ends without a trace.                                    *)
LEMMA RequestEnds ==
    ASSUME BridgeKept, NEW r \in Requests, Resume(r),
           UNCHANGED <<session, tms, orphans, board, trail>>
    PROVE  BridgeKept'
<1>1. Free \in Request /\ RequestKept(Free, trail, tms)
  BY DEF Request, Free, RequestKept, FreightOps
<1> QED  BY <1>1, OneRequestMoves DEF Resume

(* A handler that suspends on its await.                                   *)
LEMMA RequestStarts ==
    ASSUME BridgeKept, NEW r \in Requests, NEW q \in Request, Suspend(r, q),
           RequestKept(q, trail, tms),
           UNCHANGED <<session, tms, orphans, board, trail>>
    PROVE  BridgeKept'
BY OneRequestMoves DEF Suspend

(* A step of the call that shows it nothing and books nothing.             *)
LEMMA CallQuiet ==
    ASSUME BridgeKept, NEW c \in Calls, NEW z \in CallRecord,
           z.booked = session[c].booked, z.handed = session[c].handed,
           z.offered = session[c].offered, z.selected = session[c].selected,
           z.negotiations = session[c].negotiations,
           z.outcome = session[c].outcome
              \/ z.outcome \notin {"booked", "transferred"},
           \/ z.terminated
           \/ /\ z.terminated = session[c].terminated
              /\ \/ z.stage = session[c].stage
                 \/ z.stage < IDENTITY_VERIFIED /\ trail[c].cleared # {}
    PROVE  CallKept(z, trail[c])
<1>1. session[c] \in CallRecord /\ CallKept(session[c], trail[c])
  BY CallFacts
<1>2. Gated(session[c], trail[c])
  BY <1>1 DEF CallKept
<1>3. Grows(trail[c], trail[c])
  BY DEF Grows
<1>4. trail[c].proven # {} => trail[c].cleared # {}
  BY <1>2 DEF Gated
<1>5. TouchedFreight(z) => TouchedFreight(session[c]) \/ trail[c].proven # {}
  BY DEF TouchedFreight
<1>6. Gated(z, trail[c])
  BY <1>1, <1>2, <1>3, <1>4, <1>5, GateKept
<1>7. DealsKept(z, trail[c])
  BY <1>1, DealsStay DEF CallKept
<1> QED  BY <1>6, <1>7 DEF CallKept

-----------------------------------------------------------------------------
(* What a step of a call, and of its history, looks like through the       *)
(* refinement mapping: as a step of SalesCall, or as nothing.              *)

Promised == [Sales!Next]_(Sales!vars)

(* A call's step changes what is seen of that call and of no other.        *)
LEMMA CallSeen ==
    ASSUME BridgeKept, NEW c \in Calls, NEW z, Becomes(c, z)
    PROVE  /\ Shown' = [Shown EXCEPT ![c] = TouchedFreight(z)]
           /\ WithRep' = [WithRep EXCEPT ![c] = z.handed]
           /\ Ended' = [Ended EXCEPT ![c] = z.terminated]
<1>1. session \in [Calls -> CallRecord]
  BY DEF BridgeKept, TypeOK
<1>2. session'[c] = z /\ \A d \in Calls : d # c => session'[d] = session[d]
  BY <1>1 DEF Becomes
<1>3. Shown' = [d \in Calls |-> TouchedFreight(session'[d])]
  BY DEF Shown, TouchedFreight
<1>4. Shown' = [Shown EXCEPT ![c] = TouchedFreight(z)]
  BY <1>2, <1>3 DEF Shown
<1>5. WithRep' = [WithRep EXCEPT ![c] = z.handed]
  BY <1>2 DEF WithRep
<1>6. Ended' = [Ended EXCEPT ![c] = z.terminated]
  BY <1>2 DEF Ended
<1> QED  BY <1>4, <1>5, <1>6

(* With the calls left alone, what is seen of them stays.                  *)
LEMMA CallUnseen ==
    ASSUME UNCHANGED session
    PROVE  UNCHANGED <<Shown, WithRep, Ended>>
BY DEF Shown, WithRep, Ended, TouchedFreight

Logs(c, u) == trail' = [trail EXCEPT ![c] = u]

(* What is seen of one call's history.                                     *)
LEMMA TrailSeen ==
    ASSUME BridgeKept, NEW c \in Calls, NEW u, Logs(c, u)
    PROVE  /\ Clearances' = [Clearances EXCEPT ![c] = u.cleared]
           /\ Proofs' = [Proofs EXCEPT ![c] = u.proven]
           /\ Numbers' = [Numbers EXCEPT ![c] = u.named]
           /\ Told' = [Told EXCEPT ![c] = u.confirmed]
           /\ Doubts' = [Doubts EXCEPT ![c] = u.uncertain]
<1>1. trail'[c] = u /\ \A d \in Calls : d # c => trail'[d] = trail[d]
  BY DEF Logs, BridgeKept, TypeOK
<1>2. Clearances' = [Clearances EXCEPT ![c] = u.cleared]
  BY <1>1 DEF Clearances
<1>3. Proofs' = [Proofs EXCEPT ![c] = u.proven]
  BY <1>1 DEF Proofs
<1>4. Numbers' = [Numbers EXCEPT ![c] = u.named]
  BY <1>1 DEF Numbers
<1>5. Told' = [Told EXCEPT ![c] = u.confirmed]
  BY <1>1 DEF Told
<1>6. Doubts' = [Doubts EXCEPT ![c] = u.uncertain]
  BY <1>1 DEF Doubts
<1> QED  BY <1>2, <1>3, <1>4, <1>5, <1>6

(* With the history left alone, what is seen of it stays.                  *)
LEMMA TrailUnseen ==
    ASSUME UNCHANGED trail
    PROVE  UNCHANGED <<Clearances, Proofs, Numbers, Told, Doubts>>
BY DEF Clearances, Proofs, Numbers, Told, Doubts

(* What is written over itself has not changed.                            *)
LEMMA SameAgain ==
    ASSUME NEW c \in Calls
    PROVE  /\ Shown = [Shown EXCEPT ![c] = TouchedFreight(session[c])]
           /\ WithRep = [WithRep EXCEPT ![c] = session[c].handed]
           /\ Ended = [Ended EXCEPT ![c] = session[c].terminated]
           /\ Clearances = [Clearances EXCEPT ![c] = trail[c].cleared]
           /\ Proofs = [Proofs EXCEPT ![c] = trail[c].proven]
           /\ Numbers = [Numbers EXCEPT ![c] = trail[c].named]
           /\ Told = [Told EXCEPT ![c] = trail[c].confirmed]
           /\ Doubts = [Doubts EXCEPT ![c] = trail[c].uncertain]
BY DEF Shown, WithRep, Ended, Clearances, Proofs, Numbers, Told, Doubts

(* A step of requests and answers alone is nothing to the promise.         *)
LEMMA NothingPromised ==
    ASSUME UNCHANGED <<session, tms, trail>>
    PROVE  Promised
BY CallUnseen, TrailUnseen DEF Promised, Sales!vars

(* A call that shows no more, is with no other rep, and may have ended.    *)
LEMMA QuietPromised ==
    ASSUME BridgeKept, NEW c \in Calls, NEW z, Becomes(c, z),
           TouchedFreight(z) = TouchedFreight(session[c]),
           z.handed = session[c].handed,
           z.terminated \in {session[c].terminated, TRUE},
           UNCHANGED <<tms, trail>>
    PROVE  Promised
<1>1. UNCHANGED <<tms, Clearances, Proofs, Numbers, Told, Doubts, Shown, WithRep>>
  BY CallSeen, TrailUnseen, SameAgain
<1>2. CASE z.terminated = session[c].terminated
  <2>1. UNCHANGED Ended
    BY <1>2, CallSeen, SameAgain
  <2> QED  BY <1>1, <2>1 DEF Promised, Sales!vars
<1>3. CASE z.terminated = TRUE
  <2>1. Ended' = [Ended EXCEPT ![c] = TRUE]
    BY <1>3, CallSeen
  <2>2. Sales!End(c)
    BY <1>1, <2>1 DEF Sales!End, Sales!Becomes
  <2> QED  BY <2>2 DEF Promised, Sales!Next
<1> QED  BY <1>2, <1>3

(* A call past the code that may now have been shown freight.              *)
LEMMA ShowPromised ==
    ASSUME BridgeKept, NEW c \in Calls, NEW z, Becomes(c, z),
           trail[c].proven # {},
           TouchedFreight(z) \in {TouchedFreight(session[c]), TRUE},
           z.handed = session[c].handed, z.terminated = session[c].terminated,
           UNCHANGED <<tms, trail>>
    PROVE  Promised
<1>1. UNCHANGED <<tms, Clearances, Proofs, Numbers, Told, Doubts, WithRep, Ended>>
  BY CallSeen, TrailUnseen, SameAgain
<1>2. CASE TouchedFreight(z) = TouchedFreight(session[c])
  <2>1. UNCHANGED Shown
    BY <1>2, CallSeen, SameAgain
  <2> QED  BY <1>1, <2>1 DEF Promised, Sales!vars
<1>3. CASE TouchedFreight(z) = TRUE
  <2>1. Shown' = [Shown EXCEPT ![c] = TRUE] /\ Proofs[c] # {}
    BY <1>3, CallSeen DEF Proofs
  <2>2. Sales!Show(c)
    BY <1>1, <2>1 DEF Sales!Show, Sales!Becomes
  <2> QED  BY <2>2 DEF Promised, Sales!Next
<1> QED  BY <1>2, <1>3

-----------------------------------------------------------------------------
(* One lemma per route: whatever a step of it does, BridgeKept survives.   *)

(* The number of the carrier is written on the call, which ends unless it  *)
(* has a booking.                                                          *)
LEMMA RefusedMoves ==
    ASSUME BridgeKept, NEW c \in Calls, NEW mc \in Mc
    PROVE  /\ Refused(session[c], mc) \in CallRecord
           /\ CallKept(Refused(session[c], mc), trail[c])
<1> DEFINE s == session[c]
           n == [s EXCEPT !.mc = mc, !.outcome = "rejected_authority"]
           z == Refused(s, mc)
<1>1. s \in CallRecord
  BY CallFacts
<1>2. /\ n \in CallRecord
      /\ n.booked = s.booked /\ n.handed = s.handed /\ n.offered = s.offered
      /\ n.selected = s.selected /\ n.negotiations = s.negotiations
      /\ n.stage = s.stage /\ n.terminated = s.terminated
      /\ n.outcome = "rejected_authority"
  BY <1>1 DEF CallRecord, Outcome
<1> HIDE DEF n
<1>3. CASE s.booked = None
  <2>1. z = Terminate(n)
    BY <1>3 DEF Refused, n
  <2>2. /\ z \in CallRecord /\ z.terminated
        /\ z.outcome = n.outcome /\ z.offered = n.offered
        /\ z.selected = n.selected /\ z.booked = n.booked
        /\ z.handed = n.handed /\ z.negotiations = n.negotiations
    BY <1>2, <2>1, Terminated
  <2> HIDE DEF z
  <2>3. CallKept(z, trail[c])
    BY <1>2, <2>2, CallQuiet
  <2> QED  BY <2>2, <2>3 DEF z
<1>4. CASE s.booked # None
  <2>1. z = n
    BY <1>4 DEF Refused, n
  <2>2. CallKept(n, trail[c])
    BY <1>2, CallQuiet
  <2> QED  BY <1>2, <2>1, <2>2
<1> QED  BY <1>3, <1>4

(* What a lookup clears is remembered, and the stage has it to show for.   *)
LEMMA AuthorityMoves ==
    ASSUME BridgeKept, NEW r \in Requests, AuthorityConfirmed(r)
    PROVE  BridgeKept'
<1> DEFINE q == request[r]
           s == session[q.call]
           n == [s EXCEPT !.mc = q.mc]
           z == AdvanceTo(n, AUTHORITY_VERIFIED)
           t == trail[q.call]
           u == [t EXCEPT !.cleared = @ \cup {q.mc}]
<1>1. q.call \in Calls /\ q.mc \in MCs
  BY RequestFacts DEF AuthorityConfirmed, Awaiting, VerifyRequest
<1>2. s \in CallRecord /\ t \in Trail /\ CallKept(s, t)
  BY <1>1, CallFacts
<1>3. /\ n \in CallRecord
      /\ n.booked = s.booked /\ n.handed = s.handed /\ n.offered = s.offered
      /\ n.selected = s.selected /\ n.negotiations = s.negotiations
      /\ n.stage = s.stage /\ n.terminated = s.terminated /\ n.outcome = s.outcome
  BY <1>1, <1>2 DEF CallRecord, Mc
<1>4. /\ u \in Trail /\ u.cleared # {} /\ Grows(t, u)
      /\ u.named = t.named /\ u.confirmed = t.confirmed
  BY <1>1, <1>2 DEF Trail, Grows
<1> HIDE DEF n
<1>5. AUTHORITY_VERIFIED \in Stage
  BY DEF Stage
<1>6. /\ z \in CallRecord /\ z.stage \in {n.stage, AUTHORITY_VERIFIED}
      /\ z.terminated = n.terminated /\ z.outcome = n.outcome
      /\ z.offered = n.offered /\ z.selected = n.selected /\ z.booked = n.booked
      /\ z.handed = n.handed /\ z.negotiations = n.negotiations
  BY <1>3, <1>5, Advanced
<1>7. session' = [session EXCEPT ![q.call] = z]
  BY DEF AuthorityConfirmed, Authorised, Becomes, n
<1>8. trail' = [trail EXCEPT ![q.call] = u]
  BY <1>1 DEF AuthorityConfirmed, BridgeKept, TypeOK
<1> HIDE DEF z, u
<1>9. Gated(z, u)
  <2>1. TouchedFreight(z) => TouchedFreight(s)
    BY <1>3, <1>6 DEF TouchedFreight
  <2>2. z.stage = s.stage \/ z.stage < IDENTITY_VERIFIED
    BY <1>3, <1>6 DEF AUTHORITY_VERIFIED, IDENTITY_VERIFIED
  <2>3. Gated(s, t)
    BY <1>2 DEF CallKept
  <2> QED  BY <1>2, <1>3, <1>4, <1>6, <2>1, <2>2, <2>3, GateKept
<1>10. DealsKept(z, u)
  BY <1>2, <1>3, <1>4, <1>6, DealsStay DEF CallKept
<1>11. \A l \in u.confirmed : Holds(tms, q.call, l)
  BY <1>1, <1>4 DEF BridgeKept, ToldKept
<1>12. UNCHANGED <<tms, orphans, board>> /\ Resume(r)
  BY DEF AuthorityConfirmed
<1>13. CallKept(z, u) /\ Becomes(q.call, z)
  BY <1>7, <1>9, <1>10 DEF CallKept, Becomes
<1> HIDE DEF q, t
<1> QED  BY <1>1, <1>4, <1>6, <1>8, <1>11, <1>12, <1>13, CallLogs DEF t

(* POST /v1/carriers/verify, up to its await.                              *)
LEMMA VerifyingMoves ==
    ASSUME BridgeKept, NEW c \in Calls, VerifyingCarrier(c)
    PROVE  BridgeKept'
<1>1. ASSUME NEW digits \in BOOLEAN, VerifyGarbled(c, digits)
      PROVE  BridgeKept'
  <2>1. Garbled \in Mc
    BY DEF Mc
  <2>2. /\ Refused(session[c], Garbled) \in CallRecord
        /\ CallKept(Refused(session[c], Garbled), trail[c])
    BY <2>1, RefusedMoves
  <2>3. /\ Becomes(c, Refused(session[c], Garbled)) /\ UNCHANGED request
        /\ UNCHANGED <<tms, orphans, board, trail>>
    BY <1>1 DEF VerifyGarbled
  <2> QED  BY <2>2, <2>3, CallSettles
<1>2. ASSUME NEW r \in Requests, NEW mc \in MCs, NEW padded \in BOOLEAN,
             VerifyCarrier(c, r, mc, padded)
      PROVE  BridgeKept'
  <2> DEFINE q == [op |-> "verify", call |-> c, mc |-> mc]
  <2>1. q \in Request /\ RequestKept(q, trail, tms)
    BY DEF Request, VerifyRequest, RequestKept, FreightOps
  <2>2. Suspend(r, q) /\ UNCHANGED <<session, tms, orphans, board, trail>>
    BY <1>2 DEF VerifyCarrier
  <2> QED  BY <2>1, <2>2, RequestStarts
<1> QED  BY <1>1, <1>2 DEF VerifyingCarrier

(* otp.verify: the attempts never pass the limit.                          *)
LEMMA TriedType ==
    ASSUME NEW otp \in OtpChallenge
    PROVE  /\ Tried(otp) \in OtpChallenge
           /\ [Tried(otp) EXCEPT !.verified = TRUE] \in OtpChallenge
<1>1. MaxAttempts \in Nat
  BY SessionAssumption
<1>2. Tried(otp) \in OtpChallenge
  BY <1>1 DEF Tried, Compared, OtpChallenge
<1> QED  BY <1>2 DEF OtpChallenge

(* The right code proves the carrier of a call that was cleared before.    *)
LEMMA CodeAcceptedMoves ==
    ASSUME BridgeKept, NEW c \in Calls, NEW otp \in OtpChallenge,
           Passes(session[c], OTP_SENT), CodeAccepted(c, otp),
           UNCHANGED <<request, tms, orphans, board>>
    PROVE  BridgeKept'
<1> DEFINE s == session[c]
           n == [s EXCEPT !.otp = otp, !.outcome = s.outcome]
           z == AdvanceTo(n, IDENTITY_VERIFIED)
           t == trail[c]
           u == [t EXCEPT !.proven = @ \cup {s.mc}]
<1>1. s \in CallRecord /\ t \in Trail /\ CallKept(s, t)
  BY CallFacts
<1>2. s.outcome \in Outcome /\ s.mc \in Mc /\ s.stage \in Stage
  BY <1>1 DEF CallRecord
<1>3. /\ n \in CallRecord /\ n.outcome = s.outcome
      /\ n.stage = s.stage /\ n.terminated = s.terminated
      /\ n.booked = s.booked /\ n.handed = s.handed
      /\ n.offered = s.offered /\ n.selected = s.selected
      /\ n.negotiations = s.negotiations
  BY <1>1, <1>2 DEF CallRecord
<1>4. /\ u \in Trail /\ u.proven # {} /\ Grows(t, u) /\ u.cleared = t.cleared
      /\ u.named = t.named /\ u.confirmed = t.confirmed
  BY <1>1, <1>2 DEF Trail, Grows
<1>5. session' = [session EXCEPT ![c] = z]
  <2>1. n = [s EXCEPT !.otp = otp]
    BY <1>1 DEF CallRecord
  <2> QED  BY <2>1 DEF CodeAccepted, Becomes
<1>6. trail' = [trail EXCEPT ![c] = u]
  BY DEF CodeAccepted, BridgeKept, TypeOK
<1>7. t.cleared # {}
  BY <1>1, <1>2 DEF CallKept, Gated, Passes, Stage, CLOSED, STARTED,
                    AUTHORITY_VERIFIED, OTP_SENT, IDENTITY_VERIFIED,
                    LOAD_SELECTED, RATE_AGREED, BOOKED
<1> HIDE DEF n, u
<1>8. IDENTITY_VERIFIED \in Stage
  BY DEF Stage
<1>9. /\ z \in CallRecord /\ z.stage \in {n.stage, IDENTITY_VERIFIED}
      /\ z.terminated = n.terminated /\ z.outcome = n.outcome
      /\ z.offered = n.offered /\ z.selected = n.selected /\ z.booked = n.booked
      /\ z.handed = n.handed /\ z.negotiations = n.negotiations
  BY <1>3, <1>8, Advanced
<1> HIDE DEF z
<1>10. Gated(z, u)
  <2>1. z.stage = s.stage \/ (z.stage < BOOKED /\ u.proven # {})
    BY <1>3, <1>4, <1>9 DEF IDENTITY_VERIFIED, BOOKED
  <2>2. Gated(s, t)
    BY <1>1 DEF CallKept
  <2>3. TouchedFreight(z) => TouchedFreight(s)
    BY <1>3, <1>9 DEF TouchedFreight
  <2> QED  BY <1>1, <1>3, <1>4, <1>7, <1>9, <2>1, <2>2, <2>3, GateKept
<1>11. DealsKept(z, u)
  BY <1>1, <1>3, <1>4, <1>9, DealsStay DEF CallKept
<1>12. \A l \in u.confirmed : Holds(tms, c, l)
  BY <1>4 DEF BridgeKept, ToldKept
<1>13. CallKept(z, u) /\ Becomes(c, z)
  BY <1>5, <1>10, <1>11 DEF CallKept, Becomes
<1> HIDE DEF t
<1> QED  BY <1>4, <1>6, <1>9, <1>12, <1>13, CallLogs DEF t

(* POST /v1/otp/send and /v1/otp/verify, and the passing of the TTL.       *)
LEMMA ProvingMoves ==
    ASSUME BridgeKept, NEW c \in Calls, ProvingIdentity(c)
    PROVE  BridgeKept'
<1> DEFINE s == session[c]
<1>1. s \in CallRecord /\ CallKept(s, trail[c])
  BY CallFacts
<1>2. s.outcome \in Outcome /\ s.otp \in OtpChallenge \cup {None}
  BY <1>1 DEF CallRecord
<1>3. CASE SendOtp(c)
  <2> DEFINE n == [s EXCEPT !.otp = FreshChallenge, !.outcome = s.outcome]
             z == AdvanceTo(n, OTP_SENT)
  <2>1. FreshChallenge \in OtpChallenge
    BY SessionAssumption DEF FreshChallenge, OtpChallenge
  <2>2. /\ n \in CallRecord /\ n.outcome = s.outcome
        /\ n.stage = s.stage /\ n.terminated = s.terminated
        /\ n.booked = s.booked /\ n.handed = s.handed
        /\ n.offered = s.offered /\ n.selected = s.selected
        /\ n.negotiations = s.negotiations
    BY <1>1, <1>2, <2>1 DEF CallRecord
  <2>3. n = [s EXCEPT !.otp = FreshChallenge]
    BY <1>1 DEF CallRecord
  <2>4. Becomes(c, z) /\ UNCHANGED <<request, tms, orphans, board, trail>>
    BY <1>3, <2>3 DEF SendOtp
  <2> HIDE DEF n
  <2>5. OTP_SENT \in Stage
    BY DEF Stage
  <2>6. /\ z \in CallRecord /\ z.stage \in {n.stage, OTP_SENT}
        /\ z.terminated = n.terminated /\ z.outcome = n.outcome
        /\ z.offered = n.offered /\ z.selected = n.selected /\ z.booked = n.booked
        /\ z.handed = n.handed /\ z.negotiations = n.negotiations
    BY <2>2, <2>5, Advanced
  <2> HIDE DEF z
  <2>7. trail[c].cleared # {}
    <3>1. Passes(s, AUTHORITY_VERIFIED)
      BY <1>3 DEF SendOtp
    <3> QED  BY <1>1, <3>1 DEF CallKept, Gated, Passes
  <2>8. z.stage = s.stage \/ (z.stage < IDENTITY_VERIFIED /\ trail[c].cleared # {})
    BY <2>2, <2>6, <2>7 DEF OTP_SENT, IDENTITY_VERIFIED
  <2>9. CallKept(z, trail[c])
    BY <2>2, <2>6, <2>8, CallQuiet
  <2> QED  BY <2>4, <2>6, <2>9, CallSettles
<1>4. CASE OtpExpires(c)
  <2> DEFINE otp == [s.otp EXCEPT !.expired = TRUE]
             n == [s EXCEPT !.otp = otp, !.outcome = s.outcome]
  <2>1. otp \in OtpChallenge
    BY <1>2, <1>4 DEF OtpExpires, OtpChallenge
  <2> HIDE DEF otp
  <2>2. /\ n \in CallRecord /\ n.outcome = s.outcome
        /\ n.stage = s.stage /\ n.terminated = s.terminated
        /\ n.booked = s.booked /\ n.handed = s.handed
        /\ n.offered = s.offered /\ n.selected = s.selected
        /\ n.negotiations = s.negotiations
    BY <1>1, <1>2, <2>1 DEF CallRecord
  <2>3. n = [s EXCEPT !.otp = otp]
    BY <1>1 DEF CallRecord
  <2>4. Becomes(c, n) /\ UNCHANGED <<request, tms, orphans, board, trail>>
    BY <1>4, <2>3 DEF OtpExpires, Becomes, BridgeKept, TypeOK, otp
  <2> HIDE DEF n
  <2>5. CallKept(n, trail[c])
    BY <2>2, CallQuiet
  <2> QED  BY <2>2, <2>4, <2>5, CallSettles
<1>5. ASSUME NEW correct \in BOOLEAN, VerifyOtp(c, correct)
      PROVE  BridgeKept'
  <2> DEFINE otp == Tried(s.otp)
  <2>1. /\ Passes(s, OTP_SENT) /\ UNCHANGED <<request, tms, orphans, board>>
        /\ s.otp \in OtpChallenge
    BY <1>2, <1>5 DEF VerifyOtp
  <2>2. otp \in OtpChallenge /\ [otp EXCEPT !.verified = TRUE] \in OtpChallenge
    BY <2>1, TriedType
  <2> HIDE DEF otp
  <2>3. CASE CodeAccepted(c, [otp EXCEPT !.verified = TRUE])
    BY <2>1, <2>2, <2>3, CodeAcceptedMoves
  <2>4. CASE CodeBurned(c, otp)
    <3> DEFINE n == [s EXCEPT !.otp = otp, !.outcome = "failed_identity"]
               z == Terminate(n)
    <3>1. /\ n \in CallRecord /\ n.outcome = "failed_identity"
          /\ n.booked = s.booked /\ n.handed = s.handed
          /\ n.offered = s.offered /\ n.selected = s.selected
          /\ n.negotiations = s.negotiations
      <4>1. "failed_identity" \in Outcome
        BY DEF Outcome
      <4> QED  BY <1>1, <2>2, <4>1 DEF CallRecord
    <3>2. Becomes(c, z) /\ UNCHANGED <<request, tms, orphans, board, trail>>
      BY <2>1, <2>4 DEF CodeBurned
    <3> HIDE DEF n
    <3>3. /\ z \in CallRecord /\ z.terminated
          /\ z.outcome = n.outcome /\ z.offered = n.offered
          /\ z.selected = n.selected /\ z.booked = n.booked
          /\ z.handed = n.handed /\ z.negotiations = n.negotiations
      BY <3>1, Terminated
    <3> HIDE DEF z
    <3>4. CallKept(z, trail[c])
      BY <3>1, <3>3, CallQuiet
    <3> QED  BY <3>2, <3>3, <3>4, CallSettles
  <2>5. CASE CodeWrong(c, otp)
    <3> DEFINE n == [s EXCEPT !.otp = otp, !.outcome = s.outcome]
    <3>1. /\ n \in CallRecord /\ n.outcome = s.outcome
          /\ n.stage = s.stage /\ n.terminated = s.terminated
          /\ n.booked = s.booked /\ n.handed = s.handed
          /\ n.offered = s.offered /\ n.selected = s.selected
          /\ n.negotiations = s.negotiations
      BY <1>1, <1>2, <2>2 DEF CallRecord
    <3>2. n = [s EXCEPT !.otp = otp]
      BY <1>1 DEF CallRecord
    <3>3. Becomes(c, n) /\ UNCHANGED <<request, tms, orphans, board, trail>>
      BY <2>1, <2>5, <3>2 DEF CodeWrong
    <3> HIDE DEF n
    <3>4. CallKept(n, trail[c])
      BY <3>1, CallQuiet
    <3> QED  BY <3>1, <3>3, <3>4, CallSettles
  <2> QED  BY <1>5, <2>3, <2>4, <2>5 DEF VerifyOtp, otp
<1> QED  BY <1>3, <1>4, <1>5 DEF ProvingIdentity

(* A call that got past the code may be shown anything, and moved up to    *)
(* RATE_AGREED.                                                            *)
LEMMA CallServed ==
    ASSUME BridgeKept, NEW c \in Calls, NEW z \in CallRecord,
           trail[c].proven # {},
           z.booked = session[c].booked, z.handed = session[c].handed,
           z.negotiations = session[c].negotiations,
           z.outcome = session[c].outcome
              \/ z.outcome \notin {"booked", "transferred"},
           z.terminated = session[c].terminated,
           z.stage = session[c].stage \/ z.stage < BOOKED
    PROVE  CallKept(z, trail[c])
<1>1. session[c] \in CallRecord /\ CallKept(session[c], trail[c])
  BY CallFacts
<1>2. Gated(session[c], trail[c])
  BY <1>1 DEF CallKept
<1>3. Grows(trail[c], trail[c])
  BY DEF Grows
<1>4. trail[c].proven # {} => trail[c].cleared # {}
  BY <1>2 DEF Gated
<1>5. Gated(z, trail[c])
  BY <1>1, <1>2, <1>3, <1>4, GateKept
<1>6. DealsKept(z, trail[c])
  BY <1>1, DealsStay DEF CallKept
<1> QED  BY <1>5, <1>6 DEF CallKept

(* The gate in front of the freight is the code.                           *)
LEMMA GateMeansProof ==
    ASSUME BridgeKept, NEW c \in Calls, NEW stage,
           stage \in {IDENTITY_VERIFIED, RATE_AGREED}, Passes(session[c], stage)
    PROVE  trail[c].proven # {}
<1>1. session[c] \in CallRecord /\ Gated(session[c], trail[c])
  BY CallFacts DEF CallKept
<1>2. session[c].stage \in Nat
  BY <1>1 DEF CallRecord, Stage, CLOSED, STARTED, AUTHORITY_VERIFIED, OTP_SENT,
              IDENTITY_VERIFIED, LOAD_SELECTED, RATE_AGREED, BOOKED
<1> QED  BY <1>1, <1>2 DEF Gated, Passes, IDENTITY_VERIFIED, RATE_AGREED

(* POST /v1/loads/search and /v1/loads/detail, up to their awaits.         *)
LEMMA FindingMoves ==
    ASSUME BridgeKept, NEW c \in Calls, FindingLoads(c)
    PROVE  BridgeKept'
<1>1. ASSUME NEW r \in Requests, NEW f \in Filters, Search(c, r, f)
      PROVE  BridgeKept'
  <2> DEFINE q == [op |-> "search", call |-> c, filter |-> f,
                   used |-> Used(c), snapshot |-> board]
  <2>1. q \in Request
    <3>1. board \in BOOLEAN /\ session[c].searches \in Seq(SearchAttempt)
      BY CallFacts DEF BridgeKept, TypeOK, CallRecord
    <3>2. Used(c) \in Nat
      BY <3>1 DEF Used
    <3> QED  BY <3>1, <3>2 DEF Request, SearchRequest
  <2>2. trail[c].proven # {}
    BY <1>1, GateMeansProof DEF Search
  <2>3. RequestKept(q, trail, tms)
    BY <2>2 DEF RequestKept
  <2>4. Suspend(r, q) /\ UNCHANGED <<session, tms, orphans, board, trail>>
    BY <1>1 DEF Search
  <2> QED  BY <2>1, <2>3, <2>4, RequestStarts
<1>2. ASSUME NEW loads \in SUBSET Loads, SearchOverBudget(c, loads)
      PROVE  BridgeKept'
  <2> DEFINE z == HandedOver(session[c], loads)
  <2>1. /\ z \in CallRecord
        /\ z.booked = session[c].booked /\ z.handed = session[c].handed
        /\ z.negotiations = session[c].negotiations
        /\ z.outcome = session[c].outcome /\ z.stage = session[c].stage
        /\ z.terminated = session[c].terminated
    BY CallFacts DEF CallRecord, HandedOver
  <2>2. trail[c].proven # {}
    BY <1>2, GateMeansProof DEF SearchOverBudget
  <2>3. Becomes(c, z) /\ UNCHANGED <<request, tms, orphans, board, trail>>
    BY <1>2 DEF SearchOverBudget
  <2> HIDE DEF z
  <2>4. CallKept(z, trail[c])
    BY <2>1, <2>2, CallServed
  <2> QED  BY <2>1, <2>3, <2>4, CallSettles
<1>3. ASSUME NEW r \in Requests, NEW l \in Loads, Detail(c, r, l)
      PROVE  BridgeKept'
  <2> DEFINE q == [op |-> "detail", call |-> c, load |-> l]
  <2>1. q \in Request
    BY DEF Request, DetailRequest
  <2>2. trail[c].proven # {}
    BY <1>3, GateMeansProof DEF Detail
  <2>3. RequestKept(q, trail, tms)
    BY <2>2 DEF RequestKept
  <2>4. Suspend(r, q) /\ UNCHANGED <<session, tms, orphans, board, trail>>
    BY <1>3 DEF Detail
  <2> QED  BY <2>1, <2>3, <2>4, RequestStarts
<1> QED  BY <1>1, <1>2, <1>3 DEF FindingLoads

(* An answer about a search lands on the call as it is by then.            *)
LEMMA SearchAnswered ==
    ASSUME BridgeKept, NEW r \in Requests,
           \/ \E loads \in SUBSET Loads : SearchMatched(r, loads)
           \/ SearchEmpty(r)
    PROVE  BridgeKept'
<1> DEFINE q == request[r]
           s == session[q.call]
<1>1. q \in SearchRequest /\ RequestKept(q, trail, tms) /\ Resume(r)
      /\ UNCHANGED <<tms, orphans, board, trail>>
  BY RequestFacts DEF SearchMatched, SearchEmpty, Awaiting
<1>2. q.call \in Calls /\ trail[q.call].proven # {}
  BY <1>1 DEF SearchRequest, RequestKept, FreightOps
<1>3. s \in CallRecord
  BY <1>2, CallFacts
<1>4. ASSUME NEW loads \in SUBSET Loads, SearchMatched(r, loads)
      PROVE  BridgeKept'
  <2> DEFINE z == Recorded(s, q, loads)
             a == [number |-> q.used + 1, filter |-> q.filter, loads |-> loads]
             h == HandedOver(s, loads)
  <2>1. a \in SearchAttempt
    BY <1>1 DEF SearchRequest, SearchAttempt
  <2> HIDE DEF a
  <2>2. /\ h \in CallRecord
        /\ h.booked = s.booked /\ h.handed = s.handed
        /\ h.negotiations = s.negotiations /\ h.outcome = s.outcome
        /\ h.stage = s.stage /\ h.terminated = s.terminated
    BY <1>3 DEF CallRecord, HandedOver
  <2>3. z = [h EXCEPT !.searches = Append(@, a)]
    BY DEF Recorded, a
  <2> HIDE DEF h
  <2>4. h.searches \in Seq(SearchAttempt)
    BY <2>2 DEF CallRecord
  <2>5. Append(h.searches, a) \in Seq(SearchAttempt)
    BY <2>1, <2>4
  <2>6. /\ z \in CallRecord
        /\ z.booked = h.booked /\ z.handed = h.handed
        /\ z.negotiations = h.negotiations /\ z.outcome = h.outcome
        /\ z.stage = h.stage /\ z.terminated = h.terminated
    BY <2>2, <2>3, <2>5 DEF CallRecord
  <2>7. Becomes(q.call, z)
    BY <1>4 DEF SearchMatched
  <2> HIDE DEF z
  <2>8. CallKept(z, trail[q.call])
    BY <1>2, <2>2, <2>6, CallServed
  <2> HIDE DEF q
  <2> QED  BY <1>1, <1>2, <2>6, <2>7, <2>8, CallSettles
<1>5. CASE SearchEmpty(r)
  <2> DEFINE z == [s EXCEPT !.outcome = "no_loads"]
  <2>1. /\ z \in CallRecord
        /\ z.booked = s.booked /\ z.handed = s.handed
        /\ z.negotiations = s.negotiations /\ z.outcome = "no_loads"
        /\ z.stage = s.stage /\ z.terminated = s.terminated
    BY <1>3 DEF CallRecord, Outcome
  <2>2. Becomes(q.call, z)
    BY <1>5 DEF SearchEmpty
  <2> HIDE DEF z
  <2>3. CallKept(z, trail[q.call])
    BY <1>2, <2>1, CallServed
  <2> HIDE DEF q
  <2> QED  BY <1>1, <1>2, <2>1, <2>2, <2>3, CallSettles
<1> QED  BY <1>4, <1>5

(* A detail that was found selects the load.                               *)
LEMMA DetailAnswered ==
    ASSUME BridgeKept, NEW r \in Requests, DetailFound(r)
    PROVE  BridgeKept'
<1> DEFINE q == request[r]
           s == session[q.call]
           n == [s EXCEPT !.selected = q.load]
           z == AdvanceTo(n, LOAD_SELECTED)
<1>1. q \in DetailRequest /\ RequestKept(q, trail, tms) /\ Resume(r)
      /\ UNCHANGED <<tms, orphans, board, trail>>
  BY RequestFacts DEF DetailFound, Awaiting
<1>2. q.call \in Calls /\ q.load \in Loads /\ trail[q.call].proven # {}
  BY <1>1 DEF DetailRequest, RequestKept, FreightOps
<1>3. /\ n \in CallRecord
      /\ n.booked = s.booked /\ n.handed = s.handed
      /\ n.negotiations = s.negotiations /\ n.outcome = s.outcome
      /\ n.stage = s.stage /\ n.terminated = s.terminated
  BY <1>2, CallFacts DEF CallRecord
<1>4. Becomes(q.call, z)
  BY DEF DetailFound
<1> HIDE DEF n
<1>5. LOAD_SELECTED \in Stage
  BY DEF Stage
<1>6. /\ z \in CallRecord /\ z.stage \in {n.stage, LOAD_SELECTED}
      /\ z.terminated = n.terminated /\ z.outcome = n.outcome
      /\ z.booked = n.booked /\ z.handed = n.handed
      /\ z.negotiations = n.negotiations
  BY <1>3, <1>5, Advanced
<1>7. z.stage = s.stage \/ z.stage < BOOKED
  BY <1>3, <1>6 DEF LOAD_SELECTED, BOOKED
<1> HIDE DEF z
<1>8. CallKept(z, trail[q.call])
  BY <1>2, <1>3, <1>6, <1>7, CallServed
<1> HIDE DEF q
<1> QED  BY <1>1, <1>2, <1>4, <1>6, <1>8, CallSettles

(* Pricing an ask on a call past the code.  `n' is the call with the load's*)
(* negotiation in place, `t' the history before the ask was written down.  *)
LEMMA AskMoves ==
    ASSUME BridgeKept, NEW c \in Calls, NEW l \in Loads, NEW ask \in Asks,
           NEW recent \in BOOLEAN, trail[c].proven # {},
           NEW n \in CallRecord, n.negotiations[l] # None,
           n.booked = session[c].booked, n.handed = session[c].handed,
           n.outcome = session[c].outcome, n.terminated = session[c].terminated,
           n.stage = session[c].stage \/ n.stage < BOOKED,
           DealsKept(n, trail[c]),
           Becomes(c, Priced(n, l, ask, recent)), Named(c, l, ask),
           \/ UNCHANGED request
           \/ \E r \in Requests : Resume(r),
           UNCHANGED <<tms, orphans, board>>
    PROVE  BridgeKept' /\ Promised
<1> DEFINE s == session[c]
           z == Priced(n, l, ask, recent)
           t == trail[c]
           u == [t EXCEPT !.named = @ \cup {<<l, ask>>}]
<1>1. s \in CallRecord /\ t \in Trail /\ Gated(s, t)
  BY CallFacts DEF CallKept
<1>2. /\ u \in Trail /\ Grows(t, u) /\ u.confirmed = t.confirmed
      /\ u.proven = t.proven /\ u.cleared = t.cleared
      /\ t.named \subseteq u.named /\ <<l, ask>> \in u.named
  BY <1>1 DEF Trail, Grows
<1>3. trail' = [trail EXCEPT ![c] = u] /\ Logs(c, u)
  BY DEF Named, BridgeKept, TypeOK, Logs
<1>10. u.uncertain = t.uncertain /\ u.named = t.named \cup {<<l, ask>>}
  BY <1>1 DEF Trail
<1> HIDE DEF u
<1>4. /\ z \in CallRecord
      /\ z.terminated = n.terminated /\ z.stage \in {n.stage, RATE_AGREED}
      /\ z.booked = n.booked /\ z.handed = n.handed
      /\ z.outcome \in {n.outcome, "failed_negotiation"}
      /\ z.negotiations[l] # None
      /\ DealsKept(z, u)
  BY <1>2, PricedMoves
<1>5. Becomes(c, z)
  OBVIOUS
<1> HIDE DEF z
<1>6. Gated(z, u)
  <2>1. z.stage = s.stage \/ (z.stage < BOOKED /\ u.proven # {})
    BY <1>2, <1>4 DEF RATE_AGREED, BOOKED
  <2>2. u.proven # {} => u.cleared # {}
    BY <1>1, <1>2 DEF Gated
  <2> QED  BY <1>1, <1>2, <1>4, <2>1, <2>2, GateKept
<1>7. CallKept(z, u)
  BY <1>4, <1>6 DEF CallKept
<1>8. \A k \in u.confirmed : Holds(tms, c, k)
  BY <1>2 DEF BridgeKept, ToldKept
<1>9. Promised
  <2>1. Shown' = [Shown EXCEPT ![c] = TRUE]
    <3>1. TouchedFreight(z) = TRUE
      BY <1>4 DEF TouchedFreight
    <3> QED  BY <1>5, <3>1, CallSeen
  <2>2. Numbers' = [Numbers EXCEPT ![c] = @ \cup {<<l, ask>>}] /\ Proofs[c] # {}
    <3>1. Numbers' = [Numbers EXCEPT ![c] = u.named] /\ Numbers[c] = t.named
      BY <1>3, TrailSeen DEF Numbers
    <3> QED  BY <1>2, <1>10, <3>1 DEF Proofs
  <2>3. UNCHANGED <<tms, WithRep, Ended>>
    BY <1>4, <1>5, CallSeen, SameAgain
  <2>4. UNCHANGED <<Clearances, Proofs, Told, Doubts>>
    BY <1>2, <1>3, <1>10, TrailSeen, SameAgain
  <2>5. Sales!Name(c, l, ask)
    BY <2>1, <2>2, <2>3, <2>4 DEF Sales!Name, Sales!Becomes, Sales!Gains
  <2> QED  BY <2>5 DEF Promised, Sales!Next
<1> HIDE DEF t
<1> QED  BY <1>2, <1>3, <1>4, <1>5, <1>7, <1>8, <1>9, CallLogs DEF t

(* A load under negotiation, and one whose rate and ceiling just arrived.  *)
LEMMA NegotiateMoves ==
    ASSUME BridgeKept, NEW c \in Calls, NEW l \in Loads, NEW ask \in Asks,
           NEW recent \in BOOLEAN, Negotiate(c, l, ask, recent)
    PROVE  BridgeKept' /\ Promised
<1>1. session[c] \in CallRecord /\ DealsKept(session[c], trail[c])
  BY CallFacts DEF CallKept
<1>2. trail[c].proven # {}
  BY GateMeansProof DEF Negotiate
<1>3. /\ session[c].negotiations[l] # None
      /\ Becomes(c, Priced(session[c], l, ask, recent)) /\ Named(c, l, ask)
      /\ UNCHANGED request /\ UNCHANGED <<tms, orphans, board>>
  BY DEF Negotiate
<1> QED  BY <1>1, <1>2, <1>3, AskMoves

(* The rate and the ceiling arrive, and the ask is the first round.        *)
LEMMA NegotiationOpens ==
    ASSUME BridgeKept, NEW r \in Requests, NegotiationOpened(r)
    PROVE  BridgeKept' /\ Promised
<1> DEFINE q == request[r]
           s == session[q.call]
           fresh == Opened(PostedRate[q.load], MaxBuy[q.load])
           t == [s EXCEPT !.negotiations[q.load] = fresh, !.selected = q.load]
           n == AdvanceTo(t, LOAD_SELECTED)
<1>1. q \in NegotiateRequest /\ RequestKept(q, trail, tms) /\ Resume(r)
      /\ UNCHANGED <<tms, orphans, board>>
  BY RequestFacts DEF NegotiationOpened, Awaiting
<1>2. /\ q.call \in Calls /\ q.load \in Loads /\ q.ask \in Asks
      /\ trail[q.call].proven # {}
  BY <1>1 DEF NegotiateRequest, RequestKept, FreightOps
<1>3. s \in CallRecord /\ DealsKept(s, trail[q.call])
  BY <1>2, CallFacts DEF CallKept
<1>4. Sound(fresh) /\ fresh \in NegotiationRecord
  <2>1. PostedRate[q.load] \in Rate /\ MaxBuy[q.load] \in Ceiling
    BY <1>2, SessionAssumption
  <2> QED  BY <2>1, OpenedSound DEF Sound
<1>5. Priceworthy(fresh, q.load, trail[q.call])
  BY <1>4 DEF Priceworthy, Opened
<1>6. fresh # None
  BY <1>4, HolderAssumption
<1> HIDE DEF fresh
<1>7. /\ t \in CallRecord
      /\ t.booked = s.booked /\ t.handed = s.handed /\ t.outcome = s.outcome
      /\ t.stage = s.stage /\ t.terminated = s.terminated
      /\ t.negotiations = [s.negotiations EXCEPT ![q.load] = fresh]
  BY <1>2, <1>3, <1>4 DEF CallRecord
<1>8. t.negotiations[q.load] # None
  BY <1>2, <1>3, <1>6, <1>7 DEF CallRecord
<1>9. DealsKept(t, trail[q.call])
  BY <1>2, <1>3, <1>5, <1>7 DEF DealsKept, CallRecord
<1>10. Becomes(q.call, Priced(n, q.load, q.ask, FALSE)) /\ Named(q.call, q.load, q.ask)
  BY DEF NegotiationOpened, fresh
<1> HIDE DEF t
<1>11. LOAD_SELECTED \in Stage
  BY DEF Stage
<1>12. /\ n \in CallRecord /\ n.stage \in {t.stage, LOAD_SELECTED}
       /\ n.terminated = t.terminated /\ n.outcome = t.outcome
       /\ n.booked = t.booked /\ n.handed = t.handed
       /\ n.negotiations = t.negotiations
  BY <1>7, <1>11, Advanced
<1>13. n.stage = s.stage \/ n.stage < BOOKED
  BY <1>7, <1>12 DEF LOAD_SELECTED, BOOKED
<1>14. DealsKept(n, trail[q.call]) /\ n.negotiations[q.load] # None
  BY <1>8, <1>9, <1>12 DEF DealsKept
<1> HIDE DEF n, q
<1>15. /\ n.booked = s.booked /\ n.handed = s.handed
       /\ n.outcome = s.outcome /\ n.terminated = s.terminated
  BY <1>7, <1>12
<1>16. n \in CallRecord /\ FALSE \in BOOLEAN
  BY <1>12
<1>17. Resume(r) /\ UNCHANGED <<tms, orphans, board>>
  BY <1>1
<1> QED  BY <1>2, <1>10, <1>13, <1>14, <1>15, <1>16, <1>17, AskMoves

(* What the last line of defence lets through may be booked.               *)
LEMMA BookStarts ==
    ASSUME BridgeKept, NEW c \in Calls, NEW r \in Requests, NEW l \in Loads,
           Book(c, r, l)
    PROVE  BridgeKept'
<1> DEFINE s == session[c]
           n == s.negotiations[l]
           q == [op |-> "book", call |-> c, load |-> l, mc |-> s.mc,
                 rate |-> n.agreed, reply |-> "none"]
<1>1. s \in CallRecord /\ DealsKept(s, trail[c])
  BY CallFacts DEF CallKept
<1>2. n # None /\ n.status = "agreed" /\ Affordable(n)
  BY DEF Book
<1>3. Priceworthy(n, l, trail[c]) /\ Sound(n)
  BY <1>1, <1>2 DEF DealsKept, Priceworthy
<1>4. n.rounds # <<>> /\ n.agreed = LastRound(n).ask /\ n.ceiling # NoRate
  BY <1>2, <1>3 DEF Sound, AgreementCovered
<1>5. n.agreed \in Rate
  <2>1. n.rounds \in Seq(Round)
    BY <1>3 DEF Sound, NegotiationRecord
  <2>2. LastRound(n) \in Round
    BY <1>4, <2>1 DEF LastRound, RoundsUsed
  <2> QED  BY <1>4, <2>2 DEF Round, Ask, Rate
<1>6. s.mc \in Mc
  BY <1>1 DEF CallRecord
<1>7. q \in Request
  BY <1>5, <1>6 DEF Request, BookRequest
<1>8. BookingKept(BookingOf(q), trail)
  <2>1. BookingOf(q) = [call |-> c, load |-> l, mc |-> s.mc, rate |-> n.agreed]
    BY DEF BookingOf
  <2>2. n.ceiling = MaxBuy[l] /\ n.agreed <= MaxBuy[l]
        /\ <<l, n.agreed>> \in trail[c].named
    BY <1>2, <1>3, <1>4 DEF Affordable, Priceworthy
  <2> HIDE DEF n, s
  <2> QED  BY <1>4, <1>5, <1>6, <2>1, <2>2 DEF BookingKept, Booking
<1>9. trail[c].proven # {}
  BY GateMeansProof DEF Book
<1>10. Suspend(r, q) /\ UNCHANGED <<session, tms, orphans, board, trail>>
  BY DEF Book
<1>11. q.op = "book" /\ q.call = c /\ q.reply = "none"
  OBVIOUS
<1> HIDE DEF q
<1>12. RequestKept(q, trail, tms)
  BY <1>8, <1>9, <1>11 DEF RequestKept
<1> QED  BY <1>7, <1>10, <1>12, RequestStarts

(* Only a booked call is handed off.                                       *)
LEMMA HandoffMoves ==
    ASSUME BridgeKept, NEW c \in Calls, Handoff(c)
    PROVE  BridgeKept'
<1> DEFINE s == session[c]
           n == HandedOff(s)
           z == AdvanceTo(n, CLOSED)
           t == trail[c]
<1>1. s \in CallRecord /\ CallKept(s, t)
  BY CallFacts
<1>2. /\ n \in CallRecord
      /\ n.booked = s.booked /\ n.offered = s.offered /\ n.selected = s.selected
      /\ n.negotiations = s.negotiations
      /\ n.stage = s.stage /\ n.terminated = s.terminated
  BY <1>1 DEF HandedOff, CallRecord, Outcome
<1>3. Becomes(c, z) /\ UNCHANGED <<request, tms, orphans, board, trail>>
  BY DEF Handoff
<1> HIDE DEF n
<1>4. CLOSED \in Stage
  BY DEF Stage
<1>5. /\ z \in CallRecord /\ z.terminated = n.terminated
      /\ z.booked = n.booked /\ z.offered = n.offered /\ z.selected = n.selected
      /\ z.negotiations = n.negotiations
  BY <1>2, <1>4, Advanced
<1> HIDE DEF z
<1>6. s.stage >= BOOKED /\ ~s.terminated
  BY DEF Handoff, Transferable
<1>7. s.booked # None /\ t.cleared # {} /\ t.proven # {}
  <2>1. s.stage \in Nat
    BY <1>1 DEF CallRecord, Stage, CLOSED, STARTED, AUTHORITY_VERIFIED, OTP_SENT,
                IDENTITY_VERIFIED, LOAD_SELECTED, RATE_AGREED, BOOKED
  <2> QED  BY <1>1, <1>6, <2>1 DEF CallKept, Gated, AUTHORITY_VERIFIED,
                                   IDENTITY_VERIFIED, BOOKED
<1>8. Gated(z, t)
  BY <1>1, <1>2, <1>5, <1>7 DEF CallKept, Gated
<1>9. DealsKept(z, t)
  BY <1>1, <1>2, <1>5, DealsStay DEF CallKept
<1>10. CallKept(z, trail[c])
  BY <1>8, <1>9 DEF CallKept
<1> QED  BY <1>3, <1>5, <1>10, CallSettles

(* Negotiation, booking and handoff, up to their awaits.                   *)
LEMMA DealingMoves ==
    ASSUME BridgeKept, NEW c \in Calls, Dealing(c)
    PROVE  BridgeKept'
<1>1. ASSUME NEW l \in Loads, NEW ask \in Asks, NEW recent \in BOOLEAN,
             Negotiate(c, l, ask, recent)
      PROVE  BridgeKept'
  BY <1>1, NegotiateMoves
<1>2. ASSUME NEW r \in Requests, NEW l \in Loads, NEW ask \in Asks,
             OpenNegotiation(c, r, l, ask)
      PROVE  BridgeKept'
  <2> DEFINE q == [op |-> "negotiate", call |-> c, load |-> l, ask |-> ask]
  <2>1. q \in Request
    BY DEF Request, NegotiateRequest
  <2>2. trail[c].proven # {}
    BY <1>2, GateMeansProof DEF OpenNegotiation
  <2>3. RequestKept(q, trail, tms)
    BY <2>2 DEF RequestKept
  <2>4. Suspend(r, q) /\ UNCHANGED <<session, tms, orphans, board, trail>>
    BY <1>2 DEF OpenNegotiation
  <2> QED  BY <2>1, <2>3, <2>4, RequestStarts
<1>3. ASSUME NEW r \in Requests, NEW l \in Loads, Book(c, r, l)
      PROVE  BridgeKept'
  BY <1>3, BookStarts
<1>4. CASE Handoff(c)
  BY <1>4, HandoffMoves
<1> QED  BY <1>1, <1>2, <1>3, <1>4 DEF Dealing

(* Closing a call, booked or not.                                          *)
LEMMA CloseMoves ==
    ASSUME BridgeKept, NEW c \in Calls, CloseCall(c)
    PROVE  BridgeKept'
<1> DEFINE s == session[c]
           n == [s EXCEPT !.outcome = IF @ = "in_progress" THEN "abandoned" ELSE @]
           z == Terminate(n)
<1>1. s \in CallRecord
  BY CallFacts
<1>2. /\ n \in CallRecord
      /\ n.booked = s.booked /\ n.handed = s.handed /\ n.offered = s.offered
      /\ n.selected = s.selected /\ n.negotiations = s.negotiations
      /\ n.outcome = s.outcome \/ n.outcome \notin {"booked", "transferred"}
  BY <1>1 DEF CallRecord, Outcome
<1>3. Becomes(c, z) /\ UNCHANGED <<request, tms, orphans, board, trail>>
  BY DEF CloseCall
<1> HIDE DEF n
<1>4. /\ z \in CallRecord /\ z.terminated
      /\ z.outcome = n.outcome /\ z.offered = n.offered
      /\ z.selected = n.selected /\ z.booked = n.booked
      /\ z.handed = n.handed /\ z.negotiations = n.negotiations
  BY <1>2, Terminated
<1> HIDE DEF z
<1>5. CallKept(z, trail[c])
  BY <1>2, <1>4, CallQuiet
<1> QED  BY <1>3, <1>4, <1>5, CallSettles

-----------------------------------------------------------------------------
(* The TMS, and what the bridge makes of its answers.                      *)

(* A load that was free is taken; whoever held one still does.             *)
LEMMA LoadTaken ==
    ASSUME BridgeKept, NEW l \in Loads, tms[l] = None,
           NEW holder \in Booking \cup {Stranger},
           holder \in Booking => holder.load = l /\ BookingKept(holder, trail),
           NEW g, g = [tms EXCEPT ![l] = holder]
    PROVE  /\ g \in [Loads -> Booking \cup {None, Stranger}]
           /\ g[l] = holder
           /\ Firm(tms, g)
           /\ HoldersKept(g, trail)
           /\ ToldKept(trail, g)
<1>1. tms \in [Loads -> Booking \cup {None, Stranger}] /\ trail \in [Calls -> Trail]
  BY DEF BridgeKept, TypeOK
<1>2. g \in [Loads -> Booking \cup {None, Stranger}] /\ g[l] = holder
      /\ \A k \in Loads : k # l => g[k] = tms[k]
  BY <1>1
<1>3. Firm(tms, g)
  BY <1>2, HolderAssumption DEF Firm
<1>4. HoldersKept(g, trail)
  BY <1>2 DEF HoldersKept, BridgeKept
<1>5. ToldKept(trail, g)
  <2> SUFFICES ASSUME NEW c \in Calls, NEW k \in trail[c].confirmed
               PROVE  Holds(g, c, k)
    BY DEF ToldKept
  <2>1. k \in Loads
    BY <1>1 DEF Trail
  <2>2. Holds(tms, c, k)
    BY DEF BridgeKept, ToldKept
  <2> QED  BY <1>3, <2>1, <2>2 DEF Holds, Firm
<1> QED  BY <1>2, <1>3, <1>4, <1>5

(* The answer is on its way.                                               *)
LEMMA ReplyMoves ==
    ASSUME BridgeKept, NEW r \in Requests, Awaiting(r, "book"),
           NEW reply \in {"confirmed", "already_booked", "rejected"},
           NEW g, Firm(tms, g),
           reply = "confirmed" => Holds(g, request[r].call, request[r].load),
           Replied(r, reply)
    PROVE  request' \in [Requests -> Request] /\ RequestsKept(request', trail, g)
<1> DEFINE q == request[r]
           p == [q EXCEPT !.reply = reply]
<1>1. q \in BookRequest /\ RequestKept(q, trail, tms)
  BY RequestFacts DEF Awaiting
<1>2. p \in BookRequest /\ p.reply = reply /\ p.op = "book" /\ p.call = q.call
      /\ p.load = q.load /\ p.mc = q.mc /\ p.rate = q.rate
  BY <1>1 DEF BookRequest
<1>3. request' = [request EXCEPT ![r] = p]
  BY DEF Replied, BridgeKept, TypeOK
<1>4. BookingKept(BookingOf(p), trail) /\ trail[p.call].proven # {}
  <2>1. BookingOf(p) = BookingOf(q) /\ q.op = "book"
    BY <1>1, <1>2 DEF BookingOf, BookRequest
  <2> QED  BY <1>1, <1>2, <2>1 DEF RequestKept, FreightOps
<1>5. p \in Request
  BY <1>2 DEF Request
<1> HIDE DEF p
<1>6. RequestKept(p, trail, g)
  BY <1>2, <1>4 DEF RequestKept
<1>7. Grown(trail, trail)
  BY DEF Grown, Grows
<1> QED  BY <1>3, <1>5, <1>6, <1>7, RequestsMove

(* What the TMS does about a booking before the bridge hears of it.        *)
LEMMA TmsMoves ==
    ASSUME BridgeKept, NEW r \in Requests, AtTheTms(r)
    PROVE  BridgeKept'
<1> DEFINE q == request[r]
<1>1. Firm(tms, tms)
  BY DEF Firm
<1>2. CASE TmsBooks(r)
  <2> DEFINE b == BookingOf(q)
  <2>1. Awaiting(r, "book") /\ Replied(r, "confirmed") /\ tms[q.load] = None
        /\ tms' = [tms EXCEPT ![q.load] = b]
        /\ UNCHANGED <<session, orphans, board, trail>>
    BY <1>2 DEF TmsBooks
  <2>2. q \in BookRequest /\ q.load \in Loads
    BY <2>1, RequestFacts DEF Awaiting, BookRequest
  <2>3. b \in Booking /\ BookingKept(b, trail)
    BY <2>1, RequestFacts DEF Awaiting, RequestKept, BookingKept
  <2>4. b.load = q.load /\ b.call = q.call
    BY DEF BookingOf
  <2> HIDE DEF b
  <2>5. /\ tms' \in [Loads -> Booking \cup {None, Stranger}] /\ tms'[q.load] = b
        /\ Firm(tms, tms') /\ HoldersKept(tms', trail) /\ ToldKept(trail, tms')
    BY <2>1, <2>2, <2>3, <2>4, LoadTaken
  <2>6. Holds(tms', q.call, q.load)
    BY <2>3, <2>4, <2>5 DEF Holds
  <2>7. request' \in [Requests -> Request] /\ RequestsKept(request', trail, tms')
    BY <2>1, <2>5, <2>6, ReplyMoves
  <2> QED  BY <2>1, <2>5, <2>7 DEF BridgeKept, TypeOK
<1>3. CASE TmsHasItBooked(r)
  <2>1. Awaiting(r, "book") /\ Replied(r, "already_booked")
        /\ UNCHANGED <<session, tms, orphans, board, trail>>
    BY <1>3 DEF TmsHasItBooked
  <2>2. request' \in [Requests -> Request] /\ RequestsKept(request', trail, tms)
    BY <1>1, <2>1, ReplyMoves
  <2> QED  BY <2>1, <2>2 DEF BridgeKept, TypeOK
<1>4. CASE TmsRejects(r)
  <2>1. Awaiting(r, "book") /\ Replied(r, "rejected")
        /\ UNCHANGED <<session, tms, orphans, board, trail>>
    BY <1>4 DEF TmsRejects
  <2>2. request' \in [Requests -> Request] /\ RequestsKept(request', trail, tms)
    BY <1>1, <2>1, ReplyMoves
  <2> QED  BY <2>1, <2>2 DEF BridgeKept, TypeOK
<1> QED  BY <1>2, <1>3, <1>4 DEF AtTheTms

(* A load is taken without a request: by an orphan, or by a stranger.      *)
LEMMA TakenMoves ==
    ASSUME BridgeKept, NEW l \in Loads, tms[l] = None,
           NEW holder \in Booking \cup {Stranger},
           holder \in Booking => holder.load = l /\ BookingKept(holder, trail),
           tms' = [tms EXCEPT ![l] = holder], orphans' \subseteq orphans,
           UNCHANGED <<session, request, board, trail>>
    PROVE  BridgeKept'
<1>1. /\ tms' \in [Loads -> Booking \cup {None, Stranger}]
      /\ Firm(tms, tms') /\ HoldersKept(tms', trail) /\ ToldKept(trail, tms')
  BY LoadTaken
<1>2. Grown(trail, trail)
  BY DEF Grown, Grows
<1>3. RequestsKept(request, trail, tms')
  BY <1>1, <1>2, RequestsStay
<1>4. orphans' \subseteq Booking /\ OrphansKept(orphans', trail)
  BY DEF BridgeKept, TypeOK, OrphansKept
<1> QED  BY <1>1, <1>3, <1>4 DEF BridgeKept, TypeOK

(* A command the bridge gave up on lands.                                  *)
LEMMA OrphanMoves ==
    ASSUME BridgeKept, NEW o \in orphans, OrphanLands(o)
    PROVE  BridgeKept'
<1>1. o \in Booking /\ BookingKept(o, trail)
  BY DEF BridgeKept, OrphansKept, BookingKept
<1>2. o.load \in Loads
  BY <1>1 DEF Booking
<1>3. /\ tms[o.load] = None /\ tms' = [tms EXCEPT ![o.load] = o]
      /\ orphans' \subseteq orphans /\ UNCHANGED <<session, request, board, trail>>
  BY DEF OrphanLands
<1> QED  BY <1>1, <1>2, <1>3, TakenMoves

(* Somebody else takes a load.                                             *)
LEMMA StrangerMoves ==
    ASSUME BridgeKept, NEW l \in Loads, StrangerBooks(l)
    PROVE  BridgeKept'
<1>1. /\ tms[l] = None /\ tms' = [tms EXCEPT ![l] = Stranger]
      /\ orphans' \subseteq orphans /\ UNCHANGED <<session, request, board, trail>>
  BY DEF StrangerBooks
<1>2. Stranger \notin Booking
  BY HolderAssumption
<1> QED  BY <1>1, <1>2, TakenMoves

(* The confirmation that is read out is of a load the TMS holds for the    *)
(* call, because the reply it rests on was.                                *)
LEMMA ConfirmationMoves ==
    ASSUME BridgeKept, NEW r \in Requests, BookConfirmed(r)
    PROVE  BridgeKept'
<1> DEFINE q == request[r]
           s == session[q.call]
           n == [s EXCEPT !.booked = q.load, !.outcome = "booked"]
           z == AdvanceTo(n, BOOKED)
           t == trail[q.call]
           u == [t EXCEPT !.confirmed = @ \cup {q.load}]
<1>1. q \in BookRequest /\ RequestKept(q, trail, tms) /\ q.reply = "confirmed"
      /\ Resume(r) /\ UNCHANGED <<tms, orphans, board>>
  BY RequestFacts DEF BookConfirmed, Awaiting, Confirms
<1>2. /\ q.call \in Calls /\ q.load \in Loads /\ t.proven # {}
      /\ Holds(tms, q.call, q.load)
  BY <1>1 DEF BookRequest, RequestKept, FreightOps
<1>3. s \in CallRecord /\ t \in Trail /\ CallKept(s, t)
  BY <1>2, CallFacts
<1>4. /\ n \in CallRecord /\ n.booked = q.load /\ n.outcome = "booked"
      /\ n.stage = s.stage /\ n.terminated = s.terminated
      /\ n.negotiations = s.negotiations
  BY <1>2, <1>3 DEF CallRecord, Outcome
<1>5. Becomes(q.call, z)
  BY DEF BookConfirmed
<1> HIDE DEF n
<1>6. BOOKED \in Stage
  BY DEF Stage
<1>7. /\ z \in CallRecord /\ z.stage \in {n.stage, BOOKED}
      /\ z.terminated = n.terminated /\ z.booked = n.booked
      /\ z.negotiations = n.negotiations
  BY <1>4, <1>6, Advanced
<1> HIDE DEF z
<1>8. /\ u \in Trail /\ Grows(t, u) /\ q.load \in u.confirmed
      /\ u.confirmed = t.confirmed \cup {q.load}
      /\ u.named = t.named /\ u.proven = t.proven /\ u.cleared = t.cleared
  BY <1>2, <1>3 DEF Trail, Grows
<1>9. trail' = [trail EXCEPT ![q.call] = u]
  BY <1>2 DEF BookConfirmed, BridgeKept, TypeOK
<1> HIDE DEF u
<1>10. q.load # None
  BY <1>2, SessionAssumption
<1>11. t.cleared # {}
  BY <1>2, <1>3 DEF CallKept, Gated
<1>12. Gated(z, u)
  BY <1>2, <1>4, <1>7, <1>8, <1>10, <1>11 DEF Gated
<1>13. DealsKept(z, u)
  BY <1>3, <1>4, <1>7, <1>8, DealsStay DEF CallKept
<1>14. \A l \in u.confirmed : Holds(tms, q.call, l)
  BY <1>2, <1>8 DEF BridgeKept, ToldKept
<1>15. CallKept(z, u)
  BY <1>12, <1>13 DEF CallKept
<1> HIDE DEF q, t
<1> QED  BY <1>1, <1>2, <1>5, <1>7, <1>8, <1>9, <1>14, <1>15, CallLogs DEF t

(* A write nobody heard of leaves the call as it was, and its command out. *)
LEMMA DoubtMoves ==
    ASSUME BridgeKept, NEW r \in Requests, BookUncertain(r)
    PROVE  BridgeKept'
<1> DEFINE q == request[r]
           s == session[q.call]
           t == trail[q.call]
           u == Doubted(t, q.load)
           ur == [trail EXCEPT ![q.call] = u]
<1>1. q \in BookRequest /\ RequestKept(q, trail, tms) /\ Resume(r)
      /\ UNCHANGED <<session, tms, board>>
  BY RequestFacts DEF BookUncertain, Awaiting
<1>2. q.call \in Calls /\ q.load \in Loads /\ BookingKept(BookingOf(q), trail)
  BY <1>1 DEF BookRequest, RequestKept
<1>3. s \in CallRecord /\ t \in Trail /\ CallKept(s, t)
  BY <1>2, CallFacts
<1>4. /\ u \in Trail /\ Grows(t, u) /\ u.confirmed = t.confirmed
      /\ u.named = t.named /\ u.proven = t.proven /\ u.cleared = t.cleared
  BY <1>2, <1>3 DEF Doubted, Trail, Grows
<1>5. trail' = ur
  BY <1>2 DEF BookUncertain, BridgeKept, TypeOK
<1> HIDE DEF u
<1>6. Grown(trail, ur)
  BY <1>2, <1>4 DEF Grown, Grows, BridgeKept, TypeOK
<1>7. CallKept(s, u)
  BY <1>3, <1>4 DEF CallKept, Gated, DealsKept, Priceworthy
<1>8. \A l \in u.confirmed : Holds(tms, q.call, l)
  BY <1>2, <1>4 DEF BridgeKept, ToldKept
<1>9. request' \in [Requests -> Request] /\ RequestsKept(request', ur, tms)
  BY <1>1, <1>6, Resumed
<1>10. orphans' \subseteq Booking /\ OrphansKept(orphans', ur)
  <2>1. orphans' \subseteq orphans \cup {BookingOf(q)}
    BY DEF BookUncertain
  <2>2. OrphansKept(orphans', trail) /\ orphans' \subseteq Booking
    BY <1>2, <2>1 DEF BridgeKept, TypeOK, OrphansKept, BookingKept
  <2> QED  BY <1>6, <2>2, OrphansStay
<1>11. session' = [session EXCEPT ![q.call] = s]
  BY <1>1 DEF BridgeKept, TypeOK
<1>12. tms' = tms /\ board' \in BOOLEAN
  BY <1>1 DEF BridgeKept, TypeOK
<1> HIDE DEF q, s, t
<1> QED  BY <1>2, <1>3, <1>4, <1>5, <1>7, <1>8, <1>9, <1>10, <1>11, <1>12, CallMoves DEF t

(* Whatever a suspended request resumes with.                              *)
LEMMA ResumeMoves ==
    ASSUME BridgeKept, NEW r \in Requests, Resumes(r)
    PROVE  BridgeKept'
<1>1. CASE AuthorityConfirmed(r)
  BY <1>1, AuthorityMoves
<1>2. CASE AuthorityRefused(r)
  <2>1. request[r] \in VerifyRequest
    BY <1>2, RequestFacts DEF AuthorityRefused, Awaiting
  <2>2. request[r].call \in Calls /\ request[r].mc \in Mc
    BY <2>1 DEF VerifyRequest, Mc
  <2> DEFINE c == request[r].call
             z == Refused(session[c], request[r].mc)
  <2>3. z \in CallRecord /\ CallKept(z, trail[c])
    BY <2>2, RefusedMoves
  <2>4. Becomes(c, z) /\ Resume(r) /\ UNCHANGED <<tms, orphans, board, trail>>
    BY <1>2 DEF AuthorityRefused
  <2> HIDE DEF z, c
  <2>5. c \in Calls
    BY <2>2 DEF c
  <2> QED  BY <2>3, <2>4, <2>5, CallSettles
<1>3. CASE AuthorityUnavailable(r)
  BY <1>3, RequestEnds DEF AuthorityUnavailable
<1>4. CASE (\E loads \in SUBSET Loads : SearchMatched(r, loads)) \/ SearchEmpty(r)
  BY <1>4, SearchAnswered
<1>5. CASE SearchDegraded(r)
  BY <1>5, RequestEnds DEF SearchDegraded
<1>6. CASE DetailFound(r)
  BY <1>6, DetailAnswered
<1>7. CASE DetailFailed(r)
  BY <1>7, RequestEnds DEF DetailFailed
<1>8. CASE NegotiationOpened(r)
  BY <1>8, NegotiationOpens
<1>9. CASE NegotiationNotOpened(r)
  BY <1>9, RequestEnds DEF NegotiationNotOpened
<1>10. CASE BookConfirmed(r)
  BY <1>10, ConfirmationMoves
<1>11. CASE BookRefused(r)
  BY <1>11, RequestEnds DEF BookRefused
<1>12. CASE BookUncertain(r)
  BY <1>12, DoubtMoves
<1> QED  BY <1>1, <1>2, <1>3, <1>4, <1>5, <1>6, <1>7, <1>8, <1>9, <1>10, <1>11,
            <1>12 DEF Resumes, BookSettles

-----------------------------------------------------------------------------
(* BridgeKept is inductive.                                                *)

(* A bridge nobody has called keeps everything.                            *)
LEMMA InitKept == Init => BridgeKept
<1> SUFFICES ASSUME Init PROVE BridgeKept
  OBVIOUS
<1>1. FreshCall \in CallRecord
  BY DEF FreshCall, CallRecord, Stage, Outcome, Mc
<1>2. NothingLogged \in Trail
  BY DEF NothingLogged, Trail
<1>3. Free \in Request
  BY DEF Request
<1>4. TypeOK
  BY <1>1, <1>2, <1>3 DEF Init, TypeOK
<1>5. CallKept(FreshCall, NothingLogged)
  <2>1. ~TouchedFreight(FreshCall)
    BY DEF TouchedFreight, FreshCall
  <2>2. Gated(FreshCall, NothingLogged)
    BY <2>1 DEF Gated, FreshCall, NothingLogged, STARTED, AUTHORITY_VERIFIED,
                IDENTITY_VERIFIED, BOOKED
  <2>3. DealsKept(FreshCall, NothingLogged)
    BY DEF DealsKept, FreshCall
  <2> QED  BY <2>2, <2>3 DEF CallKept
<1>6. CallsKept(session, trail)
  BY <1>5 DEF Init, CallsKept
<1>7. RequestsKept(request, trail, tms)
  BY DEF Init, RequestsKept, RequestKept, Free, FreightOps
<1>8. OrphansKept(orphans, trail)
  BY DEF Init, OrphansKept
<1>9. HoldersKept(tms, trail)
  BY HolderAssumption DEF Init, HoldersKept
<1>10. ToldKept(trail, tms)
  BY DEF Init, ToldKept, NothingLogged
<1> QED  BY <1>4, <1>6, <1>7, <1>8, <1>9, <1>10 DEF BridgeKept

(* And so does every step: the cases of Next.                              *)
LEMMA StepKeeps == BridgeKept /\ [Next]_vars => BridgeKept'
<1> SUFFICES ASSUME BridgeKept, [Next]_vars PROVE BridgeKept'
  OBVIOUS
<1>1. CASE UNCHANGED vars
  BY <1>1 DEF vars, BridgeKept, TypeOK
<1>2. ASSUME NEW c \in Calls,
             \/ VerifyingCarrier(c) \/ ProvingIdentity(c)
             \/ FindingLoads(c) \/ Dealing(c) \/ CloseCall(c)
      PROVE  BridgeKept'
  BY <1>2, VerifyingMoves, ProvingMoves, FindingMoves, DealingMoves, CloseMoves
<1>3. ASSUME NEW r \in Requests, AtTheTms(r) \/ Resumes(r)
      PROVE  BridgeKept'
  BY <1>3, TmsMoves, ResumeMoves
<1>4. ASSUME NEW o \in orphans, OrphanLands(o)
      PROVE  BridgeKept'
  BY <1>4, OrphanMoves
<1>5. ASSUME NEW l \in Loads, StrangerBooks(l)
      PROVE  BridgeKept'
  BY <1>5, StrangerMoves
<1>6. CASE BoardWarms
  BY <1>6 DEF BoardWarms, BridgeKept, TypeOK
<1> QED  BY <1>1, <1>2, <1>3, <1>4, <1>5, <1>6 DEF Next

(* However requests overlap, commands are lost or land late, and whoever   *)
(* else books, every state of the bridge is BridgeKept.                    *)
THEOREM AlwaysKept == Spec => []BridgeKept
BY InitKept, StepKeeps, PTL DEF Spec

-----------------------------------------------------------------------------
(* The invariants of CarrierBridge, for any number of calls, requests,     *)
(* carriers, loads and any rates.                                          *)

(* Every variable holds a value the program can give it.                   *)
THEOREM BridgeTyped == Spec => []TypeOK
<1>1. BridgeKept => TypeOK
  BY DEF BridgeKept
<1> QED  BY <1>1, AlwaysKept, PTL

(* No freight reaches a call without a verified code, and no code is       *)
(* verified on a call the FMCSA cleared nobody on.                         *)
THEOREM CodeComesFirst == Spec => []CodeBeforeFreight
<1>1. BridgeKept => CodeBeforeFreight
  BY DEF BridgeKept, CallsKept, CallKept, Gated, CodeBeforeFreight
<1> QED  BY <1>1, AlwaysKept, PTL

(* A call handed to a rep, or logged as booked, holds a reference.         *)
THEOREM HandoffsAreBooked == Spec => []HandoffMeansBooked
<1>1. BridgeKept => HandoffMeansBooked
  BY DEF BridgeKept, CallsKept, CallKept, Gated, HandoffMeansBooked
<1> QED  BY <1>1, AlwaysKept, PTL

(* A reference a call holds or read out is the TMS's own record.           *)
THEOREM ConfirmationsAreReal == Spec => []ConfirmedIsReal
<1>1. BridgeKept => ConfirmedIsReal
  BY DEF BridgeKept, CallsKept, CallKept, Gated, ToldKept, Holds,
         ConfirmedIsReal, HeldFor
<1> QED  BY <1>1, AlwaysKept, PTL

(* No load is confirmed to two calls.                                      *)
THEOREM LoadsHaveOneHolder == Spec => []OneHolder
<1>1. BridgeKept => OneHolder
  BY DEF BridgeKept, ToldKept, Holds, OneHolder
<1> QED  BY <1>1, AlwaysKept, PTL

(* What reaches the system of record, abandoned writes included, is within *)
(* the ceiling at a number the carrier named.                              *)
THEOREM BookingsAreAgreed == Spec => []BookedAsAgreed
<1>1. BridgeKept => BookedAsAgreed
  BY DEF BridgeKept, HoldersKept, BookingKept, BookedAsAgreed
<1> QED  BY <1>1, AlwaysKept, PTL

(* Every negotiation of every call is Sound.                               *)
THEOREM NegotiationsStaySound == Spec => []NegotiationsSound
<1>1. BridgeKept => NegotiationsSound
  BY DEF BridgeKept, CallsKept, CallKept, DealsKept, Priceworthy, NegotiationsSound
<1> QED  BY <1>1, AlwaysKept, PTL
=============================================================================
