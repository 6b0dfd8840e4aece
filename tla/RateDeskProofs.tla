---------------------------- MODULE RateDeskProofs ----------------------------
(***************************************************************************)
(* The invariants and action properties of RateDesk and of the desk behind *)
(* the leak guard, for every board, every sequence of asks and every value *)
(* of the policy constants.  All of them follow from one inductive         *)
(* invariant, Sound(neg).                                                  *)
(***************************************************************************)
EXTENDS GuardedDesk, NegotiationTheorems

(* The desk opens on a Sound negotiation.                                  *)
LEMMA InitSound == Init => IInv
<1> SUFFICES ASSUME Init PROVE Sound(neg)
  BY DEF IInv
<1>1. PICK p \in PostedRates, c \in Ceilings : neg = Opened(p, c)
  BY DEF Init
<1>2. p \in Rate /\ c \in Ceiling
  BY DeskAssumption
<1> QED  BY <1>1, <1>2, OpenedSound

(* Every round put to the desk keeps the negotiation Sound.                *)
LEMMA NextSound == IInv /\ [Next]_vars => IInv'
<1> SUFFICES ASSUME Sound(neg), [Next]_vars PROVE Sound(neg')
  BY DEF IInv
<1>1. CASE Next
  <2>1. PICK ask \in Asks, recent \in BOOLEAN : neg' = Evaluated(neg, ask, recent)
    BY <1>1 DEF Next, Put
  <2>2. ask \in Ask
    BY DeskAssumption
  <2> QED  BY <2>1, <2>2, EvaluatedSound
<1>2. CASE UNCHANGED vars
  BY <1>2 DEF vars
<1> QED  BY <1>1, <1>2

(* The inductive invariant holds of every behaviour.                       *)
THEOREM SoundAlways == Spec => []IInv
<1> QED  BY InitSound, NextSound, PTL DEF Spec

(* The Negotiation object never holds a value outside its type.            *)
THEOREM TypeCorrect == Spec => []TypeOK
<1>1. IInv => TypeOK
  BY DEF IInv, Sound, TypeOK
<1> QED  BY <1>1, SoundAlways, PTL

(* No counter reaches the ceiling or the ask it answers, whatever the      *)
(* posted rate, the ceiling and the settings.                              *)
THEOREM CountersSafe == Spec => []CountersStayBelow
<1>1. IInv => CountersStayBelow
  BY DEF IInv, Sound, CountersStayBelow
<1> QED  BY <1>1, SoundAlways, PTL

(* The counters said on one load never come down.                          *)
THEOREM CountersMonotone == Spec => []CountersNeverRetreat
<1>1. IInv => CountersNeverRetreat
  BY DEF IInv, Sound, CountersNeverRetreat
<1> QED  BY <1>1, SoundAlways, PTL

(* There is no round past the limit, and the last one settles it.          *)
THEOREM RoundLimit == Spec => []RoundCap
<1>1. IInv => RoundCap
  BY DEF IInv, Sound, RoundCap
<1> QED  BY <1>1, SoundAlways, PTL

(* Whatever is agreed was asked for last and is covered by the ceiling or  *)
(* by the posted rate.                                                     *)
THEOREM AgreementSafe == Spec => []AgreedIsCovered
<1>1. IInv => AgreedIsCovered
  BY DEF IInv, Sound, AgreedIsCovered
<1> QED  BY <1>1, SoundAlways, PTL

(* Before the final round no ask beyond the auto-accept band is taken.     *)
THEOREM GapNotGivenAway == Spec => []NoEarlyGiveaway
<1>1. IInv => NoEarlyGiveaway
  BY DEF IInv, Sound, NoEarlyGiveaway
<1> QED  BY <1>1, SoundAlways, PTL

(* The breach counter equals the recorded asks above the ceiling.          *)
THEOREM BreachCountExact == Spec => []BreachesCounted
<1>1. IInv => BreachesCounted
  BY DEF IInv, Sound, BreachesCounted
<1> QED  BY <1>1, SoundAlways, PTL

(* A closed negotiation never changes again.                               *)
THEOREM ClosedStaysClosed == Spec => ClosedIsFinal
<1>1. [Next]_vars => [neg.status # "open" => neg' = neg]_vars
  BY DEF Next, Put, vars, Evaluated, Stands
<1> QED  BY <1>1, PTL DEF Spec, ClosedIsFinal

(* Every ask that changes anything writes a round or fails the negotiation *)
(* without moving the standing offer.                                      *)
THEOREM MovesCost == Spec => EveryMoveCosts
<1> DEFINE Costs == neg' # neg =>
                       \/ Len(neg'.rounds) = Len(neg.rounds) + 1
                       \/ neg'.status = "failed" /\ neg'.offer = neg.offer
<1>1. ASSUME IInv, [Next]_vars PROVE [Costs]_vars
  <2> SUFFICES ASSUME Next, neg' # neg
               PROVE  \/ Len(neg'.rounds) = Len(neg.rounds) + 1
                      \/ neg'.status = "failed" /\ neg'.offer = neg.offer
    BY <1>1 DEF vars
  <2>1. PICK ask \in Asks, recent \in BOOLEAN : neg' = Evaluated(neg, ask, recent)
    BY DEF Next, Put
  <2>2. ask \in Ask /\ neg \in NegotiationRecord
    BY <1>1, DeskAssumption DEF IInv, Sound
  <2>3. ~Stands(neg, ask, recent)
    BY <2>1 DEF Evaluated
  <2>4. CASE CannotDeal(neg)
    <3>1. neg' = FailedOutright(neg)
      BY <2>1, <2>3, <2>4 DEF Evaluated
    <3> QED  BY <2>2, <3>1 DEF FailedOutright, NegotiationRecord
  <2>5. CASE ~CannotDeal(neg)
    <3> DEFINE c == Counted(neg, ask)
    <3>1. c \in NegotiationRecord /\ c.rounds = neg.rounds
      BY <2>2 DEF Counted, NegotiationRecord
    <3>2. neg' \in {Accepted(c, ask), Rejected(c, ask), Countered(c, ask)}
      BY <2>1, <2>3, <2>5 DEF Evaluated
    <3>3. \E r : neg'.rounds = Append(c.rounds, r)
      BY <3>1, <3>2 DEF Accepted, Rejected, Countered, Written, NegotiationRecord
    <3>4. neg.rounds \in Seq(Round)
      BY <2>2 DEF NegotiationRecord
    <3> HIDE DEF c
    <3>5. PICK r : neg'.rounds = Append(neg.rounds, r)
      BY <3>1, <3>3
    <3>6. Len(neg'.rounds) = Len(neg.rounds) + 1
      BY <3>4, <3>5
    <3> QED  BY <3>6
  <2> QED  BY <2>4, <2>5
<1> QED  BY <1>1, SoundAlways, PTL DEF Spec, EveryMoveCosts

-----------------------------------------------------------------------------
(* Behind the guard: it changes nothing of the desk, the ceiling is never  *)
(* named, and no move of the desk is withheld.                             *)

(* Putting an ask to a negotiation leaves the load's two rates alone.      *)
LEMMA RatesStay ==
    ASSUME NEW n \in NegotiationRecord, NEW ask \in Ask, NEW recent \in BOOLEAN
    PROVE  /\ Evaluated(n, ask, recent).ceiling = n.ceiling
           /\ Evaluated(n, ask, recent).posted = n.posted
<1> DEFINE c == Counted(n, ask)
<1>1. c \in NegotiationRecord /\ c.ceiling = n.ceiling /\ c.posted = n.posted
  BY CountedKeeps
<1>2. FailedOutright(n).ceiling = n.ceiling /\ FailedOutright(n).posted = n.posted
  BY DEF FailedOutright, NegotiationRecord
<1> HIDE DEF c
<1>3. \A m \in {Accepted(c, ask), Rejected(c, ask), Countered(c, ask)} :
        m.ceiling = n.ceiling /\ m.posted = n.posted
  BY <1>1 DEF Accepted, Rejected, Countered, NegotiationRecord
<1> QED  BY <1>2, <1>3 DEF Evaluated, c

(* While a negotiation is open, its last round was countered, under the    *)
(* ceiling.                                                                *)
LEMMA LastCounter ==
    ASSUME NEW n, Sound(n), n.status = "open", n.rounds # <<>>
    PROVE  /\ LastRound(n).decision = "countered"
           /\ LastRound(n).counter < n.ceiling
<1>1. Len(n.rounds) \in DOMAIN n.rounds
  BY DEF Sound, NegotiationRecord
<1>2. Len(n.rounds) \in CounterRounds(n)
  BY <1>1 DEF Sound, OpenStanding
<1> QED  BY <1>2 DEF Sound, CountersBelow, CounterRounds, LastRound, RoundsUsed

(* An evaluation that leaves the negotiation open, and is no repeat, wrote *)
(* a round.                                                                *)
LEMMA OpenAfterRound ==
    ASSUME NEW n, Sound(n), NEW ask \in Ask, NEW recent \in BOOLEAN,
           ~Replays(n, ask, recent), Evaluated(n, ask, recent).status = "open"
    PROVE  Evaluated(n, ask, recent).rounds # <<>>
<1> DEFINE m == Evaluated(n, ask, recent)
           c == Counted(n, ask)
<1>1. n \in NegotiationRecord /\ c \in NegotiationRecord
  BY CountedKeeps DEF Sound
<1>2. ~Stands(n, ask, recent)
  BY DEF Stands, Evaluated
<1>3. FailedOutright(n).status = "failed"
  BY <1>1 DEF FailedOutright, NegotiationRecord
<1>4. Accepted(c, ask).status = "agreed" /\ Rejected(c, ask).status = "failed"
  BY <1>1 DEF Accepted, Rejected, NegotiationRecord
<1> HIDE DEF c
<1>5. m = Countered(c, ask)
  BY <1>2, <1>3, <1>4 DEF Evaluated, c
<1>6. PICK r : Countered(c, ask).rounds = Append(c.rounds, r)
  BY <1>1 DEF Countered, Written, NegotiationRecord
<1>7. c.rounds \in Seq(Round)
  BY <1>1 DEF NegotiationRecord
<1>8. Append(c.rounds, r) # <<>>
  BY <1>7
<1> QED  BY <1>5, <1>6, <1>8

(* An evaluation that reaches an agreement agrees on what was asked.       *)
LEMMA AgreedAsAsked ==
    ASSUME NEW n \in NegotiationRecord, NEW ask \in Ask, NEW recent \in BOOLEAN,
           Evaluated(n, ask, recent) # n, Evaluated(n, ask, recent).status = "agreed"
    PROVE  Evaluated(n, ask, recent).agreed = ask
<1> DEFINE c == Counted(n, ask)
<1>1. c \in NegotiationRecord /\ c.status = n.status
  BY CountedKeeps DEF Counted, NegotiationRecord
<1>2. ~Stands(n, ask, recent) /\ n.status = "open"
  BY DEF Evaluated, Stands
<1>3. FailedOutright(n).status = "failed"
  BY DEF FailedOutright, NegotiationRecord
<1>4. Rejected(c, ask).status = "failed" /\ Countered(c, ask).status = c.status
  BY <1>1 DEF Rejected, Countered, NegotiationRecord
<1>5. Accepted(c, ask).agreed = ask
  BY <1>1 DEF Accepted, NegotiationRecord
<1> HIDE DEF c
<1> QED  BY <1>1, <1>2, <1>3, <1>4, <1>5 DEF Evaluated, c

(* The only way the reply to an ask names the ceiling is an agreement at   *)
(* the ceiling; if that ask brought it about, it is what was asked.        *)
LEMMA OutcomeNames ==
    ASSUME NEW n, Sound(n), NEW ask \in Ask, NEW recent \in BOOLEAN,
           NEW m, m = Evaluated(n, ask, recent),
           m.ceiling \in Outcome(m, DecisionOf(n, ask, recent)),
           m.ceiling >= MinProtected
    PROVE  /\ m.status = "agreed"
           /\ m.agreed = m.ceiling
           /\ m # n => m.agreed = ask
<1> DEFINE d == DecisionOf(n, ask, recent)
<1>1. Sound(m)
  BY EvaluatedSound
<1>2. m.ceiling # NoRate
  BY PolicyAssumption DEF Outcome, Figures
<1>3. m.ceiling \in Nat
  BY <1>1, <1>2 DEF Sound, NegotiationRecord, Ceiling
<1>4. m.ceiling \notin 0 .. MaxRounds
  BY <1>3, GuardAssumption, PolicyAssumption
<1>5. Replays(n, ask, recent) =>
        /\ m = n /\ n.status = "open" /\ n.rounds # <<>>
        /\ d = "countered"
  BY LastCounter DEF Replays, Evaluated, Stands, DecisionOf
<1>6. d # "countered"
  <2> SUFFICES ASSUME d = "countered" PROVE FALSE
    OBVIOUS
  <2>1. m.ceiling = LastRound(m).counter
    BY <1>4 DEF Outcome, Figures
  <2>2. m.status = "open" /\ m.rounds # <<>>
    <3>1. CASE Replays(n, ask, recent)
      BY <1>5, <3>1
    <3>2. CASE ~Replays(n, ask, recent)
      <4>1. m.status # "agreed" /\ m.status # "failed"
        BY <3>2 DEF DecisionOf
      <4>2. m.status = "open"
        BY <4>1, <1>1 DEF Sound, NegotiationRecord, Status
      <4> QED  BY <3>2, <4>2, OpenAfterRound
    <3> QED  BY <3>1, <3>2
  <2>3. LastRound(m).counter < m.ceiling
    BY <1>1, <2>2, LastCounter
  <2> QED  BY <1>3, <2>1, <2>3
<1>7. d = "accepted" /\ m.ceiling = m.agreed
  BY <1>4, <1>6 DEF Outcome, Figures
<1>8. m.status = "agreed"
  BY <1>5, <1>6, <1>7 DEF DecisionOf
<1>9. n \in NegotiationRecord
  BY DEF Sound
<1> QED  BY <1>7, <1>8, <1>9, AgreedAsAsked

-----------------------------------------------------------------------------
(* Behind the guard the desk is the desk of RateDesk: what is withheld     *)
(* has happened all the same, and nothing else has.                        *)
THEOREM GuardOnlyWatches == GuardedSpec => Spec
<1>1. GuardedInit => Init
  BY DEF GuardedInit
<1>2. [GuardedNext]_guarded => [Next]_vars
  BY DEF GuardedNext, guarded, Next, vars, Negotiate, Search, Detail, Book, Put
<1> QED  BY <1>1, <1>2, PTL DEF GuardedSpec, Spec

(* An agreement was named by the carrier.                                  *)
LEMMA AgreementNamed ==
    ASSUME NEW n, Sound(n), n.status = "agreed"
    PROVE  \E i \in DOMAIN n.rounds : n.rounds[i].ask = n.agreed
<1>1. n.rounds \in Seq(Round) /\ n.rounds # <<>> /\ n.agreed = LastRound(n).ask
  BY DEF Sound, NegotiationRecord, AgreementCovered
<1>2. Len(n.rounds) \in DOMAIN n.rounds
  BY <1>1
<1> QED  BY <1>1, <1>2 DEF LastRound, RoundsUsed

(* "a rate ceiling never leaves the building": no reply that goes out      *)
(* holds the ceiling, unless the carrier has asked for that number, it is  *)
(* under MIN_PROTECTED_VALUE, or a search reads out the advertised rate of *)
(* a load posted at its ceiling.                                           *)
THEOREM CeilingKept == GuardedSpec => []CeilingNeverNamed
<1>1. GuardedInit => CeilingNeverNamed
  BY DEF GuardedInit, CeilingNeverNamed
<1>2. ASSUME IInv, IInv', CeilingNeverNamed, [GuardedNext]_guarded
      PROVE  CeilingNeverNamed'
  <2> SUFFICES ASSUME neg'.ceiling \in reply'.figures, ~reply'.blocked,
                      ~(neg'.ceiling < MinProtected),
                      ~(reply'.route = "search" /\ neg'.posted = neg'.ceiling)
               PROVE  Named(neg.ceiling)'
    BY DEF CeilingNeverNamed
  <2>1. CASE UNCHANGED guarded
    BY <1>2, <2>1 DEF guarded, CeilingNeverNamed, Named
  <2>2. ASSUME NEW ask \in Asks, Negotiate(ask) PROVE Named(neg.ceiling)'
    <3>1. PICK recent \in BOOLEAN :
            /\ neg' = Evaluated(neg, ask, recent)
            /\ reply' = Guarded("negotiate", Outcome(neg', DecisionOf(neg, ask, recent)),
                                Protected(neg.ceiling), Disclosed(ask))
      BY <2>2 DEF Negotiate
    <3>2. ask \in Ask
      BY DeskAssumption
    <3>3. neg'.ceiling \in Outcome(neg', DecisionOf(neg, ask, recent))
      BY <3>1 DEF Guarded
    <3>4. neg'.ceiling >= MinProtected
      <4>1. neg'.ceiling # NoRate
        BY <3>3, PolicyAssumption DEF Outcome, Figures
      <4>2. neg'.ceiling \in Nat
        BY <1>2, <4>1 DEF IInv, Sound, NegotiationRecord, Ceiling
      <4> QED  BY <4>2, GuardAssumption
    <3>5. neg'.status = "agreed" /\ neg'.agreed = neg'.ceiling
      BY <1>2, <3>1, <3>2, <3>3, <3>4, OutcomeNames DEF IInv
    <3> QED  BY <1>2, <3>5, AgreementNamed DEF IInv, Named
  <2>3. CASE Detail
    <3>1. neg' = neg /\ reply' = Guarded("detail", {neg.posted}, Protected(neg.ceiling), {})
      BY <2>3 DEF Detail
    <3>2. neg.ceiling = neg.posted
      BY <3>1 DEF Guarded
    <3>3. neg.ceiling \in Protected(neg.ceiling)
      BY <1>2, <3>1, <3>2, PolicyAssumption DEF IInv, Sound, NegotiationRecord, Rate, Protected
    <3> QED  BY <3>1, <3>2, <3>3 DEF Guarded
  <2>4. CASE Book
    <3>1. neg' = neg /\ neg.status = "agreed" /\ reply'.figures \subseteq {neg.agreed}
      BY <2>4 DEF Book, Guarded
    <3>2. Named(neg.agreed) /\ neg.ceiling = neg.agreed
      BY <1>2, <3>1, AgreementNamed DEF IInv, Named
    <3> QED  BY <3>1, <3>2 DEF Named
  <2>5. CASE Search
    BY <2>5 DEF Search, Guarded
  <2> QED  BY <1>2, <2>1, <2>2, <2>3, <2>4, <2>5 DEF GuardedNext
<1>3. GuardedSpec => []IInv
  BY GuardOnlyWatches, SoundAlways
<1> QED  BY <1>1, <1>2, <1>3, PTL DEF GuardedSpec

(* What the desk writes down and what is booked is always said: the guard  *)
(* withholds no reply to an ask that moved the negotiation, and none to a  *)
(* booking.                                                                *)
THEOREM MovesHeard == GuardedSpec => MovesAreHeard
<1>1. ASSUME IInv, [GuardedNext]_guarded
      PROVE  [neg' # neg \/ reply'.route = "book" => ~reply'.blocked]_guarded
  <2> SUFFICES ASSUME GuardedNext, neg' # neg \/ reply'.route = "book", reply'.blocked
               PROVE  FALSE
    BY <1>1 DEF guarded
  <2>1. CASE Book
    <3>1. PICK figures \in {{}, {neg.agreed}} :
            reply' = Guarded("book", figures, Protected(neg.ceiling), Disclosed(neg.agreed))
      BY <2>1 DEF Book
    <3> QED  BY <3>1 DEF Guarded, Disclosed
  <2>2. CASE Search \/ Detail
    BY <2>2 DEF Search, Detail, Guarded
  <2>3. ASSUME NEW ask \in Asks, Negotiate(ask) PROVE FALSE
    <3>1. PICK recent \in BOOLEAN :
            /\ neg' = Evaluated(neg, ask, recent)
            /\ reply' = Guarded("negotiate", Outcome(neg', DecisionOf(neg, ask, recent)),
                                Protected(neg.ceiling), Disclosed(ask))
      BY <2>3 DEF Negotiate
    <3>2. neg' # neg
      BY <3>1 DEF Guarded
    <3>3. ask \in Ask /\ neg \in NegotiationRecord
      BY <1>1, DeskAssumption DEF IInv, Sound
    <3>4. PICK v \in Outcome(neg', DecisionOf(neg, ask, recent)) :
            v \in Protected(neg.ceiling) /\ v # ask
      BY <3>1 DEF Guarded, Disclosed
    <3>5. v = neg.ceiling /\ neg.ceiling # NoRate /\ ~(neg.ceiling < MinProtected)
      BY <3>4 DEF Protected
    <3>6. neg'.ceiling = neg.ceiling
      BY <3>1, <3>3, RatesStay
    <3>7. neg.ceiling \in Nat
      BY <3>3, <3>5 DEF NegotiationRecord, Ceiling
    <3>8. neg'.ceiling >= MinProtected
      BY <3>5, <3>6, <3>7, GuardAssumption
    <3>9. neg'.ceiling = neg'.agreed /\ neg'.agreed = ask
      BY <1>1, <3>1, <3>2, <3>3, <3>4, <3>5, <3>6, <3>8, OutcomeNames DEF IInv
    <3> QED  BY <3>4, <3>5, <3>6, <3>9
  <2> QED  BY <2>1, <2>2, <2>3 DEF GuardedNext
<1>2. IInv /\ [GuardedNext]_guarded
         => [neg' # neg \/ reply'.route = "book" => ~reply'.blocked]_guarded
  BY <1>1
<1> QED  BY <1>2, GuardOnlyWatches, SoundAlways, PTL DEF GuardedSpec, MovesAreHeard
=============================================================================
