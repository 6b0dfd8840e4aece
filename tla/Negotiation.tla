----------------------------- MODULE Negotiation -----------------------------
(***************************************************************************)
(* The rate-desk policy of app/domain/negotiation.py, as operators on the  *)
(* record that stands for one Negotiation object.  Rates are whole         *)
(* dollars; the percentages of the settings are whole percents, so that    *)
(* int(math.floor(x * p)) is (x * 100p) \div 100.                          *)
(***************************************************************************)
EXTENDS Integers, Sequences, FiniteSets

CONSTANTS
    NoRate,         \* Python's None where a rate could stand
    MaxRounds,      \* settings.max_negotiation_rounds
    BufferPct,      \* settings.negotiation_ceiling_buffer_pct, in percent
    AutoAcceptPct   \* settings.negotiation_auto_accept_pct, in percent

ASSUME PolicyAssumption ==
    /\ NoRate \notin Int
    /\ MaxRounds \in Nat \ {0}
    /\ BufferPct \in 1..100
    /\ AutoAcceptPct \in Nat

Rate == Nat
Ask == Nat \ {0}               \* NegotiateRequest.carrier_offer is gt=0
Ceiling == (Nat \ {0}) \cup {NoRate}

Status == {"open", "agreed", "failed"}
Decision == {"accepted", "countered", "rejected"}

Round == [ask : Ask, decision : Decision, counter : Rate \cup {NoRate}]

NegotiationRecord ==
    [posted : Rate, ceiling : Ceiling, offer : Rate, status : Status,
     agreed : Rate \cup {NoRate}, rounds : Seq(Round), breaches : Nat]

(* A Negotiation as _negotiation_for constructs it: the standing offer is  *)
(* the posted rate (__post_init__).                                        *)
Opened(posted, ceiling) ==
    [posted |-> posted, ceiling |-> ceiling, offer |-> posted,
     status |-> "open", agreed |-> NoRate, rounds |-> <<>>, breaches |-> 0]

Least(a, b) == IF a <= b THEN a ELSE b
Greatest(a, b) == IF a >= b THEN a ELSE b

(* Share of the gap conceded on the k-th round, in percent.                *)
Concession(k) == IF k = 1 THEN 50 ELSE IF k = 2 THEN 65 ELSE 80

RoundsUsed(n) == Len(n.rounds)
RoundNumber(n) == RoundsUsed(n) + 1

(* fault: off by one in the round limit.                                   *)
IsFinalRoundLate(n) == RoundNumber(n) > MaxRounds

IsFinalRound(n) == RoundNumber(n) >= MaxRounds
LastRound(n) == n.rounds[RoundsUsed(n)]

(* fault: the buffer under the ceiling is forgotten.                       *)
CounterCapUnbuffered(n) == n.ceiling

CounterCap(n) == (n.ceiling * (100 - BufferPct)) \div 100

Target(n, ask) ==
    (100 * n.offer + Concession(RoundNumber(n)) * (ask - n.offer)) \div 100

(* fault: the gap is measured from the posted rate every round.            *)
NextCounterFromPosted(n, ask) ==
    Least((100 * n.posted + Concession(RoundNumber(n)) * (ask - n.posted)) \div 100,
          CounterCap(n))

(* _next_counter: never above the cap, never below the last thing said     *)
(* unless that already sits above the cap.                                 *)
NextCounter(n, ask) ==
    Greatest(Least(Target(n, ask), CounterCap(n)),
             Least(n.offer, CounterCap(n)))

WithinCeiling(n, ask) == n.ceiling # NoRate /\ ask <= n.ceiling

(* fault: the auto-accept band is taken around the ceiling.                *)
CloseEnoughToCeiling(n, ask) ==
    100 * ask <= n.ceiling * (100 + AutoAcceptPct)

CloseEnough(n, ask) == 100 * ask <= n.offer * (100 + AutoAcceptPct)

-----------------------------------------------------------------------------
(* The three ways a round is written down.                                 *)

Written(n, ask, decision, counter) ==
    Append(n.rounds, [ask |-> ask, decision |-> decision, counter |-> counter])

Accepted(n, ask) ==
    [n EXCEPT !.status = "agreed", !.agreed = ask, !.offer = ask,
              !.rounds = Written(n, ask, "accepted", NoRate)]

(* fault: a later counter is written over the one before it.               *)
CounteredInPlace(n, ask) ==
    LET round == [ask |-> ask, decision |-> "countered", counter |-> NextCounter(n, ask)]
    IN  [n EXCEPT !.offer = round.counter,
                  !.rounds = IF @ = <<>> THEN <<round>> ELSE [@ EXCEPT ![Len(@)] = round]]

Countered(n, ask) ==
    LET counter == NextCounter(n, ask)
    IN  [n EXCEPT !.offer = counter,
                  !.rounds = Written(n, ask, "countered", counter)]

Rejected(n, ask) ==
    [n EXCEPT !.status = "failed",
              !.rounds = Written(n, ask, "rejected", NoRate)]

(* fault: _fail writes a round even when it was given no offer.            *)
FailedOutrightWritten(n) ==
    [n EXCEPT !.status = "failed",
              !.rounds = Written(n, NoRate, "rejected", NoRate)]

FailedOutright(n) == [n EXCEPT !.status = "failed"]

(* fault: an ask exactly at the ceiling is counted as a breach.            *)
CountedAtCeiling(n, ask) ==
    IF n.ceiling # NoRate /\ ask < n.ceiling
      THEN n ELSE [n EXCEPT !.breaches = @ + 1]

(* An ask above the ceiling is counted before it is decided.               *)
Counted(n, ask) ==
    IF WithinCeiling(n, ask) THEN n ELSE [n EXCEPT !.breaches = @ + 1]

-----------------------------------------------------------------------------
(* evaluate(): `recent' says that the previous round is under 90 s old.    *)

Replays(n, ask, recent) ==
    /\ n.status = "open"
    /\ n.rounds # <<>>
    /\ LastRound(n).ask = ask
    /\ recent

(* fault: a closed negotiation is evaluated again.                         *)
StandsWhileOpen(n, ask, recent) == Replays(n, ask, recent)

Stands(n, ask, recent) == n.status # "open" \/ Replays(n, ask, recent)

CannotDeal(n) == RoundsUsed(n) >= MaxRounds \/ n.ceiling = NoRate

(* fault: the final round takes whatever is asked.                         *)
TakesAnythingAtLast(n, ask) ==
    \/ ask <= n.offer
    \/ IsFinalRound(n)
    \/ WithinCeiling(n, ask) /\ CloseEnough(n, ask)

Takes(n, ask) ==
    \/ ask <= n.offer
    \/ WithinCeiling(n, ask) /\ (IsFinalRound(n) \/ CloseEnough(n, ask))

GivesUp(n, ask) == IsFinalRound(n) /\ ~WithinCeiling(n, ask)

Evaluated(n, ask, recent) ==
    IF Stands(n, ask, recent) THEN n
    ELSE IF CannotDeal(n) THEN FailedOutright(n)
    ELSE IF Takes(n, ask) THEN Accepted(Counted(n, ask), ask)
    ELSE IF GivesUp(n, ask) THEN Rejected(Counted(n, ask), ask)
    ELSE Countered(Counted(n, ask), ask)

(* NegotiationOutcome.decision for that evaluation.                        *)
DecisionOf(n, ask, recent) ==
    LET status == Evaluated(n, ask, recent).status
    IN  IF Replays(n, ask, recent) THEN LastRound(n).decision
        ELSE IF status = "agreed" THEN "accepted"
        ELSE IF status = "failed" THEN "rejected"
        ELSE "countered"

-----------------------------------------------------------------------------
(* What every Negotiation keeps, whoever holds it and however often it is  *)
(* evaluated.  Each conjunct is a part of the inductive invariant Sound.   *)

CounterRounds(n) == {i \in DOMAIN n.rounds : n.rounds[i].decision = "countered"}

CountersBelow(n) ==
    \A i \in CounterRounds(n) :
        /\ n.ceiling # NoRate
        /\ n.rounds[i].counter \in Rate
        /\ n.rounds[i].counter < n.ceiling
        /\ n.rounds[i].counter < n.rounds[i].ask

CountersRise(n) ==
    \A i, j \in CounterRounds(n) :
        i < j => n.rounds[i].counter <= n.rounds[j].counter

RoundsCapped(n) ==
    /\ Len(n.rounds) <= MaxRounds
    /\ Len(n.rounds) = MaxRounds => n.status # "open"

AgreementCovered(n) ==
    n.status = "agreed" =>
        /\ n.rounds # <<>>
        /\ n.agreed = LastRound(n).ask
        /\ n.ceiling # NoRate
        /\ n.agreed <= n.ceiling \/ n.agreed <= n.posted

Breaching(n) ==
    {i \in DOMAIN n.rounds : n.ceiling # NoRate /\ n.rounds[i].ask > n.ceiling}

BreachesAddUp(n) == n.breaches = Cardinality(Breaching(n))

InBand(n, standing) == 100 * n.agreed <= standing * (100 + AutoAcceptPct)

AgreementEarned(n) ==
    n.status = "agreed" /\ Len(n.rounds) < MaxRounds =>
        /\ Len(n.rounds) = 1 => InBand(n, n.posted)
        /\ \A i \in CounterRounds(n) :
               i + 1 = Len(n.rounds) => InBand(n, n.rounds[i].counter)

(* While it is open every round was countered, and the standing offer is   *)
(* the posted rate or the last counter, which was within the cap.          *)
OpenStanding(n) ==
    n.status = "open" =>
        /\ n.agreed = NoRate
        /\ CounterRounds(n) = DOMAIN n.rounds
        /\ n.rounds = <<>> => n.offer = n.posted
        /\ n.rounds # <<>> => /\ n.offer = LastRound(n).counter
                              /\ n.offer <= CounterCap(n)

Sound(n) ==
    /\ n \in NegotiationRecord
    /\ CountersBelow(n)
    /\ CountersRise(n)
    /\ RoundsCapped(n)
    /\ AgreementCovered(n)
    /\ AgreementEarned(n)
    /\ BreachesAddUp(n)
    /\ OpenStanding(n)
=============================================================================
