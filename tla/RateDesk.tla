------------------------------- MODULE RateDesk -------------------------------
(***************************************************************************)
(* One Negotiation object over its life: built once from a load's posted   *)
(* rate and ceiling, then handed one carrier ask after another.            *)
(***************************************************************************)
EXTENDS Negotiation

CONSTANTS
    PostedRates,    \* the loadboard rates a load may carry
    Ceilings,       \* the MAX_BUY values a load may carry, NoRate if withheld
    Asks            \* the carrier_offer values a caller may send

ASSUME DeskAssumption ==
    /\ PostedRates \subseteq Rate
    /\ Ceilings \subseteq Ceiling
    /\ Asks \subseteq Ask

VARIABLE neg        \* the Negotiation

vars == <<neg>>

Init == neg \in {Opened(p, c) : p \in PostedRates, c \in Ceilings}

(* POST /v1/negotiate on this object.  Wall-clock time is free, so whether *)
(* the previous round is under 90 s old is a choice of the environment.    *)
Put(ask) == \E recent \in BOOLEAN : neg' = Evaluated(neg, ask, recent)

Next == \E ask \in Asks : Put(ask)

Spec == Init /\ [][Next]_vars

-----------------------------------------------------------------------------
(* Every field holds a value the dataclass can hold.                       *)
TypeOK == neg \in NegotiationRecord

(* "Our counters are always held strictly below the ceiling"               *)
(* (negotiation.py:7), and a counter never reaches what was just asked.    *)
CountersStayBelow == CountersBelow(neg)

(* A number once said to the carrier is never followed by a lower one      *)
(* (_next_counter: "Never move backwards").                                *)
CountersNeverRetreat == CountersRise(neg)

(* "Round four does not exist" (negotiation.py:10): the record never holds *)
(* more than MaxRounds rounds, and the last of them settles it.            *)
RoundCap == RoundsCapped(neg)

(* What is agreed is the very last number the carrier named, and it is     *)
(* covered by the ceiling or by the rate the board itself posted; a load   *)
(* without a ceiling is never agreed at all.                               *)
AgreedIsCovered == AgreementCovered(neg)

(* Before the final round an accepted ask is within the auto-accept band   *)
(* of the number the bridge said last, or of the posted rate in round one: *)
(* the gap is never given away at once.                                    *)
NoEarlyGiveaway == AgreementEarned(neg)

(* ceiling_breach_attempts, which the dashboard reports, is exactly the    *)
(* number of recorded rounds whose ask was above the ceiling.              *)
BreachesCounted == BreachesAddUp(neg)

(* The strengthening the proofs need: all of the above and what the        *)
(* standing offer is while the negotiation is open.                        *)
IInv == Sound(neg)

(* A closed negotiation is final: no later ask reopens it, changes the     *)
(* agreed number or writes another round.                                  *)
ClosedIsFinal == [][neg.status # "open" => neg' = neg]_vars

(* Every ask that is not a repeat costs a round or closes the negotiation  *)
(* on the standing offer, so a carrier cannot walk the offer up for free.  *)
EveryMoveCosts ==
    [][neg' # neg => \/ Len(neg'.rounds) = Len(neg.rounds) + 1
                     \/ neg'.status = "failed" /\ neg'.offer = neg.offer]_vars

(* "The engine cannot produce this" (deals.py:224): that an agreed rate is *)
(* never above the ceiling is what the booking route says of the engine.   *)
AgreedWithinCeiling == neg.status = "agreed" => neg.agreed <= neg.ceiling
=============================================================================
