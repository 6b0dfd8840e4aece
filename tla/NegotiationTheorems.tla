------------------------- MODULE NegotiationTheorems -------------------------
(***************************************************************************)
(* What the rate-desk operators preserve, for every value of the policy    *)
(* constants: a Negotiation is Sound when it is opened and stays Sound     *)
(* however it is evaluated.                                                *)
(***************************************************************************)
EXTENDS Negotiation, FiniteSetTheorems, TLAPS

-----------------------------------------------------------------------------
(* Arithmetic of the counters.                                             *)

(* The cap is a whole number of dollars strictly under the ceiling.        *)
LEMMA CapBelowCeiling ==
    ASSUME NEW n \in NegotiationRecord, n.ceiling # NoRate
    PROVE  CounterCap(n) \in Rate /\ CounterCap(n) < n.ceiling
<1> DEFINE c == n.ceiling
           b == 100 - BufferPct
<1>1. c \in Nat \ {0}
  BY DEF NegotiationRecord, Ceiling
<1>2. b \in 0..99
  BY PolicyAssumption
<1>3. c * b \in Nat /\ c * b <= c * 99
  <2> HIDE DEF c, b
  <2>1. c * (99 - b) \in Nat
    BY <1>1, <1>2
  <2>2. c * (99 - b) = c * 99 - c * b
    BY <1>1, <1>2
  <2> QED  BY <1>1, <1>2, <2>1, <2>2
<1>4. (c * b) \div 100 \in Nat /\ (c * b) \div 100 < c
  <2> DEFINE d == c * b
  <2>1. d \in Nat /\ d <= c * 99
    BY <1>3
  <2> HIDE DEF c, b, d
  <2>2. d \div 100 \in Nat /\ d \div 100 < c
    BY <1>1, <2>1
  <2> QED  BY <2>2 DEF d
<1> QED  BY <1>4 DEF CounterCap, Rate

(* While the ask is above the standing offer, the target lies between the  *)
(* two and stays short of the ask.                                         *)
LEMMA TargetShortOfAsk ==
    ASSUME NEW n \in NegotiationRecord, NEW ask \in Ask, ask > n.offer
    PROVE  Target(n, ask) \in Rate /\ n.offer <= Target(n, ask) /\ Target(n, ask) < ask
<1>1. n.offer \in Nat /\ ask \in Nat
  BY DEF NegotiationRecord, Rate, Ask
<1>2. Concession(RoundNumber(n)) \in {50, 65, 80}
  BY DEF Concession
<1> QED  BY <1>1, <1>2 DEF Target, Rate

(* The counter lies at or above the standing offer (while that offer is    *)
(* under the cap), under the ask, and strictly under the ceiling.          *)
LEMMA NextCounterBounds ==
    ASSUME NEW n \in NegotiationRecord, NEW ask \in Ask, ask > n.offer,
           n.ceiling # NoRate
    PROVE  /\ NextCounter(n, ask) \in Rate
           /\ NextCounter(n, ask) <= CounterCap(n)
           /\ NextCounter(n, ask) < n.ceiling
           /\ NextCounter(n, ask) < ask
           /\ n.offer <= CounterCap(n) => n.offer <= NextCounter(n, ask)
<1>1. n.offer \in Nat /\ ask \in Nat /\ n.ceiling \in Nat
  BY DEF NegotiationRecord, Rate, Ask, Ceiling
<1>2. CounterCap(n) \in Nat /\ CounterCap(n) < n.ceiling
  BY CapBelowCeiling DEF Rate
<1>3. Target(n, ask) \in Nat /\ n.offer <= Target(n, ask) /\ Target(n, ask) < ask
  BY TargetShortOfAsk DEF Rate
<1> QED  BY <1>1, <1>2, <1>3 DEF NextCounter, Least, Greatest, Rate

-----------------------------------------------------------------------------
(* A new Negotiation is Sound.                                             *)
LEMMA OpenedSound ==
    ASSUME NEW p \in Rate, NEW c \in Ceiling
    PROVE  Sound(Opened(p, c))
<1> DEFINE n == Opened(p, c)
<1>1. n \in NegotiationRecord
  BY DEF Opened, NegotiationRecord, Status
<1>2. n.rounds = <<>> /\ n.status = "open" /\ n.agreed = NoRate /\ n.breaches = 0
      /\ n.offer = n.posted
  BY DEF Opened
<1>3. DOMAIN n.rounds = {} /\ Len(n.rounds) = 0
  BY <1>2
<1>4. CounterRounds(n) = {} /\ Breaching(n) = {}
  BY <1>3 DEF CounterRounds, Breaching
<1>5. BreachesAddUp(n)
  BY <1>2, <1>4, FS_EmptySet DEF BreachesAddUp
<1>6. RoundsCapped(n)
  BY <1>3, PolicyAssumption DEF RoundsCapped
<1> HIDE DEF n
<1>7. CountersBelow(n) /\ CountersRise(n)
  BY <1>4 DEF CountersBelow, CountersRise
<1>8. AgreementCovered(n) /\ AgreementEarned(n)
  BY <1>2 DEF AgreementCovered, AgreementEarned
<1>9. OpenStanding(n)
  BY <1>2, <1>3, <1>4 DEF OpenStanding
<1> QED  BY <1>1, <1>5, <1>6, <1>7, <1>8, <1>9 DEF Sound, n

-----------------------------------------------------------------------------
(* Writing one more round on an open, Sound negotiation.                   *)

(* The round lists before (s) and after (t), element by element.           *)
OneMore(s, t, ask, decision, counter) ==
    /\ Len(s) \in Nat
    /\ DOMAIN s = 1 .. Len(s)
    /\ Len(t) = Len(s) + 1
    /\ DOMAIN t = DOMAIN s \cup {Len(t)}
    /\ \A i \in DOMAIN s : t[i] = s[i]
    /\ t[Len(t)].ask = ask
    /\ t[Len(t)].decision = decision
    /\ t[Len(t)].counter = counter

(* Writing a round down keeps every round before it and adds that one.     *)
LEMMA WrittenOneMore ==
    ASSUME NEW n \in NegotiationRecord, NEW ask \in Ask,
           NEW decision \in Decision, NEW counter \in Rate \cup {NoRate}
    PROVE  /\ Written(n, ask, decision, counter) \in Seq(Round)
           /\ OneMore(n.rounds, Written(n, ask, decision, counter),
                      ask, decision, counter)
<1> DEFINE r == [ask |-> ask, decision |-> decision, counter |-> counter]
<1>1. r \in Round
  BY DEF Round
<1>2. n.rounds \in Seq(Round)
  BY DEF NegotiationRecord
<1> QED  BY <1>1, <1>2 DEF Written, OneMore

(* One more round adds exactly one breach when its ask is over the ceiling.*)
LEMMA BreachesOneMore ==
    ASSUME NEW n \in NegotiationRecord, NEW m \in NegotiationRecord,
           BreachesAddUp(n), n.ceiling # NoRate,
           NEW ask \in Ask, NEW decision, NEW counter,
           m.ceiling = n.ceiling,
           m.breaches = Counted(n, ask).breaches,
           OneMore(n.rounds, m.rounds, ask, decision, counter)
    PROVE  BreachesAddUp(m)
<1> DEFINE k == Len(m.rounds)
<1>1. /\ DOMAIN m.rounds = DOMAIN n.rounds \cup {k}
      /\ k \notin DOMAIN n.rounds
      /\ \A i \in DOMAIN n.rounds : m.rounds[i] = n.rounds[i]
      /\ m.rounds[k].ask = ask
  BY DEF OneMore
<1> HIDE DEF k
<1>2. IsFiniteSet(Breaching(n)) /\ k \notin Breaching(n)
  <2>1. n.rounds \in Seq(Round)
    BY DEF NegotiationRecord
  <2>2. DOMAIN n.rounds = 1 .. Len(n.rounds) /\ Len(n.rounds) \in Nat
    BY <2>1
  <2>3. IsFiniteSet(DOMAIN n.rounds)
    BY <2>2, FS_Interval
  <2> QED  BY <1>1, <2>3, FS_Subset DEF Breaching
<1>3. n.breaches \in Nat /\ n.ceiling \in Nat /\ ask \in Nat
  BY DEF NegotiationRecord, Ceiling, Ask
<1>4. CASE ask <= n.ceiling
  <2>1. m.breaches = n.breaches
    BY <1>4 DEF Counted, WithinCeiling
  <2>2. Breaching(m) = Breaching(n)
    BY <1>1, <1>3, <1>4 DEF Breaching
  <2> QED  BY <2>1, <2>2 DEF BreachesAddUp
<1>5. CASE ~(ask <= n.ceiling)
  <2>1. m.breaches = n.breaches + 1
    BY <1>5, <1>3 DEF Counted, WithinCeiling, NegotiationRecord
  <2>2. Breaching(m) = Breaching(n) \cup {k}
    BY <1>1, <1>3, <1>5 DEF Breaching
  <2>3. Cardinality(Breaching(m)) = Cardinality(Breaching(n)) + 1
    BY <1>2, <2>2, FS_AddElement
  <2> QED  BY <2>1, <2>3 DEF BreachesAddUp
<1> QED  BY <1>4, <1>5

(* What the three ways of writing a round have in common: the new record   *)
(* m differs from n by one more round, and keeps posted rate and ceiling.  *)
Successor(n, m, ask, decision, counter) ==
    /\ m \in NegotiationRecord
    /\ m.ceiling = n.ceiling
    /\ m.posted = n.posted
    /\ m.breaches = Counted(n, ask).breaches
    /\ OneMore(n.rounds, m.rounds, ask, decision, counter)

(* An open, Sound negotiation with a ceiling and a round to spare.         *)
Ready(n) ==
    /\ Sound(n)
    /\ n.status = "open"
    /\ n.ceiling # NoRate
    /\ Len(n.rounds) < MaxRounds

(* Counting a breach changes nothing that the decision reads.              *)
LEMMA CountedKeeps ==
    ASSUME NEW n \in NegotiationRecord, NEW ask \in Ask
    PROVE  /\ Counted(n, ask) \in NegotiationRecord
           /\ \A d \in Decision, c \in Rate \cup {NoRate} :
                 Written(Counted(n, ask), ask, d, c) = Written(n, ask, d, c)
           /\ NextCounter(Counted(n, ask), ask) = NextCounter(n, ask)
           /\ Counted(n, ask).ceiling = n.ceiling
           /\ Counted(n, ask).posted = n.posted
           /\ Counted(n, ask).breaches \in Nat
<1>1. CASE WithinCeiling(n, ask)
  BY <1>1 DEF Counted, NegotiationRecord
<1>2. CASE ~WithinCeiling(n, ask)
  <2>1. Counted(n, ask) = [n EXCEPT !.breaches = n.breaches + 1]
    BY <1>2 DEF Counted
  <2> QED  BY <2>1 DEF NegotiationRecord, Written, NextCounter, Target,
                       CounterCap, RoundNumber, RoundsUsed
<1> QED  BY <1>1, <1>2

(* The counters already said stay below, rising, and as many as before     *)
(* when the new round is not a counter.                                    *)
LEMMA ClosingRound ==
    ASSUME NEW n, NEW m, NEW ask \in Ask, NEW decision \in Decision,
           NEW counter, Ready(n), Successor(n, m, ask, decision, counter),
           decision # "countered"
    PROVE  /\ CounterRounds(m) = DOMAIN n.rounds
           /\ CountersBelow(m)
           /\ CountersRise(m)
           /\ BreachesAddUp(m)
           /\ Len(m.rounds) <= MaxRounds
<1>1. /\ DOMAIN m.rounds = DOMAIN n.rounds \cup {Len(m.rounds)}
      /\ Len(m.rounds) \notin DOMAIN n.rounds
      /\ \A i \in DOMAIN n.rounds : m.rounds[i] = n.rounds[i]
      /\ m.rounds[Len(m.rounds)].decision = decision
  BY DEF Successor, OneMore
<1>2. CounterRounds(n) = DOMAIN n.rounds
  BY DEF Ready, Sound, OpenStanding
<1>3. CounterRounds(m) = CounterRounds(n)
  BY <1>1, <1>2 DEF CounterRounds
<1>4. CountersBelow(m)
  BY <1>1, <1>2, <1>3 DEF CountersBelow, Ready, Sound, Successor
<1>5. CountersRise(m)
  BY <1>1, <1>2, <1>3 DEF CountersRise, Ready, Sound
<1>6. BreachesAddUp(m)
  BY BreachesOneMore DEF Ready, Sound, Successor
<1>7. Len(m.rounds) <= MaxRounds
  BY PolicyAssumption DEF Successor, OneMore, Ready
<1> QED  BY <1>2, <1>3, <1>4, <1>5, <1>6, <1>7

(* A band that widens a figure by a percentage covers everything up to it:  *)
(* the arithmetic of _is_close_enough when the ask is under the offer.      *)
LEMMA WidenedCovers ==
    ASSUME NEW a \in Nat, NEW b \in Nat, NEW pct \in Nat, a <= b
    PROVE  100 * a <= b * (100 + pct)
<1>1. b * pct \in Nat
  OBVIOUS
<1>2. b * (100 + pct) = b * 100 + b * pct
  OBVIOUS
<1>3. b * 100 = 100 * b
  OBVIOUS
<1> QED  BY ONLY a \in Nat, b \in Nat, a <= b, <1>1, <1>2, <1>3

(* Taking an ask that Takes allows leaves the negotiation Sound.           *)
LEMMA AcceptedSound ==
    ASSUME NEW n, NEW ask \in Ask, Ready(n), Takes(n, ask)
    PROVE  Sound(Accepted(Counted(n, ask), ask))
<1> DEFINE m == Accepted(Counted(n, ask), ask)
<1>1. n \in NegotiationRecord /\ n.offer \in Nat /\ n.ceiling \in Nat /\ ask \in Nat
  BY DEF Ready, Sound, NegotiationRecord, Rate, Ceiling, Ask
<1>2. Counted(n, ask) \in NegotiationRecord
      /\ Written(Counted(n, ask), ask, "accepted", NoRate)
           = Written(n, ask, "accepted", NoRate)
  BY <1>1, CountedKeeps DEF Decision
<1>3. /\ Written(n, ask, "accepted", NoRate) \in Seq(Round)
      /\ OneMore(n.rounds, Written(n, ask, "accepted", NoRate),
                 ask, "accepted", NoRate)
  BY <1>1, WrittenOneMore DEF Decision
<1>4. /\ m.rounds = Written(n, ask, "accepted", NoRate)
      /\ m.agreed = ask /\ m.status = "agreed"
      /\ m.ceiling = n.ceiling /\ m.posted = n.posted
      /\ m.breaches = Counted(n, ask).breaches
  BY <1>1, <1>2, CountedKeeps DEF Accepted, NegotiationRecord
<1>5. m \in NegotiationRecord
  BY <1>1, <1>2, <1>3 DEF Accepted, NegotiationRecord, Status, Ask, Rate
<1> HIDE DEF m
<1>6. Successor(n, m, ask, "accepted", NoRate)
  BY <1>3, <1>4, <1>5 DEF Successor
<1>7. /\ CounterRounds(m) = DOMAIN n.rounds
      /\ CountersBelow(m) /\ CountersRise(m) /\ BreachesAddUp(m)
      /\ Len(m.rounds) <= MaxRounds
  BY <1>6, ClosingRound DEF Decision
<1>8. n.posted \in Nat /\ Len(m.rounds) = Len(n.rounds) + 1 /\ Len(n.rounds) \in Nat
      /\ DOMAIN n.rounds = 1 .. Len(n.rounds)
      /\ (\A i \in DOMAIN n.rounds : m.rounds[i] = n.rounds[i])
      /\ m.rounds[Len(m.rounds)].ask = ask
  BY <1>1, <1>6 DEF Successor, OneMore, NegotiationRecord, Rate
<1>9. n.rounds = <<>> <=> Len(n.rounds) = 0
  BY <1>1 DEF NegotiationRecord
<1>10. ask <= n.offer \/ ask <= n.ceiling
  BY DEF Takes, WithinCeiling
<1>11. n.offer = n.posted \/ n.offer < n.ceiling
  <2>1. CASE n.rounds = <<>>
    BY <2>1 DEF Ready, Sound, OpenStanding
  <2>2. CASE n.rounds # <<>>
    <3>1. n.offer <= CounterCap(n)
      BY <2>2 DEF Ready, Sound, OpenStanding
    <3>2. CounterCap(n) \in Nat /\ CounterCap(n) < n.ceiling
      BY <1>1, CapBelowCeiling DEF Ready, Rate
    <3> QED  BY <1>1, <3>1, <3>2
  <2> QED  BY <2>1, <2>2
<1>12. AgreementCovered(m)
  <2>1. m.rounds # <<>>
    BY <1>8
  <2>2. ask <= n.ceiling \/ ask <= n.posted
    BY <1>1, <1>8, <1>10, <1>11
  <2> QED  BY <1>4, <1>8, <2>1, <2>2 DEF AgreementCovered, LastRound, RoundsUsed, Ready
<1>13. AgreementEarned(m)
  <2> SUFFICES ASSUME Len(m.rounds) < MaxRounds
               PROVE  /\ Len(m.rounds) = 1 => InBand(m, m.posted)
                      /\ \A i \in CounterRounds(m) :
                            i + 1 = Len(m.rounds) => InBand(m, m.rounds[i].counter)
    BY DEF AgreementEarned
  <2>1. ~IsFinalRound(n)
    BY <1>8, PolicyAssumption DEF IsFinalRound, RoundNumber, RoundsUsed
  <2>2. 100 * ask <= n.offer * (100 + AutoAcceptPct)
    <3>1. CASE ask <= n.offer
      BY <1>1, <3>1, WidenedCovers, PolicyAssumption
    <3>2. CASE ~(ask <= n.offer)
      <4>1. CloseEnough(n, ask)
        BY ONLY Takes(n, ask), <2>1, <3>2, Zenon DEF Takes
      <4> QED  BY ONLY <4>1, <1>1, PolicyAssumption DEF CloseEnough
    <3> QED  BY ONLY <3>1, <3>2
  <2>3. Len(m.rounds) = 1 => InBand(m, m.posted)
    <3>1. Len(m.rounds) = 1 => n.offer = n.posted
      BY <1>8, <1>9 DEF Ready, Sound, OpenStanding
    <3> QED  BY <1>4, <2>2, <3>1 DEF InBand
  <2>4. ASSUME NEW i \in CounterRounds(m), i + 1 = Len(m.rounds)
        PROVE  InBand(m, m.rounds[i].counter)
    <3>1. i = Len(n.rounds) /\ i \in DOMAIN n.rounds
      BY <1>7, <1>8, <2>4
    <3>2. n.offer = n.rounds[i].counter
      BY <1>8, <1>9, <3>1 DEF Ready, Sound, OpenStanding, LastRound, RoundsUsed
    <3> QED  BY <1>4, <1>8, <2>2, <3>1, <3>2 DEF InBand
  <2> QED  BY <2>3, <2>4
<1>14. RoundsCapped(m)
  BY <1>4, <1>7 DEF RoundsCapped
<1>15. OpenStanding(m)
  BY <1>4 DEF OpenStanding
<1> QED  BY <1>5, <1>7, <1>12, <1>13, <1>14, <1>15 DEF Sound, m

(* Giving up in the last round leaves the negotiation Sound.               *)
LEMMA RejectedSound ==
    ASSUME NEW n, NEW ask \in Ask, Ready(n)
    PROVE  Sound(Rejected(Counted(n, ask), ask))
<1> DEFINE m == Rejected(Counted(n, ask), ask)
<1>1. n \in NegotiationRecord
  BY DEF Ready, Sound
<1>2. Counted(n, ask) \in NegotiationRecord
      /\ Written(Counted(n, ask), ask, "rejected", NoRate)
           = Written(n, ask, "rejected", NoRate)
  BY <1>1, CountedKeeps DEF Decision
<1>3. /\ Written(n, ask, "rejected", NoRate) \in Seq(Round)
      /\ OneMore(n.rounds, Written(n, ask, "rejected", NoRate),
                 ask, "rejected", NoRate)
  BY <1>1, WrittenOneMore DEF Decision
<1>4. /\ m.rounds = Written(n, ask, "rejected", NoRate)
      /\ m.status = "failed"
      /\ m.ceiling = n.ceiling /\ m.posted = n.posted
      /\ m.breaches = Counted(n, ask).breaches
  BY <1>1, <1>2, CountedKeeps DEF Rejected, NegotiationRecord
<1>5. m \in NegotiationRecord
  BY <1>1, <1>2, <1>3 DEF Rejected, NegotiationRecord, Status
<1> HIDE DEF m
<1>6. Successor(n, m, ask, "rejected", NoRate)
  BY <1>3, <1>4, <1>5 DEF Successor
<1>7. /\ CountersBelow(m) /\ CountersRise(m) /\ BreachesAddUp(m)
      /\ Len(m.rounds) <= MaxRounds
  BY <1>6, ClosingRound DEF Decision
<1>8. RoundsCapped(m) /\ AgreementCovered(m) /\ AgreementEarned(m) /\ OpenStanding(m)
  BY <1>4, <1>7 DEF RoundsCapped, AgreementCovered, AgreementEarned, OpenStanding
<1> QED  BY <1>5, <1>7, <1>8 DEF Sound, m

(* Countering an ask that was neither taken nor the last to be refused     *)
(* leaves the negotiation Sound.                                           *)
LEMMA CounteredSound ==
    ASSUME NEW n, NEW ask \in Ask, Ready(n), ~Takes(n, ask), ~GivesUp(n, ask)
    PROVE  Sound(Countered(Counted(n, ask), ask))
<1> DEFINE m == Countered(Counted(n, ask), ask)
           c == NextCounter(n, ask)
           k == Len(n.rounds) + 1
<1>1. n \in NegotiationRecord /\ n.offer \in Nat /\ n.ceiling \in Nat /\ ask \in Nat
      /\ n.ceiling # NoRate
  BY DEF Ready, Sound, NegotiationRecord, Rate, Ceiling, Ask
<1>2. ask > n.offer
  BY <1>1 DEF Takes
<1>3. /\ c \in Rate /\ c <= CounterCap(n) /\ c < n.ceiling /\ c < ask
      /\ n.offer <= CounterCap(n) => n.offer <= c
  BY <1>1, <1>2, NextCounterBounds
<1>4. /\ Counted(n, ask) \in NegotiationRecord
      /\ NextCounter(Counted(n, ask), ask) = c
      /\ Written(Counted(n, ask), ask, "countered", c)
           = Written(n, ask, "countered", c)
  BY <1>1, <1>3, CountedKeeps DEF Decision
<1> HIDE DEF c
<1>5. /\ Written(n, ask, "countered", c) \in Seq(Round)
      /\ OneMore(n.rounds, Written(n, ask, "countered", c), ask, "countered", c)
  BY <1>1, <1>3, WrittenOneMore DEF Decision
<1>6. /\ m.rounds = Written(n, ask, "countered", c)
      /\ m.offer = c
      /\ m.status = Counted(n, ask).status
      /\ m.agreed = Counted(n, ask).agreed
      /\ m.ceiling = n.ceiling /\ m.posted = n.posted
      /\ m.breaches = Counted(n, ask).breaches
  BY <1>1, <1>4, CountedKeeps DEF Countered, NegotiationRecord
<1>7. m.status = "open" /\ m.agreed = NoRate
  <2>1. n.status = "open" /\ n.agreed = NoRate
    BY DEF Ready, Sound, OpenStanding
  <2> QED  BY <1>1, <1>6, <2>1 DEF Counted, NegotiationRecord
<1>8. m \in NegotiationRecord
  BY <1>1, <1>3, <1>4, <1>5 DEF Countered, NegotiationRecord
<1> HIDE DEF m
<1>9. Successor(n, m, ask, "countered", c)
  BY <1>5, <1>6, <1>8 DEF Successor
<1>10. /\ Len(n.rounds) \in Nat /\ DOMAIN n.rounds = 1 .. Len(n.rounds)
       /\ Len(m.rounds) = k /\ DOMAIN m.rounds = DOMAIN n.rounds \cup {k}
       /\ k \notin DOMAIN n.rounds
       /\ \A i \in DOMAIN n.rounds : m.rounds[i] = n.rounds[i]
       /\ m.rounds[k].ask = ask /\ m.rounds[k].decision = "countered"
       /\ m.rounds[k].counter = c
  BY <1>9 DEF Successor, OneMore
<1>11. CounterRounds(n) = DOMAIN n.rounds
  BY DEF Ready, Sound, OpenStanding
<1>12. CounterRounds(m) = DOMAIN m.rounds
  BY <1>10, <1>11 DEF CounterRounds
<1>13. CountersBelow(m)
  <2> SUFFICES ASSUME NEW i \in DOMAIN m.rounds
               PROVE  /\ m.ceiling # NoRate
                      /\ m.rounds[i].counter \in Rate
                      /\ m.rounds[i].counter < m.ceiling
                      /\ m.rounds[i].counter < m.rounds[i].ask
    BY <1>12 DEF CountersBelow
  <2>1. CASE i \in DOMAIN n.rounds
    BY <1>1, <1>6, <1>10, <1>11, <2>1 DEF CountersBelow, Ready, Sound
  <2>2. CASE i = k
    BY <1>1, <1>3, <1>6, <1>10, <2>2
  <2> QED  BY <1>10, <2>1, <2>2
<1>14. CountersRise(m)
  <2> SUFFICES ASSUME NEW i \in DOMAIN m.rounds, NEW j \in DOMAIN m.rounds, i < j
               PROVE  m.rounds[i].counter <= m.rounds[j].counter
    BY <1>12 DEF CountersRise
  <2>1. i \in DOMAIN n.rounds
    BY <1>10
  <2>2. CASE j \in DOMAIN n.rounds
    BY <1>10, <1>11, <2>1, <2>2 DEF CountersRise, Ready, Sound
  <2>3. CASE j = k
    <3>1. Len(n.rounds) \in DOMAIN n.rounds /\ n.rounds # <<>>
      BY <1>10, <2>1
    <3>2. n.rounds[i].counter <= n.rounds[Len(n.rounds)].counter
      <4>1. n.rounds[i].counter \in Nat
        BY <1>11, <2>1 DEF CountersBelow, Ready, Sound, Rate
      <4>2. i = Len(n.rounds) \/ i < Len(n.rounds)
        BY <1>10, <2>1
      <4> QED  BY <1>11, <2>1, <3>1, <4>1, <4>2 DEF CountersRise, Ready, Sound
    <3>3. n.offer = n.rounds[Len(n.rounds)].counter /\ n.offer <= CounterCap(n)
      BY <3>1 DEF Ready, Sound, OpenStanding, LastRound, RoundsUsed
    <3>4. n.offer <= c
      BY <1>3, <3>3
    <3>5. n.rounds[i].counter \in Nat /\ c \in Nat
      BY <1>3, <1>11, <2>1 DEF CountersBelow, Ready, Sound, Rate
    <3>6. n.rounds[i].counter <= c
      BY <1>1, <3>2, <3>3, <3>4, <3>5
    <3>7. m.rounds[i] = n.rounds[i]
      BY <1>10, <2>1
    <3>8. m.rounds[j].counter = c
      BY <1>10, <2>3
    <3> QED  BY <3>6, <3>7, <3>8
  <2> QED  BY <1>10, <2>2, <2>3
<1>15. BreachesAddUp(m)
  BY <1>1, <1>9, BreachesOneMore DEF Ready, Sound, Successor
<1>16. RoundsCapped(m)
  <2>1. ~IsFinalRound(n)
    BY <1>1, <1>2 DEF Takes, GivesUp
  <2>2. k < MaxRounds
    BY <1>10, <2>1, PolicyAssumption DEF IsFinalRound, RoundNumber, RoundsUsed
  <2> QED  BY <1>10, <2>2, PolicyAssumption DEF RoundsCapped
<1>17. AgreementCovered(m) /\ AgreementEarned(m)
  BY <1>7 DEF AgreementCovered, AgreementEarned
<1>18. OpenStanding(m)
  <2>1. LastRound(m).counter = c
    BY <1>10 DEF LastRound, RoundsUsed
  <2>2. m.rounds # <<>>
    BY <1>10
  <2>3. CounterCap(m) = CounterCap(n)
    BY <1>6 DEF CounterCap
  <2> QED  BY <1>3, <1>6, <1>7, <1>12, <2>1, <2>2, <2>3 DEF OpenStanding
<1> QED  BY <1>8, <1>13, <1>14, <1>15, <1>16, <1>17, <1>18 DEF Sound, m

(* Closing a negotiation that cannot be dealt on leaves it Sound.          *)
LEMMA FailedOutrightSound ==
    ASSUME NEW n, Sound(n), n.status = "open"
    PROVE  Sound(FailedOutright(n))
<1> DEFINE m == FailedOutright(n)
<1>1. n \in NegotiationRecord
  BY DEF Sound
<1>2. /\ m \in NegotiationRecord
      /\ m.rounds = n.rounds /\ m.status = "failed" /\ m.ceiling = n.ceiling
      /\ m.breaches = n.breaches
  BY <1>1 DEF FailedOutright, NegotiationRecord, Status
<1> HIDE DEF m
<1>3. CounterRounds(m) = CounterRounds(n) /\ Breaching(m) = Breaching(n)
  BY <1>2 DEF CounterRounds, Breaching
<1>4. CountersBelow(m) /\ CountersRise(m) /\ BreachesAddUp(m)
  BY <1>2, <1>3 DEF CountersBelow, CountersRise, BreachesAddUp, Sound
<1>5. RoundsCapped(m) /\ AgreementCovered(m) /\ AgreementEarned(m) /\ OpenStanding(m)
  BY <1>2 DEF RoundsCapped, AgreementCovered, AgreementEarned, OpenStanding, Sound
<1> QED  BY <1>2, <1>4, <1>5 DEF Sound, m

-----------------------------------------------------------------------------
(* evaluate() keeps a Sound negotiation Sound, whatever is asked and       *)
(* whenever: the fact every holder of a Negotiation relies on.             *)
THEOREM EvaluatedSound ==
    ASSUME NEW n, Sound(n), NEW ask \in Ask, NEW recent \in BOOLEAN
    PROVE  Sound(Evaluated(n, ask, recent))
<1>1. CASE Stands(n, ask, recent)
  BY <1>1 DEF Evaluated
<1>2. CASE ~Stands(n, ask, recent)
  <2>1. n.status = "open"
    BY <1>2 DEF Stands
  <2>2. CASE CannotDeal(n)
    BY <1>2, <2>1, <2>2, FailedOutrightSound DEF Evaluated
  <2>3. CASE ~CannotDeal(n)
    <3>1. Len(n.rounds) \in Nat
      BY DEF Sound, NegotiationRecord
    <3>2. Ready(n)
      BY <2>1, <2>3, <3>1, PolicyAssumption DEF Ready, CannotDeal, RoundsUsed
    <3>3. CASE Takes(n, ask)
      BY <1>2, <2>3, <3>2, <3>3, AcceptedSound DEF Evaluated
    <3>4. CASE ~Takes(n, ask) /\ GivesUp(n, ask)
      BY <1>2, <2>3, <3>2, <3>4, RejectedSound DEF Evaluated
    <3>5. CASE ~Takes(n, ask) /\ ~GivesUp(n, ask)
      BY <1>2, <2>3, <3>2, <3>5, CounteredSound DEF Evaluated
    <3> QED  BY <3>3, <3>4, <3>5
  <2> QED  BY <2>2, <2>3
<1> QED  BY <1>1, <1>2
=============================================================================
