------------------------------ MODULE GuardedDesk ------------------------------
(***************************************************************************)
(* The rate desk behind the leak guard (app/security/leak_guard.py): a     *)
(* route that reads the ceiling of a load arms the guard with it, and the  *)
(* guard withholds a reply in which that number stands.  A search reads no *)
(* ceiling: LOAD_QUERY does not bring it.  The guard looks at the reply    *)
(* when the handler is done, so what it withholds has happened.  A figure  *)
(* that has nothing to do with a rate (a weight, a booking reference) is   *)
(* left out.                                                               *)
(***************************************************************************)
EXTENDS RateDesk

CONSTANT MinProtected   \* MIN_PROTECTED_VALUE

ASSUME GuardAssumption == MinProtected \in Nat /\ MinProtected > MaxRounds

VARIABLE reply          \* the last reply on this load, and its route

guarded == <<neg, reply>>

Figures(values) == values \ {NoRate}

GuardedInit ==
    /\ Init
    /\ reply = [route |-> "none", figures |-> {}, blocked |-> FALSE]

-----------------------------------------------------------------------------
(* fault: the handler forgets to arm the guard.                            *)
ProtectedNever(value) == {}

Protected(value) == IF value = NoRate \/ value < MinProtected THEN {} ELSE {value}

(* fault: a number the carrier named is not exempted.                      *)
DisclosedNever(value) == {}

Disclosed(value) == {value}

(* The guard, on a reply that names `figures'.                             *)
Guarded(route, figures, protected, disclosed) ==
    [route |-> route, figures |-> figures,
     blocked |-> figures \cap (protected \ disclosed) # {}]

-----------------------------------------------------------------------------
(* The numbers of a NegotiateResponse and its guidance: the round, the     *)
(* rounds left, and the counter or the agreed rate.                        *)
Outcome(n, decision) ==
    (0 .. MaxRounds) \cup
        Figures(IF decision = "accepted" THEN {n.agreed}
                ELSE IF decision = "countered" THEN {LastRound(n).counter}
                ELSE {})

(* POST /v1/negotiate.                                                     *)
Negotiate(ask) ==
    \E recent \in BOOLEAN :
        /\ neg' = Evaluated(neg, ask, recent)
        /\ reply' = Guarded("negotiate", Outcome(neg', DecisionOf(neg, ask, recent)),
                            Protected(neg.ceiling), Disclosed(ask))

(* A search that hands the load over, or repeats one that did: the posted  *)
(* rate, of a record without MAX_BUY.                                      *)
Search ==
    /\ reply' = Guarded("search", {neg.posted}, Protected(NoRate), {})
    /\ UNCHANGED neg

(* Load detail: the posted rate, of a record with MAX_BUY.                 *)
Detail ==
    /\ reply' = Guarded("detail", {neg.posted}, Protected(neg.ceiling), {})
    /\ UNCHANGED neg

(* POST /v1/bookings: the agreed rate, booked or uncertain, or a refusal   *)
(* without a number.                                                       *)
Book ==
    /\ neg.status = "agreed"
    /\ \E figures \in {{}, {neg.agreed}} :
         /\ figures # {} => neg.agreed <= neg.ceiling
         /\ reply' = Guarded("book", figures, Protected(neg.ceiling), Disclosed(neg.agreed))
    /\ UNCHANGED neg

GuardedNext == (\E ask \in Asks : Negotiate(ask)) \/ Search \/ Detail \/ Book

GuardedSpec == GuardedInit /\ [][GuardedNext]_guarded

-----------------------------------------------------------------------------
Named(value) == \E i \in DOMAIN neg.rounds : neg.rounds[i].ask = value

(* "a rate ceiling never leaves the building" (leak_guard.py:1): no reply  *)
(* that goes out holds it unless the carrier put that very number to the   *)
(* desk before, or it is too small to be told from a count.  A search,     *)
(* which does not know the ceiling, can only name it by the rate that is   *)
(* advertised: the ceiling of a load posted at it is read out there, while *)
(* the load's detail is withheld.                                          *)
CeilingNeverNamed ==
    neg.ceiling \in reply.figures /\ ~reply.blocked =>
        \/ neg.ceiling < MinProtected
        \/ Named(neg.ceiling)
        \/ reply.route = "search" /\ neg.posted = neg.ceiling

(* "blocking it would break legitimate deals at the top of the range"      *)
(* (leak_guard.py:54): a reply that tells of a counter, a deal or a        *)
(* failure the desk has just written down, or of a booking, is never       *)
(* withheld, so what the broker holds and what the carrier heard do not    *)
(* part.                                                                   *)
MovesAreHeard ==
    [][neg' # neg \/ reply'.route = "book" => ~reply'.blocked]_guarded
=============================================================================
