------------------------------- MODULE SalesCall -------------------------------
(***************************************************************************)
(* What the bridge promises of a call (docs/QA_AND_KPIS.md, the stage gate *)
(* of app/api/deps.py): freight is shown to a carrier who proved a code, a *)
(* code is proven after an authority check and never on an ended call,     *)
(* what is booked was named and is within the ceiling, what is read out as *)
(* booked is, and only such a call is handed to a rep.  Nothing is said    *)
(* here of stages, requests or answers.                                    *)
(***************************************************************************)
EXTENDS Integers

CONSTANTS
    Calls,
    Loads,
    Carriers,       \* what a call may speak for
    Offers,         \* what a carrier may ask for a load
    MaxBuy,         \* the ceiling of each load, NoRate if withheld
    NoRate,
    Stranger,       \* whoever books a load outside the bridge
    None

VARIABLES
    cleared,        \* the carriers an authority check has cleared, per call
    proven,         \* the carriers a code was verified for, per call
    shown,          \* has the call been shown freight?
    named,          \* the numbers asked for each load, per call
    holder,         \* who holds each load in the system of record
    told,           \* the loads read out as booked, per call
    doubted,        \* the loads put up for a manual check, per call
    handed,         \* is the call with a senior rep?
    ended           \* is the call over?

vars == <<cleared, proven, shown, named, holder, told, doubted, handed, ended>>

Init ==
    /\ cleared = [c \in Calls |-> {}]
    /\ proven = [c \in Calls |-> {}]
    /\ shown = [c \in Calls |-> FALSE]
    /\ named = [c \in Calls |-> {}]
    /\ holder = [l \in Loads |-> None]
    /\ told = [c \in Calls |-> {}]
    /\ doubted = [c \in Calls |-> {}]
    /\ handed = [c \in Calls |-> FALSE]
    /\ ended = [c \in Calls |-> FALSE]

Gains(f, c, x) == [f EXCEPT ![c] = @ \cup {x}]
Becomes(f, c) == [f EXCEPT ![c] = TRUE]

Clear(c, mc) ==
    /\ cleared' = Gains(cleared, c, mc)
    /\ UNCHANGED <<proven, shown, named, holder, told, doubted, handed, ended>>

Prove(c, mc) ==
    /\ cleared[c] # {}
    /\ ~ended[c]
    /\ proven' = Gains(proven, c, mc)
    /\ UNCHANGED <<cleared, shown, named, holder, told, doubted, handed, ended>>

Show(c) ==
    /\ proven[c] # {}
    /\ shown' = Becomes(shown, c)
    /\ UNCHANGED <<cleared, proven, named, holder, told, doubted, handed, ended>>

(* A number is asked of freight the carrier has been, or now is, shown.    *)
Name(c, l, ask) ==
    /\ proven[c] # {}
    /\ shown' = Becomes(shown, c)
    /\ named' = Gains(named, c, <<l, ask>>)
    /\ UNCHANGED <<cleared, proven, holder, told, doubted, handed, ended>>

Commit(c, l, mc, rate) ==
    /\ <<l, rate>> \in named[c]
    /\ MaxBuy[l] # NoRate
    /\ rate <= MaxBuy[l]
    /\ holder[l] = None
    /\ holder' = [holder EXCEPT
                    ![l] = [call |-> c, load |-> l, mc |-> mc, rate |-> rate]]
    /\ UNCHANGED <<cleared, proven, shown, named, told, doubted, handed, ended>>

Lose(l) ==
    /\ holder[l] = None
    /\ holder' = [holder EXCEPT ![l] = Stranger]
    /\ UNCHANGED <<cleared, proven, shown, named, told, doubted, handed, ended>>

Held(c, l) == holder[l] \notin {None, Stranger} /\ holder[l].call = c

Tell(c, l) ==
    /\ Held(c, l)
    /\ told' = Gains(told, c, l)
    /\ UNCHANGED <<cleared, proven, shown, named, holder, doubted, handed, ended>>

Doubt(c, l) ==
    /\ proven[c] # {}
    /\ doubted' = Gains(doubted, c, l)
    /\ UNCHANGED <<cleared, proven, shown, named, holder, told, handed, ended>>

HandOver(c) ==
    /\ told[c] # {}
    /\ ~ended[c]
    /\ handed' = Becomes(handed, c)
    /\ UNCHANGED <<cleared, proven, shown, named, holder, told, doubted, ended>>

End(c) ==
    /\ ended' = Becomes(ended, c)
    /\ UNCHANGED <<cleared, proven, shown, named, holder, told, doubted, handed>>

Next ==
    \/ \E c \in Calls, mc \in Carriers : Clear(c, mc) \/ Prove(c, mc)
    \/ \E c \in Calls : Show(c) \/ HandOver(c) \/ End(c)
    \/ \E c \in Calls, l \in Loads, ask \in Offers : Name(c, l, ask)
    \/ \E c \in Calls, l \in Loads, mc \in Carriers, rate \in Offers :
          Commit(c, l, mc, rate)
    \/ \E c \in Calls, l \in Loads : Tell(c, l) \/ Doubt(c, l)
    \/ \E l \in Loads : Lose(l)

Spec == Init /\ [][Next]_vars
=============================================================================
