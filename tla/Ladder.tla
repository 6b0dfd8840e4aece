--------------------------------- MODULE Ladder ---------------------------------
(***************************************************************************)
(* The relaxation ladder (app/domain/board.py, widen): a search that finds *)
(* nothing gives up one thing it asked for after another, until a load     *)
(* matches.  Rows and searches are records over the same fields; None is a *)
(* filter that was not given.  How the hits of a rung are ranked is left   *)
(* out.                                                                    *)
(***************************************************************************)
EXTENDS Integers, Sequences, FiniteSetsExt

CONSTANTS
    None,
    WindowDays,     \* _PICKUP_WINDOW_DAYS
    DayLength       \* moments in a day

ASSUME LadderAssumption == WindowDays \in Nat /\ DayLength \in Nat \ {0}

Fields == {"equipment", "pickup_date", "destination_city", "destination_state",
           "origin_city", "origin_state"}

Day(moment) == moment \div DayLength

(* A load's cities are the texts a search may find in them.                *)
Agrees(l, f, field, window) ==
    CASE field = "pickup_date" ->
            /\ l.pickup # None
            /\ Day(l.pickup) \in f.pickup_date - window .. f.pickup_date + window
      [] field \in {"origin_city", "destination_city"} -> f[field] \in l[field]
      [] OTHER -> l[field] = f[field]

Asked(f) == {field \in Fields : f[field] # None}

Matches(l, f, window) ==
    \A field \in Asked(f) : Agrees(l, f, field, window)

Without(f, fields) ==
    [field \in Fields |-> IF field \in fields THEN None ELSE f[field]]

(* fault: the order is read off the filters' declaration.                  *)
GivenUpAsDeclared ==
    <<"origin_city", "origin_state", "destination_city", "destination_state", "pickup_date">>

(* The equipment is not among the things a carrier is asked to give up.    *)
GivenUpInOrder ==
    <<"pickup_date", "destination_city", "destination_state", "origin_city", "origin_state">>

(* Rung 0 is the search as it was asked and rung 1 looks a few days around *)
(* its pickup; rung i drops the first i - 1 of the things to give up.  A   *)
(* rung stands only if what it widens or drops last was asked for.         *)
Rungs(f) ==
    {0} \cup (IF f.pickup_date = None THEN {} ELSE {1})
        \cup {i \in 2 .. 6 : GivenUpInOrder[i - 1] \in Asked(f)}

Dropped(f, i) == {GivenUpInOrder[j] : j \in 1 .. i - 1} \cap Asked(f)

Hits(rows, f, i) ==
    {l \in rows : Matches(l, Without(f, Dropped(f, i)), IF i = 1 THEN WindowDays ELSE 0)}

OfEquipment(rows, e) == {l \in rows : e = None \/ l.equipment = e}

(* fault: a failed shard counts as an empty one.                           *)
ExhaustedBlindly(rows, failed, f) == OfEquipment(rows, f.equipment) = {}

(* "a failed shard is ignorance, not absence" (board.py:310), when the     *)
(* search names the equipment.                                             *)
Exhausted(rows, failed, f) ==
    /\ OfEquipment(rows, f.equipment) = {}
    /\ f.equipment \notin failed

Widen(rows, failed, f) ==
    LET reached == {i \in Rungs(f) : Hits(rows, f, i) # {}} IN
    IF reached # {}
      THEN [loads |-> Hits(rows, f, Min(reached)), dropped |-> Dropped(f, Min(reached)),
            exhausted |-> FALSE]
      ELSE [loads |-> {}, dropped |-> Dropped(f, 6),
            exhausted |-> Exhausted(rows, failed, f)]

-----------------------------------------------------------------------------
(* What a carrier is owed, said without rungs.                             *)

(* What has to be given up for a load: the dearest of these decides.       *)
Misses(l, f) == {field \in Asked(f) : ~Agrees(l, f, field, 0)}

Dearness == [pickup_date |-> 2, destination_city |-> 3, destination_state |-> 4,
             origin_city |-> 5, origin_state |-> 6]

Concession(l, f) ==
    CASE Misses(l, f) = {} -> 0
      [] Misses(l, f) # {} /\ Matches(l, f, WindowDays) -> 1
      [] OTHER -> Max({Dearness[field] : field \in Misses(l, f)})

Pullable(rows, f) == {l \in rows : "equipment" \notin Misses(l, f)}

Nearest(rows, f) ==
    {l \in Pullable(rows, f) :
        \A other \in Pullable(rows, f) : Concession(l, f) <= Concession(other, f)}

(* Nothing is handed over that breaks something the answer does not admit  *)
(* to have given up, but for a pickup a few days off.                      *)
Admitted(found, f) ==
    \A l \in found.loads :
        \/ Misses(l, f) \subseteq found.dropped
        \/ found.dropped = {} /\ Misses(l, f) = {"pickup_date"}
=============================================================================
