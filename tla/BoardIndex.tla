------------------------------- MODULE BoardIndex -------------------------------
(***************************************************************************)
(* The warm copy of the board (app/domain/board.py, BoardIndex): a loop    *)
(* and any number of stale gets sweep the TMS, one query per equipment     *)
(* type, under one lock; a search walks the ladder over what the last      *)
(* sweep kept.  Meanwhile loads are posted and taken, and hours pass.      *)
(***************************************************************************)
EXTENDS Ladder

CONSTANTS
    Equipment,      \* EQUIPMENT_TYPES
    Loads,          \* the loads the TMS will ever hold
    Row,            \* what a record of each load says
    ShardMax,       \* settings.board_shard_max_results
    Filters,        \* the searches that may be asked
    Loop,           \* the task of run_forever
    Gets,           \* _refresh_quietly tasks that get may schedule at a time
    Horizon         \* bound: the last moment

ASSUME BoardAssumption ==
    /\ Horizon \in Nat
    /\ ShardMax \in Nat \ {0}
    /\ Loop \notin Gets
    /\ None \notin Equipment
    /\ \A l \in Loads : /\ Row[l].equipment \in Equipment
                        /\ Row[l].pickup \in Nat \cup {None}
    /\ \A f \in Filters : f.pickup_date \in Nat \cup {None}

VARIABLES
    life,           \* what became of each load in the TMS
    snapshot,       \* _snapshot: what its sweep saw, and what it kept
    due,            \* age_seconds > board_snapshot_ttl_seconds
    task,           \* each refresh
    queue,          \* the tasks waiting for _lock, in order
    now             \* the broker's clock

vars == <<life, snapshot, due, task, queue, now>>

Tasks == {Loop} \cup Gets
Life == {"unposted", "posted", "taken"}
Sight == [Loads -> Life \cup {"unknown"}]

(* A refresh: which shards it has heard of, and what they held.            *)
Refresh == [phase : {"idle", "queued", "sweeping"}, answered : SUBSET Equipment,
            failed : SUBSET Equipment, saw : Sight]

(* What a sweep leaves: what it saw, what of it to offer, what is missing. *)
Snapshot == [saw : Sight, offerable : SUBSET Loads, failed : SUBSET Equipment]

ASSUME SnapshotAssumption == None \notin Snapshot

Idle == [phase |-> "idle", answered |-> {}, failed |-> {},
         saw |-> [l \in Loads |-> "unknown"]]

Init ==
    /\ life \in [Loads -> {"unposted", "posted"}]
    /\ snapshot = None
    /\ due = FALSE
    /\ task = [t \in Tasks |-> Idle]
    /\ queue = <<>>
    /\ now = 0

-----------------------------------------------------------------------------
(* is_offerable: the status is OPEN and the pickup is not before today.    *)

Midnight == Day(now) * DayLength

Offerable(saw) ==
    {l \in Loads : saw[l] = "posted" /\ (Row[l].pickup = None \/ Row[l].pickup >= Midnight)}

-----------------------------------------------------------------------------
(* refresh, up to the lock.                                                *)

Queue(t) ==
    /\ task[t].phase = "idle"
    /\ task' = [task EXCEPT ![t].phase = "queued"]
    /\ queue' = Append(queue, t)
    /\ UNCHANGED <<life, snapshot, due, now>>

(* run_forever, after its sleep.                                           *)
Wake == Queue(Loop)

(* get on a stale snapshot; nothing stops a second get before the first    *)
(* refresh is done.                                                        *)
GetStale(t) == due /\ Queue(t)

(* fault: the lock is not taken.                                           *)
AcquireFreely(t) ==
    /\ task[t].phase = "queued"
    /\ task' = [task EXCEPT ![t].phase = "sweeping"]
    /\ queue' = SelectSeq(queue, LAMBDA other : other # t)
    /\ UNCHANGED <<life, snapshot, due, now>>

(* fault: whichever waiter comes first.                                    *)
AcquireInAnyOrder(t) ==
    /\ \A other \in Tasks : task[other].phase # "sweeping"
    /\ AcquireFreely(t)

(* asyncio.Lock wakes its waiters in the order they came.                  *)
Acquire(t) ==
    /\ queue # <<>> /\ Head(queue) = t
    /\ \A other \in Tasks : task[other].phase # "sweeping"
    /\ task' = [task EXCEPT ![t].phase = "sweeping"]
    /\ queue' = Tail(queue)
    /\ UNCHANGED <<life, snapshot, due, now>>

-----------------------------------------------------------------------------
(* The five queries are under way at once; each reads the board as it is   *)
(* when the TMS gets to it, and brings ShardMax records at most, whatever  *)
(* their status.                                                           *)

Listed(e) == {l \in Loads : Row[l].equipment = e /\ life[l] # "unposted"}

Whole(e) == Cardinality(Listed(e)) <= ShardMax

Brought(e) == IF Whole(e) THEN {Listed(e)} ELSE kSubset(ShardMax, Listed(e))

Outstanding(t, e) ==
    task[t].phase = "sweeping" /\ e \notin task[t].answered \cup task[t].failed

(* A whole answer also tells which loads are not there.                    *)
ShardAnswers(t, e) ==
    /\ Outstanding(t, e)
    /\ \E records \in Brought(e) :
         task' = [task EXCEPT
           ![t].answered = @ \cup {e},
           ![t].saw = [l \in Loads |->
               IF Row[l].equipment # e THEN @[l]
               ELSE IF l \in records \/ Whole(e) THEN life[l] ELSE "unknown"]]
    /\ UNCHANGED <<life, snapshot, due, queue, now>>

ShardFails(t, e) ==
    /\ Outstanding(t, e)
    /\ task' = [task EXCEPT ![t].failed = @ \cup {e}]
    /\ UNCHANGED <<life, snapshot, due, queue, now>>

Gathered(t) ==
    task[t].phase = "sweeping" /\ task[t].answered \cup task[t].failed = Equipment

(* fault: a sweep without an answer is installed all the same.             *)
InstallAnyway(t) ==
    /\ Gathered(t)
    /\ snapshot' = [saw |-> task[t].saw, offerable |-> Offerable(task[t].saw),
                    failed |-> task[t].failed]
    /\ due' = FALSE
    /\ task' = [task EXCEPT ![t] = Idle]
    /\ UNCHANGED <<life, queue, now>>

Install(t) ==
    /\ Gathered(t)
    /\ task[t].answered # {}
    /\ snapshot' = [saw |-> task[t].saw, offerable |-> Offerable(task[t].saw),
                    failed |-> task[t].failed]
    /\ due' = FALSE
    /\ task' = [task EXCEPT ![t] = Idle]
    /\ UNCHANGED <<life, queue, now>>

(* Every shard failed, or a record of one that answered raised.            *)
KeepPrevious(t) ==
    /\ Gathered(t)
    /\ task' = [task EXCEPT ![t] = Idle]
    /\ UNCHANGED <<life, snapshot, due, queue, now>>

-----------------------------------------------------------------------------
(* The world.                                                              *)

Post(l) == life[l] = "unposted" /\ life' = [life EXCEPT ![l] = "posted"]
Take(l) == life[l] = "posted" /\ life' = [life EXCEPT ![l] = "taken"]

BoardMoves ==
    /\ \E l \in Loads : Post(l) \/ Take(l)
    /\ UNCHANGED <<snapshot, due, task, queue, now>>

Ages ==
    /\ snapshot # None /\ ~due
    /\ due' = TRUE
    /\ UNCHANGED <<life, snapshot, task, queue, now>>

Elapse ==
    /\ now < Horizon
    /\ now' = now + 1
    /\ UNCHANGED <<life, snapshot, due, task, queue>>

-----------------------------------------------------------------------------
Finishes(t) == Install(t) \/ KeepPrevious(t)

(* A refresh, once it waits for the lock.                                  *)
GoesOn(t) ==
    \/ Acquire(t)
    \/ \E e \in Equipment : ShardFails(t, e) \/ ShardAnswers(t, e)
    \/ Finishes(t)

Next ==
    \/ Wake
    \/ \E t \in Gets : GetStale(t)
    \/ \E t \in Tasks : GoesOn(t)
    \/ BoardMoves \/ Ages \/ Elapse

Spec == Init /\ [][Next]_vars

(* Each query ends (see TmsClient), the event loop runs what is ready, and *)
(* a free lock goes to a waiter: while a refresh can go on, one does.      *)
FairSpec == Spec /\ WF_vars(\E t \in Tasks : GoesOn(t))

-----------------------------------------------------------------------------
(* Every variable holds a value the program can give it; a snapshot comes  *)
(* from a sweep that heard of one shard at least.                          *)
TypeOK ==
    /\ life \in [Loads -> Life]
    /\ snapshot \in Snapshot \cup {None}
    /\ snapshot # None => snapshot.failed # Equipment
    /\ due \in BOOLEAN
    /\ task \in [Tasks -> Refresh]
    /\ queue \in Seq(Tasks)
    /\ now \in 0 .. Horizon

Rank == [unposted |-> 1, posted |-> 2, taken |-> 3]

(* refresh holds the lock across its queries, so sweeps do not overtake    *)
(* one another: a snapshot is never replaced by an older look at a load,   *)
(* so a load seen taken is not offered again, and it is never lost.        *)
SnapshotNeverGoesBack ==
    [][snapshot # None =>
         /\ snapshot' # None
         /\ \A l \in Loads :
              snapshot.saw[l] # "unknown" /\ snapshot'.saw[l] # "unknown"
                => Rank[snapshot.saw[l]] <= Rank[snapshot'.saw[l]]]_vars

(* What a search gets to see of a snapshot, and what it gets out of each   *)
(* board it may see.                                                       *)
Board ==
    {[offerable |-> kept, failed |-> failed] :
        kept \in SUBSET Loads, failed \in SUBSET Equipment}
Kept == [offerable |-> snapshot.offerable, failed |-> snapshot.failed]
Rows(b) == {Row[l] : l \in b.offerable}
Found(b, f) == Widen(Rows(b), b.failed, f)

WellServed ==
    {b \in Board : \A f \in Filters :
        LET found == Found(b, f) IN
        found.loads = Nearest(Rows(b), f) /\ Admitted(found, f)}

(* The equipment types, None for a search that names none, of which a      *)
(* board makes widen say that there is nothing anywhere.                   *)
DeadEnds ==
    {dead \in {<<b, e>> : b \in Board, e \in Equipment \cup {None}} :
        \E f \in Filters : f.equipment = dead[2] /\ Found(dead[1], f).exhausted}

(* A shard that brought all it may: what lies beyond its cut nobody saw.   *)
Full(saw, e) ==
    Cardinality({l \in Loads : Row[l].equipment = e /\ saw[l] \in {"posted", "taken"}})
        >= ShardMax

(* widen hands over exactly the loads that ask least of the carrier, all   *)
(* for their equipment, and owns up to what it gave up for them: so on     *)
(* every board a sweep leaves, whatever part of it failed.                 *)
NearestFirst == snapshot # None => Kept \in WellServed

(* "zero nationwide" (loads.py:404) is only said when the sweep left no    *)
(* such load to offer, and each was looked at, but for what is known to be *)
(* out of sight: what a shard that came back full did not bring, and, when *)
(* the search names no equipment, the shards that failed (board.py:314).   *)
HonestDeadEnd ==
    snapshot # None =>
        \A e \in Equipment \cup {None}, l \in Loads :
            e \in {None, Row[l].equipment} /\ <<Kept, e>> \in DeadEnds =>
                /\ l \notin snapshot.offerable
                /\ \/ snapshot.saw[l] # "unknown"
                   \/ Full(snapshot.saw, Row[l].equipment)
                   \/ e = None /\ Row[l].equipment \in snapshot.failed

(* A refresh that asked for the lock gets it and ends, however many stale  *)
(* gets schedule their own and whichever shards fail: the lock is released *)
(* on every path and handed over in turn.                                  *)
EveryRefreshEnds == \A t \in Tasks : task[t].phase = "queued" ~> task[t].phase = "idle"

(* "A pickup earlier today has already gone ... pitching that is worse     *)
(* than saying there is nothing" (board.py:72): a sweep keeps no load      *)
(* whose pickup is over.                                                   *)
PastPickup ==
    [][snapshot' # snapshot =>
         \A l \in snapshot'.offerable : Row[l].pickup = None \/ Row[l].pickup >= now]_vars
=============================================================================
