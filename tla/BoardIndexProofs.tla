---------------------------- MODULE BoardIndexProofs ----------------------------
(***************************************************************************)
(* The board index for any number of loads, equipment types, searches and  *)
(* refreshes: the ladder hands over what asks least of the carrier on      *)
(* every board, and the copy it walks never goes back in time.             *)
(***************************************************************************)
EXTENDS BoardIndex, TLAPS

-----------------------------------------------------------------------------
(* The ladder.                                                             *)

(* What Min and Max choose, from a few rungs.                              *)
LEMMA LeastRung ==
    ASSUME NEW S \in SUBSET (0 .. 6), S # {}
    PROVE  Min(S) \in S /\ \A i \in S : Min(S) <= i
<1>1. \E m \in S : \A i \in S : m <= i
  <2>1. CASE 0 \in S
    BY <2>1
  <2>2. CASE 0 \notin S /\ 1 \in S
    BY <2>2
  <2>3. CASE 0 \notin S /\ 1 \notin S /\ 2 \in S
    BY <2>3
  <2>4. CASE 0 \notin S /\ 1 \notin S /\ 2 \notin S /\ 3 \in S
    BY <2>4
  <2>5. CASE 0 \notin S /\ 1 \notin S /\ 2 \notin S /\ 3 \notin S /\ 4 \in S
    BY <2>5
  <2>6. CASE 0 \notin S /\ 1 \notin S /\ 2 \notin S /\ 3 \notin S /\ 4 \notin S /\ 5 \in S
    BY <2>6
  <2>7. CASE S = {6}
    BY <2>7
  <2>8. \A i \in 0 .. 6 : i \in {0, 1, 2, 3, 4, 5, 6}
    OBVIOUS
  <2> QED  BY <2>1, <2>2, <2>3, <2>4, <2>5, <2>6, <2>7, <2>8
<1> QED  BY <1>1 DEF Min

(* And what Max does.                                                    *)
LEMMA DearestField ==
    ASSUME NEW S \in SUBSET (0 .. 6), S # {}
    PROVE  Max(S) \in S /\ \A i \in S : i <= Max(S)
<1>1. \E m \in S : \A i \in S : i <= m
  <2>1. CASE 6 \in S
    BY <2>1
  <2>2. CASE 6 \notin S /\ 5 \in S
    BY <2>2
  <2>3. CASE 6 \notin S /\ 5 \notin S /\ 4 \in S
    BY <2>3
  <2>4. CASE 6 \notin S /\ 5 \notin S /\ 4 \notin S /\ 3 \in S
    BY <2>4
  <2>5. CASE 6 \notin S /\ 5 \notin S /\ 4 \notin S /\ 3 \notin S /\ 2 \in S
    BY <2>5
  <2>6. CASE 6 \notin S /\ 5 \notin S /\ 4 \notin S /\ 3 \notin S /\ 2 \notin S /\ 1 \in S
    BY <2>6
  <2>7. CASE S = {0}
    BY <2>7
  <2>8. \A i \in 0 .. 6 : i \in {0, 1, 2, 3, 4, 5, 6}
    OBVIOUS
  <2> QED  BY <2>1, <2>2, <2>3, <2>4, <2>5, <2>6, <2>7, <2>8
<1> QED  BY <1>1 DEF Max

(* The order of the rungs is the order of what a concession costs.         *)
LEMMA DroppedUpTo ==
    ASSUME NEW f, NEW i \in 0 .. 6
    PROVE  Dropped(f, i) =
             {field \in Asked(f) \ {"equipment"} : Dearness[field] <= i}
<1>1. \A field \in Fields \ {"equipment"} :
        Dearness[field] - 1 \in 1 .. 5 /\ GivenUpInOrder[Dearness[field] - 1] = field
  BY DEF Fields, Dearness, GivenUpInOrder
<1>2. \A j \in 1 .. 5 : /\ GivenUpInOrder[j] # "equipment"
                        /\ Dearness[GivenUpInOrder[j]] = j + 1
  BY DEF Dearness, GivenUpInOrder
<1>3. \A field \in Fields \ {"equipment"} : Dearness[field] \in 2 .. 6
  BY DEF Fields, Dearness
<1>4. ASSUME NEW field \in Dropped(f, i)
      PROVE  field \in Asked(f) \ {"equipment"} /\ Dearness[field] <= i
  <2>1. PICK j \in 1 .. i - 1 : field = GivenUpInOrder[j]
    BY DEF Dropped
  <2> QED  BY <1>2, <2>1 DEF Dropped
<1>5. ASSUME NEW field \in Asked(f) \ {"equipment"}, Dearness[field] <= i
      PROVE  field \in Dropped(f, i)
  <2>1. field \in Fields \ {"equipment"}
    BY DEF Asked
  <2>2. Dearness[field] - 1 \in 1 .. i - 1
    BY <1>3, <1>5, <2>1
  <2> QED  BY <1>1, <2>1, <2>2 DEF Dropped
<1> QED  BY <1>4, <1>5

(* A filter that was dropped no longer counts, and the others count as     *)
(* they did.                                                               *)
LEMMA MatchesWithout ==
    ASSUME NEW l, NEW f, NEW fields, NEW window
    PROVE  Matches(l, Without(f, fields), window)
             <=> \A field \in Asked(f) \ fields : Agrees(l, f, field, window)
<1> DEFINE g == Without(f, fields)
<1>1. Asked(g) = Asked(f) \ fields
  BY DEF Asked, Without
<1>2. \A field \in Asked(f) \ fields : g[field] = f[field]
  BY DEF Asked, Without
<1>3. ASSUME NEW field \in Asked(f) \ fields
      PROVE  Agrees(l, g, field, window) <=> Agrees(l, f, field, window)
  <2>1. CASE field = "pickup_date"
    <3>1. g["pickup_date"] = f["pickup_date"]
      BY <1>2, <2>1
    <3> QED  BY <2>1, <3>1 DEF Agrees
  <2>2. CASE field # "pickup_date"
    BY <1>2, <2>2 DEF Agrees
  <2> QED  BY <2>1, <2>2
<1> QED  BY <1>1, <1>3 DEF Matches

(* Looking a few days around the pickup only adds loads.                   *)
LEMMA WindowWidens ==
    ASSUME NEW l, NEW f, f.pickup_date \in Nat \cup {None}, NEW field \in Asked(f),
           Agrees(l, f, field, 0) \/ field # "pickup_date"
    PROVE  Agrees(l, f, field, 0) <=> Agrees(l, f, field, WindowDays)
<1>1. CASE field # "pickup_date"
  BY <1>1 DEF Agrees
<1>2. CASE field = "pickup_date"
  <2>1. f.pickup_date \in Nat
    BY <1>2 DEF Asked
  <2>2. l.pickup # None /\ Day(l.pickup) = f.pickup_date
    BY <1>2, <2>1 DEF Agrees
  <2>3. Day(l.pickup) \in f.pickup_date - WindowDays .. f.pickup_date + WindowDays
    BY <2>1, <2>2, LadderAssumption
  <2> QED  BY <1>2, <2>2, <2>3 DEF Agrees
<1> QED  BY <1>1, <1>2

(* Off rung 1, a load is a hit when all it misses has been given up.       *)
LEMMA HitOffWindow ==
    ASSUME NEW rows, NEW l \in rows, NEW f, NEW i \in 0 .. 6, i # 1
    PROVE  l \in Hits(rows, f, i) <=> Misses(l, f) \subseteq Dropped(f, i)
<1>1. l \in Hits(rows, f, i) <=> Matches(l, Without(f, Dropped(f, i)), 0)
  BY DEF Hits
<1> QED  BY <1>1, MatchesWithout DEF Misses

(* On rung 1, when it fits but for the pickup and that is in the window.   *)
LEMMA HitInWindow ==
    ASSUME NEW rows, NEW l \in rows, NEW f
    PROVE  l \in Hits(rows, f, 1) <=> Matches(l, f, WindowDays)
<1>1. Dropped(f, 1) = {}
  BY DEF Dropped
<1>2. l \in Hits(rows, f, 1) <=> Matches(l, Without(f, {}), WindowDays)
  BY <1>1 DEF Hits
<1> QED  BY <1>2, MatchesWithout DEF Matches

(* What a load asks of the carrier is the rung that reaches it first: that *)
(* rung stands, and from there down the load is a hit on every rung.       *)
LEMMA ConcessionIsRung ==
    ASSUME NEW rows, NEW l \in rows, NEW f, f.pickup_date \in Nat \cup {None},
           "equipment" \notin Misses(l, f)
    PROVE  /\ Concession(l, f) \in Rungs(f)
           /\ \A i \in Rungs(f) : l \in Hits(rows, f, i) <=> Concession(l, f) <= i
<1> DEFINE M == Misses(l, f)
           c == Concession(l, f)
<1>1. M \subseteq Asked(f) \ {"equipment"} /\ M \subseteq Fields
  BY DEF Misses, Asked
<1>2. \A i \in Rungs(f) : i \in 0 .. 6
  BY DEF Rungs
<1>3. \A field \in M : Dearness[field] \in 2 .. 6
  BY <1>1 DEF Fields, Dearness
<1>4. \A i \in 0 .. 6 :
        M \subseteq Dropped(f, i) <=> \A field \in M : Dearness[field] <= i
  BY <1>1, DroppedUpTo
<1>5. Matches(l, f, WindowDays) => M \subseteq {"pickup_date"}
  BY WindowWidens DEF Matches, Misses
<1>6. CASE M = {}
  <2>1. c = 0
    BY <1>6 DEF Concession
  <2>2. Matches(l, f, WindowDays)
    BY <1>6, WindowWidens DEF Matches, Misses
  <2>3. \A i \in 0 .. 6 : l \in Hits(rows, f, i)
    BY <1>6, <2>2, HitInWindow, HitOffWindow
  <2> QED  BY <1>2, <2>1, <2>3 DEF Rungs
<1>7. CASE M # {} /\ Matches(l, f, WindowDays)
  <2>1. c = 1 /\ M = {"pickup_date"}
    BY <1>5, <1>7 DEF Concession
  <2>2. f.pickup_date # None
    BY <1>1, <2>1 DEF Asked
  <2>3. 1 \in Rungs(f) /\ l \in Hits(rows, f, 1)
    BY <1>7, <2>2, HitInWindow DEF Rungs
  <2>4. \A i \in 0 .. 6 : i # 1 => (l \in Hits(rows, f, i) <=> 2 <= i)
    <3>1. Dearness["pickup_date"] = 2
      BY DEF Dearness
    <3> QED  BY <1>4, <2>1, <3>1, HitOffWindow
  <2> QED  BY <1>2, <2>1, <2>3, <2>4
<1>8. CASE M # {} /\ ~Matches(l, f, WindowDays)
  <2> DEFINE D == {Dearness[field] : field \in M}
  <2>1. D \in SUBSET (0 .. 6) /\ D # {} /\ D \subseteq 2 .. 6
    BY <1>3, <1>8
  <2>2. c = Max(D)
    BY <1>8 DEF Concession
  <2>3. c \in D /\ \A i \in D : i <= c
    BY <2>1, <2>2, DearestField
  <2>4. PICK field \in M : c = Dearness[field]
    BY <2>3
  <2>5. GivenUpInOrder[c - 1] = field
    BY <1>1, <2>4 DEF Fields, Dearness, GivenUpInOrder
  <2> HIDE DEF c
  <2>6. c \in 2 .. 6 /\ c \in Rungs(f)
    BY <1>1, <2>1, <2>3, <2>4, <2>5 DEF Rungs
  <2>7. \A i \in 0 .. 6 : (\A x \in M : Dearness[x] <= i) <=> c <= i
    BY <1>3, <2>1, <2>3, <2>4
  <2>8. \A i \in 0 .. 6 : l \in Hits(rows, f, i) <=> c <= i
    BY <1>4, <1>8, <2>6, <2>7, HitInWindow, HitOffWindow
  <2> QED  BY <1>2, <2>6, <2>8 DEF c
<1> QED  BY <1>6, <1>7, <1>8

(* No rung offers another equipment type than the one asked for.           *)
LEMMA HitsArePullable ==
    ASSUME NEW rows, NEW f, f.pickup_date \in Nat \cup {None}, NEW i \in Rungs(f)
    PROVE  Hits(rows, f, i) \subseteq Pullable(rows, f)
<1> SUFFICES ASSUME NEW l \in Hits(rows, f, i) PROVE l \in Pullable(rows, f)
  OBVIOUS
<1>1. l \in rows /\ i \in 0 .. 6
  BY DEF Hits, Rungs
<1>2. CASE i = 1
  BY <1>1, <1>2, HitInWindow, WindowWidens DEF Matches, Misses, Pullable
<1>3. CASE i # 1
  BY <1>1, <1>3, HitOffWindow, DroppedUpTo DEF Pullable
<1> QED  BY <1>2, <1>3

(* On every board, whatever the rows and the search, the ladder hands over *)
(* exactly the loads that ask least of the carrier, and owns up to what it *)
(* gave up for them.                                                       *)
THEOREM LadderCorrect ==
    ASSUME NEW rows, NEW failed, NEW f, f.pickup_date \in Nat \cup {None}
    PROVE  LET found == Widen(rows, failed, f) IN
           found.loads = Nearest(rows, f) /\ Admitted(found, f)
<1> DEFINE found == Widen(rows, failed, f)
           reached == {i \in Rungs(f) : Hits(rows, f, i) # {}}
<1>1. \A i \in Rungs(f) : i \in 0 .. 6
  BY DEF Rungs
<1>2. \A l \in Pullable(rows, f) :
        /\ Concession(l, f) \in Rungs(f)
        /\ \A i \in Rungs(f) : l \in Hits(rows, f, i) <=> Concession(l, f) <= i
  BY ConcessionIsRung DEF Pullable
<1>3. \A i \in Rungs(f) : Hits(rows, f, i) \subseteq Pullable(rows, f)
  BY HitsArePullable
<1>4. CASE reached = {}
  <2>1. found.loads = {}
    BY <1>4 DEF Widen
  <2>2. Pullable(rows, f) = {}
    BY <1>1, <1>2, <1>4
  <2>3. Nearest(rows, f) = {} /\ Admitted(found, f)
    BY <2>1, <2>2 DEF Nearest, Admitted
  <2> QED  BY <2>1, <2>3
<1>5. CASE reached # {}
  <2> DEFINE m == Min(reached)
  <2>1. m \in reached /\ \A i \in reached : m <= i
    BY <1>1, <1>5, LeastRung
  <2>2. found.loads = Hits(rows, f, m) /\ found.dropped = Dropped(f, m)
    BY <1>5 DEF Widen
  <2> HIDE DEF m, found
  <2>3. m \in Rungs(f) /\ m \in 0 .. 6
    BY <1>1, <2>1
  <2>4. \A l \in Pullable(rows, f) : m <= Concession(l, f)
    BY <1>1, <1>2, <2>1
  <2>5. PICK hit \in Hits(rows, f, m) : TRUE
    BY <2>1
  <2>6. hit \in Pullable(rows, f) /\ Concession(hit, f) <= m
    BY <1>2, <1>3, <2>3
  <2>7. Hits(rows, f, m) = Nearest(rows, f)
    <3>1. \A l \in Pullable(rows, f) : Concession(l, f) \in Nat
      BY <1>1, <1>2
    <3>2. \A l \in Pullable(rows, f) :
            l \in Hits(rows, f, m) <=> Concession(l, f) <= m
      BY <1>2, <2>3
    <3>3. Concession(hit, f) = m
      BY <2>3, <2>4, <2>6, <3>1
    <3>4. ASSUME NEW l \in Pullable(rows, f), Concession(l, f) <= m
          PROVE  l \in Nearest(rows, f)
      BY <2>3, <2>4, <3>1, <3>4 DEF Nearest
    <3>5. ASSUME NEW l \in Nearest(rows, f)
          PROVE  l \in Pullable(rows, f) /\ Concession(l, f) <= m
      BY <2>6, <3>3 DEF Nearest
    <3> QED  BY <1>3, <2>3, <3>2, <3>4, <3>5
  <2>8. ASSUME NEW l \in Hits(rows, f, m)
        PROVE  \/ Misses(l, f) \subseteq Dropped(f, m)
               \/ Dropped(f, m) = {} /\ Misses(l, f) = {"pickup_date"}
    <3>1. l \in rows
      BY DEF Hits
    <3>2. CASE m # 1
      BY <2>3, <3>1, <3>2, HitOffWindow
    <3>3. CASE m = 1
      <4>1. Dropped(f, m) = {}
        BY <3>3 DEF Dropped
      <4>2. Matches(l, f, WindowDays)
        BY <3>1, <3>3, HitInWindow
      <4>3. Misses(l, f) \subseteq {"pickup_date"}
        BY <4>2, WindowWidens DEF Matches, Misses
      <4> QED  BY <4>1, <4>3
    <3> QED  BY <3>2, <3>3
  <2> QED  BY <2>2, <2>7, <2>8 DEF Admitted, found
<1> QED  BY <1>4, <1>5

-----------------------------------------------------------------------------
(* The sweeps.                                                             *)

(* One look at the board is not older than another, as far as both go.     *)
NotOlder(old, new) ==
    \A l \in Loads :
        old[l] # "unknown" /\ new[l] # "unknown" => Rank[old[l]] <= Rank[new[l]]

(* Each load of an equipment type was looked at, or its shard came back    *)
(* full.                                                                   *)
Covered(saw, e) ==
    \/ \A l \in Loads : Row[l].equipment = e => saw[l] # "unknown"
    \/ Full(saw, e)

(* A refresh knows what the shards that answered brought, once it has the  *)
(* lock.                                                                   *)
RefreshKept(q) ==
    /\ q.phase # "sweeping" => q.answered = {} /\ q.failed = {}
    /\ q.answered \cap q.failed = {}
    /\ \A l \in Loads : q.saw[l] # "unknown" => Row[l].equipment \in q.answered
    /\ \A e \in q.answered : Covered(q.saw, e)

OneSweep ==
    \A t, u \in Tasks :
        task[t].phase = "sweeping" /\ task[u].phase = "sweeping" => t = u

(* The snapshot is no newer than any sweep under way.                      *)
SnapshotKept ==
    snapshot # None =>
        /\ NotOlder(snapshot.saw, life)
        /\ \A t \in Tasks : NotOlder(snapshot.saw, task[t].saw)
        /\ \A e \in Equipment \ snapshot.failed : Covered(snapshot.saw, e)

BoardKept ==
    /\ TypeOK
    /\ OneSweep
    /\ \A t \in Tasks : RefreshKept(task[t]) /\ NotOlder(task[t].saw, life)
    /\ SnapshotKept

(* Once posted, once taken: what became of a load only moves forward.      *)
LEMMA RankOrder ==
    /\ Rank["unposted"] = 1 /\ Rank["posted"] = 2 /\ Rank["taken"] = 3
    /\ "unknown" \notin Life
BY DEF Rank, Life

(* An older look stays one when the board moves.                           *)
LEMMA OlderStill ==
    ASSUME NEW old \in Sight, NEW h \in [Loads -> Life], NEW g \in [Loads -> Life],
           NotOlder(old, h), NotOlder(h, g)
    PROVE  NotOlder(old, g)
<1> SUFFICES ASSUME NEW l \in Loads, old[l] # "unknown"
             PROVE  Rank[old[l]] <= Rank[g[l]]
  BY DEF NotOlder
<1>1. old[l] \in Life /\ h[l] \in Life /\ g[l] \in Life
  BY DEF Sight
<1>2. Rank[old[l]] <= Rank[h[l]] /\ Rank[h[l]] <= Rank[g[l]]
  BY <1>1, RankOrder DEF NotOlder
<1> QED  BY <1>1, <1>2, RankOrder DEF Life

(* Before its first answer a refresh has seen nothing.                     *)
LEMMA NothingSeen ==
    ASSUME NEW q, RefreshKept(q), q.answered = {}, NEW old
    PROVE  NotOlder(q.saw, old) /\ NotOlder(old, q.saw)
BY DEF RefreshKept, NotOlder

(* An idle refresh.                                                        *)
LEMMA IdleKept == Idle \in Refresh /\ RefreshKept(Idle) /\ Idle.answered = {}
<1>1. \A l \in Loads : Idle.saw[l] = "unknown"
  BY DEF Idle
<1>2. Idle.saw \in Sight
  BY DEF Idle, Sight
<1> QED  BY <1>1, <1>2 DEF Idle, Refresh, RefreshKept

(* The initial state: nothing was seen yet.                                *)
LEMMA InitBoardKept == Init => BoardKept
<1> SUFFICES ASSUME Init PROVE BoardKept
  OBVIOUS
<1>1. TypeOK
  <2>1. life \in [Loads -> Life]
    BY DEF Init, Life
  <2>2. now \in 0 .. Horizon
    BY BoardAssumption DEF Init
  <2>3. due \in BOOLEAN
    BY DEF Init
  <2>4. queue \in Seq(Tasks)
    BY DEF Init
  <2>5. task \in [Tasks -> Refresh] /\ snapshot = None
    BY IdleKept DEF Init
  <2> QED  BY <2>1, <2>2, <2>3, <2>4, <2>5 DEF TypeOK
<1>2. OneSweep /\ SnapshotKept
  BY DEF Init, OneSweep, SnapshotKept, Idle
<1>3. \A t \in Tasks : RefreshKept(task[t]) /\ NotOlder(task[t].saw, life)
  BY IdleKept, NothingSeen DEF Init
<1> QED  BY <1>1, <1>2, <1>3 DEF BoardKept

(* One refresh goes on, the snapshot stays.                                *)
LEMMA RefreshMoves ==
    ASSUME BoardKept, NEW t \in Tasks, NEW q \in Refresh,
           task' = [task EXCEPT ![t] = q], queue' \in Seq(Tasks),
           UNCHANGED <<life, snapshot, due, now>>,
           RefreshKept(q), NotOlder(q.saw, life),
           snapshot # None => NotOlder(snapshot.saw, q.saw),
           q.phase = "sweeping" =>
               \A u \in Tasks : task[u].phase = "sweeping" => u = t
    PROVE  BoardKept'
<1>1. task \in [Tasks -> Refresh]
  BY DEF BoardKept, TypeOK
<1>2. task'[t] = q /\ \A u \in Tasks \ {t} : task'[u] = task[u]
  BY <1>1
<1>3. TypeOK'
  BY <1>1 DEF BoardKept, TypeOK
<1>4. OneSweep'
  BY <1>2 DEF BoardKept, OneSweep
<1>5. \A u \in Tasks : RefreshKept(task'[u]) /\ NotOlder(task'[u].saw, life')
  BY <1>2 DEF BoardKept
<1>6. SnapshotKept'
  BY <1>2 DEF BoardKept, SnapshotKept
<1> QED  BY <1>3, <1>4, <1>5, <1>6 DEF BoardKept

(* A refresh asks for the lock.                                            *)
LEMMA QueueKeeps ==
    ASSUME BoardKept, NEW t \in Tasks, Queue(t) PROVE BoardKept'
<1> DEFINE q == [task[t] EXCEPT !.phase = "queued"]
<1>1. task \in [Tasks -> Refresh] /\ task[t] \in Refresh /\ RefreshKept(task[t])
      /\ queue \in Seq(Tasks) /\ task[t].phase = "idle"
  BY DEF BoardKept, TypeOK, Queue
<1>2. q \in Refresh /\ q.phase = "queued" /\ q.answered = {} /\ q.failed = {}
      /\ q.saw = task[t].saw
  BY <1>1 DEF Refresh, RefreshKept
<1>3. task' = [task EXCEPT ![t] = q] /\ queue' = Append(queue, t)
      /\ UNCHANGED <<life, snapshot, due, now>>
  BY <1>1 DEF Queue
<1> HIDE DEF q
<1>4. RefreshKept(q)
  BY <1>1, <1>2 DEF RefreshKept
<1>5. queue' \in Seq(Tasks)
  BY <1>1, <1>3
<1> QED  BY <1>2, <1>3, <1>4, <1>5, NothingSeen, RefreshMoves

(* It gets the lock, and nobody else has it.                               *)
LEMMA AcquireKeeps ==
    ASSUME BoardKept, NEW t \in Tasks, Acquire(t) PROVE BoardKept'
<1> DEFINE q == [task[t] EXCEPT !.phase = "sweeping"]
<1>1. task \in [Tasks -> Refresh] /\ task[t] \in Refresh /\ RefreshKept(task[t])
      /\ queue \in Seq(Tasks) /\ task[t].phase # "sweeping" /\ queue # <<>>
  BY DEF BoardKept, TypeOK, Acquire
<1>2. q \in Refresh /\ q.phase = "sweeping" /\ q.answered = {} /\ q.failed = {}
      /\ q.saw = task[t].saw
  BY <1>1 DEF Refresh, RefreshKept
<1>3. task' = [task EXCEPT ![t] = q] /\ queue' = Tail(queue)
      /\ UNCHANGED <<life, snapshot, due, now>>
  BY <1>1 DEF Acquire
<1> HIDE DEF q
<1>4. RefreshKept(q)
  BY <1>1, <1>2 DEF RefreshKept
<1>5. queue' \in Seq(Tasks)
  BY <1>1, <1>3
<1>6. \A u \in Tasks : task[u].phase # "sweeping"
  BY DEF Acquire
<1> QED  BY <1>2, <1>3, <1>4, <1>5, <1>6, NothingSeen, RefreshMoves

(* A shard that brought all it may looks full, one that was cut is full.   *)
LEMMA BroughtCovers ==
    ASSUME NEW e \in Equipment, NEW records \in Brought(e), life \in [Loads -> Life],
           NEW saw \in Sight,
           \A l \in Loads :
               Row[l].equipment = e =>
                   saw[l] = IF l \in records \/ Whole(e) THEN life[l] ELSE "unknown"
    PROVE  Covered(saw, e)
<1>1. CASE Whole(e)
  BY <1>1, RankOrder DEF Covered
<1>2. CASE ~Whole(e)
  <2> DEFINE seen == {l \in Loads : Row[l].equipment = e /\ saw[l] \in {"posted", "taken"}}
  <2>1. records \in SUBSET Listed(e) /\ Cardinality(records) = ShardMax
    BY <1>2 DEF Brought, kSubset
  <2>2. \A l \in records : l \in Loads /\ Row[l].equipment = e /\ life[l] # "unposted"
    BY <2>1 DEF Listed
  <2>3. seen = records
    BY <1>2, <2>2 DEF Life
  <2>4. ShardMax >= ShardMax
    BY BoardAssumption
  <2> QED  BY <2>1, <2>3, <2>4 DEF Covered, Full
<1> QED  BY <1>1, <1>2

(* A shard answers with the board as it is now, no older than anything     *)
(* seen before, and takes nothing from what the others brought.            *)
LEMMA AnswerKeeps ==
    ASSUME BoardKept, NEW t \in Tasks, NEW e \in Equipment, ShardAnswers(t, e)
    PROVE  BoardKept'
<1>1. task \in [Tasks -> Refresh] /\ task[t] \in Refresh /\ RefreshKept(task[t])
      /\ NotOlder(task[t].saw, life) /\ task[t].phase = "sweeping"
      /\ life \in [Loads -> Life] /\ queue \in Seq(Tasks)
      /\ e \notin task[t].answered \cup task[t].failed
  BY DEF BoardKept, TypeOK, ShardAnswers, Outstanding
<1>2. PICK records \in Brought(e) :
        task' = [task EXCEPT
          ![t].answered = @ \cup {e},
          ![t].saw = [l \in Loads |->
              IF Row[l].equipment # e THEN @[l]
              ELSE IF l \in records \/ Whole(e) THEN life[l] ELSE "unknown"]]
  BY DEF ShardAnswers
<1> DEFINE saw == [l \in Loads |->
                     IF Row[l].equipment # e THEN task[t].saw[l]
                     ELSE IF l \in records \/ Whole(e) THEN life[l] ELSE "unknown"]
           q == [task[t] EXCEPT !.answered = @ \cup {e}, !.saw = saw]
<1>3. task[t].saw \in Sight
  BY <1>1 DEF Refresh
<1>4. \A l \in Loads :
        saw[l] = IF Row[l].equipment # e THEN task[t].saw[l]
                 ELSE IF l \in records \/ Whole(e) THEN life[l] ELSE "unknown"
  OBVIOUS
<1>5. saw \in Sight
  BY <1>1, <1>3 DEF Sight
<1>6. q \in Refresh /\ q.phase = "sweeping" /\ q.answered = task[t].answered \cup {e}
      /\ q.failed = task[t].failed /\ q.saw = saw
  BY <1>1, <1>5 DEF Refresh
<1>7. task' = [task EXCEPT ![t] = q] /\ UNCHANGED <<life, snapshot, due, queue, now>>
  BY <1>1, <1>2 DEF ShardAnswers
<1> HIDE DEF saw, q
<1>8. Covered(saw, e)
  BY <1>1, <1>4, <1>5, BroughtCovers
<1>9. ASSUME NEW other \in task[t].answered PROVE Covered(saw, other)
  <2>1. \A l \in Loads : Row[l].equipment = other => saw[l] = task[t].saw[l]
    BY <1>1, <1>4
  <2>2. Covered(task[t].saw, other)
    BY <1>1 DEF RefreshKept
  <2>3. {l \in Loads : Row[l].equipment = other /\ saw[l] \in {"posted", "taken"}}
          = {l \in Loads : Row[l].equipment = other /\ task[t].saw[l] \in {"posted", "taken"}}
    BY <2>1
  <2> QED  BY <2>1, <2>2, <2>3 DEF Covered, Full
<1>10. RefreshKept(q)
  <2>1. \A l \in Loads : saw[l] # "unknown" => Row[l].equipment \in q.answered
    BY <1>1, <1>4, <1>6 DEF RefreshKept
  <2> QED  BY <1>1, <1>6, <1>8, <1>9, <2>1 DEF RefreshKept
<1>11. NotOlder(saw, life)
  <2> SUFFICES ASSUME NEW l \in Loads, saw[l] # "unknown"
               PROVE  Rank[saw[l]] <= Rank[life[l]]
    BY DEF NotOlder
  <2>1. CASE Row[l].equipment = e
    <3>1. saw[l] = life[l] /\ life[l] \in Life
      BY <1>1, <1>4, <2>1
    <3> QED  BY <3>1, RankOrder DEF Life
  <2>2. CASE Row[l].equipment # e
    <3>1. saw[l] = task[t].saw[l]
      BY <1>4, <2>2
    <3>2. life[l] # "unknown"
      BY <1>1, RankOrder
    <3> QED  BY <1>1, <3>1, <3>2 DEF NotOlder
  <2> QED  BY <2>1, <2>2
<1>12. snapshot # None => NotOlder(snapshot.saw, saw)
  <2> SUFFICES ASSUME snapshot # None, NEW l \in Loads,
                      snapshot.saw[l] # "unknown", saw[l] # "unknown"
               PROVE  Rank[snapshot.saw[l]] <= Rank[saw[l]]
    BY DEF NotOlder
  <2>1. saw[l] = life[l] \/ saw[l] = task[t].saw[l]
    BY <1>4
  <2>2. NotOlder(snapshot.saw, life) /\ NotOlder(snapshot.saw, task[t].saw)
    BY DEF BoardKept, SnapshotKept
  <2>3. life[l] # "unknown"
    BY <1>1, RankOrder
  <2> QED  BY <2>1, <2>2, <2>3 DEF NotOlder
<1> QED  BY <1>1, <1>6, <1>7, <1>10, <1>11, <1>12, RefreshMoves DEF BoardKept, OneSweep

(* A shard fails, and nothing of it is known.                              *)
LEMMA FailureKeeps ==
    ASSUME BoardKept, NEW t \in Tasks, NEW e \in Equipment, ShardFails(t, e)
    PROVE  BoardKept'
<1> DEFINE q == [task[t] EXCEPT !.failed = @ \cup {e}]
<1>1. task \in [Tasks -> Refresh] /\ task[t] \in Refresh /\ RefreshKept(task[t])
      /\ task[t].phase = "sweeping" /\ queue \in Seq(Tasks)
      /\ e \notin task[t].answered \cup task[t].failed
  BY DEF BoardKept, TypeOK, ShardFails, Outstanding
<1>2. q \in Refresh /\ q.phase = "sweeping" /\ q.answered = task[t].answered
      /\ q.failed = task[t].failed \cup {e} /\ q.saw = task[t].saw
  BY <1>1 DEF Refresh
<1>3. task' = [task EXCEPT ![t] = q] /\ UNCHANGED <<life, snapshot, due, queue, now>>
  BY <1>1 DEF ShardFails
<1> HIDE DEF q
<1>4. RefreshKept(q)
  BY <1>1, <1>2 DEF RefreshKept
<1>5. NotOlder(q.saw, life) /\ (snapshot # None => NotOlder(snapshot.saw, q.saw))
  BY <1>2 DEF BoardKept, SnapshotKept
<1> QED  BY <1>1, <1>2, <1>3, <1>4, <1>5, RefreshMoves DEF BoardKept, OneSweep

(* A sweep that brought nothing lets go of the lock.                       *)
LEMMA KeepPreviousKeeps ==
    ASSUME BoardKept, NEW t \in Tasks, KeepPrevious(t) PROVE BoardKept'
<1>1. task' = [task EXCEPT ![t] = Idle] /\ UNCHANGED <<life, snapshot, due, queue, now>>
  BY DEF KeepPrevious
<1>2. queue \in Seq(Tasks) /\ Idle.phase # "sweeping"
  BY DEF BoardKept, TypeOK, Idle
<1> QED  BY <1>1, <1>2, IdleKept, NothingSeen, RefreshMoves

(* One that brought something becomes the snapshot.  Nobody else is        *)
(* sweeping, so nobody holds an older look than this one.                  *)
LEMMA InstallKeeps ==
    ASSUME BoardKept, NEW t \in Tasks, Install(t)
    PROVE  /\ BoardKept'
           /\ snapshot' # None
           /\ snapshot # None => NotOlder(snapshot.saw, snapshot'.saw)
<1>1. task \in [Tasks -> Refresh] /\ task[t] \in Refresh /\ RefreshKept(task[t])
      /\ NotOlder(task[t].saw, life) /\ task[t].phase = "sweeping"
      /\ task[t].answered \cup task[t].failed = Equipment /\ task[t].answered # {}
  BY DEF BoardKept, TypeOK, Install, Gathered
<1>2. snapshot' = [saw |-> task[t].saw, offerable |-> Offerable(task[t].saw),
                   failed |-> task[t].failed]
      /\ due' = FALSE /\ task' = [task EXCEPT ![t] = Idle]
      /\ UNCHANGED <<life, queue, now>>
  BY DEF Install
<1>3. snapshot' \in Snapshot
  BY <1>1, <1>2 DEF Snapshot, Refresh, Offerable
<1>4. snapshot'.saw = task[t].saw /\ snapshot'.failed = task[t].failed
  BY <1>2
<1>5. task'[t] = Idle /\ \A u \in Tasks \ {t} : task'[u] = task[u]
  BY <1>1, <1>2
<1>6. TypeOK'
  <2>1. snapshot'.failed # Equipment
    BY <1>1, <1>4 DEF RefreshKept, Refresh
  <2> QED  BY <1>1, <1>2, <1>3, <2>1, IdleKept DEF BoardKept, TypeOK
<1>7. \A u \in Tasks : task'[u].phase # "sweeping"
  BY <1>1, <1>5 DEF BoardKept, OneSweep, Idle
<1>8. \A u \in Tasks : RefreshKept(task'[u]) /\ NotOlder(task'[u].saw, life')
  BY <1>2, <1>5, IdleKept, NothingSeen DEF BoardKept
<1>9. \A u \in Tasks : NotOlder(snapshot'.saw, task'[u].saw)
  BY <1>7, <1>8, NothingSeen DEF RefreshKept
<1>10. SnapshotKept'
  BY <1>1, <1>2, <1>4, <1>9, BoardAssumption DEF SnapshotKept, RefreshKept
<1>11. snapshot # None => NotOlder(snapshot.saw, snapshot'.saw)
  BY <1>4 DEF BoardKept, SnapshotKept
<1> QED  BY <1>3, <1>6, <1>7, <1>8, <1>10, <1>11, SnapshotAssumption DEF BoardKept, OneSweep

(* The board moves under the sweeps and the snapshot.                      *)
LEMMA BoardMovesKeeps ==
    ASSUME BoardKept, BoardMoves PROVE BoardKept'
<1>1. life \in [Loads -> Life] /\ UNCHANGED <<snapshot, due, task, queue, now>>
  BY DEF BoardKept, TypeOK, BoardMoves
<1>2. PICK l \in Loads : Post(l) \/ Take(l)
  BY DEF BoardMoves
<1>3. life' \in [Loads -> Life]
  BY <1>1, <1>2 DEF Post, Take, Life
<1>4. NotOlder(life, life')
  BY <1>1, <1>2, RankOrder DEF NotOlder, Post, Take, Life
<1>5. TypeOK'
  BY <1>1, <1>3 DEF BoardKept, TypeOK
<1>6. \A t \in Tasks : RefreshKept(task[t]) /\ NotOlder(task[t].saw, life')
  BY <1>1, <1>3, <1>4, OlderStill DEF BoardKept, TypeOK, Refresh
<1>7. snapshot # None => NotOlder(snapshot.saw, life')
  BY <1>1, <1>3, <1>4, OlderStill DEF BoardKept, TypeOK, SnapshotKept, Snapshot
<1> QED  BY <1>1, <1>5, <1>6, <1>7 DEF BoardKept, OneSweep, SnapshotKept

(* Time passes, for the snapshot and for the broker.                       *)
LEMMA ClocksKeep ==
    ASSUME BoardKept, Ages \/ Elapse PROVE BoardKept'
<1>1. UNCHANGED <<life, snapshot, task, queue>>
  BY DEF Ages, Elapse
<1>2. TypeOK'
  <2>1. now' \in 0 .. Horizon
    BY BoardAssumption DEF Ages, Elapse, BoardKept, TypeOK
  <2>2. due' \in BOOLEAN
    BY DEF Ages, Elapse, BoardKept, TypeOK
  <2> QED  BY <1>1, <2>1, <2>2 DEF BoardKept, TypeOK
<1> QED  BY <1>1, <1>2 DEF BoardKept, OneSweep, SnapshotKept

(* What a step does to the snapshot.                                       *)
SnapshotAdvances ==
    \/ UNCHANGED snapshot
    \/ snapshot' # None /\ (snapshot # None => NotOlder(snapshot.saw, snapshot'.saw))

(* Every step keeps the board, and never goes back in time.                *)
LEMMA NextBoardKept == BoardKept /\ [Next]_vars => BoardKept' /\ SnapshotAdvances
<1> SUFFICES ASSUME BoardKept, [Next]_vars PROVE BoardKept' /\ SnapshotAdvances
  OBVIOUS
<1>1. CASE Wake \/ \E t \in Gets : GetStale(t)
  <2>1. PICK t \in Tasks : Queue(t)
    BY <1>1 DEF Wake, GetStale, Tasks
  <2> QED  BY <2>1, QueueKeeps DEF Queue, SnapshotAdvances
<1>2. ASSUME NEW t \in Tasks, Acquire(t) PROVE BoardKept' /\ SnapshotAdvances
  BY <1>2, AcquireKeeps DEF Acquire, SnapshotAdvances
<1>3. ASSUME NEW t \in Tasks, NEW e \in Equipment, ShardAnswers(t, e) \/ ShardFails(t, e)
      PROVE  BoardKept' /\ SnapshotAdvances
  BY <1>3, AnswerKeeps, FailureKeeps DEF ShardAnswers, ShardFails, SnapshotAdvances
<1>4. ASSUME NEW t \in Tasks, Finishes(t) PROVE BoardKept' /\ SnapshotAdvances
  BY <1>4, InstallKeeps, KeepPreviousKeeps DEF Finishes, KeepPrevious, SnapshotAdvances
<1>5. CASE BoardMoves
  BY <1>5, BoardMovesKeeps DEF BoardMoves, SnapshotAdvances
<1>6. CASE Ages \/ Elapse
  BY <1>6, ClocksKeep DEF Ages, Elapse, SnapshotAdvances
<1>7. CASE UNCHANGED vars
  BY <1>7 DEF vars, BoardKept, TypeOK, OneSweep, SnapshotKept, SnapshotAdvances
<1> QED  BY <1>1, <1>2, <1>3, <1>4, <1>5, <1>6, <1>7 DEF Next, GoesOn

-----------------------------------------------------------------------------
(* The inductive invariant holds of every behaviour.                       *)
THEOREM BoardAlwaysKept == Spec => []BoardKept
<1> QED  BY InitBoardKept, NextBoardKept, PTL DEF Spec

(* Every variable keeps its type, and a snapshot comes from a sweep that   *)
(* heard of one shard at least.                                            *)
THEOREM BoardTyped == Spec => []TypeOK
<1>1. BoardKept => TypeOK
  BY DEF BoardKept
<1> QED  BY <1>1, BoardAlwaysKept, PTL

(* However many refreshes overlap, a snapshot is never replaced by an      *)
(* older look at any load.                                                 *)
THEOREM SnapshotsAdvance == Spec => SnapshotNeverGoesBack
<1>1. ASSUME BoardKept, [Next]_vars
      PROVE  [snapshot # None =>
                /\ snapshot' # None
                /\ \A l \in Loads :
                     snapshot.saw[l] # "unknown" /\ snapshot'.saw[l] # "unknown"
                       => Rank[snapshot.saw[l]] <= Rank[snapshot'.saw[l]]]_vars
  <2>1. SnapshotAdvances
    BY <1>1, NextBoardKept
  <2>2. CASE UNCHANGED snapshot
    <3>1. snapshot # None => snapshot.saw \in Sight
      BY <1>1 DEF BoardKept, TypeOK, Snapshot
    <3>2. \A x \in Life : Rank[x] <= Rank[x]
      BY RankOrder DEF Life
    <3> QED  BY <2>2, <3>1, <3>2 DEF Sight
  <2> QED  BY <2>1, <2>2 DEF SnapshotAdvances, NotOlder
<1> QED  BY <1>1, BoardAlwaysKept, PTL DEF Spec, SnapshotNeverGoesBack

(* On every board a sweep ever leaves, every search is handed the loads    *)
(* that ask least of the carrier.                                          *)
THEOREM AlwaysNearestFirst == Spec => []NearestFirst
<1>1. BoardKept => NearestFirst
  <2> SUFFICES ASSUME BoardKept, snapshot # None PROVE Kept \in WellServed
    BY DEF NearestFirst
  <2>1. snapshot \in Snapshot
    BY DEF BoardKept, TypeOK
  <2>2. Kept \in Board
    <3>1. snapshot.offerable \in SUBSET Loads /\ snapshot.failed \in SUBSET Equipment
      BY <2>1 DEF Snapshot
    <3> QED  BY <3>1 DEF Kept, Board
  <2>3. \A f \in Filters :
          LET found == Found(Kept, f) IN
          found.loads = Nearest(Rows(Kept), f) /\ Admitted(found, f)
    BY LadderCorrect, BoardAssumption DEF Found
  <2> QED  BY <2>2, <2>3 DEF WellServed
<1> QED  BY <1>1, BoardAlwaysKept, PTL

(* A dead end is only declared when no load it speaks of was left to offer *)
(* and each was looked at, but for those beyond the cut of a full shard    *)
(* and, when no equipment was named, those of the shards that failed.      *)
THEOREM DeadEndsAreHonest == Spec => []HonestDeadEnd
<1>1. BoardKept => HonestDeadEnd
  <2> SUFFICES ASSUME BoardKept, snapshot # None,
                      NEW e \in Equipment \cup {None}, NEW l \in Loads,
                      e \in {None, Row[l].equipment}, <<Kept, e>> \in DeadEnds
               PROVE  /\ l \notin snapshot.offerable
                      /\ \/ snapshot.saw[l] # "unknown"
                         \/ Full(snapshot.saw, Row[l].equipment)
                         \/ e = None /\ Row[l].equipment \in snapshot.failed
    BY DEF HonestDeadEnd
  <2>1. PICK f \in Filters : f.equipment = e /\ Found(Kept, f).exhausted
    BY DEF DeadEnds
  <2>2. Exhausted(Rows(Kept), snapshot.failed, f)
    BY <2>1 DEF Found, Widen, Kept
  <2>3. OfEquipment(Rows(Kept), e) = {}
    BY <2>1, <2>2 DEF Exhausted
  <2>4. l \in snapshot.offerable => Row[l] \in OfEquipment(Rows(Kept), e)
    BY DEF OfEquipment, Rows, Kept
  <2>5. ASSUME Row[l].equipment \notin snapshot.failed
        PROVE  snapshot.saw[l] # "unknown" \/ Full(snapshot.saw, Row[l].equipment)
    BY <2>5, BoardAssumption DEF BoardKept, SnapshotKept, Covered
  <2>6. e = None \/ Row[l].equipment \notin snapshot.failed
    BY <2>1, <2>2, BoardAssumption DEF Exhausted
  <2> QED  BY <2>3, <2>4, <2>5, <2>6
<1> QED  BY <1>1, BoardAlwaysKept, PTL
=============================================================================
