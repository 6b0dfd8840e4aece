# A verification of the carrier bridge

The repository is a small service that stands between a voice agent and a
brokerage's systems: the agent calls one HTTP route per step of a carrier sales
call, and the bridge decides what the agent may do next. This directory holds a
TLA+ model of that service, configurations that check it with TLC, and proofs
that TLAPS checks about its rate desk, its leak guard, its TMS client, its board
and the bridge as a whole.

## The system

| part | code | state it keeps | operations |
| --- | --- | --- | --- |
| rate desk | `app/domain/negotiation.py` | one `Negotiation` per load and call: posted rate, ceiling, standing offer, status, rounds, breach count | `evaluate` |
| call session | `app/domain/sessions.py`, `app/api/deps.py` | one `CallSession` per call: stage, terminated flag, outcome, MC, passcode, offers, searches, negotiations, booking | `advance_to`, `terminate`, `require_stage` |
| verification | `app/api/routes/verification.py`, `app/domain/otp.py` | writes the session | `verify_carrier`, `send_otp`, `verify_otp` |
| load search | `app/api/routes/loads.py` | writes the session, reads the board | `search_loads`, `_detail` |
| deals | `app/api/routes/deals.py` | writes the session | `negotiate`, `book`, `handoff` |
| calls | `app/api/routes/calls.py` | writes the session | `start`, `close`, trail |
| FMCSA client | `app/integrations/fmcsa.py` | none | `verify` |
| TMS client | `app/tms/client.py` | fault counters | `query_loads`, `get_load`, `book_load` |
| board index | `app/domain/board.py` | one snapshot of the load board | `get`, `refresh`, `widen` |
| leak guard | `app/security/leak_guard.py` | protected and disclosed values of one request | `protect_value`, `allow_value`, the ASGI wrapper |
| dashboard | `app/api/routes/ops.py` | none | reads all sessions |
| the rest | protocol, load normalisation, audit, schemas, auth, settings, wiring | audit log | parsing, validation, logging |

The routes share the `CallSession` objects. They are coroutines on one event
loop, so a handler is atomic between two awaits, and it awaits in five places
only: the FMCSA lookup, `LOAD_QUERY`, `LOAD_GET` (for a detail and for a first
price) and `LOAD_BOOK`. What it read before the await, it may use after it.
No session is locked. The agent normally waits for an answer, but its platform
gives up on slow webhooks and the agent then fires again
(`deals.py:193-197` describes it), so two requests of one call can overlap.

What is hard: state used across an await; a booking whose answer is lost, whose
write may still land, and which must not be sent twice or forgotten; stages that
only go up while `terminate` uses the highest of them; an outcome several
handlers overwrite; integer floors and bands around a secret ceiling; caps on
rounds, attempts and searches. `PROJECT.json` lists each hazard at its line with
the properties that would catch it.

What makes each part correct: the rate desk never says the ceiling, never
retreats, never exceeds its rounds, never gives the gap away; no freight before
a code, no code before an authority; nothing is proved or started on a closed
call; what is confirmed is in the TMS, what is in the TMS is confirmed or
flagged, within the ceiling and as the carrier said; the search record and the
offer ledger agree; a handoff has a booking behind it.

## The modules

| module | what it models | what it builds on |
| --- | --- | --- |
| `Negotiation` | the pricing policy of `negotiation.py`, as operators on one record | |
| `RateDesk` | one negotiation over its life | `Negotiation` |
| `GuardedDesk` | that negotiation behind the leak guard: what each route that names a load protects, exempts and says | `RateDesk` |
| `CallSession` | the state of all calls, suspended requests and the TMS; the stage gate; the type invariant | `Negotiation` |
| `Verification`, `LoadSearch`, `Deals` | the actions of one route file each | `CallSession` |
| `CarrierBridge` | `close`, the whole next-state relation, the dashboard, the properties | the three above |
| `SalesCall` | abstract: what the bridge promises of a call, without stages, requests or answers | |
| `TmsClient` | `_execute`, `_roundtrip`, `_decode`, `book_load` and the counters | |
| `BookingPromise` | abstract: what a booking request promises whoever sends it | |
| `Ladder` | `widen` as operators, beside a definition of "nearest" without rungs | |
| `BoardIndex` | `get`, `refresh` and `run_forever` over a board that moves | `Ladder` |
| `MC...` | the instances | |
| `...Theorems`, `...Proofs`, `...Sells`, `...Steps`, `...Patient` | the proofs | |

State and code correspond as follows.

**The bridge.**

- `session[c]` is the `CallSession` of call `c`. `booking_ref` and
  `booked_load_id` are only ever set together and are one field, `booked`;
  `handoff_ref` is `handed`. Names, notes, references and the bypass counter are
  left out: no gate reads them.
- `request[r]` is a handler suspended on its await: the locals it resumes with.
  A handler without an await is one action; one with an await is an action that
  suspends and one action per way of resuming.
- `tms[l]` says who holds load `l` in the TMS: nobody, a booking of this bridge,
  or a stranger. A booking request in flight carries the answer the TMS has
  given, so the commit and the bridge's hearing of it are two steps. `orphans`
  are the commands the bridge stopped waiting for and that may still commit.
- `board` says whether there is a snapshot. Which loads a search finds is a
  choice of the environment, on the wire and on the ladder alike.
- `trail[c]` keeps what the audit events `AUTHORITY_CHECKED` (authorised),
  `OTP_VERIFIED`, `NEGOTIATION_ROUND`, `BOOKING_CONFIRMED` and
  `BOOKING_UNCERTAIN` recorded; properties relate the state to this history.
- `Dashboard(kept)` is the funnel of `ops.py` over the sessions in `kept`.

**The TMS client.** `request[x]` is one call of `_execute`: idle, waiting for
attempt number `attempt`, in its backoff, or done with a `result`. `answer` is
what the TMS has sent and the client has not yet read; a command may be acted on
without an answer (`TmsBooks`) and after the client gave up (`late`,
`LateArrives`). The four `except` clauses of the loop are the four faults, and
`Retryable` says which attempt is followed by another. `Unencodable` and
`HearMisparsed` are the exceptions no clause catches. `stats` is `TmsCallStats`.
`Deals` takes a booking's possible ends from here: confirmed, refused or of
unknown fate.

**The board.** `task[t]` is one `refresh`, of the loop or of a stale `get`:
queued for `_lock`, or sweeping, with what each equipment type's query held when
the TMS got to it. `queue` is the lock's waiting list, `life` the truth in the
TMS, `snapshot` what the last sweep saw and kept, `due` its being older than the
TTL, and `now` the broker's clock, in moments of a day. `Widen` returns the hits
of the first rung that has any, what it dropped, and the dead-end claim. Rung 0
is the search as it was asked, rung 1 widens the pickup to a window, and rung `i`
from 2 on drops the first `i - 1` of the five filters `widen` gives up in turn;
a rung whose last concession was never asked for is skipped, as in the code.

A query brings `ShardMax` records at most, of any status, and the TMS chooses
which (`Brought`): what it held beyond the cut stays unknown to the sweep.

**The guard.** `reply` is the last reply about the load: its route, the figures
in it and whether it was withheld. `Protected` and `Disclosed` are what the
handler told the guard. `Negotiate`, `Detail` and `Book` have read the ceiling
and protect it. `Search` has not: `LOAD_QUERY` brings no `MAX_BUY`
(`board.py:26`), so `_to_summary` protects nothing, and a repeated search does
not call it. A search therefore reads out the posted rate of a load that is
posted at its ceiling, while the detail of the same load is withheld.
`CeilingNeverNamed` says exactly that: the routes that know the ceiling never
name it before the carrier does, and a search names it only as the advertised
rate.

**The abstract sales call.** `CarrierBridge` maps its state to `SalesCall` by
reading the history and four fields off the sessions: `cleared`, `proven`,
`named`, `told` and `doubted` from `trail`, `shown` (has the call touched
freight), `handed` and `ended` from `session`, `holder` from `tms`. Suspending,
expiry, retries, closing twice and late answers that move nothing are stutters.

Abstractions that a reader should know of:

- Money is whole dollars and percentages whole percents. `int(math.floor(...))`
  on Python floats was compared with the integer formulas for rates up to the
  range the schemas allow, with the shipped percentages, and agrees. Ceilings
  are positive or absent.
- The passcode is "correct" or not, expiry is an event, and "less than 90
  seconds since the last round" is a choice: time is free.
- An MC number is a normalised value. `Garbled` stands for a payload from which
  no number can be read; it is looked up nowhere. One without digits skips the
  identity lock, a run of zeros does not. A number padded with a leading zero
  never compares equal to the session's MC.
- The TMS's confirmation is assumed to carry a `BOOKING_REF`.
- An error line of the TMS that cannot be parsed escapes the client as a
  `ProtocolError` (`client.py:235`). In `TmsClient` it may also follow a booking
  the TMS took; the bridge, which leaves the session as it does after any other
  refusal, is modelled for an honest TMS that sends error lines only for
  bookings it did not take.
- Requests that change nothing (a repeated search, a search without filters, a
  replayed booking, refusals by a gate) are stuttering steps and have no action.
- An element of `Calls` is the life of one session. `get` touches a session when
  a handler starts, and no await lasts as long as the TTL, so no session is
  evicted under a suspended request; an evicted session takes no more steps, and
  a call id that comes back later starts a fresh one, another element. What
  the store forgets does matter to the dashboard, which is therefore checked
  over every set of sessions that may be left. The process does not crash:
  everything is in memory, and a crash loses all calls.
- `MayCall` and `Overlap`: with `Overlap = FALSE` the agent waits for every
  answer, with `TRUE` it may not. Properties that need the agent to wait are
  checked and proved with `FALSE`, and one of them is shown to fail with `TRUE`.
- `HolderAssumption` keeps the model's sorts apart: "nobody", "a stranger" and a
  missing negotiation are no bookings and no negotiations.
- On the board, the five equipment types are two; the order of the hits and the
  facts about the board that a search returns are left out.
  Days are `DayLength` moments, a load's pickup is a moment, and a city is the
  set of texts a search may find in it. A record of a shard that raises out of
  the sweep is `KeepPrevious`.
- Figures in a reply that are no rates (weights, miles, references) are left out
  of the guard: whether one of them happens to equal the ceiling is chance.

## The runs

All use small sets of model values; the sets of an instance are in its `.cfg`
and the rates and rows in the MC modules.

| run | what it asks | bounds |
| --- | --- | --- |
| `rate_desk` | do all sequences of asks, searches, details and bookings keep the rate desk's rules, and does the guard withhold what it must and no more? | shipped settings (3 rounds, 3 %, 2 %, figures from 100 up protected); missing, ordinary and over-ceiling posted rates; withheld, one-dollar and two ordinary ceilings; ten asks at and around every threshold |
| `overlapping` | safety, liveness and the refinement of `SalesCall` when requests of one call overlap and answers are lost | 1 call, 2 requests in flight, 1 carrier, 1 load, 2 rounds, 1 attempt |
| `freight` | search record, ledger, budget and attempts, and each load negotiated at a rate desk of its own, one request at a time | 1 call, 2 loads, 2 searches over a budget of 1, 2 rounds, 2 attempts |
| `identity` | whose booking reaches the TMS, and at what rate | 1 call, 2 carriers, 2 loads (one posted above its ceiling), 2 asks, 1 round |
| `two_calls` | two calls after the same load, and the funnel over any sessions left | 2 calls, 2 requests, 1 load, 1 ask |
| `tms_client` | what is counted, what a booking is told, and that every request ends | 1 read with a budget of 2 attempts, 2 bookings of 1 load |
| `board` | who is handed which loads, what a dead end means, and that refreshes end and do not go back | 2 vans and a reefer, 1 record per query, the loop and 1 stale `get` at a time, 2 days of 1 moment, 192 searches, a pickup window of 3 days |

Why these bounds are enough: every limit of the code (rounds, attempts, search
budget, retries) is reached and then pushed; two requests suffice for one to
change what the other read; two loads suffice to confuse the booked, the selected
and the priced load; two carriers suffice for a swap; two bookings of one load
suffice for one to be refused on account of the other, late or not; two refreshes
suffice for one to overtake the other, two equipment types for one shard to fail
alone, and one record per query for two vans to be cut. In the bridge instances the load `l1` is posted at 2380 under a
ceiling of 2500, so that 2400 is inside the auto-accept band and 2600 is above
the ceiling; `l2` is posted at 2900, above its ceiling of 2500, so that 2600 is
agreed and must be stopped by the booking gate. On the board, the rows and the
192 searches are chosen so that every rung is the first with a hit for some
search, and `NearestFirst` and `HonestDeadEnd` are asked of every search on
every snapshot a run reaches. `Horizon` (moments), `Gets` (stale gets in flight)
and the number of requests and calls are bounds of the instances; nothing else is
capped. Symmetry (over carriers, requests, calls or searches) is only used in
runs without a liveness property. `tms_client` does not check for deadlock:
when every request has ended, the client has nothing left to do.

Fairness, and why the code justifies it:

- `CarrierBridge!FairSpec`: a suspended booking is eventually settled. The code
  sends `LOAD_BOOK` once, every wait of `_roundtrip` has a timeout, and each
  exception of it ends the await.
- `TmsClient!FairSpec`: an attempt settles (the same timeouts) and a backoff ends
  (a sleep of bounded length). That there are finitely many attempts is the
  model's and the code's business, not the fairness's.
- `BoardIndex!FairSpec`: while some refresh can go on, one does. Each query of a
  sweep ends one way or the other, the event loop runs a sweep that has heard of
  every shard, and a free lock goes to a waiter. Nothing is assumed of a single
  refresh: that none is passed over follows from `asyncio.Lock` waking its waiters
  in the order they came; without that order (`AcquireInAnyOrder`) one may starve.

The agent, the carrier and the remote parties are never assumed to do anything.

Five more runs check one sentence of the repository each, and TLC refutes it;
`PROJECT.json` quotes the sentence under `findings`.

| run | sentence | what happens |
| --- | --- | --- |
| `agreed_within_ceiling` | the engine cannot agree above the ceiling (`deals.py:224`) | it does, when the posted rate is above the ceiling; the booking gate then refuses a deal the carrier was told is done |
| `told_the_truth` | a repeated booking is not answered "someone else took that load" (`deals.py:193`) | it is, when the first one is still awaited |
| `booked_call_intact` | a failed re-check leaves a booked call intact (`verification.py:98`) | its outcome becomes `rejected_authority` |
| `identity_overlapping` | the MC is not swapped under a verified identity (`verification.py:38`) | it is, by a check that was in flight when the code was verified |
| `past_pickup` | a pickup earlier today has already gone (`board.py:72`) | a sweep later that day keeps the load: the code compares with midnight (`board.py:75`); two moments a day show it |

Every property of a passing run has a mutant in `PROJECT.json`: an operator whose
comment begins with "fault:" and which stands before the operator it would
replace. With it in place the property fails.

## The proofs

All theorems hold for every value of the constants that satisfies the named
assumptions of the modules:

- `PolicyAssumption`, `DeskAssumption`: at least one round, a buffer of 1 to 100
  percent, any auto-accept band; rates, ceilings and asks have their types.
- `GuardAssumption`: a protected figure is larger than a round count.
- `SessionAssumption`, `HolderAssumption`: the types of the bridge's constants,
  and "nobody", "a stranger" and "no negotiation" are told apart from the rest.
- `ClientAssumption`: a request is a read or a booking, at least one attempt, and
  finitely many requests, which is what makes the counters' sums mean anything.
- `LadderAssumption`, `BoardAssumption`, `SnapshotAssumption`: days and windows
  are naturals, a query brings at least one record, records name an equipment type
  and a pickup or none, the loop is
  not one of the scheduled refreshes, and no snapshot is "none".
- `DashboardAssumption`: finitely many sessions and loads.

No theorem bounds the number of calls, requests, carriers, loads, attempts or
retries.

**The rate desk** (`NegotiationTheorems`, `RateDeskProofs`). One inductive
invariant, `Sound` (`IInv` in `RateDesk`), gives the safety and action properties
of the desk. The properties alone are not inductive: that counters rise needs the
standing offer to be the last counter and to be within the cap, and that every
past round was a counter while the negotiation is open; `OpenStanding` says so.
`OpenedSound` is the initial case. `EvaluatedSound` is the step: one lemma for
each way `evaluate` can end (`AcceptedSound`, `RejectedSound`, `CounteredSound`,
`FailedOutrightSound`), over `CountedKeeps` for the breach counter,
`NextCounterBounds` for the arithmetic of the counter, and `WrittenOneMore` and
`BreachesOneMore` for what one more round does to the record. `Sound` speaks of a
record and not of a variable, so the same lemmas apply to every negotiation a
call holds.

**The guard** (`RateDeskProofs`). The guarded desk implements the rate desk
(`GuardOnlyWatches`), so every theorem about it holds behind the guard. From
`Sound`: a counter is under the ceiling, so a reply can only name the ceiling in
an agreement at it, and that number was asked before; a detail of a load posted at
its ceiling is withheld, and only a search says that rate (`CeilingKept`). An
agreement is at what was just asked, and a booking at what was agreed, which are
exempt, so no move and no booking is withheld (`MovesHeard`).

**The TMS client** (`TmsClientProofs`). `PInv` relates where a request is
(`Paced`) and where its booking is (`Standing`): before an answer, or with a
refusal on its way, the load is not the booking's own; with a confirmation on its
way it is; and only a booking that was called uncertain is still under way. From
it the client implements `BookingPromise` (`PromiseKept`): each way an attempt
settles is one thing the promise lets be told. `CountersAddUp` equates sums of
counters with sizes of sets of requests (`CountersAlwaysAddUp`): a step moves one
request, so it changes each of those sets by that request at most, and one
lemma about cardinalities turns this into the arithmetic of the counters; one
lemma per kind of step says which sets and which counters move.

**The bridge, whatever overlaps** (`CarrierBridgeProofs`). `BridgeKept` is one
inductive invariant: the types; per call, that stages come with the history they
stand for (`Gated`) and that each negotiation is `Sound`, within its load's
ceiling and agreed only at a named number (`DealsKept`); per booking, wherever it
is (suspended, orphaned, in the TMS), that it is within the ceiling at a named
number (`BookingKept`); per suspended request, that its call has proved a code
and that an answer "confirmed" means the TMS holds the booking; and that what was
confirmed is held. Strengthening is needed because the properties speak of calls
while the facts travel in requests: a booking is judged when it is suspended and
lands when the call may have moved on, so the request and the orphan must carry
the facts, over a history that only grows (`Grown`) and a TMS that takes nothing
back (`Firm`). `CallMoves`, `OneRequestMoves`, `RequestStarts` and `RequestEnds`
say what each kind of step leaves of it; one lemma per route uses them.

**The refinement** (`CarrierBridgeSells`). Every step of the bridge is a step of
`SalesCall` or a stutter (`BridgeSells`): one lemma per route names the step. The
only fact beyond `BridgeKept` is `Acquainted` (a number is only named on a call
that was shown freight), because `Name` also shows.

**What no step undoes** (`CarrierBridgeSteps`). `Onward` relates a call before and
after a step: the stage does not fall, a closed call stays closed, a burned code
stays, the ledger holds what the searches recorded. One lemma per route shows
that it holds of whatever that route does; stages, termination, burned codes and
the ledger follow, with `RecordsKept` as the invariant that a burned code has
ended its call. None of it needs the agent to wait.

The module ends with the safety half of `NoLostBooking` (`BookingsAreHeardOf`): a
load the TMS holds for a call is confirmed on it, or put up for a manual check,
or its confirmation has been given and waits for a suspended request
(`NoneUnheard`). That alone is not inductive, since a command the bridge gave up
on may still take the load: `DoubtsLogged` says that each such command was put
up for a check before. What is left to liveness is that the waiting request
resumes.

**What holds when the agent waits** (`CarrierBridgePatient`, assuming
`~Overlap`). `Patient` says that a call has one suspended request at most, that
what its gate saw still holds when it resumes (`Fits`: the carrier may still be
changed, the search is still the next one and new, the load has no negotiation
yet and is in the ledger), and that an open call speaks for a carrier its stage
vouches for (`Identified`). `PatientMoves` is the heart: a step of a call
disturbs nobody, since nobody else is suspended on it. That the identity is
intact, searches are counted and within their budget, rounds are kept and the
ledger is enforced are then read off one step (`Steady`). `Fits` is exactly what
is false once requests overlap: `identity_overlapping` is its first clause
failing.

Two results go beyond single calls and steps:

- *Each load has its own rate desk* (`EveryLoadHasItsDesk`). For every call and
  load, what the session stores is a behaviour of `RateDesk` opened at that load's
  posted rate and ceiling (`NegotiatedAtTheDesk`): every step leaves the
  negotiation alone or is one evaluated ask (`Haggles`), and the bridge's
  `Evaluated` is the desk's (`DeskEvaluates`). The rate desk's theorems are
  about every such behaviour. It needs the agent to wait, because a first price
  whose load is fetched twice would be opened twice, and the rounds of one of the
  two be forgotten.
- *The funnel narrows* (`FunnelAlwaysNarrows`), whatever sessions are left. The
  dashboard compares sizes of sets, so each inequality is an injection: a booked
  call maps to its booked load, which is agreed on that call and held for it
  alone. That a booked load is agreed is `Sealed` (`AlwaysSealed`): a booking is
  only sent for an agreed load, and an agreement stays one while it is awaited.

**The board** (`BoardIndexProofs`). About the ladder, for every finite or
infinite set of rows and every search (`LadderCorrect`): it hands over exactly
the loads that ask least of the carrier, so none only when no load of the wanted
equipment is there, and nothing that breaks a wish the answer does not admit to
have dropped, but for a pickup a few days off. The heart is
`ConcessionIsRung`: what a load asks of the carrier, defined without rungs, is
the first rung that reaches it, and from there on it is a hit. About the sweeps,
`BoardKept` is the inductive invariant: one sweep at a time; of each equipment
type whose shard answered, a refresh has seen every load, or as many as a query
brings at most (`Covered`); nothing seen is newer than the truth; and the
snapshot is no newer than any sweep under way. The last clause is the
strengthening: `SnapshotNeverGoesBack` speaks of two snapshots, but what the second
one says was read shard by shard while the first one stood, so each sweep must
carry that what it read is not older. It holds because the lock lets nobody
else install a snapshot meanwhile. `AlwaysNearestFirst` and `DeadEndsAreHonest`
apply the ladder to the snapshot. A dead end is only claimed when no load it
speaks of was left to offer, and each such load was looked at, with two exceptions
that are the code's and that `HonestDeadEnd` names. What a shard that came back
full left out was not looked at: 100 records that cannot be offered hide the one
that can (`board.py:166`). And a search that names no equipment takes a failed
shard for an empty one (`board.py:314`), although "an equipment type whose shard
failed must never be part of a there is nothing anywhere claim" (`board.py:158`).

Only model-checked, and out of the prover's reach: the three liveness properties
(`NoLostBooking`, whose safety half is proved, `EveryRequestEnds` and
`EveryRefreshEnds`), and the five runs whose sentence TLC refutes. All other
properties of the passing runs are theorems.

## What is not modelled, and the plan

Not modelled: text (guidance, notes, wire encoding), request validation,
authentication, logging, the audit sinks, start-up. Load normalisation is pure
parsing without state; `loads.py:157` gives up on a "2/29" that the current year
does not have, where its comment promises the next occurrence, which is listed
as a hazard. The session store's `create` and eviction are no actions (see the
abstractions), `start` only finds or creates a session. How `_evaluate` reads the
authority fields of an FMCSA record is a choice of the environment here.

Left of the plan:

1. The composition of `TmsClient` and `Deals`: bookings of the bridge as requests
   of the client, with a TMS that may send an error line for a booking it took.
2. The guard with figures that are not rates, and the FMCSA verdict as a function
   of the record.
