----------------------------- MODULE CallSession -----------------------------
(***************************************************************************)
(* The server-side state of the bridge: one CallSession per call           *)
(* (app/domain/sessions.py), the stage gate (app/api/deps.py), the         *)
(* requests that are suspended on an await, and the history the audit      *)
(* trail keeps.  Handlers run on one event loop, so everything between two *)
(* awaits is one step; a request that awaits a remote party is a record in *)
(* `request' that carries the handler's local variables.                   *)
(***************************************************************************)
EXTENDS Negotiation

CONSTANTS
    Calls,          \* call ids; their sessions exist from the start
    Requests,       \* slots for requests suspended on an await
    Loads,          \* load ids
    MCs,            \* normalised MC numbers
    Garbled,        \* an mc_number with no digits to look up
    Filters,        \* fingerprints of searches that have a wire filter
    Asks,           \* carrier_offer values
    PostedRate,     \* the RATE of each load
    MaxBuy,         \* the MAX_BUY of each load, NoRate if withheld
    MaxAttempts,    \* settings.otp_max_attempts
    MaxSearches,    \* settings.max_searches_per_call
    Overlap,        \* may a request start on a call that has one suspended?
    Stranger,       \* whoever books a load without this bridge
    None            \* Python's None for an id, a code, a negotiation

ASSUME SessionAssumption ==
    /\ Asks \subseteq Ask
    /\ PostedRate \in [Loads -> Rate]
    /\ MaxBuy \in [Loads -> Ceiling]
    /\ MaxAttempts \in Nat \ {0}
    /\ MaxSearches \in Nat \ {0}
    /\ Overlap \in BOOLEAN
    /\ Garbled \notin MCs
    /\ None \notin MCs \cup Loads \cup {Garbled}

VARIABLES
    session,        \* SessionStore._sessions: the state of each call
    request,        \* what each suspended request will resume with
    tms,            \* the system of record: who holds each load
    orphans,        \* LOAD_BOOK commands nobody waits for any more
    board,          \* is there a board snapshot?
    trail           \* what the audit trail has recorded on each call

vars == <<session, request, tms, orphans, board, trail>>

-----------------------------------------------------------------------------
(* Stage, an IntEnum: a session's stage only ever increases.               *)

STARTED == 0
AUTHORITY_VERIFIED == 10
OTP_SENT == 20
IDENTITY_VERIFIED == 30
LOAD_SELECTED == 40
RATE_AGREED == 50
BOOKED == 60
CLOSED == 70

Stage == {STARTED, AUTHORITY_VERIFIED, OTP_SENT, IDENTITY_VERIFIED,
          LOAD_SELECTED, RATE_AGREED, BOOKED, CLOSED}

Outcome == {"in_progress", "rejected_authority", "failed_identity", "no_loads",
            "failed_negotiation", "booked", "transferred", "abandoned"}

Mc == MCs \cup {Garbled, None}
OtpChallenge == [attempts : 0 .. MaxAttempts, verified : BOOLEAN, expired : BOOLEAN]
SearchAttempt == [number : Nat \ {0}, filter : Filters, loads : SUBSET Loads]
Booking == [call : Calls, load : Loads, mc : Mc, rate : Rate]

(* Whoever holds a load, and nobody, is told from a booking, and a missing *)
(* negotiation from one.                                                   *)
ASSUME HolderAssumption ==
    /\ None \notin Booking \cup NegotiationRecord
    /\ Stranger \notin Booking

(* booking_ref and booked_load_id are only ever set together: `booked' is  *)
(* the load the reference belongs to.                                      *)
CallRecord ==
    [stage : Stage, outcome : Outcome, terminated : BOOLEAN, mc : Mc,
     otp : OtpChallenge \cup {None}, selected : Loads \cup {None},
     negotiations : [Loads -> NegotiationRecord \cup {None}],
     offered : SUBSET Loads, searches : Seq(SearchAttempt),
     booked : Loads \cup {None}, agreed : Rate \cup {NoRate}, handed : BOOLEAN]

FreshCall ==
    [stage |-> STARTED, outcome |-> "in_progress", terminated |-> FALSE,
     mc |-> None, otp |-> None, selected |-> None,
     negotiations |-> [l \in Loads |-> None], offered |-> {}, searches |-> <<>>,
     booked |-> None, agreed |-> NoRate, handed |-> FALSE]

(* The suspended requests, by the call they await.                         *)
Free == [op |-> "free"]
VerifyRequest == [op : {"verify"}, call : Calls, mc : MCs]
SearchRequest == [op : {"search"}, call : Calls, filter : Filters,
                  used : Nat, snapshot : BOOLEAN]
DetailRequest == [op : {"detail"}, call : Calls, load : Loads]
NegotiateRequest == [op : {"negotiate"}, call : Calls, load : Loads, ask : Asks]
BookRequest == [op : {"book"}, call : Calls, load : Loads, mc : Mc, rate : Rate,
                reply : {"none", "confirmed", "already_booked", "rejected"}]

Request == {Free} \cup VerifyRequest \cup SearchRequest \cup DetailRequest
             \cup NegotiateRequest \cup BookRequest

(* Audit events, kept as sets: AUTHORITY_CHECKED with authorised=True,     *)
(* OTP_VERIFIED, NEGOTIATION_ROUND, BOOKING_CONFIRMED, BOOKING_UNCERTAIN.  *)
Trail == [cleared : SUBSET MCs, proven : SUBSET Mc,
          named : SUBSET (Loads \X Asks), confirmed : SUBSET Loads,
          uncertain : SUBSET Loads]

NothingLogged == [cleared |-> {}, proven |-> {}, named |-> {},
                  confirmed |-> {}, uncertain |-> {}]

-----------------------------------------------------------------------------
(* The two methods of CallSession that move it.                            *)

(* fault: the stage is assigned.                                           *)
SetStage(s, stage) == [s EXCEPT !.stage = stage]

AdvanceTo(s, stage) == IF stage > s.stage THEN [s EXCEPT !.stage = stage] ELSE s

(* fault: the flag is forgotten, only the stage is set.                    *)
TerminateByStage(s) == [s EXCEPT !.stage = CLOSED]

Terminate(s) == [s EXCEPT !.terminated = TRUE, !.stage = CLOSED]

(* fault: the ordering check alone.                                        *)
PassesByStage(s, minimum) == s.stage >= minimum

(* require_stage: a terminated call is refused however far it got.         *)
Passes(s, minimum) == ~s.terminated /\ s.stage >= minimum

(* The voice agent waits for an answer before its next tool call on the    *)
(* same call, unless the platform gives up on a slow webhook and it fires  *)
(* again: that is Overlap.                                                 *)
MayCall(c) ==
    ~Overlap => \A r \in Requests : request[r] # Free => request[r].call # c

Suspend(r, q) == request[r] = Free /\ request' = [request EXCEPT ![r] = q]
Resume(r) == request' = [request EXCEPT ![r] = Free]
Awaiting(r, op) == request[r].op = op

Becomes(c, s) == session' = [session EXCEPT ![c] = s]

-----------------------------------------------------------------------------
Init ==
    /\ session = [c \in Calls |-> FreshCall]
    /\ request = [r \in Requests |-> Free]
    /\ tms = [l \in Loads |-> None]
    /\ orphans = {}
    /\ board = FALSE
    /\ trail = [c \in Calls |-> NothingLogged]

(* Every variable holds a value the program can give it.                   *)
TypeOK ==
    /\ session \in [Calls -> CallRecord]
    /\ request \in [Requests -> Request]
    /\ tms \in [Loads -> Booking \cup {None, Stranger}]
    /\ orphans \subseteq Booking
    /\ board \in BOOLEAN
    /\ trail \in [Calls -> Trail]
=============================================================================
