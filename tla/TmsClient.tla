------------------------------- MODULE TmsClient -------------------------------
(***************************************************************************)
(* The TMS adapter (app/tms/client.py): one connection per attempt, reads  *)
(* retried within a budget, LOAD_BOOK sent once, every fault counted.  The *)
(* TMS and the network between are the environment: a command may be acted *)
(* on or not, now or after the client gave up, and its answer may be lost, *)
(* cut or garbled.                                                         *)
(***************************************************************************)
EXTENDS Integers, FiniteSets

CONSTANTS
    Reads,          \* LOAD_QUERY and LOAD_GET requests
    Books,          \* LOAD_BOOK requests
    Loads,          \* load ids
    LoadOf,         \* the load each booking request is for
    MaxRetries,     \* settings.tms_max_retries
    Stranger,       \* whoever books without this client
    None

ASSUME ClientAssumption ==
    /\ Reads \cap Books = {}
    /\ IsFiniteSet(Reads) /\ IsFiniteSet(Books)
    /\ LoadOf \in [Books -> Loads]
    /\ MaxRetries \in Nat \ {0}
    /\ None \notin Books \cup {Stranger}
    /\ Stranger \notin Books

VARIABLES
    request,        \* each call of _execute
    holder,         \* the system of record: whose booking each load is
    late,           \* bookings the client gave up on, and the TMS has yet to see
    stats           \* TmsCallStats

vars == <<request, holder, late, stats>>

Requests == Reads \cup Books

(* `transient' is an ERR line with a code outside DETERMINISTIC_CODES,     *)
(* `misparsed' one with a segment parse_record does not accept, `empty'    *)
(* END without a record.                                                   *)
Answer == {"none", "records", "empty", "refusal", "transient", "misparsed"}
Result == {"none", "records", "refused", "unavailable", "uncertain", "escaped"}
Fault == {"timeouts", "partials", "malformed", "transport_errors"}
Counter == Fault \cup {"attempts", "successes", "command_errors", "retries"}

Request == [phase : {"idle", "sent", "backoff", "done"}, attempt : 0 .. MaxRetries,
            answer : Answer, result : Result]

Unsent == [phase |-> "idle", attempt |-> 0, answer |-> "none", result |-> "none"]

Init ==
    /\ request = [x \in Requests |-> Unsent]
    /\ holder = [l \in Loads |-> None]
    /\ late = {}
    /\ stats = [n \in Counter |-> 0]

Counted(names) == [n \in Counter |-> IF n \in names THEN stats[n] + 1 ELSE stats[n]]
Waits(x) == request[x].phase = "sent"
Ends(x, result) ==
    request' = [request EXCEPT ![x].phase = "done", ![x].result = result]

-----------------------------------------------------------------------------
(* _execute, up to the await: the attempt is counted before it is made.    *)

Attempt(x) ==
    /\ request' = [request EXCEPT ![x].phase = "sent", ![x].attempt = @ + 1,
                                  ![x].answer = "none"]
    /\ stats' = Counted({"attempts"})
    /\ UNCHANGED <<holder, late>>

Start(x) == request[x].phase = "idle" /\ Attempt(x)

(* fault: a retry is not counted as an attempt.                            *)
RetryUncounted(x) ==
    /\ request[x].phase = "backoff"
    /\ request' = [request EXCEPT ![x].phase = "sent", ![x].attempt = @ + 1,
                                  ![x].answer = "none"]
    /\ UNCHANGED <<holder, late, stats>>

(* The backoff is over.                                                    *)
Retry(x) == request[x].phase = "backoff" /\ Attempt(x)

(* encode_request raises before the loop is entered: a delimiter or a      *)
(* letter outside ASCII in a field, or a frame that is too long.           *)
Unencodable(x) ==
    /\ request[x].phase = "idle"
    /\ Ends(x, "escaped")
    /\ UNCHANGED <<holder, late, stats>>

-----------------------------------------------------------------------------
(* The TMS acts on a command; its answer is on its way.                    *)

Answers(x, answer) ==
    /\ Waits(x)
    /\ request[x].answer = "none"
    /\ request' = [request EXCEPT ![x].answer = answer]
    /\ UNCHANGED <<late, stats>>

Grants(b) ==
    /\ holder[LoadOf[b]] = None
    /\ holder' = [holder EXCEPT ![LoadOf[b]] = b]

TmsReads(r) == \E answer \in Answer \ {"none"} : Answers(r, answer) /\ UNCHANGED holder

TmsBooks(b) ==
    \E answer \in {"records", "empty", "transient", "misparsed"} :
        Answers(b, answer) /\ Grants(b)

(* ALREADY_BOOKED, INVALID_RATE and the like, or a server error or an      *)
(* empty answer that wrote nothing.                                        *)
TmsDeclines(b) ==
    \E answer \in {"refusal", "empty", "transient", "misparsed"} :
        Answers(b, answer) /\ UNCHANGED holder

(* A command nobody waits for any more reaches the TMS after all.          *)
LateArrives(b) ==
    /\ b \in late
    /\ late' = late \ {b}
    /\ IF holder[LoadOf[b]] = None THEN Grants(b) ELSE UNCHANGED holder
    /\ UNCHANGED <<request, stats>>

StrangerBooks(l) ==
    /\ holder[l] = None
    /\ holder' = [holder EXCEPT ![l] = Stranger]
    /\ UNCHANGED <<request, late, stats>>

-----------------------------------------------------------------------------
(* The answer arrives whole: _decode, and book_load's look at the records. *)

Accepted(x) ==
    IF x \in Books /\ request[x].answer = "empty" THEN "uncertain" ELSE "records"

HearRecords(x) ==
    /\ Waits(x)
    /\ request[x].answer \in {"records", "empty"}
    /\ Ends(x, Accepted(x))
    /\ stats' = Counted({"successes"})
    /\ UNCHANGED <<holder, late>>

HearRefusal(x) ==
    /\ Waits(x)
    /\ request[x].answer = "refusal"
    /\ Ends(x, "refused")
    /\ stats' = Counted({"command_errors"})
    /\ UNCHANGED <<holder, late>>

(* parse_error raises ProtocolError, which _execute does not catch.        *)
HearMisparsed(x) ==
    /\ Waits(x)
    /\ request[x].answer = "misparsed"
    /\ Ends(x, "escaped")
    /\ UNCHANGED <<holder, late, stats>>

-----------------------------------------------------------------------------
(* TmsUnavailable: no answer in time, a cut or garbled one, a transport    *)
(* failure or an unrecognised code.  A cut answer is an answer.            *)

Suffers(x, fault) ==
    /\ Waits(x)
    /\ fault \in {"partials", "malformed"} => request[x].answer # "none"

(* fault: a booking is retried like a read.                                *)
RetryableAlways(x) == request[x].attempt < MaxRetries

(* fault: off by one in the budget.                                        *)
RetryableOnceMore(x) == x \in Reads /\ request[x].attempt <= MaxRetries

Retryable(x) == x \in Reads /\ request[x].attempt < MaxRetries

(* The command of a failed attempt may have been lost or be still under    *)
(* way; nothing tells the two apart.                                       *)
GoesAstray(x) ==
    late' \in IF x \in Books /\ request[x].answer = "none"
                THEN {late, late \cup {x}} ELSE {late}

BacksOff(x, fault) ==
    /\ Suffers(x, fault)
    /\ Retryable(x)
    /\ request' = [request EXCEPT ![x].phase = "backoff"]
    /\ stats' = Counted({fault, "retries"})
    /\ UNCHANGED <<holder, late>>

GivesUp(x, fault) ==
    /\ Suffers(x, fault)
    /\ ~Retryable(x)
    /\ Ends(x, IF x \in Books THEN "uncertain" ELSE "unavailable")
    /\ stats' = Counted({fault})
    /\ GoesAstray(x)
    /\ UNCHANGED holder

(* fault: a wait without a timeout: only an answer ends it.                *)
SettlesOnAnswer(x) == HearRecords(x) \/ HearRefusal(x) \/ HearMisparsed(x)

(* Every wait of _roundtrip is under a timeout, so an attempt ends.        *)
Settles(x) ==
    \/ HearRecords(x) \/ HearRefusal(x) \/ HearMisparsed(x)
    \/ \E fault \in Fault : BacksOff(x, fault) \/ GivesUp(x, fault)

-----------------------------------------------------------------------------
Next ==
    \/ \E x \in Requests : Start(x) \/ Unencodable(x) \/ Retry(x) \/ Settles(x)
    \/ \E r \in Reads : TmsReads(r)
    \/ \E b \in Books : TmsBooks(b) \/ TmsDeclines(b) \/ LateArrives(b)
    \/ \E l \in Loads : StrangerBooks(l)

Spec == Init /\ [][Next]_vars

(* A started attempt is under tms_timeout_seconds or                       *)
(* tms_query_timeout_seconds, and a backoff is a sleep of at most 2.1 s.   *)
FairSpec == Spec /\ \A x \in Requests : WF_vars(Settles(x)) /\ WF_vars(Retry(x))

-----------------------------------------------------------------------------
(* Every variable holds a value the program can give it.                   *)
TypeOK ==
    /\ request \in [Requests -> Request]
    /\ holder \in [Loads -> Books \cup {None, Stranger}]
    /\ late \subseteq Books
    /\ stats \in [Counter -> Nat]

InPhase(phase) == Cardinality({x \in Requests : request[x].phase = phase})
FaultsSeen ==
    stats["timeouts"] + stats["partials"] + stats["malformed"] + stats["transport_errors"]

(* Requests that were sent, as opposed to refused by encode_request.       *)
Sent == {x \in Requests : request[x].attempt > 0}
Misparsed == {x \in Sent : request[x].result = "escaped"}

(* The dashboard's fault rate means what it says: every attempt is in      *)
(* flight, or was counted once as a success, a command error or a fault,   *)
(* except the ones whose error line could not be parsed; and every attempt *)
(* but the first of a request is a counted retry.                          *)
CountersAddUp ==
    /\ stats["attempts"] = stats["successes"] + stats["command_errors"] + FaultsSeen
                             + InPhase("sent") + Cardinality(Misparsed)
    /\ stats["attempts"] + InPhase("backoff") = Cardinality(Sent) + stats["retries"]

(* What the client tells of each booking is what BookingPromise allows: a  *)
(* confirmation is true, a refused booking never lands, and one whose fate *)
(* is unknown is called uncertain.  An exception that escapes tells        *)
(* nothing, so such a booking stays pending.                               *)
Tale(result) ==
    CASE result \in {"none", "escaped"} -> "pending"
      [] result = "records" -> "confirmed"
      [] result = "refused" -> "refused"
      [] OTHER -> "uncertain"

Verdict == [b \in Books |-> Tale(request[b].result)]

Promise == INSTANCE BookingPromise WITH verdict <- Verdict
KeepsItsPromise == Promise!Spec

(* No caller waits for ever: each request that was started ends, whatever  *)
(* the TMS does.                                                           *)
EveryRequestEnds ==
    \A x \in Requests : request[x].phase = "sent" ~> request[x].phase = "done"
=============================================================================
