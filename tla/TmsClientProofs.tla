---------------------------- MODULE TmsClientProofs ----------------------------
(***************************************************************************)
(* The TMS client keeps its types and its promise to whoever books: for    *)
(* any number of requests, any budget, and whatever the TMS and the        *)
(* network do.                                                             *)
(***************************************************************************)
EXTENDS TmsClient, FiniteSetTheorems, TLAPS

(* The course of a request: within its budget, and told once.              *)
Paced(x) ==
    LET q == request[x] IN
    /\ q.phase = "idle" => q.attempt = 0 /\ q.answer = "none"
    /\ q.phase = "sent" => q.attempt > 0
    /\ q.phase = "backoff" => x \in Reads /\ q.attempt \in 1 .. MaxRetries - 1
    /\ q.phase # "done" => q.result = "none"

(* Where a booking stands: what the TMS answered is what the system of     *)
(* record holds, and only an uncertain one may still be under way.         *)
Lands(b) == holder[LoadOf[b]] = b

Standing(b) ==
    LET q == request[b] IN
    /\ q.phase # "done" /\ q.answer \in {"none", "refusal"} => ~Lands(b)
    /\ q.answer = "records" => Lands(b)
    /\ b \in late => q.phase = "done" /\ q.result = "uncertain"

PInv ==
    /\ TypeOK
    /\ \A x \in Requests : Paced(x)
    /\ \A b \in Books : Standing(b)

(* The fault counters stay natural numbers.                                *)
LEMMA CountedTyped ==
    ASSUME TypeOK, NEW names PROVE Counted(names) \in [Counter -> Nat]
BY DEF TypeOK, Counted

(* The initial state: nothing sent, nothing held.                          *)
LEMMA InitSound == Init => PInv
<1> SUFFICES ASSUME Init PROVE PInv
  OBVIOUS
<1>1. TypeOK
  BY ClientAssumption DEF Init, TypeOK, Request, Unsent, Answer, Result
<1>2. ASSUME NEW x \in Requests PROVE Paced(x)
  BY DEF Init, Unsent, Paced
<1>3. ASSUME NEW b \in Books PROVE Standing(b)
  BY ClientAssumption DEF Init, Unsent, Standing, Lands, Requests
<1> QED  BY <1>1, <1>2, <1>3 DEF PInv

(* A step that moves one request and leaves the bookings where they are.   *)
LEMMA RequestMoves ==
    ASSUME PInv, NEW x \in Requests, NEW q \in Request,
           request' = [request EXCEPT ![x] = q],
           stats' \in [Counter -> Nat], UNCHANGED holder,
           late' \in SUBSET Books, \A b \in Books \ {x} : b \in late' => b \in late,
           Paced(x)', x \in Books => Standing(x)'
    PROVE  PInv'
<1>1. request \in [Requests -> Request]
  BY DEF PInv, TypeOK
<1>2. request' \in [Requests -> Request] /\ \A y \in Requests \ {x} : request'[y] = request[y]
  BY <1>1
<1>3. TypeOK'
  BY <1>2 DEF PInv, TypeOK
<1>4. ASSUME NEW y \in Requests PROVE Paced(y)'
  BY <1>2, <1>4 DEF PInv, Paced
<1>5. ASSUME NEW b \in Books PROVE Standing(b)'
  BY <1>2, <1>5 DEF PInv, Standing, Lands, Requests
<1> QED  BY <1>3, <1>4, <1>5 DEF PInv

(* Each attempt is within the budget.                                      *)
LEMMA AttemptSound ==
    ASSUME PInv, NEW x \in Requests, Start(x) \/ Retry(x) PROVE PInv'
<1> DEFINE q == [request[x] EXCEPT !.phase = "sent", !.attempt = @ + 1, !.answer = "none"]
<1>1. Attempt(x) /\ request[x].phase \in {"idle", "backoff"}
  BY DEF Start, Retry
<1>2. request[x] \in Request /\ Paced(x) /\ (x \in Books => Standing(x)) /\ request \in [Requests -> Request]
  BY DEF PInv, TypeOK
<1>3. request[x].attempt + 1 \in 0 .. MaxRetries /\ request[x].attempt + 1 > 0
  BY <1>1, <1>2, ClientAssumption DEF Paced, Request
<1>4. q \in Request /\ q.phase = "sent" /\ q.attempt > 0 /\ q.answer = "none"
        /\ q.result = request[x].result
  BY <1>2, <1>3 DEF Request, Answer
<1>5. request' = [request EXCEPT ![x] = q]
  BY <1>1 DEF Attempt
<1> HIDE DEF q
<1>6. request'[x] = q
  BY <1>2, <1>5
<1>7. stats' \in [Counter -> Nat] /\ UNCHANGED <<holder, late>>
  BY <1>1, CountedTyped DEF Attempt, PInv
<1>8. Paced(x)'
  BY <1>1, <1>2, <1>4, <1>6 DEF Paced
<1>9. x \in Books => Standing(x)'
  BY <1>1, <1>2, <1>4, <1>6, <1>7, ClientAssumption DEF Paced, Standing, Lands
<1> QED  BY <1>2, <1>4, <1>5, <1>7, <1>8, <1>9, RequestMoves DEF PInv, TypeOK

(* A request that ends is told something for the first and only time.      *)
LEMMA EndSound ==
    ASSUME PInv, NEW x \in Requests, NEW result \in Result, result # "none",
           request[x].phase # "done", Ends(x, result),
           stats' \in [Counter -> Nat], UNCHANGED holder,
           \/ late' = late
           \/ late' = late \cup {x} /\ x \in Books /\ result = "uncertain"
    PROVE  PInv'
<1> DEFINE q == [request[x] EXCEPT !.phase = "done", !.result = result]
<1>1. request[x] \in Request /\ request \in [Requests -> Request]
      /\ (x \in Books => Standing(x)) /\ late \in SUBSET Books
  BY DEF PInv, TypeOK
<1>2. q \in Request /\ q.phase = "done" /\ q.result = result /\ q.answer = request[x].answer
  BY <1>1 DEF Request
<1>3. request' = [request EXCEPT ![x] = q]
  BY <1>1 DEF Ends
<1> HIDE DEF q
<1>4. request'[x] = q
  BY <1>1, <1>3
<1>5. Paced(x)'
  BY <1>2, <1>4 DEF Paced
<1>6. x \in Books => Standing(x)'
  BY <1>1, <1>2, <1>4 DEF Standing, Lands
<1>7. late' \in SUBSET Books /\ \A b \in Books \ {x} : b \in late' => b \in late
  BY <1>1
<1> QED  BY <1>2, <1>3, <1>5, <1>6, <1>7, RequestMoves

(* A command that cannot be encoded was never sent.                        *)
LEMMA UnencodableSound ==
    ASSUME PInv, NEW x \in Requests, Unencodable(x) PROVE PInv'
<1>1. "escaped" \in Result
  BY DEF Result
<1>2. request[x].phase # "done" /\ Ends(x, "escaped") /\ UNCHANGED <<holder, late, stats>>
  BY DEF Unencodable
<1>3. stats' \in [Counter -> Nat]
  BY <1>2 DEF PInv, TypeOK
<1> QED  BY <1>1, <1>2, <1>3, EndSound

(* However an attempt settles, what is told is what happened.              *)
LEMMA SettlesSound ==
    ASSUME PInv, NEW x \in Requests, Settles(x) PROVE PInv'
<1>1. late \in SUBSET Books /\ \A names : Counted(names) \in [Counter -> Nat]
  BY CountedTyped DEF PInv, TypeOK
<1>2. CASE HearRecords(x)
  <2>1. Accepted(x) \in Result /\ Accepted(x) # "none"
    BY DEF Accepted, Result
  <2>2. request[x].phase # "done" /\ Ends(x, Accepted(x)) /\ UNCHANGED <<holder, late>>
        /\ stats' \in [Counter -> Nat]
    BY <1>1, <1>2 DEF HearRecords, Waits
  <2> QED  BY <1>1, <2>1, <2>2, EndSound
<1>3. CASE HearRefusal(x)
  <2>1. "refused" \in Result
    BY DEF Result
  <2>2. request[x].phase # "done" /\ Ends(x, "refused") /\ UNCHANGED <<holder, late>>
        /\ stats' \in [Counter -> Nat]
    BY <1>1, <1>3 DEF HearRefusal, Waits
  <2> QED  BY <1>1, <2>1, <2>2, EndSound
<1>4. CASE HearMisparsed(x)
  <2>1. "escaped" \in Result
    BY DEF Result
  <2>2. request[x].phase # "done" /\ Ends(x, "escaped") /\ UNCHANGED <<holder, late>>
        /\ stats' \in [Counter -> Nat]
    BY <1>1, <1>4 DEF HearMisparsed, Waits, PInv, TypeOK
  <2> QED  BY <1>1, <2>1, <2>2, EndSound
<1>5. ASSUME NEW fault \in Fault, BacksOff(x, fault) PROVE PInv'
  <2> DEFINE q == [request[x] EXCEPT !.phase = "backoff"]
  <2>1. request[x] \in Request /\ request \in [Requests -> Request] /\ Paced(x)
    BY DEF PInv, TypeOK
  <2>2. request[x].phase = "sent" /\ x \in Reads /\ request[x].attempt < MaxRetries
    BY <1>5 DEF BacksOff, Suffers, Waits, Retryable
  <2>3. request[x].attempt \in 1 .. MaxRetries - 1
    BY <2>1, <2>2, ClientAssumption DEF Paced, Request
  <2>4. q \in Request /\ q.phase = "backoff" /\ q.attempt = request[x].attempt
          /\ q.result = request[x].result
    BY <2>1 DEF Request
  <2>5. request' = [request EXCEPT ![x] = q]
    BY <1>5, <2>1 DEF BacksOff
  <2> HIDE DEF q
  <2>6. request'[x] = q
    BY <2>1, <2>5
  <2>7. Paced(x)'
    BY <2>1, <2>2, <2>3, <2>4, <2>6 DEF Paced
  <2>8. x \notin Books
    BY <2>2, ClientAssumption
  <2>9. stats' \in [Counter -> Nat] /\ UNCHANGED <<holder, late>>
    BY <1>1, <1>5 DEF BacksOff
  <2> QED  BY <1>1, <2>4, <2>5, <2>7, <2>8, <2>9, RequestMoves
<1>6. ASSUME NEW fault \in Fault, GivesUp(x, fault) PROVE PInv'
  <2> DEFINE result == IF x \in Books THEN "uncertain" ELSE "unavailable"
  <2>1. result \in Result /\ result # "none" /\ (x \in Books => result = "uncertain")
    BY DEF Result
  <2>2. request[x].phase = "sent" /\ Ends(x, result) /\ UNCHANGED holder
        /\ stats' \in [Counter -> Nat]
    BY <1>1, <1>6 DEF GivesUp, Suffers, Waits
  <2>3. \/ late' = late
        \/ x \in Books /\ late' = late \cup {x}
    BY <1>6 DEF GivesUp, GoesAstray
  <2> HIDE DEF result
  <2> QED  BY <2>1, <2>2, <2>3, EndSound
<1> QED  BY <1>2, <1>3, <1>4, <1>5, <1>6 DEF Settles

(* What the TMS does with a command that waits for its answer.             *)
LEMMA AnswersSound ==
    ASSUME PInv, NEW x \in Requests, NEW answer \in Answer \ {"none"},
           Answers(x, answer), UNCHANGED holder,
           x \in Books => answer # "records"
    PROVE  PInv'
<1> DEFINE q == [request[x] EXCEPT !.answer = answer]
<1>1. request[x] \in Request /\ request \in [Requests -> Request] /\ Paced(x)
      /\ (x \in Books => Standing(x))
  BY DEF PInv, TypeOK
<1>2. q \in Request /\ q.answer = answer /\ q.phase = request[x].phase
        /\ q.result = request[x].result /\ q.attempt = request[x].attempt
  BY <1>1 DEF Request
<1>3. request' = [request EXCEPT ![x] = q] /\ request[x].phase = "sent"
        /\ request[x].answer = "none" /\ UNCHANGED <<late, stats>>
  BY <1>1 DEF Answers, Waits
<1> HIDE DEF q
<1>4. request'[x] = q
  BY <1>1, <1>3
<1>5. Paced(x)'
  BY <1>1, <1>2, <1>3, <1>4 DEF Paced
<1>6. x \in Books => Standing(x)'
  BY <1>1, <1>2, <1>3, <1>4 DEF Standing, Lands
<1> QED  BY <1>2, <1>3, <1>5, <1>6, RequestMoves DEF PInv, TypeOK

(* A load that was free is taken, by a booking or by a stranger: nobody    *)
(* else held it.                                                           *)
LEMMA TakenSound ==
    ASSUME PInv, NEW l \in Loads, NEW who \in Books \cup {Stranger},
           holder[l] = None, holder' = [holder EXCEPT ![l] = who],
           request' \in [Requests -> Request], stats' \in [Counter -> Nat],
           late' \in SUBSET late,
           \A x \in Requests : Paced(x)',
           \A b \in Books \ {who} : request'[b] = request[b],
           who \in Books => Standing(who)'
    PROVE  PInv'
<1>1. holder \in [Loads -> Books \cup {None, Stranger}] /\ late \in SUBSET Books
  BY DEF PInv, TypeOK
<1>2. TypeOK'
  BY <1>1 DEF TypeOK
<1>3. ASSUME NEW b \in Books, b # who PROVE Standing(b)'
  <2>1. LoadOf[b] \in Loads /\ b # None
    BY ClientAssumption
  <2>2. Lands(b)' <=> Lands(b)
    BY <1>1, <1>3, <2>1 DEF Lands
  <2> QED  BY <1>3, <2>2 DEF PInv, Standing
<1> QED  BY <1>2, <1>3 DEF PInv

(* The TMS commits a booking: its answer is on the way and the load its    *)
(* own, whatever the answer says.                                          *)
LEMMA BooksSound ==
    ASSUME PInv, NEW b \in Books, TmsBooks(b) PROVE PInv'
<1>1. PICK answer \in {"records", "empty", "transient", "misparsed"} :
        Answers(b, answer) /\ Grants(b)
  BY DEF TmsBooks
<1> DEFINE q == [request[b] EXCEPT !.answer = answer]
<1>2. /\ request[b] \in Request /\ request \in [Requests -> Request]
      /\ holder \in [Loads -> Books \cup {None, Stranger}]
      /\ LoadOf[b] \in Loads /\ b \in Requests
      /\ Standing(b) /\ \A x \in Requests : Paced(x)
  BY ClientAssumption DEF PInv, TypeOK, Requests
<1>3. q \in Request /\ q.answer = answer /\ q.phase = request[b].phase
        /\ q.result = request[b].result /\ q.attempt = request[b].attempt
  BY <1>2 DEF Request, Answer
<1>4. /\ request' = [request EXCEPT ![b] = q] /\ request[b].phase = "sent"
      /\ UNCHANGED <<late, stats>>
      /\ holder[LoadOf[b]] = None /\ holder' = [holder EXCEPT ![LoadOf[b]] = b]
  BY <1>1, <1>2 DEF Answers, Waits, Grants
<1> HIDE DEF q
<1>5. /\ request'[b] = q /\ request' \in [Requests -> Request]
      /\ \A x \in Requests \ {b} : request'[x] = request[x]
  BY <1>2, <1>3, <1>4
<1>6. ASSUME NEW x \in Requests PROVE Paced(x)'
  BY <1>2, <1>3, <1>4, <1>5, <1>6 DEF Paced
<1>7. Standing(b)'
  BY <1>1, <1>2, <1>3, <1>4, <1>5 DEF Standing, Lands
<1>8. stats' \in [Counter -> Nat] /\ late' \in SUBSET late
  BY <1>4 DEF PInv, TypeOK
<1>9. \A c \in Books \ {b} : request'[c] = request[c]
  BY <1>5 DEF Requests
<1> QED  BY <1>2, <1>4, <1>5, <1>6, <1>7, <1>8, <1>9, TakenSound

(* A booking that comes late was given up as uncertain, and stays so.      *)
LEMMA LateSound ==
    ASSUME PInv, NEW b \in Books, LateArrives(b) PROVE PInv'
<1>1. /\ request \in [Requests -> Request] /\ late \in SUBSET Books
      /\ holder \in [Loads -> Books \cup {None, Stranger}]
      /\ LoadOf[b] \in Loads /\ b \in Requests
      /\ Standing(b) /\ request[b].phase = "done" /\ request[b].result = "uncertain"
      /\ stats \in [Counter -> Nat]
  BY ClientAssumption DEF PInv, TypeOK, Requests, LateArrives, Standing
<1>2. late' = late \ {b} /\ UNCHANGED <<request, stats>>
  BY DEF LateArrives
<1>3. \A x \in Requests : Paced(x)'
  BY <1>2 DEF PInv, Paced
<1>4. CASE holder[LoadOf[b]] = None
  <2>1. holder' = [holder EXCEPT ![LoadOf[b]] = b]
    BY <1>4 DEF LateArrives, Grants
  <2>2. Standing(b)'
    BY <1>1, <1>2, <2>1 DEF Standing, Lands
  <2> QED  BY <1>1, <1>2, <1>3, <1>4, <2>1, <2>2, TakenSound
<1>5. CASE holder[LoadOf[b]] # None
  <2>1. UNCHANGED holder
    BY <1>5 DEF LateArrives
  <2>2. ASSUME NEW c \in Books PROVE Standing(c)'
    BY <1>2, <2>1 DEF PInv, Standing, Lands
  <2> QED  BY <1>1, <1>2, <1>3, <2>1, <2>2 DEF PInv, TypeOK
<1> QED  BY <1>4, <1>5

(* A stranger takes a free load, and no booking loses one.                 *)
LEMMA StrangerSound ==
    ASSUME PInv, NEW l \in Loads, StrangerBooks(l) PROVE PInv'
<1>1. /\ holder[l] = None /\ holder' = [holder EXCEPT ![l] = Stranger]
      /\ UNCHANGED <<request, late, stats>>
  BY DEF StrangerBooks
<1>2. request' \in [Requests -> Request] /\ stats' \in [Counter -> Nat]
  BY <1>1 DEF PInv, TypeOK
<1>3. \A x \in Requests : Paced(x)'
  BY <1>1 DEF PInv, Paced
<1> QED  BY <1>1, <1>2, <1>3, ClientAssumption, TakenSound

(* Every step keeps the invariant.                                         *)
LEMMA NextSound == PInv /\ [Next]_vars => PInv'
<1> SUFFICES ASSUME PInv, [Next]_vars PROVE PInv'
  OBVIOUS
<1>1. CASE UNCHANGED vars
  BY <1>1 DEF vars, PInv, TypeOK, Paced, Standing, Lands
<1>2. ASSUME NEW x \in Requests, Start(x) \/ Unencodable(x) \/ Retry(x) \/ Settles(x)
      PROVE  PInv'
  BY <1>2, AttemptSound, UnencodableSound, SettlesSound
<1>3. ASSUME NEW r \in Reads, TmsReads(r) PROVE PInv'
  <2>1. PICK answer \in Answer \ {"none"} : Answers(r, answer) /\ UNCHANGED holder
    BY <1>3 DEF TmsReads
  <2>2. r \in Requests /\ r \notin Books
    BY ClientAssumption DEF Requests
  <2> QED  BY <2>1, <2>2, AnswersSound
<1>4. ASSUME NEW b \in Books, TmsDeclines(b) PROVE PInv'
  <2>1. PICK answer \in {"refusal", "empty", "transient", "misparsed"} :
          Answers(b, answer) /\ UNCHANGED holder
    BY <1>4 DEF TmsDeclines
  <2>2. answer \in Answer /\ answer # "none" /\ answer # "records" /\ b \in Requests
    BY DEF Answer, Requests
  <2> QED  BY <2>1, <2>2, AnswersSound
<1> QED  BY <1>1, <1>2, <1>3, <1>4, BooksSound, LateSound, StrangerSound DEF Next

(* What the client holds of its requests, and the TMS of its loads, agrees *)
(* in every behaviour.                                                     *)
THEOREM InvAlways == Spec => []PInv
<1> QED  BY InitSound, NextSound, PTL DEF Spec

(* Every variable of the client stays within its type; in particular no    *)
(* request makes more attempts than its budget.                            *)
THEOREM TypeCorrect == Spec => []TypeOK
<1>1. PInv => TypeOK
  BY DEF PInv
<1> QED  BY <1>1, InvAlways, PTL

-----------------------------------------------------------------------------
(* What has been told of a booking changes when its request ends, and only *)
(* then.                                                                   *)
LEMMA VerdictStays ==
    ASSUME \A b \in Books : request'[b].result = request[b].result
    PROVE  Verdict' = Verdict
BY DEF Verdict

(* The end of a booking request tells that booking, and no other.          *)
LEMMA VerdictTold ==
    ASSUME TypeOK, NEW x \in Requests, NEW result, Ends(x, result)
    PROVE  /\ x \in Books => Verdict' = [Verdict EXCEPT ![x] = Tale(result)]
           /\ x \notin Books => Verdict' = Verdict
<1>1. request \in [Requests -> Request] /\ Books \subseteq Requests
  BY DEF TypeOK, Requests
<1>2. request[x] \in Request
  BY <1>1
<1>3. request'[x].result = result /\ \A y \in Requests \ {x} : request'[y] = request[y]
  BY <1>1, <1>2 DEF Ends, Request
<1> HIDE DEF Tale
<1>4. CASE x \in Books
  <2>1. \A b \in Books : Tale(request'[b].result)
                           = IF b = x THEN Tale(result) ELSE Tale(request[b].result)
    BY <1>1, <1>3
  <2> QED  BY <1>4, <2>1 DEF Verdict
<1>5. CASE x \notin Books
  BY <1>1, <1>3, <1>5, VerdictStays
<1> QED  BY <1>4, <1>5

(* A booking is pending until its request ends.                            *)
LEMMA PendingWhileOpen ==
    ASSUME PInv, NEW b \in Books, request[b].phase # "done"
    PROVE  Verdict[b] = "pending"
BY DEF PInv, Paced, Requests, Verdict, Tale

(* However a request ends, what is told of a booking is what BookingPromise*)
(* lets it be told, and a read tells nothing.                              *)
LEMMA EndKeepsPromise ==
    ASSUME PInv, NEW x \in Requests, NEW result, Ends(x, result),
           request[x].phase # "done", UNCHANGED holder,
           x \in Books => \/ result = "escaped" \/ result = "uncertain"
                          \/ result = "records" /\ Lands(x)
                          \/ result = "refused" /\ ~Lands(x)
    PROVE  [Promise!Next]_(Promise!vars)
<1>1. CASE x \notin Books
  BY <1>1, VerdictTold DEF PInv, Promise!vars
<1>2. CASE x \in Books
  <2>1. Verdict[x] = "pending" /\ Verdict' = [Verdict EXCEPT ![x] = Tale(result)]
    BY <1>2, PendingWhileOpen, VerdictTold DEF PInv
  <2>2. CASE result = "escaped"
    <3>1. Tale(result) = "pending"
      BY <2>2 DEF Tale
    <3>2. Verdict' = Verdict
      BY <2>1, <3>1 DEF Verdict
    <3> QED  BY <3>2 DEF Promise!vars
  <2>3. CASE result = "uncertain"
    <3>1. Promise!Doubt(x)
      BY <2>1, <2>3 DEF Promise!Doubt, Promise!Tells, Tale
    <3> QED  BY <1>2, <3>1 DEF Promise!Next
  <2>4. CASE result = "records" /\ Lands(x)
    <3>1. Promise!Confirm(x)
      BY <2>1, <2>4 DEF Promise!Confirm, Promise!Tells, Promise!Holds, Tale, Lands
    <3> QED  BY <1>2, <3>1 DEF Promise!Next
  <2>5. CASE result = "refused" /\ ~Lands(x)
    <3>1. Promise!Refuse(x)
      BY <2>1, <2>5 DEF Promise!Refuse, Promise!Tells, Promise!Holds, Tale, Lands
    <3> QED  BY <1>2, <3>1 DEF Promise!Next
  <2> QED  BY <1>2, <2>2, <2>3, <2>4, <2>5
<1> QED  BY <1>1, <1>2

(* However an attempt settles, its booking is told what the promise        *)
(* allows, if anything.                                                    *)
LEMMA SettlesKeepsPromise ==
    ASSUME PInv, NEW x \in Requests, Settles(x) PROVE [Promise!Next]_(Promise!vars)
<1>1. x \in Books => Standing(x)
  BY DEF PInv
<1>2. CASE HearRecords(x)
  <2>1. Ends(x, Accepted(x)) /\ request[x].phase # "done" /\ UNCHANGED holder
    BY <1>2 DEF HearRecords, Waits
  <2>2. x \in Books => \/ Accepted(x) = "uncertain"
                       \/ Accepted(x) = "records" /\ Lands(x)
    BY <1>1, <1>2 DEF HearRecords, Accepted, Standing
  <2> QED  BY <2>1, <2>2, EndKeepsPromise
<1>3. CASE HearRefusal(x)
  <2>1. Ends(x, "refused") /\ request[x].phase # "done" /\ UNCHANGED holder
    BY <1>3 DEF HearRefusal, Waits
  <2>2. x \in Books => ~Lands(x)
    BY <1>1, <1>3 DEF HearRefusal, Waits, Standing
  <2> QED  BY <2>1, <2>2, EndKeepsPromise
<1>4. CASE HearMisparsed(x)
  <2>1. Ends(x, "escaped") /\ request[x].phase # "done" /\ UNCHANGED holder
    BY <1>4 DEF HearMisparsed, Waits
  <2> QED  BY <2>1, EndKeepsPromise
<1>5. ASSUME NEW fault \in Fault, BacksOff(x, fault) PROVE [Promise!Next]_(Promise!vars)
  <2>1. request \in [Requests -> Request] /\ x \notin Books /\ UNCHANGED holder
        /\ request' = [request EXCEPT ![x].phase = "backoff"]
    BY <1>5, ClientAssumption DEF BacksOff, Retryable, PInv, TypeOK
  <2>2. \A b \in Books : request'[b].result = request[b].result
    BY <2>1 DEF Requests
  <2> QED  BY <2>1, <2>2, VerdictStays DEF Promise!vars
<1>6. ASSUME NEW fault \in Fault, GivesUp(x, fault) PROVE [Promise!Next]_(Promise!vars)
  <2> DEFINE result == IF x \in Books THEN "uncertain" ELSE "unavailable"
  <2>1. Ends(x, result) /\ request[x].phase # "done" /\ UNCHANGED holder
    BY <1>6 DEF GivesUp, Suffers, Waits
  <2>2. x \in Books => result = "uncertain"
    OBVIOUS
  <2> HIDE DEF result
  <2> QED  BY <2>1, <2>2, EndKeepsPromise
<1> QED  BY <1>2, <1>3, <1>4, <1>5, <1>6 DEF Settles

(* A command that is sent, or answered, tells its caller nothing yet.      *)
LEMMA NothingTold ==
    ASSUME PInv, NEW x \in Requests, Attempt(x) \/ \E a \in Answer : Answers(x, a)
    PROVE  Verdict' = Verdict
<1>1. request \in [Requests -> Request] /\ request[x] \in Request /\ Books \subseteq Requests
  BY DEF PInv, TypeOK, Requests
<1>2. \A y \in Requests : request'[y].result = request[y].result
  BY <1>1 DEF Attempt, Answers, Request
<1> QED  BY <1>1, <1>2, VerdictStays

(* The client implements BookingPromise: every step of it is a step of the *)
(* promise, or one the caller and the system of record do not notice.      *)
THEOREM PromiseKept == Spec => KeepsItsPromise
<1>1. Init => Promise!Init
  <2> SUFFICES ASSUME Init PROVE Promise!Init
    OBVIOUS
  <2>1. \A b \in Books : Tale(request[b].result) = "pending"
    BY DEF Init, Unsent, Requests, Tale
  <2> QED  BY <2>1 DEF Init, Promise!Init, Verdict
<1>2. ASSUME PInv, [Next]_vars PROVE [Promise!Next]_(Promise!vars)
  <2>1. CASE UNCHANGED vars
    BY <2>1 DEF vars, Promise!vars, Verdict
  <2>2. ASSUME NEW x \in Requests, Start(x) \/ Retry(x) PROVE [Promise!Next]_(Promise!vars)
    BY <1>2, <2>2, NothingTold DEF Start, Retry, Attempt, Promise!vars
  <2>3. ASSUME NEW x \in Requests, Unencodable(x) PROVE [Promise!Next]_(Promise!vars)
    <3>1. Ends(x, "escaped") /\ request[x].phase # "done" /\ UNCHANGED holder
      BY <2>3 DEF Unencodable
    <3> QED  BY <1>2, <3>1, EndKeepsPromise
  <2>4. ASSUME NEW r \in Reads, TmsReads(r) PROVE [Promise!Next]_(Promise!vars)
    BY <1>2, <2>4, NothingTold DEF TmsReads, Requests, Promise!vars
  <2>5. ASSUME NEW b \in Books, TmsDeclines(b) PROVE [Promise!Next]_(Promise!vars)
    <3>1. UNCHANGED holder /\ \E a \in Answer : Answers(b, a)
      BY <2>5 DEF TmsDeclines, Answer
    <3> QED  BY <1>2, <3>1, NothingTold DEF Requests, Promise!vars
  <2>6. ASSUME NEW b \in Books, TmsBooks(b) PROVE [Promise!Next]_(Promise!vars)
    <3>1. Grants(b) /\ request[b].phase = "sent" /\ \E a \in Answer : Answers(b, a)
      BY <2>6 DEF TmsBooks, Answer, Answers, Waits
    <3>2. Verdict' = Verdict /\ Verdict[b] = "pending"
      BY <1>2, <3>1, NothingTold, PendingWhileOpen DEF Requests
    <3>3. Promise!Commit(b)
      BY <3>1, <3>2 DEF Promise!Commit, Promise!Takes, Grants
    <3> QED  BY <3>3 DEF Promise!Next
  <2>7. ASSUME NEW b \in Books, LateArrives(b) PROVE [Promise!Next]_(Promise!vars)
    <3>1. UNCHANGED request /\ Verdict' = Verdict
      BY <2>7, VerdictStays DEF LateArrives
    <3>2. Verdict[b] = "uncertain"
      BY <1>2, <2>7 DEF LateArrives, PInv, Standing, Verdict, Tale
    <3>3. CASE holder[LoadOf[b]] = None
      <4>1. Promise!Commit(b)
        BY <2>7, <3>1, <3>2, <3>3 DEF LateArrives, Grants, Promise!Commit, Promise!Takes
      <4> QED  BY <4>1 DEF Promise!Next
    <3>4. CASE holder[LoadOf[b]] # None
      BY <2>7, <3>1, <3>4 DEF LateArrives, Promise!vars
    <3> QED  BY <3>3, <3>4
  <2>8. ASSUME NEW l \in Loads, StrangerBooks(l) PROVE [Promise!Next]_(Promise!vars)
    <3>1. Verdict' = Verdict
      BY <2>8, VerdictStays DEF StrangerBooks
    <3>2. Promise!Lose(l)
      BY <2>8, <3>1 DEF StrangerBooks, Promise!Lose, Promise!Takes
    <3> QED  BY <3>2 DEF Promise!Next
  <2> QED  BY <1>2, <2>1, <2>2, <2>3, <2>4, <2>5, <2>6, <2>7, <2>8,
            SettlesKeepsPromise DEF Next
<1> QED  BY <1>1, <1>2, InvAlways, PTL DEF Spec, Promise!Spec, KeepsItsPromise

-----------------------------------------------------------------------------
(* The counters.                                                           *)

One(b) == IF b THEN 1 ELSE 0

(* Two sets that differ in one element at most differ by one at most.      *)
LEMMA OneApart ==
    ASSUME NEW S, NEW T, NEW x, IsFiniteSet(S), S \ {x} = T \ {x}
    PROVE  /\ IsFiniteSet(T)
           /\ Cardinality(S) \in Nat /\ Cardinality(T) \in Nat
           /\ Cardinality(T) + One(x \in S) = Cardinality(S) + One(x \in T)
<1> DEFINE R == S \ {x}
<1>1. IsFiniteSet(R) /\ Cardinality(R) \in Nat
      /\ Cardinality(S) = Cardinality(R) + One(x \in S)
  <2>1. CASE x \in S
    <3>1. IsFiniteSet(R) /\ Cardinality(R) = Cardinality(S) - 1
      BY <2>1, FS_RemoveElement
    <3> QED  BY <2>1, <3>1, FS_CardinalityType DEF One
  <2>2. CASE x \notin S
    <3>1. R = S
      BY <2>2
    <3>2. IsFiniteSet(S) /\ Cardinality(S) \in Nat
      BY FS_CardinalityType
    <3>3. One(x \in S) = 0
      BY <2>2 DEF One
    <3> HIDE DEF R
    <3> QED  BY <3>1, <3>2, <3>3
  <2> QED  BY <2>1, <2>2
<1>2. IsFiniteSet(T) /\ Cardinality(T) = Cardinality(R) + One(x \in T)
  <2>1. x \notin R /\ R = T \ {x}
    OBVIOUS
  <2>2. CASE x \in T
    <3>1. T = R \cup {x}
      BY <2>1, <2>2
    <3>2. IsFiniteSet(R \cup {x}) /\ Cardinality(R \cup {x}) = Cardinality(R) + 1
      BY <1>1, <2>1, FS_AddElement
    <3> QED  BY <2>2, <3>1, <3>2 DEF One
  <2>3. CASE x \notin T
    <3>1. T = R
      BY <2>1, <2>3
    <3> QED  BY <1>1, <2>3, <3>1 DEF One
  <2> QED  BY <2>2, <2>3
<1> HIDE DEF R
<1>3. One(x \in S) \in Nat /\ One(x \in T) \in Nat
  BY DEF One
<1> QED  BY <1>1, <1>2, <1>3

(* A counter goes up by one exactly when it is named.                      *)
LEMMA CountedAt ==
    ASSUME NEW names, NEW n \in Counter
    PROVE  Counted(names)[n] = IF n \in names THEN stats[n] + 1 ELSE stats[n]
BY DEF Counted

(* The requests in a phase.                                                *)
At(phase) == {x \in Requests : request[x].phase = phase}

(* The tallies change as one request that was `old' and is now `new' does. *)
Shifts(old, new) ==
    /\ InPhase("sent") \in Nat /\ InPhase("backoff") \in Nat
    /\ Cardinality(Sent) \in Nat /\ Cardinality(Misparsed) \in Nat
    /\ InPhase("sent")' \in Nat /\ InPhase("backoff")' \in Nat
    /\ Cardinality(Sent)' \in Nat /\ Cardinality(Misparsed)' \in Nat
    /\ InPhase("sent")' + One(old.phase = "sent")
         = InPhase("sent") + One(new.phase = "sent")
    /\ InPhase("backoff")' + One(old.phase = "backoff")
         = InPhase("backoff") + One(new.phase = "backoff")
    /\ Cardinality(Sent)' + One(old.attempt > 0)
         = Cardinality(Sent) + One(new.attempt > 0)
    /\ Cardinality(Misparsed)' + One(old.attempt > 0 /\ old.result = "escaped")
         = Cardinality(Misparsed) + One(new.attempt > 0 /\ new.result = "escaped")

(* How the requests are counted when one of them moves.                    *)
LEMMA TalliesMove ==
    ASSUME PInv, NEW x \in Requests, NEW q, request' = [request EXCEPT ![x] = q]
    PROVE  Shifts(request[x], q)
<1>1. request \in [Requests -> Request]
  BY DEF PInv, TypeOK
<1>2. request'[x] = q /\ \A y \in Requests \ {x} : request'[y] = request[y]
  BY <1>1
<1>3. IsFiniteSet(Requests)
  BY ClientAssumption, FS_Union DEF Requests
<1>4. ASSUME NEW phase
      PROVE  /\ InPhase(phase) \in Nat /\ InPhase(phase)' \in Nat
             /\ InPhase(phase)' + One(request[x].phase = phase)
                  = InPhase(phase) + One(q.phase = phase)
  <2>1. IsFiniteSet(At(phase))
    BY <1>3, FS_Subset DEF At
  <2>2. At(phase) \ {x} = At(phase)' \ {x}
    BY <1>2 DEF At
  <2>3. (x \in At(phase) <=> request[x].phase = phase)
        /\ (x \in At(phase)' <=> q.phase = phase)
    BY <1>2 DEF At
  <2>4. InPhase(phase) = Cardinality(At(phase))
        /\ InPhase(phase)' = Cardinality(At(phase)')
    BY DEF InPhase, At
  <2> QED  BY <2>1, <2>2, <2>3, <2>4, OneApart DEF One
<1>5. /\ Cardinality(Sent) \in Nat /\ Cardinality(Sent)' \in Nat
      /\ Cardinality(Sent)' + One(request[x].attempt > 0)
           = Cardinality(Sent) + One(q.attempt > 0)
  <2>1. IsFiniteSet(Sent)
    BY <1>3, FS_Subset DEF Sent
  <2>2. Sent \ {x} = Sent' \ {x}
    BY <1>2 DEF Sent
  <2>3. (x \in Sent <=> request[x].attempt > 0) /\ (x \in Sent' <=> q.attempt > 0)
    BY <1>2 DEF Sent
  <2> QED  BY <2>1, <2>2, <2>3, OneApart DEF One
<1>6. /\ Cardinality(Misparsed) \in Nat /\ Cardinality(Misparsed)' \in Nat
      /\ Cardinality(Misparsed)'
             + One(request[x].attempt > 0 /\ request[x].result = "escaped")
           = Cardinality(Misparsed) + One(q.attempt > 0 /\ q.result = "escaped")
  <2>1. IsFiniteSet(Misparsed)
    BY <1>3, FS_Subset DEF Sent, Misparsed
  <2>2. Misparsed \ {x} = Misparsed' \ {x}
    BY <1>2 DEF Sent, Misparsed
  <2>3. (x \in Misparsed <=> request[x].attempt > 0 /\ request[x].result = "escaped")
        /\ (x \in Misparsed' <=> q.attempt > 0 /\ q.result = "escaped")
    BY <1>2 DEF Sent, Misparsed
  <2> QED  BY <2>1, <2>2, <2>3, OneApart DEF One
<1> QED  BY <1>4, <1>5, <1>6 DEF Shifts

(* An attempt is counted when it is made, and as a retry when its backoff  *)
(* began.                                                                  *)
LEMMA AttemptAdds ==
    ASSUME PInv, CountersAddUp, NEW x \in Requests, Start(x) \/ Retry(x)
    PROVE  CountersAddUp'
<1> DEFINE q == [request[x] EXCEPT !.phase = "sent", !.attempt = @ + 1, !.answer = "none"]
<1>1. request[x] \in Request /\ Paced(x) /\ stats \in [Counter -> Nat]
      /\ request \in [Requests -> Request]
  BY DEF PInv, TypeOK
<1>2. q.phase = "sent" /\ q.attempt = request[x].attempt + 1 /\ q.result = request[x].result
  BY <1>1 DEF Request
<1>3. request' = [request EXCEPT ![x] = q] /\ stats' = Counted({"attempts"})
  BY <1>1 DEF Start, Retry, Attempt
<1> HIDE DEF q
<1>4. request[x].attempt \in Nat /\ q.attempt > 0 /\ q.result = "none"
      /\ request[x].result = "none"
      /\ \/ request[x].phase = "idle" /\ request[x].attempt = 0
         \/ request[x].phase = "backoff" /\ request[x].attempt > 0
  BY <1>1, <1>2, ClientAssumption DEF Start, Retry, Paced, Request
<1>5. stats'["attempts"] = stats["attempts"] + 1
      /\ \A n \in Counter \ {"attempts"} : stats'[n] = stats[n]
  BY <1>3, CountedAt DEF Counter
<1>6. InPhase("sent")' = InPhase("sent") + 1
      /\ Cardinality(Misparsed)' = Cardinality(Misparsed)
      /\ InPhase("backoff")' + Cardinality(Sent) + 1
           = InPhase("backoff") + Cardinality(Sent)'
      /\ InPhase("backoff") \in Nat /\ InPhase("backoff")' \in Nat
      /\ Cardinality(Sent) \in Nat /\ Cardinality(Sent)' \in Nat
      /\ InPhase("sent") \in Nat /\ Cardinality(Misparsed) \in Nat
  <2>1. Shifts(request[x], q)
    BY <1>3, TalliesMove
  <2> QED  BY <1>2, <1>3, <1>4, <2>1 DEF Shifts, One
<1> QED  BY <1>1, <1>5, <1>6 DEF CountersAddUp, FaultsSeen, Counter, Fault

(* An attempt that ends is counted as what it was.                         *)
LEMMA EndAdds ==
    ASSUME PInv, CountersAddUp, NEW x \in Requests, Waits(x),
           NEW result, Ends(x, result),
           \/ result = "escaped" /\ UNCHANGED stats
           \/ /\ result # "escaped"
              /\ \E n \in Fault \cup {"successes", "command_errors"} :
                    stats' = Counted({n})
    PROVE  CountersAddUp'
<1> DEFINE q == [request[x] EXCEPT !.phase = "done", !.result = result]
<1>1. request[x] \in Request /\ Paced(x) /\ stats \in [Counter -> Nat]
      /\ request \in [Requests -> Request] /\ request[x].phase = "sent"
  BY DEF PInv, TypeOK, Waits
<1>2. q.phase = "done" /\ q.attempt = request[x].attempt /\ q.result = result
  BY <1>1 DEF Request
<1>3. request' = [request EXCEPT ![x] = q]
  BY <1>1 DEF Ends
<1> HIDE DEF q
<1>4. request[x].attempt > 0 /\ request[x].result = "none"
  BY <1>1 DEF Paced
<1>5. InPhase("sent")' + 1 = InPhase("sent")
      /\ Cardinality(Misparsed)' = Cardinality(Misparsed) + One(result = "escaped")
      /\ InPhase("backoff")' = InPhase("backoff") /\ Cardinality(Sent)' = Cardinality(Sent)
      /\ InPhase("backoff") \in Nat /\ Cardinality(Sent) \in Nat
      /\ InPhase("sent")' \in Nat /\ Cardinality(Misparsed) \in Nat
  <2>1. Shifts(request[x], q)
    BY <1>3, TalliesMove
  <2> QED  BY <1>1, <1>2, <1>3, <1>4, <2>1 DEF Shifts, One
<1>6. CASE result = "escaped" /\ UNCHANGED stats
  BY <1>1, <1>5, <1>6 DEF CountersAddUp, FaultsSeen, Counter, Fault, One
<1>7. ASSUME result # "escaped", NEW n \in Fault \cup {"successes", "command_errors"},
             stats' = Counted({n})
      PROVE  CountersAddUp'
  <2>1. stats'[n] = stats[n] + 1 /\ \A m \in Counter \ {n} : stats'[m] = stats[m]
    BY <1>7, CountedAt DEF Counter, Fault
  <2>2. FaultsSeen \in Nat /\ FaultsSeen' \in Nat
        /\ \A m \in Counter : stats[m] \in Nat /\ stats'[m] \in Nat
    BY <1>1, <1>7, <2>1 DEF FaultsSeen, Counter, Fault
  <2>3. FaultsSeen' + stats'["successes"] + stats'["command_errors"]
          = FaultsSeen + stats["successes"] + stats["command_errors"] + 1
        /\ stats'["attempts"] = stats["attempts"] /\ stats'["retries"] = stats["retries"]
    <3>1. CASE n \in Fault
      <4>1. FaultsSeen' = FaultsSeen + 1
        BY <1>1, <2>1, <3>1 DEF FaultsSeen, Counter, Fault
      <4> QED  BY <1>1, <2>1, <2>2, <3>1, <4>1 DEF Counter, Fault
    <3>2. CASE n \notin Fault
      <4>1. FaultsSeen' = FaultsSeen
        BY <2>1, <3>2 DEF FaultsSeen, Counter, Fault
      <4>2. /\ stats'["attempts"] = stats["attempts"]
            /\ stats'["retries"] = stats["retries"]
            /\ stats'["successes"] + stats'["command_errors"]
                 = stats["successes"] + stats["command_errors"] + 1
        <5>1. n = "successes" \/ n = "command_errors"
          BY <1>7, <3>2
        <5> QED  BY <2>1, <2>2, <5>1 DEF Counter, Fault
      <4>3. /\ stats["successes"] \in Nat /\ stats["command_errors"] \in Nat
            /\ stats'["successes"] \in Nat /\ stats'["command_errors"] \in Nat
        BY <2>2 DEF Counter
      <4> QED  BY <2>2, <4>1, <4>2, <4>3
    <3> QED  BY <3>1, <3>2
  <2> QED  BY <1>5, <1>7, <2>2, <2>3 DEF CountersAddUp, Counter, One
<1> QED  BY <1>6, <1>7

(* A fault that is followed by another attempt is a fault and a retry.     *)
LEMMA BackoffAdds ==
    ASSUME PInv, CountersAddUp, NEW x \in Requests, NEW fault \in Fault, BacksOff(x, fault)
    PROVE  CountersAddUp'
<1> DEFINE q == [request[x] EXCEPT !.phase = "backoff"]
<1>1. request[x] \in Request /\ Paced(x) /\ stats \in [Counter -> Nat]
      /\ request \in [Requests -> Request] /\ request[x].phase = "sent"
  BY DEF PInv, TypeOK, BacksOff, Suffers, Waits
<1>2. q.phase = "backoff" /\ q.attempt = request[x].attempt /\ q.result = request[x].result
  BY <1>1 DEF Request
<1>3. request' = [request EXCEPT ![x] = q] /\ stats' = Counted({fault, "retries"})
  BY <1>1 DEF BacksOff
<1> HIDE DEF q
<1>4. request[x].attempt > 0 /\ request[x].result = "none"
  BY <1>1 DEF Paced
<1>5. InPhase("sent")' + 1 = InPhase("sent")
      /\ Cardinality(Misparsed)' = Cardinality(Misparsed)
      /\ InPhase("backoff")' = InPhase("backoff") + 1
      /\ Cardinality(Sent)' = Cardinality(Sent)
      /\ InPhase("backoff") \in Nat /\ Cardinality(Sent) \in Nat
      /\ InPhase("sent")' \in Nat /\ Cardinality(Misparsed) \in Nat
  <2>1. Shifts(request[x], q)
    BY <1>3, TalliesMove
  <2> QED  BY <1>1, <1>2, <1>3, <1>4, <2>1 DEF Shifts, One
<1>6. stats'[fault] = stats[fault] + 1 /\ stats'["retries"] = stats["retries"] + 1
      /\ \A m \in Counter \ {fault, "retries"} : stats'[m] = stats[m]
  BY <1>3, CountedAt DEF Counter, Fault
<1>7. FaultsSeen' = FaultsSeen + 1
  BY <1>1, <1>6 DEF FaultsSeen, Counter, Fault
<1>8. FaultsSeen \in Nat /\ \A m \in Counter : stats[m] \in Nat
  BY <1>1 DEF FaultsSeen, Counter, Fault
<1>9. stats'["attempts"] = stats["attempts"] /\ stats'["successes"] = stats["successes"]
      /\ stats'["command_errors"] = stats["command_errors"]
  BY <1>6 DEF Counter, Fault
<1> QED  BY <1>5, <1>6, <1>7, <1>8, <1>9 DEF CountersAddUp, Counter

(* Nothing is counted where no request changes its phase or its result.    *)
LEMMA NothingAdds ==
    ASSUME CountersAddUp, UNCHANGED stats,
           \A y \in Requests : /\ request'[y].phase = request[y].phase
                               /\ request'[y].attempt = request[y].attempt
                               /\ request'[y].result = request[y].result
    PROVE  CountersAddUp'
<1>1. \A phase : InPhase(phase)' = InPhase(phase)
  <2> SUFFICES ASSUME NEW phase PROVE InPhase(phase)' = InPhase(phase)
    OBVIOUS
  <2>1. At(phase)' = At(phase)
    BY DEF At
  <2> QED  BY <2>1 DEF InPhase, At
<1>2. Sent' = Sent /\ Misparsed' = Misparsed
  BY DEF Sent, Misparsed
<1> QED  BY <1>1, <1>2 DEF CountersAddUp, FaultsSeen

(* An answer on its way moves no counter.                                  *)
LEMMA AnswerAdds ==
    ASSUME PInv, CountersAddUp, NEW x \in Requests, NEW answer, Answers(x, answer)
    PROVE  CountersAddUp'
<1>1. request \in [Requests -> Request]
  BY DEF PInv, TypeOK
<1>2. UNCHANGED stats /\ request' = [request EXCEPT ![x].answer = answer]
  BY DEF Answers
<1>3. \A y \in Requests : /\ request'[y].phase = request[y].phase
                          /\ request'[y].attempt = request[y].attempt
                          /\ request'[y].result = request[y].result
  BY <1>1, <1>2 DEF Request
<1> QED  BY <1>2, <1>3, NothingAdds

(* A command that cannot be encoded was no attempt.                        *)
LEMMA UnencodableAdds ==
    ASSUME PInv, CountersAddUp, NEW x \in Requests, Unencodable(x)
    PROVE  CountersAddUp'
<1> DEFINE q == [request[x] EXCEPT !.phase = "done", !.result = "escaped"]
<1>1. request[x] \in Request /\ Paced(x) /\ request \in [Requests -> Request]
      /\ request[x].phase = "idle"
  BY DEF PInv, TypeOK, Unencodable
<1>2. q.phase = "done" /\ q.attempt = request[x].attempt
  BY <1>1 DEF Request
<1>3. request' = [request EXCEPT ![x] = q] /\ UNCHANGED stats
  BY <1>1 DEF Unencodable, Ends
<1> HIDE DEF q
<1>4. request[x].attempt = 0
  BY <1>1 DEF Paced
<1>5. InPhase("sent")' = InPhase("sent") /\ InPhase("backoff")' = InPhase("backoff")
      /\ Cardinality(Sent)' = Cardinality(Sent)
      /\ Cardinality(Misparsed)' = Cardinality(Misparsed)
  <2>1. Shifts(request[x], q)
    BY <1>3, TalliesMove
  <2> QED  BY <1>1, <1>2, <1>3, <1>4, <2>1 DEF Shifts, One
<1> QED  BY <1>3, <1>5 DEF CountersAddUp, FaultsSeen

(* However an attempt settles, it is counted once.                         *)
LEMMA SettlesAdds ==
    ASSUME PInv, CountersAddUp, NEW x \in Requests, Settles(x)
    PROVE  CountersAddUp'
<1>1. CASE HearRecords(x)
  <2>1. Waits(x) /\ Ends(x, Accepted(x)) /\ stats' = Counted({"successes"})
        /\ Accepted(x) # "escaped"
    BY <1>1 DEF HearRecords, Accepted
  <2> QED  BY <2>1, EndAdds
<1>2. CASE HearRefusal(x)
  <2>1. Waits(x) /\ Ends(x, "refused") /\ stats' = Counted({"command_errors"})
    BY <1>2 DEF HearRefusal
  <2> QED  BY <2>1, EndAdds
<1>3. CASE HearMisparsed(x)
  <2>1. Waits(x) /\ Ends(x, "escaped") /\ UNCHANGED stats
    BY <1>3 DEF HearMisparsed
  <2> QED  BY <2>1, EndAdds
<1>4. ASSUME NEW fault \in Fault, GivesUp(x, fault) PROVE CountersAddUp'
  <2> DEFINE result == IF x \in Books THEN "uncertain" ELSE "unavailable"
  <2>1. Waits(x) /\ Ends(x, result) /\ stats' = Counted({fault})
    BY <1>4 DEF GivesUp, Suffers
  <2>2. result # "escaped"
    OBVIOUS
  <2> HIDE DEF result
  <2> QED  BY <2>1, <2>2, EndAdds
<1> QED  BY <1>1, <1>2, <1>3, <1>4, BackoffAdds DEF Settles

(* The counters start out even.                                            *)
LEMMA InitAdds == Init => CountersAddUp
<1> SUFFICES ASSUME Init PROVE CountersAddUp
  OBVIOUS
<1>1. \A x \in Requests : request[x].phase = "idle" /\ request[x].attempt = 0
  BY DEF Init, Unsent
<1>2. At("sent") = {} /\ At("backoff") = {} /\ Sent = {} /\ Misparsed = {}
  BY <1>1 DEF At, Sent, Misparsed
<1>3. InPhase("sent") = 0 /\ InPhase("backoff") = 0
      /\ Cardinality(Sent) = 0 /\ Cardinality(Misparsed) = 0
  BY <1>2, FS_EmptySet DEF InPhase, At
<1>4. \A n \in Counter : stats[n] = 0
  BY DEF Init
<1> QED  BY <1>3, <1>4 DEF CountersAddUp, FaultsSeen, Counter, Fault

(* Every attempt is in flight or was counted once as what became of it,    *)
(* and every attempt but a request's first is a counted retry: for any     *)
(* number of requests, whatever the TMS and the network do.                *)
THEOREM CountersAlwaysAddUp == Spec => []CountersAddUp
<1>1. ASSUME PInv, CountersAddUp, [Next]_vars PROVE CountersAddUp'
  <2>1. CASE UNCHANGED vars
    BY <1>1, <2>1, NothingAdds DEF vars
  <2>2. ASSUME NEW x \in Requests, Start(x) \/ Unencodable(x) \/ Retry(x) \/ Settles(x)
        PROVE  CountersAddUp'
    BY <1>1, <2>2, AttemptAdds, UnencodableAdds, SettlesAdds
  <2>3. ASSUME NEW r \in Reads, TmsReads(r) PROVE CountersAddUp'
    <3>1. r \in Requests /\ \E answer : Answers(r, answer)
      BY <2>3 DEF TmsReads, Requests
    <3> QED  BY <1>1, <3>1, AnswerAdds
  <2>4. ASSUME NEW b \in Books, TmsBooks(b) \/ TmsDeclines(b) PROVE CountersAddUp'
    <3>1. b \in Requests /\ \E answer : Answers(b, answer)
      BY <2>4 DEF TmsBooks, TmsDeclines, Requests
    <3> QED  BY <1>1, <3>1, AnswerAdds
  <2>5. ASSUME NEW b \in Books, LateArrives(b) PROVE CountersAddUp'
    BY <1>1, <2>5, NothingAdds DEF LateArrives
  <2>6. ASSUME NEW l \in Loads, StrangerBooks(l) PROVE CountersAddUp'
    BY <1>1, <2>6, NothingAdds DEF StrangerBooks
  <2> QED  BY <1>1, <2>1, <2>2, <2>3, <2>4, <2>5, <2>6 DEF Next
<1> QED  BY <1>1, InitAdds, InvAlways, PTL DEF Spec
=============================================================================
