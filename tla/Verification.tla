----------------------------- MODULE Verification -----------------------------
(***************************************************************************)
(* Authority check, then identity check (app/api/routes/verification.py),  *)
(* with the one-time passcode of app/domain/otp.py.  Only the authority    *)
(* check awaits a remote party, the FMCSA; its answer and its absence are  *)
(* choices of the environment.                                             *)
(***************************************************************************)
EXTENDS CallSession

(* fault: the lock is not there.                                           *)
IdentityNeverLocked(s, same) == FALSE

(* "Re-verifying a DIFFERENT MC after the code has gone out" is refused.   *)
(* `same' says that the digits of the payload are the session's MC: a      *)
(* number sent with a leading zero never is.                               *)
IdentityLocked(s, same) == s.mc # None /\ ~same /\ s.stage >= OTP_SENT

(* The FMCSA result lands on the session, whatever happened to the session *)
(* while it was awaited.  A booked call is not terminated on top of it.    *)
Refused(s, mc) ==
    LET named == [s EXCEPT !.mc = mc, !.outcome = "rejected_authority"]
    IN  IF s.booked = None THEN Terminate(named) ELSE named

Authorised(s, mc) == AdvanceTo([s EXCEPT !.mc = mc], AUTHORITY_VERIFIED)

(* A payload without a lookup: no digits at all skips the identity lock, a *)
(* run of zeros does not.  FmcsaClient.verify answers "not found" without  *)
(* touching the network.                                                   *)
VerifyGarbled(c, digits) ==
    /\ MayCall(c)
    /\ digits => ~IdentityLocked(session[c], FALSE)
    /\ Becomes(c, Refused(session[c], Garbled))
    /\ UNCHANGED <<request, tms, orphans, board, trail>>

VerifyCarrier(c, r, mc, padded) ==
    /\ MayCall(c)
    /\ ~IdentityLocked(session[c], ~padded /\ session[c].mc = mc)
    /\ Suspend(r, [op |-> "verify", call |-> c, mc |-> mc])
    /\ UNCHANGED <<session, tms, orphans, board, trail>>

AuthorityConfirmed(r) ==
    LET q == request[r] IN
    /\ Awaiting(r, "verify")
    /\ Becomes(q.call, Authorised(session[q.call], q.mc))
    /\ trail' = [trail EXCEPT ![q.call].cleared = @ \cup {q.mc}]
    /\ Resume(r)
    /\ UNCHANGED <<tms, orphans, board>>

AuthorityRefused(r) ==
    LET q == request[r] IN
    /\ Awaiting(r, "verify")
    /\ Becomes(q.call, Refused(session[q.call], q.mc))
    /\ Resume(r)
    /\ UNCHANGED <<tms, orphans, board, trail>>

(* FmcsaUnavailable: a 503 and nothing else.                               *)
AuthorityUnavailable(r) ==
    /\ Awaiting(r, "verify")
    /\ Resume(r)
    /\ UNCHANGED <<session, tms, orphans, board, trail>>

-----------------------------------------------------------------------------
FreshChallenge == [attempts |-> 0, verified |-> FALSE, expired |-> FALSE]

SendOtp(c) ==
    /\ MayCall(c)
    /\ Passes(session[c], AUTHORITY_VERIFIED)
    /\ Becomes(c, AdvanceTo([session[c] EXCEPT !.otp = FreshChallenge], OTP_SENT))
    /\ UNCHANGED <<request, tms, orphans, board, trail>>

(* The clock passes expires_at.                                            *)
OtpExpires(c) ==
    /\ session[c].otp # None
    /\ ~session[c].otp.expired
    /\ session' = [session EXCEPT ![c].otp.expired = TRUE]
    /\ UNCHANGED <<request, tms, orphans, board, trail>>

(* otp.verify: a verified challenge stays verified; an expired or burned   *)
(* one is not compared, and only a comparison costs an attempt.            *)
Compared(otp) == ~otp.verified /\ otp.attempts < MaxAttempts /\ ~otp.expired
(* fault: every submission costs an attempt.                               *)
TriedAlways(otp) == [otp EXCEPT !.attempts = @ + 1]

Tried(otp) == IF Compared(otp) THEN [otp EXCEPT !.attempts = @ + 1] ELSE otp

Matches(otp, correct) == otp.verified \/ (Compared(otp) /\ correct)
Burns(otp, correct) ==
    ~Matches(otp, correct) /\ Tried(otp).attempts >= MaxAttempts

CodeAccepted(c, otp) ==
    /\ Becomes(c, AdvanceTo([session[c] EXCEPT !.otp = otp], IDENTITY_VERIFIED))
    /\ trail' = [trail EXCEPT ![c].proven = @ \cup {session[c].mc}]

(* fault: exhausting the attempts rejects the code and no more.            *)
CodeBurnedOnly(c, otp) ==
    /\ Becomes(c, [session[c] EXCEPT !.otp = otp, !.outcome = "failed_identity"])
    /\ UNCHANGED trail

CodeBurned(c, otp) ==
    /\ Becomes(c, Terminate([session[c] EXCEPT !.otp = otp,
                                               !.outcome = "failed_identity"]))
    /\ UNCHANGED trail

CodeWrong(c, otp) ==
    /\ Becomes(c, [session[c] EXCEPT !.otp = otp])
    /\ UNCHANGED trail

VerifyOtp(c, correct) ==
    LET otp == session[c].otp IN
    /\ MayCall(c)
    /\ Passes(session[c], OTP_SENT)
    /\ otp # None
    /\ \/ /\ Matches(otp, correct)
          /\ CodeAccepted(c, [Tried(otp) EXCEPT !.verified = TRUE])
       \/ Burns(otp, correct) /\ CodeBurned(c, Tried(otp))
       \/ /\ ~Matches(otp, correct) /\ ~Burns(otp, correct)
          /\ CodeWrong(c, Tried(otp))
    /\ UNCHANGED <<request, tms, orphans, board>>
=============================================================================
