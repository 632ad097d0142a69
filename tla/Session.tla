------------------------------ MODULE Session ------------------------------
(***************************************************************************)
(* The access token of boxbutler/sinks/session.py. One Session is shared   *)
(* by the thread of a run and by the threads of the web interface, without *)
(* a lock: each request makes sure of the token, sends, and answers a 401  *)
(* with one renewal and 429 or 503 with a bounded number of waits.         *)
(*                                                                         *)
(* Time is counted in ticks of the token's life. A tick passes between the *)
(* steps of a caller only while it backs off: what else a request does is  *)
(* short compared with the margin (a send times out after 30 seconds, the  *)
(* margin is 60). A refresh token may be used by several threads at once.  *)
(***************************************************************************)
EXTENDS Integers

CONSTANTS
  Callers,      \* the threads that use the session
  Lifetime,     \* ticks a new access token lives
  Margin,       \* refresh_margin_s: a token this close to its end is renewed
  MaxAttempts   \* max_rate_limit_attempts

ASSUME SessionAssumption ==
  Margin \in Nat /\ Lifetime \in Nat /\ Margin < Lifetime /\ MaxAttempts \in Nat

VARIABLES
  pc,          \* where each caller is in request()
  retried,     \* its `reauthenticated`
  throttled,   \* its `rate_limit_attempt`
  installed,   \* whether there is a token at all
  left,        \* ticks until it expires
  accepted,    \* whether the cloud still honours it (while it has not expired)
  renewable,   \* whether the cloud still honours its refresh token
  well         \* whether the cloud does what it should

callVars    == <<pc, retried, throttled>>
tokenVars   == <<installed, left, accepted, renewable>>
sessionVars == <<callVars, tokenVars, well>>

SessionInit ==
  /\ pc = [c \in Callers |-> "idle"]
  /\ retried = [c \in Callers |-> FALSE]
  /\ throttled = [c \in Callers |-> 0]
  /\ installed = FALSE /\ left = 0 /\ accepted = FALSE /\ renewable = FALSE
  /\ well = TRUE

Goto(c, step) == pc' = [pc EXCEPT ![c] = step]

Only(c, step) == Goto(c, step) /\ UNCHANGED <<retried, throttled, tokenVars, well>>

\* request() is called.
Request(c) ==
  /\ pc[c] = "idle"
  /\ Goto(c, "ensure")
  /\ retried' = [retried EXCEPT ![c] = FALSE]
  /\ throttled' = [throttled EXCEPT ![c] = 0]
  /\ UNCHANGED <<tokenVars, well>>

\* ensure_fresh
EnsureFresh(c) ==
  /\ pc[c] = "ensure"
  /\ Only(c, IF ~installed THEN "authenticate"
             ELSE IF left <= Margin THEN "refresh" ELSE "send")

\* _install: the cloud grants a token.
Install(c) ==
  /\ installed' = TRUE /\ left' = Lifetime
  /\ accepted' = TRUE /\ renewable' = TRUE
  /\ Goto(c, "send")
  /\ UNCHANGED <<retried, throttled, well>>

\* _authenticate_now, with the password.
Authenticate(c) == pc[c] = "authenticate" /\ Install(c)

AuthenticateFails(c) == pc[c] = "authenticate" /\ ~well /\ Only(c, "failed")

\* _refresh_now, with the refresh token.
Refresh(c) == pc[c] = "refresh" /\ renewable /\ Install(c)

\* The cloud refuses the refresh token, or the answer is no usable token: the
\* request fails, and the token stays what it was.
RefreshFails(c) ==
  /\ pc[c] = "refresh"
  /\ ~renewable \/ ~well
  /\ Only(c, "failed")

Good == accepted /\ left > 0

\* The cloud does what it was asked.
Answered(c) == pc[c] = "send" /\ Good /\ Only(c, "ok")

\* Mutant of Refused: there is no retry.
RefusedForGood(c) ==
  /\ pc[c] = "send"
  /\ ~Good \/ ~well
  /\ Only(c, "failed")

\* 401: renew and send once more, once.
Refused(c) ==
  /\ pc[c] = "send"
  /\ ~Good \/ ~well
  /\ IF retried[c]
       THEN Only(c, "failed")
       ELSE /\ Goto(c, "refresh")
            /\ retried' = [retried EXCEPT ![c] = TRUE]
            /\ UNCHANGED <<throttled, tokenVars, well>>

\* 429 or 503: wait and send again, until the attempts are used up.
Throttled(c) ==
  /\ pc[c] = "send" /\ ~well
  /\ IF throttled[c] = MaxAttempts
       THEN Only(c, "failed")
       ELSE /\ Goto(c, "backoff")
            /\ throttled' = [throttled EXCEPT ![c] = @ + 1]
            /\ UNCHANGED <<retried, tokenVars, well>>

BackoffEnds(c) == pc[c] = "backoff" /\ Only(c, "send")

\* No answer, or another status: the adapter raises.
SendFails(c) == pc[c] = "send" /\ ~well /\ Only(c, "failed")

\* The caller has its answer, or its exception.
Return(c) == pc[c] \in {"ok", "failed"} /\ Only(c, "idle")

\* The steps of request() itself.
Step(c) ==
  \/ EnsureFresh(c)
  \/ Authenticate(c) \/ AuthenticateFails(c)
  \/ Refresh(c) \/ RefreshFails(c)
  \/ Answered(c) \/ Refused(c) \/ Throttled(c) \/ SendFails(c)
  \/ BackoffEnds(c)

-----------------------------------------------------------------------------
(* The cloud *)

Waiting(c) == pc[c] \in {"idle", "backoff", "ok", "failed"}

TimePasses ==
  /\ \A c \in Callers : Waiting(c)
  /\ left' = IF left = 0 THEN 0 ELSE left - 1
  /\ UNCHANGED <<callVars, installed, accepted, renewable, well>>

Turns == well' = ~well /\ UNCHANGED <<callVars, tokenVars>>

\* While something is wrong in the cloud it may forget the access token, the
\* refresh token, or both.
Revokes ==
  /\ ~well
  /\ accepted' \in {accepted, FALSE}
  /\ renewable' \in {renewable, FALSE}
  /\ UNCHANGED <<callVars, installed, left, well>>

SessionNext ==
  \/ \E c \in Callers : Request(c) \/ Step(c) \/ Return(c)
  \/ TimePasses \/ Turns \/ Revokes

\* A thread that called goes on: every call of the cloud has a timeout.
SessionFairness == \A c \in Callers : WF_sessionVars(Step(c) \/ Return(c))

SessionSpec == SessionInit /\ [][SessionNext]_sessionVars /\ SessionFairness

-----------------------------------------------------------------------------
(* Properties *)

SessionTypeOK ==
  /\ pc \in [Callers -> {"idle", "ensure", "authenticate", "refresh", "send",
                         "backoff", "ok", "failed"}]
  /\ retried \in [Callers -> BOOLEAN]
  /\ throttled \in [Callers -> 0..MaxAttempts]
  /\ {installed, accepted, renewable, well} \subseteq BOOLEAN
  /\ left \in 0..Lifetime

Served(c) == []<>(pc[c] = "ensure") => []<>(pc[c] = "ok")

\* When the cloud is well again and still takes the refresh token, whoever goes
\* on asking is served, also after the access token was revoked or expired, and
\* while other threads renew it.
ServedWhileRenewable ==
  <>[](well /\ (installed => renewable)) => \A c \in Callers : Served(c)

\* What the module's contract says ("re-authenticate and retry the request"):
\* when the cloud is well again, whoever goes on asking is served.  The code does
\* not keep this: a refresh token that the cloud has dropped is never given up
\* for the password.
ServedWhenWell == <>[]well => \A c \in Callers : Served(c)
=============================================================================
