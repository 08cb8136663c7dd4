---------------------------- MODULE MachineToken ----------------------------
(***************************************************************************)
(* The machine token of CrowdSecClient, shared by pages, pushes and tasks: *)
(* token() hands out the cached one or logs in under tokenLock,            *)
(* sendWithJwt logs in again and resends once after a 401.  The LAPI       *)
(* forgets every token when its secret changes, and the token otherwise    *)
(* lives for a fixed time.  The machine's password is right throughout.    *)
(***************************************************************************)
EXTENDS Integers, FiniteSets

CONSTANTS
    Callers,
    Lifetime,       \* of a token
    RenewBefore,    \* TOKEN_RENEW_BEFORE_MS
    Timeout,        \* DEFAULT_TIMEOUT_MS: how long a request may be on its way
    NoToken,
    MaxTime, MaxSecrets     \* bounds

\* What the constants must satisfy; the modules that instantiate this one
\* assume it.
TokenAssumption ==
    /\ {Lifetime, RenewBefore, Timeout, MaxTime, MaxSecrets} \subseteq Nat
    /\ Timeout <= RenewBefore /\ Timeout < Lifetime

VARIABLES
    clock,
    secret,         \* LAPI: the secret its tokens are signed with
    token,          \* the cache: secret and expiry of the token
    step,           \* where each call of sendWithJwt stands
    using,          \* the token each call sends, and since when
    before,         \* history: the secret when a call's first 401 arrived
    spurious        \* history: a 401 although the secret had not changed

tokenVars == <<clock, secret, token, step, using, before, spurious>>

Nothing == [token |-> NoToken, since |-> 0]

Init ==
    /\ clock = 0 /\ secret = 1 /\ token = NoToken
    /\ step = [c \in Callers |-> "idle"]
    /\ using = [c \in Callers |-> Nothing]
    /\ before = [c \in Callers |-> 0]
    /\ spurious = FALSE

\* No request outlives its timeout.
Tick ==
    /\ clock < MaxTime /\ clock' = clock + 1
    /\ \A c \in Callers :
          step[c] \in {"sent", "resent"} => clock < using[c].since + Timeout
    /\ UNCHANGED <<secret, token, step, using, before, spurious>>

\* CrowdSec starts with a new secret.
NewSecret ==
    /\ secret < MaxSecrets /\ secret' = secret + 1
    /\ UNCHANGED <<clock, token, step, using, before, spurious>>

\* Mutant: the cached token is used to its end.
UsableToItsEnd == token # NoToken /\ clock < token.exp
Usable == token # NoToken /\ clock < token.exp - RenewBefore

\* token(), with its login under the lock, and the request leaves with what
\* it returns.
GetToken(c, next) ==
    LET t == IF Usable THEN token
             ELSE [secret |-> secret, exp |-> clock + Lifetime]
    IN  /\ token' = t
        /\ using' = [using EXCEPT ![c] = [token |-> t, since |-> clock]]
        /\ step' = [step EXCEPT ![c] = next]

Call(c) ==
    /\ step[c] = "idle" /\ GetToken(c, "sent")
    /\ UNCHANGED <<clock, secret, before, spurious>>

\* The login is not answered as it should: LapiUnavailableException.
CallFails(c) ==
    /\ step[c] \in {"idle", "again"} /\ ~Usable
    /\ token' = NoToken
    /\ step' = [step EXCEPT ![c] = "idle"]
    /\ using' = [using EXCEPT ![c] = Nothing]
    /\ before' = [before EXCEPT ![c] = 0]
    /\ UNCHANGED <<clock, secret, spurious>>

Accepts(t) == t.secret = secret /\ clock < t.exp

\* An answer other than 401, or none in time, which is thrown at once.
Answered(c) ==
    /\ step[c] \in {"sent", "resent"}
    /\ step' = [step EXCEPT ![c] = "idle"]
    /\ using' = [using EXCEPT ![c] = Nothing]
    /\ before' = [before EXCEPT ![c] = 0]
    /\ UNCHANGED <<clock, secret, token, spurious>>

Unauthorized(c) ==
    /\ step[c] = "sent" /\ ~Accepts(using[c].token)
    /\ step' = [step EXCEPT ![c] = "refused"]
    /\ spurious' = (spurious \/ using[c].token.secret = secret)
    /\ before' = [before EXCEPT ![c] = secret]
    /\ UNCHANGED <<clock, secret, token, using>>

\* Mutant: the token is dropped only if its time is over.
InvalidatedLate == IF Usable THEN token ELSE NoToken
Invalidated == NoToken

Invalidate(c) ==
    /\ step[c] = "refused"
    /\ token' = Invalidated
    /\ step' = [step EXCEPT ![c] = "again"]
    /\ UNCHANGED <<clock, secret, using, before, spurious>>

Resend(c) ==
    /\ step[c] = "again" /\ GetToken(c, "resent")
    /\ UNCHANGED <<clock, secret, before, spurious>>

\* MachineAuthException, after the token is dropped once more.
Fail(c) ==
    /\ step[c] = "resent" /\ ~Accepts(using[c].token)
    /\ token' = NoToken
    /\ step' = [step EXCEPT ![c] = "failed"]
    /\ UNCHANGED <<clock, secret, using, before, spurious>>

Thrown(c) ==
    /\ step[c] = "failed"
    /\ step' = [step EXCEPT ![c] = "idle"]
    /\ using' = [using EXCEPT ![c] = Nothing]
    /\ before' = [before EXCEPT ![c] = 0]
    /\ UNCHANGED <<clock, secret, token, spurious>>

Next ==
    \/ Tick \/ NewSecret
    \/ \E c \in Callers :
          \/ Call(c) \/ CallFails(c) \/ Answered(c) \/ Unauthorized(c)
          \/ Invalidate(c) \/ Resend(c) \/ Fail(c) \/ Thrown(c)

Spec == Init /\ [][Next]_tokenVars

-----------------------------------------------------------------------------
(* Properties.                                                             *)

\* A call reports that the machine's credentials are wrong, which stops a
\* push for good, only if CrowdSec changed its secret once more while the
\* call logged in and resent: other callers that drop and renew the token
\* meanwhile do not make it fail.  (sendWithJwt)
NoFalseAlarm ==
    \A c \in Callers : step[c] = "failed" => before[c] < secret

\* No request is refused because its token expired on the way.
\* (TOKEN_RENEW_BEFORE_MS is not less than a request's timeout)
NoneExpires == ~spurious
=============================================================================
