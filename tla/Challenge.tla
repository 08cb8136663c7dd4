----------------------------- MODULE Challenge -----------------------------
(***************************************************************************)
(* What nginx does with the visitors CrowdSec knows (nwu_crowdsec.lua) and *)
(* how one of them passes the challenge: the proof of work that nginx      *)
(* serves itself, or the hand-over to an external site with signed tickets *)
(* (nwu_challenge.lua, the Cloudflare worker).  nginx and the worker read  *)
(* clocks of their own.                                                    *)
(*                                                                         *)
(* A token, whether ticket or ALTCHA challenge, is its nonce, its expiry   *)
(* and its kind; signatures make it what its signer made it.               *)
(***************************************************************************)
EXTENDS Integers, FiniteSets, Sequences

CONSTANTS
    Nonces,         \* random nonces of request tickets and ALTCHA salts
    RequestTtl, ResponseTtl, MaxAhead,  \* 300, 60, MAX_TICKET_AHEAD
    DictSlack,      \* seconds a nonce is kept longer than its token lives
    PassTtl,        \* TTL_SECONDS
    Prefixes,       \* number of prefixes around an address
    Skews,          \* the worker's clock less that of nginx
    MaxTime, MaxChanges     \* bounds: of the clock, of new decisions

\* What the constants must satisfy; the modules that instantiate this one
\* assume it.
ChallengeAssumption ==
    /\ {RequestTtl, ResponseTtl, MaxAhead, PassTtl, MaxTime,
      MaxChanges} \subseteq Nat
    /\ {DictSlack, Prefixes} \subseteq Nat \ {0}
    /\ Skews \subseteq Int

VARIABLES
    mode,           \* MODE of the challenge conf
    skew,
    clock,
    decisions,      \* decisions cached for the prefixes, most specific first
    tokens,         \* tokens handed to the visitor
    checking,       \* request tickets whose Turnstile answer is awaited
    dict,           \* shared dict nwu_challenge: nonces with their expiry
    cookie,         \* expiry of the cookie nwu_pass, 0 without one
    passed,         \* history: tokens accepted since the dict is what it is
    twice,          \* history: one of them was accepted again
    refused,        \* history: a token in time was refused
    changes         \* counter of the bound

passVars == <<mode, skew, clock, decisions, tokens, checking, dict,
              cookie, passed, twice, refused, changes>>

Decisions == {"none", "captcha", "ban", "whitelist"}
Token(kind, nonce, exp) == [kind |-> kind, nonce |-> nonce, exp |-> exp]

Init ==
    /\ mode \in {"builtin", "external"}
    /\ skew \in IF mode = "external" THEN Skews ELSE {0}
    /\ clock = 0
    /\ decisions \in [1..Prefixes -> Decisions]
    /\ tokens = {} /\ checking = {} /\ dict = {} /\ cookie = 0
    /\ passed = {} /\ twice = FALSE /\ refused = FALSE /\ changes = 0

\* Entries of the dict expire by themselves.
Tick ==
    /\ clock < MaxTime /\ clock' = clock + 1
    /\ dict' = {e \in dict : e.until > clock'}
    /\ UNCHANGED <<mode, skew, decisions, tokens, checking, cookie, passed,
                   twice, refused, changes>>

\* The stream of the LAPI.
Decide(i, d) ==
    /\ changes < MaxChanges /\ changes' = changes + 1
    /\ decisions' = [decisions EXCEPT ![i] = d]
    /\ UNCHANGED <<mode, skew, clock, tokens, checking, dict, cookie,
                   passed, twice, refused>>

\* nginx starts again: its shared memory is new.  (A reload keeps it.)
Restart ==
    /\ dict' = {} /\ passed' = {}
    /\ UNCHANGED <<mode, skew, clock, decisions, tokens, checking, cookie,
                   twice, refused, changes>>

-----------------------------------------------------------------------------
(* access().                                                               *)

\* cs.allowIp returns the decision of the most specific prefix.
AllowIp(ds) ==
    LET found == {i \in DOMAIN ds : ds[i] # "none"}
    IN  IF found = {} THEN "none"
        ELSE ds[CHOOSE i \in found : \A j \in found : i <= j]

\* A captcha gives way to the first decision of another kind around it.
\* Mutant: it does not.
BehindCaptchaNothing(ds) == "captcha"
BehindCaptcha(ds) ==
    LET others == {i \in DOMAIN ds : ds[i] \notin {"none", "captcha"}}
    IN  IF others = {} THEN "captcha"
        ELSE ds[CHOOSE i \in others : \A j \in others : i <= j]

Action(ds) == IF AllowIp(ds) = "captcha" THEN BehindCaptcha(ds)
              ELSE AllowIp(ds)

HasCookie == cookie > 0 /\ cookie >= clock
\* While CrowdSec is away for too long nothing is decided (503); AppSec has
\* its say afterwards.  Both are left out.
Verdict ==
    CASE Action(decisions) = "ban" -> "closed"
      [] Action(decisions) = "captcha" /\ ~HasCookie -> "challenge"
      [] OTHER -> "served"

\* A page of the site, and what the visitor is given when challenged: the
\* redirect to the external site, or the page with the ALTCHA challenge.
Visit(n) ==
    /\ tokens' = IF Verdict = "challenge"
                 THEN tokens \cup {Token(IF mode = "builtin" THEN "altcha"
                                         ELSE "req", n, clock + RequestTtl)}
                 ELSE tokens
    /\ \A t \in tokens : t.nonce # n
    /\ UNCHANGED <<mode, skew, clock, decisions, checking, dict, cookie,
                   passed, twice, refused, changes>>

-----------------------------------------------------------------------------
(* The external site: a request ticket is checked, then Turnstile is asked *)
(* for up to five seconds, then the ticket is checked again with a new     *)
(* reading of the clock and the response signed, with the same nonce.      *)

Known(n) == \E e \in dict : e.nonce = n
InTime(t) == t.exp >= clock

WorkerClock == clock + skew
\* Mutant: the life of a response is taken for that of a request.
TicketValidShort(t) ==
    t.exp >= WorkerClock /\ t.exp <= WorkerClock + ResponseTtl
TicketValid(t) == t.exp >= WorkerClock /\ t.exp <= WorkerClock + RequestTtl

Submit(t) ==
    /\ t.kind = "req" /\ TicketValid(t)
    /\ checking' = checking \cup {t}
    /\ UNCHANGED <<mode, skew, clock, decisions, tokens, dict, cookie,
                   passed, twice, refused, changes>>

\* The worker answers 429, before or after it asked Turnstile.
SubmitRefused(t) ==
    /\ t.kind = "req" /\ ~TicketValid(t)
    /\ checking' = checking \ {t}
    /\ refused' = (refused \/ t.exp >= WorkerClock)
    /\ UNCHANGED <<mode, skew, clock, decisions, tokens, dict, cookie,
                   passed, twice, changes>>

Solved(t) ==
    /\ TicketValid(t)
    /\ checking' = checking \ {t}
    /\ tokens' = tokens \cup
                   {Token("resp", t.nonce, WorkerClock + ResponseTtl)}
    /\ UNCHANGED <<mode, skew, clock, decisions, dict, cookie, passed,
                   twice, refused, changes>>

\* Turnstile says no, or does not answer in time.
Unsolved(t) ==
    /\ checking' = checking \ {t}
    /\ UNCHANGED <<mode, skew, clock, decisions, tokens, dict, cookie,
                   passed, twice, refused, changes>>

-----------------------------------------------------------------------------
(* callback and POST verify: the same checks but for the limit of a ticket *)
(* ahead of the clock.  Both need a captcha decision of the visitor.       *)

Challenged == Action(decisions) = "captcha"
Redeemable(t) == t.kind \in {"resp", "altcha"}
InLife(t) ==
    InTime(t) /\ (t.kind = "altcha" \/ t.exp <= clock + MaxAhead)

\* Mutant: a nonce is forgotten as soon as its token expires.
KeptUntilExpiry(t) == t.exp
KeptUntil(t) == clock + (t.exp - clock + DictSlack)

Redeem(t) ==
    /\ Redeemable(t) /\ Challenged
    /\ InLife(t) /\ ~Known(t.nonce)
    /\ dict' = dict \cup {[nonce |-> t.nonce, until |-> KeptUntil(t)]}
    /\ cookie' = clock + PassTtl
    /\ passed' = passed \cup {t}
    /\ twice' = (twice \/ t \in passed)
    /\ UNCHANGED <<mode, skew, clock, decisions, tokens, checking, refused,
                   changes>>

RedeemRefused(t) ==
    /\ Redeemable(t) /\ Challenged
    /\ ~(InLife(t) /\ ~Known(t.nonce))
    /\ refused' = (refused \/ (InTime(t) /\ \A u \in passed :
                                              u.nonce # t.nonce))
    /\ UNCHANGED <<mode, skew, clock, decisions, tokens, checking, dict,
                   cookie, passed, twice, changes>>

Next ==
    \/ Tick \/ Restart
    \/ \E i \in 1..Prefixes, d \in Decisions : Decide(i, d)
    \/ \E n \in Nonces : Visit(n)
    \/ \E t \in tokens : \/ Submit(t) \/ SubmitRefused(t)
                         \/ Redeem(t) \/ RedeemRefused(t)
    \/ \E t \in checking : Solved(t) \/ Unsolved(t)

Spec == Init /\ [][Next]_passVars

-----------------------------------------------------------------------------
(* Properties.                                                             *)

\* As long as nginx keeps its shared memory, a response ticket or an ALTCHA
\* challenge gives a pass once, however often it is sent and whenever.
\* (the nonces in the dict of nwu_challenge.lua, whose entries expire)
TokenPassesOnce == ~twice

\* A token that has time left, and whose nonce was not used, is refused
\* neither by nginx nor by the worker as long as the worker's clock is not
\* behind, and not so far ahead that its responses seem too long-lived.
\* (exp > now + 300 in tickets.js and in check_ticket)
NoFalseRefusal == skew \in 0..MaxAhead - ResponseTtl => ~refused

\* A visitor with a cookie is still kept out by a ban around a captcha, and
\* let in by a whitelist around it: the most specific decision that is not a
\* captcha decides.  (access, action_behind_captcha)
FirstDecides ==
    LET IsFirst(d) == \E i \in 1..Prefixes :
                        /\ decisions[i] = d
                        /\ \A j \in 1..i - 1 :
                              decisions[j] \in {"none", "captcha"}
    IN  /\ Verdict = "served" => ~IsFirst("ban")
        /\ Verdict \in {"closed", "challenge"} => ~IsFirst("whitelist")
=============================================================================
