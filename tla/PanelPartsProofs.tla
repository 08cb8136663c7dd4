-------------------------- MODULE PanelPartsProofs --------------------------
(***************************************************************************)
(* Proofs about the parts of the panel, for every value of the constants   *)
(* that satisfies PartsAssumption.  The invariants of the small parts are  *)
(* here; those of publishing, of the event store and of the servers are in *)
(* modules of their own, whose theorems are cited.                         *)
(***************************************************************************)
EXTENDS PanelParts, Sequences, SequenceTheorems, WellFoundedInduction, TLAPS

-----------------------------------------------------------------------------
(* The machine token (MachineToken).                                       *)

MachineTokens == [secret : Nat, exp : Nat]
CallSteps == {"idle", "sent", "refused", "again", "resent", "failed"}
OnItsWay(c) == step[c] \in {"sent", "resent"}

TokenTypeInv ==
    /\ {time, secret} \subseteq Nat
    /\ token \in MachineTokens \cup {NoToken}
    /\ step \in [Clients -> CallSteps]
    /\ using \in [Clients -> [token : MachineTokens \cup {NoToken},
                              since : Nat]]
    /\ before \in [Clients -> Nat]
    /\ spurious \in BOOLEAN

\* A request on its way carries a token that outlives it.
FlightInv ==
    \A c \in Clients : OnItsWay(c) =>
        /\ using[c].token \in MachineTokens
        /\ using[c].token.secret <= secret
        /\ time <= using[c].since + Timeout
        /\ using[c].since + Timeout < using[c].token.exp

\* After a call dropped the token, whatever is cached or resent was made
\* with the secret of that moment or a later one.
RenewedInv ==
    /\ token # NoToken => token.secret <= secret
    /\ \A c \in Clients :
          /\ before[c] <= secret
          /\ step[c] = "again" /\ token # NoToken =>
                before[c] <= token.secret
          /\ step[c] = "resent" => before[c] <= using[c].token.secret

TokenInv ==
    /\ TokenTypeInv /\ FlightInv /\ RenewedInv
    /\ Token!NoneExpires /\ Token!NoFalseAlarm

-----------------------------------------------------------------------------

\* token() returns the cached token or a new one, which lasts longer than a
\* request, and keeps it.
LEMMA GetTokenFresh ==
    ASSUME Token!TokenAssumption, TokenInv, NEW c \in Clients,
           NEW next \in {"sent", "resent"},
           step[c] \in {"idle", "again"}, Token!GetToken(c, next),
           time' = time, secret' = secret
    PROVE  /\ token' \in MachineTokens
           /\ token'.secret <= secret
           /\ time + Timeout < token'.exp
           /\ token' = token \/ token'.secret = secret
           /\ step' = [step EXCEPT ![c] = next]
           /\ using' = [using EXCEPT ![c] = [token |-> token', since |-> time]]
<1>1. CASE Token!Usable
  <2>1. token' = token /\ token \in MachineTokens
    BY <1>1 DEF Token!GetToken, Token!Usable, TokenInv, TokenTypeInv
  <2> QED
    BY <1>1, <2>1 DEF Token!GetToken, Token!Usable, TokenInv, TokenTypeInv,
       RenewedInv, MachineTokens,
                      Token!TokenAssumption
<1>2. CASE ~Token!Usable
  <2>1. token' = [secret |-> secret, exp |-> time + Lifetime]
    BY <1>2 DEF Token!GetToken
  <2> QED
    BY <1>2, <2>1 DEF Token!GetToken, TokenInv, TokenTypeInv, MachineTokens,
       Token!TokenAssumption
<1> QED BY <1>1, <1>2

LEMMA TokenInvInit ==
    ASSUME Token!TokenAssumption
    PROVE  Token!Init => TokenInv
<1> SUFFICES ASSUME Token!Init
             PROVE  TokenInv
  OBVIOUS
<1>1. TokenTypeInv
  <2>1. using \in [Clients -> [token : MachineTokens \cup {NoToken},
                               since : Nat]]
    BY DEF Token!Init, Token!Nothing
  <2>2. step \in [Clients -> CallSteps] /\ before \in [Clients -> Nat]
    BY DEF Token!Init, CallSteps
  <2>3. {time, secret} \subseteq Nat
    BY DEF Token!Init
  <2>4. token \in MachineTokens \cup {NoToken} /\ spurious \in BOOLEAN
    BY Zenon DEF Token!Init
  <2> QED BY <2>1, <2>2, <2>3, <2>4 DEF TokenTypeInv
<1>2. \A c \in Clients : step[c] = "idle" /\ before[c] = 0 /\ secret = 1
  BY DEF Token!Init
<1>3. token = NoToken /\ spurious = FALSE
  BY DEF Token!Init
<1> QED
  BY <1>1, <1>2, <1>3 DEF TokenInv, FlightInv, RenewedInv, Token!NoneExpires,
     Token!NoFalseAlarm, OnItsWay

LEMMA TokenInvNext ==
    ASSUME Token!TokenAssumption
    PROVE  TokenInv /\ [Token!Next]_tokenVars => TokenInv'
<1> SUFFICES ASSUME TokenInv, [Token!Next]_tokenVars
             PROVE  TokenInv'
  OBVIOUS
<1> USE Token!TokenAssumption DEF Token!TokenAssumption
<1> USE DEF TokenInv, TokenTypeInv, FlightInv, RenewedInv, Token!NoneExpires,
            Token!NoFalseAlarm, OnItsWay, CallSteps
<1>1. CASE Token!Tick
  BY <1>1 DEF Token!Tick, MachineTokens
<1>2. CASE Token!NewSecret
  BY <1>2 DEF Token!NewSecret, MachineTokens
<1>3. ASSUME NEW c \in Clients, Token!Call(c)
      PROVE  TokenInv'
  <2>1. /\ token' \in MachineTokens /\ token'.secret <= secret
        /\ time + Timeout < token'.exp
        /\ token' = token \/ token'.secret = secret
        /\ step' = [step EXCEPT ![c] = "sent"]
        /\ using' = [using EXCEPT ![c] = [token |-> token', since |-> time]]
    BY <1>3, GetTokenFresh DEF Token!Call
  <2> QED BY <1>3, <2>1 DEF Token!Call, MachineTokens
<1>4. ASSUME NEW c \in Clients, Token!CallFails(c)
      PROVE  TokenInv'
  BY <1>4 DEF Token!CallFails, Token!Nothing, MachineTokens
<1>5. ASSUME NEW c \in Clients, Token!Answered(c)
      PROVE  TokenInv'
  BY <1>5 DEF Token!Answered, Token!Nothing, MachineTokens
<1>6. ASSUME NEW c \in Clients, Token!Unauthorized(c)
      PROVE  TokenInv'
  <2>1. using[c].token.secret # secret
    BY <1>6 DEF Token!Unauthorized, Token!Accepts, MachineTokens
  <2> QED BY <1>6, <2>1 DEF Token!Unauthorized, MachineTokens
<1>7. ASSUME NEW c \in Clients, Token!Invalidate(c)
      PROVE  TokenInv'
  BY <1>7 DEF Token!Invalidate, Token!Invalidated, MachineTokens
<1>8. ASSUME NEW c \in Clients, Token!Resend(c)
      PROVE  TokenInv'
  <2>1. /\ token' \in MachineTokens /\ token'.secret <= secret
        /\ time + Timeout < token'.exp
        /\ token' = token \/ token'.secret = secret
        /\ step' = [step EXCEPT ![c] = "resent"]
        /\ using' = [using EXCEPT ![c] = [token |-> token', since |-> time]]
    BY <1>8, GetTokenFresh DEF Token!Resend
  <2>2. before[c] <= token'.secret
    BY <1>8, <2>1 DEF Token!Resend, Token!GetToken, Token!Usable, MachineTokens
  <2> QED BY <1>8, <2>1, <2>2 DEF Token!Resend, MachineTokens
<1>9. ASSUME NEW c \in Clients, Token!Fail(c)
      PROVE  TokenInv'
  <2>1. /\ step[c] = "resent" /\ using[c].token \in MachineTokens
        /\ time < using[c].token.exp
        /\ before[c] <= using[c].token.secret
        /\ using[c].token.secret <= secret
    BY <1>9 DEF Token!Fail, MachineTokens
  <2>2. using[c].token.secret # secret
    BY <1>9, <2>1 DEF Token!Fail, Token!Accepts, MachineTokens
  <2>3. {before[c], secret, using[c].token.secret} \subseteq Nat
    BY <1>9, <2>1 DEF MachineTokens
  <2>4. before[c] < secret
    <3> HIDE DEF TokenInv
    <3> QED BY <2>1, <2>2, <2>3
  <2> QED BY <1>9, <2>4 DEF Token!Fail, MachineTokens
<1>10. ASSUME NEW c \in Clients, Token!Thrown(c)
       PROVE  TokenInv'
  BY <1>10 DEF Token!Thrown, Token!Nothing, MachineTokens
<1>11. CASE UNCHANGED tokenVars
  BY <1>11 DEF tokenVars
<1> QED
  BY <1>1, <1>2, <1>3, <1>4, <1>5, <1>6, <1>7, <1>8, <1>9, <1>10, <1>11
     DEF Token!Next

-----------------------------------------------------------------------------
(* The challenge (Challenge).                                              *)

PassTokens == [kind : {"altcha", "req", "resp"}, nonce : Nonces, exp : Int]

PassTypeInv ==
    /\ clock \in Nat /\ skew \in Int
    /\ decisions \in [1..Prefixes -> Pass!Decisions]
    /\ tokens \subseteq PassTokens /\ checking \subseteq tokens
    /\ passed \subseteq tokens
    /\ \A e \in dict : e.until \in Int
    /\ {twice, refused} \subseteq BOOLEAN

\* A token that passed has its nonce in the dict, for longer than it lives.
UsedIsKnown ==
    \A t \in passed :
        Pass!InTime(t) => \E e \in dict : /\ e.nonce = t.nonce
                                     /\ e.until = t.exp + DictSlack

\* The dict has no other nonces.
KnownIsUsed == \A e \in dict : \E t \in passed : t.nonce = e.nonce

\* No token lives longer than its signer's clock allows.
LifeBounded ==
    \A t \in tokens :
        /\ t.kind = "req" => t.exp <= clock + RequestTtl
        /\ t.kind = "resp" => t.exp <= clock + skew + ResponseTtl

PassInv == PassTypeInv /\ UsedIsKnown /\ Pass!TokenPassesOnce
LifeInv == PassTypeInv /\ KnownIsUsed /\ LifeBounded /\ Pass!NoFalseRefusal

-----------------------------------------------------------------------------
(* The most specific decision.                                             *)

LEMMA LeastExists ==
    ASSUME NEW S, S \subseteq Nat, S # {}
    PROVE  \E i \in S : \A j \in S : i <= j
<1> DEFINE R == OpToRel(<, Nat)
<1>1. \E i \in S : \A j \in S : ~(<<j, i>> \in R)
  BY NatLessThanWellFounded, WFMin
<1>2. \A i, j \in S : <<j, i>> \notin R => i <= j
  BY DEF OpToRel
<1> QED BY <1>1, <1>2

\* The decision a set of candidate prefixes comes to is that of the first.
LEMMA FirstOf ==
    ASSUME NEW S, S \subseteq Nat, S # {}
    PROVE  LET i == CHOOSE i \in S : \A j \in S : i <= j
           IN  i \in S /\ \A j \in S : i <= j
BY LeastExists

LEMMA ActionIsFirst ==
    ASSUME PassTypeInv, Pass!ChallengeAssumption,
           NEW d \in {"ban", "whitelist"},
           NEW i \in 1..Prefixes, decisions[i] = d,
           \A j \in 1..i - 1 : decisions[j] \in {"none", "captcha"}
    PROVE  Pass!Action(decisions) = d
<1> DEFINE found == {j \in DOMAIN decisions : decisions[j] # "none"}
           others == {j \in DOMAIN decisions :
                        decisions[j] \notin {"none", "captcha"}}
           f == CHOOSE j \in found : \A k \in found : j <= k
           o == CHOOSE j \in others : \A k \in others : j <= k
<1>1. DOMAIN decisions = 1..Prefixes /\ Prefixes \in Nat
  BY DEF PassTypeInv, Pass!ChallengeAssumption
<1>2. i \in found /\ i \in others
  BY <1>1
<1>3. found \subseteq Nat /\ others \subseteq Nat
  BY <1>1
<1>4. f \in found /\ \A j \in found : f <= j
  BY <1>2, <1>3, FirstOf
<1>5. o \in others /\ \A j \in others : o <= j
  BY <1>2, <1>3, FirstOf
<1>6. o = i
  <2>1. o <= i /\ o \in 1..Prefixes
    BY <1>1, <1>2, <1>5
  <2>2. ~(o < i)
    BY <1>5, <2>1
  <2> QED BY <2>1, <2>2
<1>7. Pass!AllowIp(decisions) = decisions[f]
  BY <1>2 DEF Pass!AllowIp
<1>8. Pass!BehindCaptcha(decisions) = d
  BY <1>2, <1>6 DEF Pass!BehindCaptcha
<1>9. CASE decisions[f] = "captcha"
  BY <1>7, <1>8, <1>9 DEF Pass!Action
<1>10. CASE decisions[f] # "captcha"
  <2>1. f \in others
    BY <1>4, <1>10
  <2>2. f = i
    BY <1>2, <1>3, <1>4, <1>5, <1>6, <2>1
  <2> QED BY <1>7, <1>10, <2>2 DEF Pass!Action
<1> QED BY <1>9, <1>10

-----------------------------------------------------------------------------
(* The invariants are inductive.                                           *)

LEMMA PassTypeInit ==
    ASSUME Pass!ChallengeAssumption
    PROVE  Pass!Init => PassTypeInv
<1> SUFFICES ASSUME Pass!Init
             PROVE  PassTypeInv
  OBVIOUS
<1>1. clock \in Nat /\ skew \in Int
  BY DEF Pass!Init, Pass!ChallengeAssumption
<1>2. {twice, refused} \subseteq BOOLEAN
  BY Zenon DEF Pass!Init
<1> QED BY <1>1, <1>2 DEF Pass!Init, PassTypeInv

LEMMA PassTypeNext ==
    ASSUME Pass!ChallengeAssumption
    PROVE  PassTypeInv /\ [Pass!Next]_passVars => PassTypeInv'
<1> SUFFICES ASSUME PassTypeInv, [Pass!Next]_passVars
             PROVE  PassTypeInv'
  OBVIOUS
<1> USE DEF PassTypeInv
<1>1. CASE Pass!Tick
  BY <1>1 DEF Pass!Tick
<1>2. CASE Pass!Restart
  BY <1>2 DEF Pass!Restart
<1>3. ASSUME NEW i \in 1..Prefixes, NEW d \in Pass!Decisions, Pass!Decide(i, d)
      PROVE  PassTypeInv'
  BY <1>3 DEF Pass!Decide
<1>4. ASSUME NEW n \in Nonces, Pass!Visit(n)
      PROVE  PassTypeInv'
  BY <1>4 DEF Pass!Visit, Pass!Token, PassTokens, Pass!ChallengeAssumption
<1>5. ASSUME NEW t \in tokens, Pass!Submit(t) \/ Pass!SubmitRefused(t)
      PROVE  PassTypeInv'
  BY <1>5 DEF Pass!Submit, Pass!SubmitRefused
<1>6. ASSUME NEW t \in tokens, Pass!Redeem(t) \/ Pass!RedeemRefused(t)
      PROVE  PassTypeInv'
  <2>1. {twice', refused'} \subseteq BOOLEAN
    BY <1>6, Zenon DEF Pass!Redeem, Pass!RedeemRefused
  <2>2. \A e \in dict' : e.until \in Int
    BY <1>6 DEF Pass!Redeem, Pass!RedeemRefused, Pass!KeptUntil, PassTokens,
                Pass!ChallengeAssumption
  <2> QED BY <1>6, <2>1, <2>2 DEF Pass!Redeem, Pass!RedeemRefused
<1>7. ASSUME NEW t \in checking, Pass!Solved(t) \/ Pass!Unsolved(t)
      PROVE  PassTypeInv'
  BY SMTT(30), <1>7 DEF Pass!Solved, Pass!Unsolved, Pass!Token, PassTokens,
     Pass!WorkerClock,
              Pass!ChallengeAssumption
<1>8. CASE UNCHANGED passVars
  BY <1>8 DEF passVars
<1> QED
  BY <1>1, <1>2, <1>3, <1>4, <1>5, <1>6, <1>7, <1>8 DEF Pass!Next

LEMMA PassInvInit ==
    ASSUME Pass!ChallengeAssumption
    PROVE  Pass!Init => PassInv
BY PassTypeInit DEF Pass!Init, PassInv, UsedIsKnown, Pass!TokenPassesOnce

LEMMA PassInvNext ==
    ASSUME Pass!ChallengeAssumption
    PROVE  PassInv /\ [Pass!Next]_passVars => PassInv'
<1> SUFFICES ASSUME PassInv, [Pass!Next]_passVars
             PROVE  UsedIsKnown' /\ Pass!TokenPassesOnce'
  BY PassTypeNext DEF PassInv
<1> USE DEF PassInv, PassTypeInv, UsedIsKnown, Pass!TokenPassesOnce,
            Pass!InTime
<1>1. CASE Pass!Tick
  <2>1. ASSUME NEW t \in passed, t.exp >= clock'
        PROVE  \E e \in dict' : e.nonce = t.nonce
                               /\ e.until = t.exp + DictSlack
    <3>1. t.exp \in Int /\ t.exp >= clock
      BY <1>1, <2>1 DEF Pass!Tick, PassTokens
    <3>2. PICK e \in dict : e.nonce = t.nonce /\ e.until = t.exp + DictSlack
      BY <3>1
    <3>3. e.until > clock'
      BY <1>1, <2>1, <3>1, <3>2 DEF Pass!Tick, Pass!ChallengeAssumption
    <3> QED BY <1>1, <3>2, <3>3 DEF Pass!Tick
  <2> QED BY <1>1, <2>1 DEF Pass!Tick
<1>2. CASE Pass!Restart
  BY <1>2 DEF Pass!Restart
<1>3. ASSUME NEW i \in 1..Prefixes, NEW d \in Pass!Decisions, Pass!Decide(i, d)
      PROVE  UsedIsKnown' /\ Pass!TokenPassesOnce'
  BY <1>3 DEF Pass!Decide
<1>4. ASSUME NEW n \in Nonces, Pass!Visit(n)
      PROVE  UsedIsKnown' /\ Pass!TokenPassesOnce'
  BY <1>4 DEF Pass!Visit
<1>5. ASSUME NEW t \in tokens, Pass!Submit(t) \/ Pass!SubmitRefused(t)
      PROVE  UsedIsKnown' /\ Pass!TokenPassesOnce'
  BY <1>5 DEF Pass!Submit, Pass!SubmitRefused
<1>6. ASSUME NEW t \in tokens, Pass!Redeem(t)
      PROVE  UsedIsKnown' /\ Pass!TokenPassesOnce'
  <2>1. t.exp >= clock /\ t.exp \in Int
    BY <1>6 DEF Pass!Redeem, Pass!InLife, PassTokens
  <2>2. t \notin passed
    BY <1>6, <2>1 DEF Pass!Redeem, Pass!Known
  <2>3. Pass!KeptUntil(t) = t.exp + DictSlack
    BY <2>1 DEF Pass!KeptUntil, Pass!ChallengeAssumption
  <2>4. Pass!TokenPassesOnce'
    BY <1>6, <2>2, Zenon DEF Pass!Redeem
  <2>5. UsedIsKnown'
    <3>1. ASSUME NEW u \in passed', Pass!InTime(u)'
          PROVE  \E e \in dict' : e.nonce = u.nonce
                                 /\ e.until = u.exp + DictSlack
      <4>1. /\ passed' = passed \cup {t} /\ clock' = clock
            /\ dict' = dict \cup {[nonce |-> t.nonce,
                                   until |-> Pass!KeptUntil(t)]}
        BY <1>6 DEF Pass!Redeem
      <4>2. CASE u = t
        <5> DEFINE e == [nonce |-> t.nonce, until |-> Pass!KeptUntil(t)]
        <5>1. e \in dict'
          BY <4>1
        <5>2. e.nonce = u.nonce /\ e.until = u.exp + DictSlack
          BY <2>3, <4>2
        <5> QED BY <5>1, <5>2
      <4>3. CASE u # t
        BY <3>1, <4>1, <4>3
      <4> QED BY <4>2, <4>3
    <3> QED BY <3>1
  <2> QED BY <2>4, <2>5
<1>7. ASSUME NEW t \in tokens, Pass!RedeemRefused(t)
      PROVE  UsedIsKnown' /\ Pass!TokenPassesOnce'
  BY <1>7 DEF Pass!RedeemRefused
<1>8. ASSUME NEW t \in checking, Pass!Solved(t) \/ Pass!Unsolved(t)
      PROVE  UsedIsKnown' /\ Pass!TokenPassesOnce'
  BY <1>8 DEF Pass!Solved, Pass!Unsolved
<1>9. CASE UNCHANGED passVars
  BY <1>9 DEF passVars
<1> QED
  BY <1>1, <1>2, <1>3, <1>4, <1>5, <1>6, <1>7, <1>8, <1>9 DEF Pass!Next

LEMMA LifeInvInit ==
    ASSUME Pass!ChallengeAssumption
    PROVE  Pass!Init => LifeInv
BY PassTypeInit
   DEF Pass!Init, LifeInv, KnownIsUsed, LifeBounded, Pass!NoFalseRefusal

LEMMA LifeInvNext ==
    ASSUME Pass!ChallengeAssumption
    PROVE  LifeInv /\ [Pass!Next]_passVars => LifeInv'
<1> DEFINE Goal == KnownIsUsed /\ LifeBounded /\ Pass!NoFalseRefusal
<1> SUFFICES ASSUME LifeInv, [Pass!Next]_passVars
             PROVE  Goal'
  BY PassTypeNext DEF LifeInv
<1> USE DEF LifeInv, PassTypeInv, KnownIsUsed, LifeBounded, Pass!NoFalseRefusal
<1> USE Pass!ChallengeAssumption DEF Pass!ChallengeAssumption
<1>1. CASE Pass!Tick
  BY SMTT(30), <1>1 DEF Pass!Tick, PassTokens
<1>2. CASE Pass!Restart
  BY <1>2 DEF Pass!Restart
<1>3. ASSUME NEW i \in 1..Prefixes, NEW d \in Pass!Decisions, Pass!Decide(i, d)
      PROVE  Goal'
  BY <1>3 DEF Pass!Decide
<1>4. ASSUME NEW n \in Nonces, Pass!Visit(n)
      PROVE  Goal'
  <2>1. LifeBounded'
    BY <1>4 DEF Pass!Visit, Pass!Token, PassTokens
  <2> QED BY <1>4, <2>1 DEF Pass!Visit
<1>5. ASSUME NEW t \in tokens, Pass!Submit(t)
      PROVE  Goal'
  BY <1>5 DEF Pass!Submit
<1>6. ASSUME NEW t \in tokens, Pass!SubmitRefused(t)
      PROVE  Goal'
  <2>1. ASSUME skew \in 0..MaxAhead - ResponseTtl
        PROVE  ~(t.exp >= Pass!WorkerClock)
    <3>1. t.kind = "req" /\ ~Pass!TicketValid(t) /\ t.exp \in Int
      BY <1>6 DEF Pass!SubmitRefused, PassTokens
    <3>2. t.exp <= clock + RequestTtl
      BY <3>1
    <3> QED BY <2>1, <3>1, <3>2 DEF Pass!TicketValid, Pass!WorkerClock
  <2> QED BY <1>6, <2>1 DEF Pass!SubmitRefused
<1>7. ASSUME NEW t \in tokens, Pass!Redeem(t)
      PROVE  Goal'
  BY <1>7 DEF Pass!Redeem
<1>8. ASSUME NEW t \in tokens, Pass!RedeemRefused(t)
      PROVE  Goal'
  <2>1. ASSUME skew \in 0..MaxAhead - ResponseTtl, Pass!InTime(t),
               \A u \in passed : u.nonce # t.nonce
        PROVE  FALSE
    <3>1. ~Pass!Known(t.nonce)
      BY <2>1 DEF Pass!Known
    <3>2. t.kind = "resp" /\ ~(t.exp <= clock + MaxAhead) /\ t.exp \in Int
      BY <1>8, <2>1, <3>1 DEF Pass!RedeemRefused, Pass!InLife, Pass!Redeemable,
         PassTokens
    <3>3. t.exp <= clock + skew + ResponseTtl
      BY <3>2
    <3> QED BY <2>1, <3>2, <3>3
  <2> QED BY <1>8, <2>1 DEF Pass!RedeemRefused
<1>9. ASSUME NEW t \in checking, Pass!Solved(t)
      PROVE  Goal'
  <2>1. LifeBounded'
    BY <1>9 DEF Pass!Solved, Pass!Token, PassTokens, Pass!WorkerClock
  <2> QED BY <1>9, <2>1 DEF Pass!Solved
<1>10. ASSUME NEW t \in checking, Pass!Unsolved(t)
       PROVE  Goal'
  BY <1>10 DEF Pass!Unsolved
<1>11. CASE UNCHANGED passVars
  BY <1>11 DEF passVars
<1> QED
  BY <1>1, <1>2, <1>3, <1>4, <1>5, <1>6, <1>7, <1>8, <1>9, <1>10, <1>11
     DEF Pass!Next

-----------------------------------------------------------------------------
(* Applying for certificates (CertApply).                                  *)

CertRows == [edit : Nat, old : BOOLEAN]

CertTypeInv ==
    /\ rows \in [Certs -> CertRows \cup {NoRow}]
    /\ isInApply \in BOOLEAN /\ thrown \in BOOLEAN
    /\ at \in [Cert!Callers -> {"idle", "tested", "set", "acme"}]
    /\ cert \in [Cert!Callers -> Certs \cup {NoCert}]
    /\ row \in [Cert!Callers -> CertRows \cup {NoRow}]
    /\ edited \in [Certs -> Int] /\ during \in [Certs -> BOOLEAN]
    /\ edits \in Nat

\* A call has a certificate while it runs, and a row while acme.sh does.
LocalsSet ==
    \A p \in Cert!Callers :
        /\ at[p] # "idle" => cert[p] \in Certs
        /\ at[p] = "acme" <=> row[p] # NoRow

\* The row a call will write back is what the last edit left, unless that
\* edit found the row held.
HeldIsCurrent ==
    \A p \in Cert!Callers :
        row[p] # NoRow => \/ during[cert[p]]
                          \/ row[p].edit = edited[cert[p]]

CertInv ==
    /\ CertTypeInv /\ LocalsSet /\ HeldIsCurrent
    /\ Cert!EditSurvives /\ Cert!FlagHasOwner

LEMMA CertInvInit ==
    ASSUME Cert!CertAssumption
    PROVE  Cert!Init => CertInv
<1> SUFFICES ASSUME Cert!Init
             PROVE  CertInv
  OBVIOUS
<1>1. CertTypeInv
  <2>1. rows \in [Certs -> CertRows \cup {NoRow}]
    BY DEF Cert!Init, Cert!Row, CertRows
  <2>2. /\ isInApply \in BOOLEAN /\ thrown \in BOOLEAN
        /\ during \in [Certs -> BOOLEAN]
    BY Zenon DEF Cert!Init
  <2>3. edited \in [Certs -> Int] /\ edits \in Nat
    BY DEF Cert!Init
  <2>4. /\ at \in [Cert!Callers -> {"idle", "tested", "set", "acme"}]
        /\ cert \in [Cert!Callers -> Certs \cup {NoCert}]
        /\ row \in [Cert!Callers -> CertRows \cup {NoRow}]
    BY DEF Cert!Init
  <2> QED BY <2>1, <2>2, <2>3, <2>4 DEF CertTypeInv
<1>2. LocalsSet /\ HeldIsCurrent
  BY DEF Cert!Init, LocalsSet, HeldIsCurrent
<1>3. Cert!EditSurvives
  <2>1. ASSUME NEW c \in Certs
        PROVE  rows[c] # NoRow /\ rows[c].edit = 0 /\ edited[c] = 0
    <3>1. rows[c] = [edit |-> 0, old |-> TRUE] /\ edited[c] = 0
      BY DEF Cert!Init, Cert!Row
    <3>2. rows[c] \in [edit : Nat, old : BOOLEAN]
      BY <3>1
    <3>3. rows[c] # NoRow
      BY <3>2, Zenon DEF Cert!CertAssumption
    <3>4. rows[c].edit = 0
      BY <3>1
    <3> QED BY <3>1, <3>3, <3>4
  <2> QED BY <2>1 DEF Cert!EditSurvives
<1>4. Cert!FlagHasOwner
  BY Zenon DEF Cert!Init, Cert!FlagHasOwner
<1> QED BY <1>1, <1>2, <1>3, <1>4 DEF CertInv

LEMMA CertTypeNext ==
    ASSUME Cert!CertAssumption
    PROVE  CertTypeInv /\ LocalsSet /\ [Cert!Next]_certVars
              => CertTypeInv' /\ LocalsSet'
<1> DEFINE Goal == CertTypeInv /\ LocalsSet
<1> SUFFICES ASSUME CertTypeInv, LocalsSet, [Cert!Next]_certVars
             PROVE  Goal'
  OBVIOUS
<1> USE DEF CertTypeInv, LocalsSet, Cert!noEdit
<1>1. CASE Cert!TaskStarts
  BY <1>1 DEF Cert!TaskStarts
<1>2. ASSUME NEW c \in Certs, Cert!Edit(c)
      PROVE  Goal'
  BY <1>2 DEF Cert!Edit, Cert!Noted, Cert!Held, CertRows
<1>3. ASSUME NEW c \in Certs, Cert!Del(c)
      PROVE  Goal'
  BY <1>3 DEF Cert!Del, Cert!Noted, Cert!Held
<1>4. ASSUME NEW c \in Certs, Cert!Ages(c)
      PROVE  Goal'
  BY <1>4 DEF Cert!Ages, CertRows
<1>5. ASSUME NEW c \in Certs, Cert!Busy(c)
      PROVE  Goal'
  BY <1>5 DEF Cert!Busy
<1>6. ASSUME NEW c \in Certs, NEW p \in Cert!Callers, Cert!Test(p, c)
      PROVE  Goal'
  BY <1>6 DEF Cert!Test, Cert!Entering
<1>7. ASSUME NEW p \in Cert!Callers, Cert!SetFlag(p)
      PROVE  Goal'
  BY <1>7 DEF Cert!SetFlag
<1>8. ASSUME NEW p \in Cert!Callers, Cert!ReadRow(p)
      PROVE  Goal'
  BY <1>8 DEF Cert!ReadRow, Cert!RowRead
<1>9. ASSUME NEW p \in Cert!Callers, Cert!Throws(p)
      PROVE  Goal'
  BY <1>9 DEF Cert!Throws, Cert!Leave
<1>10. ASSUME NEW p \in Cert!Callers, Cert!Succeeds(p)
       PROVE  Goal'
  BY <1>10 DEF Cert!Succeeds, Cert!Leave, CertRows
<1>11. ASSUME NEW p \in Cert!Callers, Cert!Fails(p)
       PROVE  Goal'
  BY <1>11 DEF Cert!Fails, Cert!Leave, Cert!Cleared
<1>12. CASE UNCHANGED certVars
  BY <1>12 DEF certVars
<1> QED
  BY <1>1, <1>2, <1>3, <1>4, <1>5, <1>6, <1>7, <1>8, <1>9, <1>10, <1>11,
     <1>12 DEF Cert!Next

LEMMA CertInvNext ==
    ASSUME Cert!CertAssumption
    PROVE  CertInv /\ [Cert!Next]_certVars => CertInv'
<1> DEFINE Goal == HeldIsCurrent /\ Cert!EditSurvives
<1> SUFFICES ASSUME CertInv, [Cert!Next]_certVars
             PROVE  Goal' /\ Cert!FlagHasOwner'
  BY CertTypeNext DEF CertInv
<1> USE DEF CertInv, CertTypeInv, LocalsSet, HeldIsCurrent,
            Cert!EditSurvives, Cert!noEdit
<1>1. CASE Cert!TaskStarts
  BY <1>1 DEF Cert!TaskStarts, Cert!FlagHasOwner
<1>2. ASSUME NEW c \in Certs, Cert!Edit(c)
      PROVE  Goal' /\ Cert!FlagHasOwner'
  <2>1. edits' \in Nat /\ rows'[c] \in CertRows /\ rows'[c].edit = edits'
    BY <1>2 DEF Cert!Edit, Cert!Noted, CertRows
  <2>2. rows'[c] # NoRow /\ rows'[c].edit = edited'[c]
    BY <1>2, <2>1 DEF Cert!Edit, Cert!Noted, CertRows, Cert!CertAssumption
  <2>3. \A d \in Certs \ {c} : /\ rows'[d] = rows[d]
                               /\ edited'[d] = edited[d]
                               /\ during'[d] = during[d]
    BY <1>2 DEF Cert!Edit, Cert!Noted
  <2>4. Cert!EditSurvives'
    BY <2>2, <2>3
  <2>5. HeldIsCurrent'
    <3>1. ASSUME NEW p \in Cert!Callers, row[p] # NoRow
          PROVE  during'[cert[p]] \/ row[p].edit = edited'[cert[p]]
      <4>1. cert[p] \in Certs
        BY <3>1
      <4>2. CASE cert[p] = c
        BY <1>2, <3>1, <4>2 DEF Cert!Edit, Cert!Noted, Cert!Held
      <4>3. CASE cert[p] # c
        BY <2>3, <3>1, <4>1, <4>3
      <4> QED BY <4>2, <4>3
    <3> QED BY <1>2, <3>1 DEF Cert!Edit
  <2>6. Cert!FlagHasOwner'
    BY <1>2 DEF Cert!Edit, Cert!FlagHasOwner
  <2> QED BY <2>4, <2>5, <2>6
<1>3. ASSUME NEW c \in Certs, Cert!Del(c)
      PROVE  Goal' /\ Cert!FlagHasOwner'
  <2>1. rows'[c] = NoRow /\ edited'[c] = -1
    BY <1>3 DEF Cert!Del, Cert!Noted
  <2>2. \A d \in Certs \ {c} : /\ rows'[d] = rows[d]
                               /\ edited'[d] = edited[d]
                               /\ during'[d] = during[d]
    BY <1>3 DEF Cert!Del, Cert!Noted
  <2>3. Cert!EditSurvives'
    BY <2>1, <2>2
  <2>4. HeldIsCurrent'
    <3>1. ASSUME NEW p \in Cert!Callers, row[p] # NoRow
          PROVE  during'[cert[p]] \/ row[p].edit = edited'[cert[p]]
      <4>1. cert[p] \in Certs
        BY <3>1
      <4>2. CASE cert[p] = c
        BY <1>3, <3>1, <4>2 DEF Cert!Del, Cert!Noted, Cert!Held
      <4>3. CASE cert[p] # c
        BY <2>2, <3>1, <4>1, <4>3
      <4> QED BY <4>2, <4>3
    <3> QED BY <1>3, <3>1 DEF Cert!Del
  <2>5. Cert!FlagHasOwner'
    BY <1>3 DEF Cert!Del, Cert!FlagHasOwner
  <2> QED BY <2>3, <2>4, <2>5
<1>4. ASSUME NEW c \in Certs, Cert!Ages(c)
      PROVE  Goal' /\ Cert!FlagHasOwner'
  <2>1. rows[c] \in CertRows /\ rows'[c] = [rows[c] EXCEPT !.old = TRUE]
    BY <1>4 DEF Cert!Ages
  <2>2. rows'[c] \in CertRows /\ rows'[c].edit = rows[c].edit
    BY <2>1 DEF CertRows
  <2>3. rows'[c] # NoRow /\ rows[c] # NoRow
    BY <2>1, <2>2, Zenon DEF CertRows, Cert!CertAssumption
  <2> QED BY <1>4, <2>2, <2>3 DEF Cert!Ages, Cert!FlagHasOwner
<1>5. ASSUME NEW c \in Certs, Cert!Busy(c)
      PROVE  Goal' /\ Cert!FlagHasOwner'
  BY <1>5 DEF Cert!Busy, Cert!FlagHasOwner
<1>6. ASSUME NEW c \in Certs, NEW p \in Cert!Callers, Cert!Test(p, c)
      PROVE  Goal' /\ Cert!FlagHasOwner'
  BY <1>6 DEF Cert!Test, Cert!Entering, Cert!FlagHasOwner
<1>7. ASSUME NEW p \in Cert!Callers, Cert!SetFlag(p)
      PROVE  Goal' /\ Cert!FlagHasOwner'
  <2>1. at'[p] = "set"
    BY <1>7 DEF Cert!SetFlag
  <2> QED BY <1>7, <2>1 DEF Cert!SetFlag, Cert!FlagHasOwner
<1>8. ASSUME NEW p \in Cert!Callers, Cert!ReadRow(p)
      PROVE  Goal' /\ Cert!FlagHasOwner'
  <2>1. at'[p] = "acme" /\ \A q \in Cert!Callers \ {p} : at'[q] = at[q]
    BY <1>8 DEF Cert!ReadRow
  <2>2. cert[p] \in Certs /\ row'[p] = rows[cert[p]] /\ rows[cert[p]] # NoRow
    BY <1>8 DEF Cert!ReadRow, Cert!RowRead
  <2> QED BY <1>8, <2>1, <2>2 DEF Cert!ReadRow, Cert!FlagHasOwner
<1>9. ASSUME NEW p \in Cert!Callers, Cert!Throws(p)
      PROVE  Goal' /\ Cert!FlagHasOwner'
  BY <1>9 DEF Cert!Throws, Cert!Leave, Cert!FlagHasOwner
<1>10. ASSUME NEW p \in Cert!Callers, Cert!Succeeds(p)
       PROVE  Goal' /\ Cert!FlagHasOwner'
  <2>1. cert[p] \in Certs /\ row[p] \in CertRows
    BY <1>10 DEF Cert!Succeeds
  <2>2. /\ rows'[cert[p]] \in CertRows
        /\ rows'[cert[p]].edit = row[p].edit
    BY <1>10, <2>1 DEF Cert!Succeeds, CertRows
  <2>3. rows'[cert[p]] # NoRow /\ row[p] # NoRow
    BY <2>1, <2>2 DEF CertRows, Cert!CertAssumption
  <2>4. Cert!EditSurvives'
    BY <1>10, <2>1, <2>2, <2>3 DEF Cert!Succeeds
  <2>5. HeldIsCurrent' /\ Cert!FlagHasOwner'
    BY <1>10 DEF Cert!Succeeds, Cert!Leave, Cert!FlagHasOwner
  <2> QED BY <2>4, <2>5
<1>11. ASSUME NEW p \in Cert!Callers, Cert!Fails(p)
       PROVE  Goal' /\ Cert!FlagHasOwner'
  BY <1>11 DEF Cert!Fails, Cert!Leave, Cert!Cleared, Cert!FlagHasOwner
<1>12. CASE UNCHANGED certVars
  BY <1>12 DEF certVars, Cert!FlagHasOwner
<1> QED
  BY <1>1, <1>2, <1>3, <1>4, <1>5, <1>6, <1>7, <1>8, <1>9, <1>10, <1>11,
     <1>12 DEF Cert!Next

-----------------------------------------------------------------------------
(* Deny and allow lists (DenyAllowLists).                                  *)

ListRows == [type : Lists!Types, ips : SUBSET Ips, edit : Nat]
FormRows == [list : IpLists, type : Lists!Types \cup {"none"},
             ips : SUBSET Ips, edit : Nat]

ListTypeInv ==
    /\ lists \in [IpLists -> ListRows \cup {NoList}]
    /\ savedAs \in [IpLists -> ListRows \cup {NoList}]
    /\ saving \in [Admins -> FormRows \cup {NoForm}]
    /\ saves \in Nat
    /\ DOMAIN due \subseteq IpLists
    /\ \A l \in DOMAIN due : due[l] \in ListRows

ListInv == ListTypeInv /\ Lists!SavedStays /\ Lists!NotEmptied

\* Writing a list that was checked leaves what was saved.
LEMMA WrittenKeeps ==
    ASSUME ListInv, NEW a \in Admins, saving[a] # NoForm,
           NEW ips \in SUBSET Ips, Lists!Written(a, ips)
    PROVE  ListInv'
<1> USE DEF ListInv, ListTypeInv
<1> DEFINE l == saving[a].list
           entry == [type |-> Lists!TypeFor(l, saving[a].type), ips |-> ips,
                   edit |-> saving[a].edit]
<1>1. saving[a] \in FormRows
  OBVIOUS
<1>2. Lists!TypeFor(l, saving[a].type) \in Lists!Types
  BY <1>1 DEF Lists!TypeFor, FormRows, ListRows, Lists!Types
<1>3. entry \in ListRows /\ l \in IpLists
  BY <1>1, <1>2 DEF ListRows, FormRows
<1>4. /\ lists' = [lists EXCEPT ![l] = entry]
      /\ savedAs' = [savedAs EXCEPT ![l] = entry]
      /\ lostLists' = lostLists \ {l}
      /\ saving' = [saving EXCEPT ![a] = NoForm]
      /\ UNCHANGED <<due, saves>>
  BY DEF Lists!Written
<1> HIDE DEF entry, l
<1>5. ListTypeInv'
  BY <1>3, <1>4
<1>6. Lists!SavedStays'
  BY <1>3, <1>4 DEF Lists!SavedStays
<1>7. Lists!NotEmptied'
  BY <1>3, <1>4 DEF Lists!NotEmptied
<1> QED BY <1>5, <1>6, <1>7

LEMMA ListInvNext == ListInv /\ [Lists!Next]_listVars => ListInv'
<1> SUFFICES ASSUME ListInv, [Lists!Next]_listVars
             PROVE  ListInv'
  OBVIOUS
<1> USE DEF ListInv, ListTypeInv, Lists!SavedStays, Lists!NotEmptied
<1>1. ASSUME NEW ip \in Ips, NEW l \in IpLists, Lists!Whitelist(ip, l)
      PROVE  ListInv'
  <2> DEFINE entry == [type |-> "allow", ips |-> {ip}, edit |-> saves']
  <2>1. entry \in ListRows
    BY <1>1 DEF Lists!Whitelist, ListRows, Lists!Types
  <2>2. /\ lists' = [lists EXCEPT ![l] = entry]
        /\ savedAs' = [savedAs EXCEPT ![l] = entry]
        /\ saves' \in Nat
        /\ UNCHANGED <<saving, due, lostLists>>
    BY <1>1 DEF Lists!Whitelist
  <2> HIDE DEF entry
  <2> QED BY <2>1, <2>2
<1>2. ASSUME NEW l \in IpLists, Lists!Del(l)
      PROVE  ListInv'
  BY <1>2 DEF Lists!Del
<1>3. ASSUME NEW l \in IpLists, Lists!RefreshFails(l)
      PROVE  ListInv'
  BY <1>3 DEF Lists!RefreshFails, Lists!RowAfterFailure, Lists!NotDue
<1>4. ASSUME NEW a \in Admins, NEW l \in IpLists,
             NEW type \in Lists!Types \cup {"none"}, NEW ips \in SUBSET Ips,
             Lists!Save(a, l, type, ips)
      PROVE  ListInv'
  <2> DEFINE form == [list |-> l, type |-> type, ips |-> ips, edit |-> saves']
  <2>1. form \in FormRows /\ saves' \in Nat
    BY <1>4 DEF Lists!Save, FormRows
  <2>2. /\ saving' = [saving EXCEPT ![a] = form]
        /\ UNCHANGED <<lists, due, savedAs, lostLists>>
    BY <1>4 DEF Lists!Save
  <2> HIDE DEF form
  <2> QED BY <2>1, <2>2
<1>5. ASSUME NEW a \in Admins, Lists!SaveAsTyped(a)
      PROVE  ListInv'
  BY <1>5, WrittenKeeps DEF Lists!SaveAsTyped, FormRows
<1>6. ASSUME NEW a \in Admins, NEW answer \in SUBSET Ips,
             Lists!SaveFetched(a, answer)
      PROVE  ListInv'
  BY <1>6, WrittenKeeps DEF Lists!SaveFetched
<1>7. ASSUME NEW ls \in SUBSET IpLists, Lists!Refresh(ls)
      PROVE  ListInv'
  BY <1>7 DEF Lists!Refresh
<1>8. ASSUME NEW l \in IpLists, NEW answer \in SUBSET Ips,
             Lists!Refreshed(l, answer)
      PROVE  ListInv'
  <2> DEFINE entry == [due[l] EXCEPT !.ips = answer]
  <2>1. entry \in ListRows /\ entry.ips # {}
    BY <1>8 DEF Lists!Refreshed, Lists!Accepted, ListRows
  <2>2. /\ lists' = [lists EXCEPT ![l] = entry]
        /\ lostLists' = lostLists \cup {l}
        /\ due' = Lists!NotDue(l)
        /\ UNCHANGED <<saving, savedAs, saves>>
    BY <1>8 DEF Lists!Refreshed
  <2> HIDE DEF entry
  <2> QED BY <2>1, <2>2 DEF Lists!NotDue
<1>9. CASE UNCHANGED listVars
  BY <1>9 DEF listVars
<1> QED
  BY <1>1, <1>2, <1>3, <1>4, <1>5, <1>6, <1>7, <1>8, <1>9 DEF Lists!Next

-----------------------------------------------------------------------------
(* The page that publishes (ConfPage).                                     *)

\* Configurations as the page and the server hold them.
Confs == [main : Versions \cup {0, Page!Own},
          subs : UNION {[S -> Page!Contents] : S \in SUBSET Names}]
Answers == [kind : {"conf", "org", "saved"}, conf : Confs]

PageTypeInv ==
    /\ db \in Versions /\ disk \in Confs
    /\ left \in Confs /\ right \in Confs
    /\ edit \in BOOLEAN /\ lost \in BOOLEAN /\ typed \in BOOLEAN
    /\ sending \subseteq Confs /\ newest \in Versions
    /\ answers \in Seq(Answers)

\* An answer of loadConf is under way, and the last one is what a state of the
\* database generates.
HasConf(s) == \E i \in DOMAIN s : Page!IsConf(s[i])
LastIs(s, v) ==
    \A i \in DOMAIN s :
        /\ Page!IsConf(s[i])
        /\ \A j \in DOMAIN s : j > i => ~Page!IsConf(s[j])
        => s[i].conf = Page!Generated(v)

PageInv ==
    /\ PageTypeInv
    /\ ~lost => LastIs(answers, newest)
    /\ Page!LeftIsGenerated

-----------------------------------------------------------------------------
\* The other answers stay when one arrives.
LEMMA Removed ==
    ASSUME NEW S, NEW s \in Seq(S), NEW i \in DOMAIN s
    PROVE  /\ Page!RemoveAt(s, i) \in Seq(S)
           /\ Len(Page!RemoveAt(s, i)) = Len(s) - 1
           /\ \A k \in 1..i - 1 : Page!RemoveAt(s, i)[k] = s[k]
           /\ \A k \in i..(Len(s) - 1) : Page!RemoveAt(s, i)[k] = s[k + 1]
<1> DEFINE r == Page!RemoveAt(s, i)
           front == SubSeq(s, 1, i - 1)
           back == SubSeq(s, i + 1, Len(s))
<1>1. i \in 1..Len(s) /\ Len(s) \in Nat
  OBVIOUS
<1>2. /\ front \in Seq(S) /\ Len(front) = i - 1
      /\ \A k \in 1..i - 1 : front[k] = s[k]
  BY <1>1
<1>3. /\ back \in Seq(S) /\ Len(back) = Len(s) - i
      /\ \A k \in 1..(Len(s) - i) : back[k] = s[k + i]
  BY <1>1
<1>4. r = front \o back
  BY DEF Page!RemoveAt
<1> HIDE DEF front, back, r
<1>5. r \in Seq(S) /\ Len(r) = Len(s) - 1
  BY <1>1, <1>2, <1>3, <1>4
<1>6. \A k \in 1..Len(front) + Len(back) :
         r[k] = IF k <= Len(front) THEN front[k] ELSE back[k - Len(front)]
  BY <1>2, <1>3, <1>4, ConcatProperties
<1>7. Len(front) = i - 1 /\ Len(front) + Len(back) = Len(s) - 1
  BY <1>1, <1>2, <1>3
<1>8. ASSUME NEW k \in 1..i - 1
      PROVE  r[k] = s[k]
  <2>1. k \in 1..Len(front) + Len(back) /\ k <= Len(front)
    BY <1>1, <1>7
  <2>2. r[k] = front[k]
    BY <1>6, <2>1
  <2>3. front[k] = s[k]
    BY <1>2
  <2> QED BY <2>2, <2>3
<1>9. ASSUME NEW k \in i..(Len(s) - 1)
      PROVE  r[k] = s[k + 1]
  <2> DEFINE m == k - (i - 1)
  <2>1. m \in 1..(Len(s) - i) /\ m + i = k + 1 /\ m = k - Len(front)
    BY SMTT(30), <1>1, <1>7
  <2>2. k \in 1..Len(front) + Len(back) /\ ~(k <= Len(front))
    BY <1>1, <1>7
  <2> HIDE DEF m
  <2>3. r[k] = back[m]
    BY <1>6, <2>1, <2>2
  <2>4. back[m] = s[m + i]
    BY <1>3, <2>1
  <2> QED BY <2>1, <2>3, <2>4
<1> QED BY <1>5, <1>8, <1>9 DEF r

\* When an answer arrives before those of loadConf that were asked for later,
\* the last of these stays the last.
LEMMA LastStays ==
    ASSUME NEW s \in Seq(Answers), NEW v, LastIs(s, v), NEW i \in DOMAIN s,
           Page!IsConf(s[i]) =>
               \A j \in DOMAIN s : j < i => ~Page!IsConf(s[j])
    PROVE  LET r == Page!RemoveAt(s, i)
           IN  /\ r \in Seq(Answers) /\ LastIs(r, v)
               /\ ~Page!IsConf(s[i]) => (HasConf(r) <=> HasConf(s))
               /\ Page!IsConf(s[i]) /\ ~HasConf(r) =>
                      s[i].conf = Page!Generated(v)
<1> DEFINE r == Page!RemoveAt(s, i)
<1>1. /\ r \in Seq(Answers) /\ Len(r) = Len(s) - 1
      /\ \A k \in 1..i - 1 : r[k] = s[k]
      /\ \A k \in i..(Len(s) - 1) : r[k] = s[k + 1]
  BY Removed
<1>2. Len(s) \in Nat /\ i \in 1..Len(s) /\ DOMAIN s = 1..Len(s)
  OBVIOUS
<1> HIDE DEF r
<1>3. DOMAIN r = 1..(Len(s) - 1)
  BY <1>1
<1>4. ASSUME NEW k \in DOMAIN r
      PROVE  LET m == IF k < i THEN k ELSE k + 1
             IN  m \in DOMAIN s \ {i} /\ r[k] = s[m]
  BY <1>1, <1>2, <1>3
<1>5. ASSUME NEW m \in DOMAIN s \ {i}
      PROVE  LET k == IF m < i THEN m ELSE m - 1
             IN  k \in DOMAIN r /\ r[k] = s[m]
  <2>1. CASE m < i
    BY <1>1, <1>2, <1>3, <2>1
  <2>2. CASE m > i
    <3>1. m - 1 \in i..(Len(s) - 1) /\ (m - 1) + 1 = m
      BY <1>2, <2>2
    <3> QED BY <1>1, <1>2, <1>3, <2>2, <3>1
  <2> QED BY <1>2, <2>1, <2>2
<1>6. ASSUME NEW k \in DOMAIN r, Page!IsConf(r[k]),
             \A j \in DOMAIN r : j > k => ~Page!IsConf(r[j])
      PROVE  r[k].conf = Page!Generated(v)
  <2> DEFINE m == IF k < i THEN k ELSE k + 1
  <2>1. m \in DOMAIN s \ {i} /\ r[k] = s[m]
    BY <1>4
  <2>2. ASSUME NEW j \in DOMAIN s, j > m
        PROVE  ~Page!IsConf(s[j])
    <3>1. CASE j = i
      <4>1. m < i
        BY <1>2, <2>1, <2>2, <3>1
      <4> QED BY <1>6, <2>1, <3>1, <4>1
    <3>2. CASE j # i
      <4> DEFINE q == IF j < i THEN j ELSE j - 1
      <4>1. q \in DOMAIN r /\ r[q] = s[j]
        BY <1>5, <3>2
      <4>2. q > k
        BY <1>2, <1>3, <2>1, <2>2, <3>2
      <4> HIDE DEF q
      <4> QED BY <1>6, <4>1, <4>2
    <3> QED BY <3>1, <3>2
  <2> HIDE DEF m
  <2> QED BY <1>6, <2>1, <2>2 DEF LastIs
<1>7. LastIs(r, v)
  BY <1>6 DEF LastIs
<1>8. ASSUME ~Page!IsConf(s[i])
      PROVE  HasConf(r) <=> HasConf(s)
  BY <1>4, <1>5, <1>8 DEF HasConf
<1>9. ASSUME Page!IsConf(s[i]), ~HasConf(r)
      PROVE  s[i].conf = Page!Generated(v)
  <2>1. \A m \in DOMAIN s \ {i} : ~Page!IsConf(s[m])
    BY <1>5, <1>9 DEF HasConf
  <2>2. \A m \in DOMAIN s : m > i => ~Page!IsConf(s[m])
    BY <1>2, <2>1
  <2> QED BY <1>9, <2>2 DEF LastIs
<1> QED BY <1>1, <1>7, <1>8, <1>9 DEF r

\* Answers that are asked for come behind those on their way.
LEMMA Queued ==
    ASSUME NEW s \in Seq(Answers), NEW t \in Seq(Answers), NEW v
    PROVE  /\ s \o t \in Seq(Answers)
           /\ HasConf(s \o t) <=> HasConf(s) \/ HasConf(t)
           /\ HasConf(t) /\ LastIs(t, v) => LastIs(s \o t, v)
           /\ ~HasConf(t) /\ LastIs(s, v) => LastIs(s \o t, v)
<1> DEFINE q == s \o t
<1>1. /\ q \in Seq(Answers) /\ Len(q) = Len(s) + Len(t)
      /\ \A i \in 1..Len(s) + Len(t) :
            q[i] = IF i <= Len(s) THEN s[i] ELSE t[i - Len(s)]
  BY ConcatProperties
<1>2. /\ Len(s) \in Nat /\ Len(t) \in Nat
      /\ DOMAIN s = 1..Len(s) /\ DOMAIN t = 1..Len(t)
  OBVIOUS
<1> HIDE DEF q
<1>3. DOMAIN q = 1..Len(s) + Len(t)
  BY <1>1
<1>4. ASSUME NEW i \in DOMAIN s
      PROVE  i \in DOMAIN q /\ q[i] = s[i]
  BY <1>1, <1>2, <1>3
<1>5. ASSUME NEW i \in DOMAIN t
      PROVE  i + Len(s) \in DOMAIN q /\ q[i + Len(s)] = t[i]
  <2>1. /\ i + Len(s) \in 1..Len(s) + Len(t)
        /\ ~(i + Len(s) <= Len(s)) /\ (i + Len(s)) - Len(s) = i
    BY <1>2
  <2> QED BY <1>1, <1>3, <2>1
<1>6. ASSUME NEW k \in DOMAIN q, k \notin DOMAIN s
      PROVE  k - Len(s) \in DOMAIN t /\ q[k] = t[k - Len(s)] /\ k > Len(s)
  BY <1>1, <1>2, <1>3, <1>6
<1>7. HasConf(q) <=> HasConf(s) \/ HasConf(t)
  <2>1. HasConf(s) => HasConf(q)
    BY <1>4 DEF HasConf
  <2>2. HasConf(t) => HasConf(q)
    BY <1>5 DEF HasConf
  <2>3. ASSUME NEW k \in DOMAIN q, Page!IsConf(q[k])
        PROVE  HasConf(s) \/ HasConf(t)
    BY <1>4, <1>6, <2>3 DEF HasConf
  <2> QED BY <2>1, <2>2, <2>3 DEF HasConf
<1>8. ASSUME NEW k \in DOMAIN q, Page!IsConf(q[k]),
             \A j \in DOMAIN q : j > k => ~Page!IsConf(q[j])
      PROVE  /\ HasConf(t) /\ LastIs(t, v) => q[k].conf = Page!Generated(v)
             /\ ~HasConf(t) /\ LastIs(s, v) => q[k].conf = Page!Generated(v)
  <2>1. CASE k \in DOMAIN s
    <3>1. \A i \in DOMAIN t : i + Len(s) > k
      BY <1>2, <2>1
    <3>2. \A i \in DOMAIN t : ~Page!IsConf(t[i])
      BY <1>5, <1>8, <3>1
    <3>3. q[k] = s[k] /\ \A j \in DOMAIN s : j > k => ~Page!IsConf(s[j])
      BY <1>4, <1>8, <2>1
    <3> QED BY <1>8, <2>1, <3>2, <3>3 DEF HasConf, LastIs
  <2>2. CASE k \notin DOMAIN s
    <3>1. /\ k - Len(s) \in DOMAIN t /\ q[k] = t[k - Len(s)]
          /\ Page!IsConf(t[k - Len(s)])
      BY <1>6, <1>8, <2>2
    <3>2. \A j \in DOMAIN t : j > k - Len(s) => j + Len(s) > k
      BY <1>2, <1>3
    <3>3. \A j \in DOMAIN t : j > k - Len(s) => ~Page!IsConf(t[j])
      BY <1>5, <1>8, <3>2
    <3> QED BY <3>1, <3>3 DEF HasConf, LastIs
  <2> QED BY <2>1, <2>2
<1>9. /\ HasConf(t) /\ LastIs(t, v) => LastIs(q, v)
      /\ ~HasConf(t) /\ LastIs(s, v) => LastIs(q, v)
  BY <1>8 DEF LastIs
<1> QED BY <1>1, <1>7, <1>9 DEF q

\* What the server answers.
LEMMA Loaded ==
    ASSUME Page!PageAssumption, NEW v \in Versions
    PROVE  /\ Page!Generated(v) \in Confs
           /\ \A c \in Confs : Page!Original(v, c) \in Confs
<1>1. SubsOf[v] \in SUBSET Names
  BY DEF Page!PageAssumption
<1>2. [n \in SubsOf[v] |-> <<v, n>>] \in [SubsOf[v] -> Page!Contents]
  BY <1>1 DEF Page!Contents
<1>3. ASSUME NEW c \in Confs
      PROVE  [n \in SubsOf[v] |-> IF n \in DOMAIN c.subs THEN c.subs[n]
                                  ELSE Page!Empty]
                \in [SubsOf[v] -> Page!Contents]
  <2>1. PICK S \in SUBSET Names : c.subs \in [S -> Page!Contents]
    BY DEF Confs
  <2>2. Page!Empty \in Page!Contents
    BY DEF Page!Contents
  <2> QED BY <2>1, <2>2
<1> QED BY <1>1, <1>2, <1>3 DEF Page!Generated, Page!Original, Confs

\* Copying by position invents no content.
LEMMA Copied ==
    ASSUME PageTypeInv
    PROVE  [main |-> right.main,
            subs |-> Page!CopyByRank(left.subs, right.subs)] \in Confs
<1>1. PICK S \in SUBSET Names : left.subs \in [S -> Page!Contents]
  BY DEF PageTypeInv, Confs
<1>2. PICK T \in SUBSET Names : right.subs \in [T -> Page!Contents]
  BY DEF PageTypeInv, Confs
<1>3. \A n \in S : Page!SameRank(n, left.subs, right.subs) \subseteq T
  BY <1>2 DEF Page!SameRank
<1>4. Page!CopyByRank(left.subs, right.subs) \in [S -> Page!Contents]
  BY <1>1, <1>2, <1>3 DEF Page!CopyByRank
<1> QED BY <1>4 DEF PageTypeInv, Confs

\* A configuration typed over, in its main file or another, is one.
LEMMA Typed ==
    ASSUME PageTypeInv
    PROVE  /\ [left EXCEPT !.main = Page!Own] \in Confs
           /\ \A n \in DOMAIN left.subs :
                 [left EXCEPT !.subs[n] = <<Page!Own, n>>] \in Confs
<1>1. PICK S \in SUBSET Names : left.subs \in [S -> Page!Contents]
  BY DEF PageTypeInv, Confs
<1>2. left \in Confs /\ left = [main |-> left.main, subs |-> left.subs]
  BY DEF PageTypeInv, Confs
<1>3. [left EXCEPT !.main = Page!Own] \in Confs
  BY <1>2 DEF Confs
<1>4. ASSUME NEW n \in DOMAIN left.subs
      PROVE  [left EXCEPT !.subs[n] = <<Page!Own, n>>] \in Confs
  <2> DEFINE new == [left.subs EXCEPT ![n] = <<Page!Own, n>>]
  <2>1. <<Page!Own, n>> \in Page!Contents
    BY <1>1 DEF Page!Contents
  <2>2. new \in [S -> Page!Contents]
    BY <1>1, <2>1
  <2>3. new \in UNION {[T -> Page!Contents] : T \in SUBSET Names}
    BY <2>2
  <2>4. [left EXCEPT !.subs[n] = <<Page!Own, n>>]
            = [main |-> left.main, subs |-> new]
    BY <1>2
  <2> QED BY <1>2, <2>3, <2>4 DEF Confs
<1> QED BY <1>3, <1>4

LEMMA PageInvInit ==
    ASSUME Page!PageAssumption
    PROVE  Page!Init => PageInv
<1> SUFFICES ASSUME Page!Init
             PROVE  PageInv
  OBVIOUS
<1>1. PICK old, new \in Versions :
          /\ db = new /\ disk = Page!Generated(old)
          /\ left = Page!Generated(new)
          /\ right = Page!Original(new, Page!Generated(old)) /\ newest = new
  BY DEF Page!Init
<1>2. disk \in Confs /\ left \in Confs /\ right \in Confs
  BY <1>1, Loaded
<1>3. /\ edit = FALSE /\ sending = {} /\ answers = <<>>
      /\ lost = FALSE /\ typed = FALSE
  BY DEF Page!Init
<1>4. edit \in BOOLEAN /\ lost \in BOOLEAN /\ typed \in BOOLEAN
  BY <1>3, Zenon
<1>5. PageTypeInv
  BY <1>1, <1>2, <1>3, <1>4 DEF PageTypeInv
<1>6. LastIs(answers, newest)
  BY <1>3 DEF LastIs
<1>7. Page!LeftIsGenerated
  BY <1>1 DEF Page!LeftIsGenerated
<1> QED BY <1>5, <1>6, <1>7 DEF PageInv

\* Where loadConf is called its answer is the last one.
LEMMA Asked ==
    ASSUME Page!PageAssumption, PageTypeInv, NEW v \in Versions, Page!Ask(v),
           NEW old \in Seq(Answers), NEW more \in Seq(Answers),
           HasConf(more), LastIs(more, v), answers' = old \o more
    PROVE  /\ answers' \in Seq(Answers) /\ newest' \in Versions
           /\ lost' \in BOOLEAN
           /\ LastIs(answers', newest') /\ Page!LeftIsGenerated'
<1>1. /\ old \o more \in Seq(Answers) /\ HasConf(old \o more)
      /\ LastIs(old \o more, v)
  BY Queued
<1>2. newest' = v
  BY DEF Page!Ask
<1>3. lost' \in BOOLEAN
  BY Zenon DEF Page!Ask
<1>4. HasConf(answers')
  BY <1>1
<1>5. Page!UnderWay'
  BY <1>4 DEF Page!UnderWay, HasConf
<1>6. Page!LeftIsGenerated'
  BY <1>5 DEF Page!LeftIsGenerated
<1> QED BY <1>1, <1>2, <1>3, <1>6

LEMMA PageInvNext ==
    ASSUME Page!PageAssumption
    PROVE  PageInv /\ [Page!Next]_pageVars => PageInv'
<1> SUFFICES ASSUME PageInv, [Page!Next]_pageVars
             PROVE  PageInv'
  OBVIOUS
<1>0. /\ PageTypeInv /\ Page!LeftIsGenerated
      /\ ~lost => LastIs(answers, newest)
  BY DEF PageInv
<1>a. ASSUME NEW v \in Versions
      PROVE  /\ Page!LoadConf(v) \in Answers /\ Page!LoadOrg(v) \in Answers
             /\ Page!IsConf(Page!LoadConf(v))
             /\ Page!LoadConf(v).conf = Page!Generated(v)
             /\ ~Page!IsConf(Page!LoadOrg(v))
  BY <1>0, Loaded
     DEF PageTypeInv, Page!LoadConf, Page!LoadOrg, Page!IsConf, Answers
<1>b. Page!Saved \in Answers /\ ~Page!IsConf(Page!Saved)
  <2>1. Page!NoConf \in Confs
    <3>1. <<>> \in [{} -> Page!Contents]
      OBVIOUS
    <3>2. <<>> \in UNION {[S -> Page!Contents] : S \in SUBSET Names}
      BY <3>1
    <3> QED BY <3>2 DEF Page!NoConf, Confs
  <2> QED BY <2>1 DEF Page!Saved, Page!IsConf, Answers
<1>c. /\ answers \in Seq(Answers) /\ db \in Versions
      /\ Page!UnderWay <=> HasConf(answers)
  BY <1>0 DEF PageTypeInv, Page!UnderWay, HasConf
\* A step that calls no loadConf and lets none of its answers arrive.
<1>d. ASSUME UNCHANGED <<newest, lost>>,
             answers' \in Seq(Answers),
             LastIs(answers, newest) => LastIs(answers', newest),
             ~Page!UnderWay' /\ ~edit' /\ ~typed' =>
                 ~Page!UnderWay /\ ~edit /\ ~typed /\ left' = left
      PROVE  Page!LeftIsGenerated' /\ (~lost' => LastIs(answers', newest'))
  BY <1>0, <1>d DEF Page!LeftIsGenerated
<1>1. ASSUME NEW v \in Versions, Page!EditDb(v)
      PROVE  PageInv'
  BY <1>0, <1>1
     DEF Page!EditDb, PageInv, PageTypeInv, LastIs, Page!LeftIsGenerated,
         Page!UnderWay
<1>2. ASSUME NEW v \in Versions, Page!Decompose(v)
      PROVE  PageInv'
  <2> DEFINE more == <<Page!LoadConf(v), Page!LoadOrg(v)>>
  <2>1. more \in Seq(Answers) /\ Len(more) = 2 /\ DOMAIN more = 1..2
    BY <1>a
  <2>2. more[1] = Page!LoadConf(v) /\ more[2] = Page!LoadOrg(v)
    OBVIOUS
  <2>3. answers' = answers \o more /\ Page!Ask(v)
    BY <1>2 DEF Page!Decompose
  <2> HIDE DEF more
  <2>4. HasConf(more) /\ LastIs(more, v)
    BY <1>a, <2>1, <2>2 DEF HasConf, LastIs
  <2>5. /\ answers' \in Seq(Answers) /\ newest' \in Versions
        /\ lost' \in BOOLEAN
        /\ LastIs(answers', newest') /\ Page!LeftIsGenerated'
    BY <1>0, <1>c, <2>1, <2>3, <2>4, Asked
  <2>6. PageTypeInv'
    BY <1>0, <1>2, <2>5 DEF Page!Decompose, PageTypeInv
  <2> QED BY <2>5, <2>6 DEF PageInv
<1>3. CASE Page!OthersPublish
  BY <1>0, <1>3, Loaded
     DEF Page!OthersPublish, PageInv, PageTypeInv, LastIs,
         Page!LeftIsGenerated, Page!UnderWay
<1>4. CASE Page!Replace
  BY <1>0, <1>4
     DEF Page!Replace, PageInv, PageTypeInv, LastIs, Page!LeftIsGenerated,
         Page!UnderWay
<1>5. CASE Page!EnterEdit
  <2>1. PageTypeInv'
    BY <1>0, <1>5, Copied DEF Page!EnterEdit, PageTypeInv
  <2> QED
    BY <1>0, <1>5, <2>1
       DEF Page!EnterEdit, PageInv, LastIs, Page!LeftIsGenerated
<1>6. CASE Page!ExitEdit
  <2> DEFINE more == <<Page!LoadConf(db)>>
  <2>1. more \in Seq(Answers) /\ Len(more) = 1 /\ DOMAIN more = 1..1
        /\ more[1] = Page!LoadConf(db)
    BY <1>a, <1>c
  <2>2. answers' = answers \o more /\ Page!Ask(db)
    BY <1>6, <1>a, <1>c DEF Page!ExitEdit
  <2> HIDE DEF more
  <2>3. HasConf(more) /\ LastIs(more, db)
    BY <1>a, <1>c, <2>1 DEF HasConf, LastIs
  <2>4. /\ answers' \in Seq(Answers) /\ newest' \in Versions
        /\ lost' \in BOOLEAN
        /\ LastIs(answers', newest') /\ Page!LeftIsGenerated'
    BY <1>0, <1>c, <2>1, <2>2, <2>3, Asked
  <2>5. PageTypeInv'
    BY <1>0, <1>6, <2>4 DEF Page!ExitEdit, PageTypeInv
  <2> QED BY <2>4, <2>5 DEF PageInv
<1>7. ASSUME NEW c \in sending, Page!ServerReplaces(c)
      PROVE  PageInv'
  <2> DEFINE more == <<Page!Saved>>
  <2>1. more \in Seq(Answers) /\ Len(more) = 1 /\ DOMAIN more = 1..1
        /\ more[1] = Page!Saved
    BY <1>b
  <2>2. answers' = answers \o more
    BY <1>7, <1>b, <1>c DEF Page!ServerReplaces
  <2> HIDE DEF more
  <2>3. ~HasConf(more)
    BY <1>b, <2>1 DEF HasConf
  <2>4. /\ answers' \in Seq(Answers)
        /\ HasConf(answers') <=> HasConf(answers)
        /\ LastIs(answers, newest) => LastIs(answers', newest)
    BY <1>c, <2>1, <2>2, <2>3, Queued
  <2>5. Page!UnderWay' <=> Page!UnderWay
    BY <1>c, <2>4 DEF Page!UnderWay, HasConf
  <2>6. Page!LeftIsGenerated' /\ (~lost' => LastIs(answers', newest'))
    BY <1>7, <1>d, <2>4, <2>5 DEF Page!ServerReplaces
  <2>7. PageTypeInv'
    BY <1>0, <1>7, <2>4 DEF Page!ServerReplaces, PageTypeInv
  <2> QED BY <2>6, <2>7 DEF PageInv
<1>8. ASSUME NEW c \in sending, Page!ServerRefuses(c)
      PROVE  PageInv'
  BY <1>0, <1>8
     DEF Page!ServerRefuses, PageInv, PageTypeInv, LastIs,
         Page!LeftIsGenerated, Page!UnderWay
<1>9. ASSUME NEW i \in DOMAIN answers
      PROVE  Page!RemoveAt(answers, i) \in Seq(Answers) /\ answers[i] \in Answers
  BY <1>c, Removed
\* An answer other than those of loadConf is taken from the queue.
<1>10. ASSUME NEW i \in DOMAIN answers, ~Page!IsConf(answers[i]), NEW old,
              old = Page!RemoveAt(answers, i), LastIs(answers, newest)
       PROVE  LastIs(old, newest)
  BY <1>c, <1>10, LastStays
<1>11. ASSUME NEW i \in DOMAIN answers, ~Page!IsConf(answers[i])
       PROVE  HasConf(Page!RemoveAt(answers, i)) <=> HasConf(answers)
  <2> DEFINE r == Page!RemoveAt(answers, i)
  <2>1. /\ Len(answers) \in Nat /\ i \in 1..Len(answers)
        /\ Len(r) = Len(answers) - 1 /\ DOMAIN r = 1..Len(r)
        /\ \A k \in 1..i - 1 : r[k] = answers[k]
        /\ \A k \in i..(Len(answers) - 1) : r[k] = answers[k + 1]
    BY <1>c, Removed
  <2> HIDE DEF r
  <2>2. ASSUME HasConf(r)
        PROVE  HasConf(answers)
    <3>1. PICK k \in DOMAIN r : Page!IsConf(r[k])
      BY <2>2 DEF HasConf
    <3>2. CASE k < i
      BY <1>c, <2>1, <3>1, <3>2 DEF HasConf
    <3>3. CASE k >= i
      <4>1. k + 1 \in DOMAIN answers /\ r[k] = answers[k + 1]
        BY <1>c, <2>1, <3>1, <3>3
      <4> QED BY <3>1, <4>1 DEF HasConf
    <3> QED BY <2>1, <3>1, <3>2, <3>3
  <2>3. ASSUME HasConf(answers)
        PROVE  HasConf(r)
    <3>1. PICK m \in DOMAIN answers : Page!IsConf(answers[m])
      BY <2>3 DEF HasConf
    <3>2. m # i /\ m \in 1..Len(answers)
      BY <1>11, <1>c, <3>1
    <3>3. CASE m < i
      BY <2>1, <3>1, <3>2, <3>3 DEF HasConf
    <3>4. CASE m > i
      <4>1. /\ m - 1 \in i..(Len(answers) - 1) /\ (m - 1) + 1 = m
            /\ m - 1 \in DOMAIN r
        BY <2>1, <3>2, <3>4
      <4> QED BY <2>1, <3>1, <4>1 DEF HasConf
    <3> QED BY <2>1, <3>2, <3>3, <3>4
  <2> QED BY <2>2, <2>3 DEF r
<1>12. ASSUME NEW i \in DOMAIN answers, Page!ConfArrives(i)
       PROVE  PageInv'
  <2>1. /\ Page!IsConf(answers[i]) /\ left' = answers[i].conf
        /\ answers' = Page!RemoveAt(answers, i)
        /\ lost' = (lost \/ \E j \in DOMAIN answers :
                               j < i /\ Page!IsConf(answers[j]))
        /\ typed' = FALSE
        /\ UNCHANGED <<db, disk, right, edit, sending, newest>>
    BY <1>12 DEF Page!ConfArrives
  <2>2. lost' \in BOOLEAN /\ typed' \in BOOLEAN
    BY <2>1, Zenon
  <2>3. ASSUME ~lost'
        PROVE  /\ LastIs(answers, newest)
               /\ \A j \in DOMAIN answers : j < i => ~Page!IsConf(answers[j])
    BY <1>0, <2>1, <2>3
  <2>4. ASSUME ~lost'
        PROVE  /\ LastIs(answers', newest')
               /\ ~HasConf(answers') => left' = Page!Generated(newest')
    BY <1>c, <2>1, <2>3, <2>4, LastStays
  <2>5. Page!LeftIsGenerated'
    BY <2>4 DEF Page!LeftIsGenerated, Page!UnderWay, HasConf
  <2>6. answers[i].conf \in Confs
    BY <1>9 DEF Answers
  <2>7. PageTypeInv'
    BY <1>0, <1>9, <2>1, <2>2, <2>6 DEF PageTypeInv
  <2> QED BY <2>4, <2>5, <2>7 DEF PageInv
<1>13. ASSUME NEW i \in DOMAIN answers, Page!OrgArrives(i)
       PROVE  PageInv'
  <2>1. ~Page!IsConf(answers[i]) /\ answers' = Page!RemoveAt(answers, i)
    BY <1>13 DEF Page!OrgArrives, Page!IsConf
  <2>2. Page!UnderWay' <=> Page!UnderWay
    BY <1>11, <1>c, <2>1 DEF Page!UnderWay, HasConf
  <2>3. LastIs(answers, newest) => LastIs(answers', newest)
    BY <1>10, <2>1
  <2>4. answers' \in Seq(Answers) /\ answers[i].conf \in Confs
    BY <1>9, <2>1 DEF Answers
  <2>5. Page!LeftIsGenerated' /\ (~lost' => LastIs(answers', newest'))
    BY <1>13, <1>d, <2>2, <2>3, <2>4 DEF Page!OrgArrives
  <2>6. PageTypeInv'
    BY <1>0, <1>13, <2>4 DEF Page!OrgArrives, PageTypeInv
  <2> QED BY <2>5, <2>6 DEF PageInv
<1>14. ASSUME NEW i \in DOMAIN answers, Page!SavedArrives(i)
       PROVE  PageInv'
  <2> DEFINE old == Page!RemoveAt(answers, i)
  <2>1. ~Page!IsConf(answers[i]) /\ answers' = old \o Page!AfterSaved
    BY <1>14 DEF Page!SavedArrives, Page!IsConf
  <2>2. old \in Seq(Answers) /\ (HasConf(old) <=> HasConf(answers))
    BY <1>9, <1>11, <2>1
  <2>3. LastIs(answers, newest) => LastIs(old, newest)
    BY <1>10, <2>1
  <2> HIDE DEF old
  <2>4. CASE edit
    <3> DEFINE more == <<Page!LoadOrg(db), Page!LoadConf(db)>>
    <3>1. more \in Seq(Answers) /\ Len(more) = 2 /\ DOMAIN more = 1..2
      BY <1>a, <1>c
    <3>2. more[1] = Page!LoadOrg(db) /\ more[2] = Page!LoadConf(db)
      OBVIOUS
    <3>3. answers' = old \o more /\ Page!Ask(db)
      BY <1>14, <2>1, <2>4 DEF Page!SavedArrives, Page!AfterSaved
    <3> HIDE DEF more
    <3>4. HasConf(more) /\ LastIs(more, db)
      BY <1>a, <1>c, <3>1, <3>2 DEF HasConf, LastIs
    <3>5. /\ answers' \in Seq(Answers) /\ newest' \in Versions
          /\ lost' \in BOOLEAN
          /\ LastIs(answers', newest') /\ Page!LeftIsGenerated'
      BY <1>0, <1>c, <2>2, <3>1, <3>3, <3>4, Asked
    <3>6. PageTypeInv'
      BY <1>0, <1>14, <3>5 DEF Page!SavedArrives, PageTypeInv
    <3> QED BY <3>5, <3>6 DEF PageInv
  <2>5. CASE ~edit
    <3> DEFINE more == <<Page!LoadOrg(db)>>
    <3>1. more \in Seq(Answers) /\ Len(more) = 1 /\ DOMAIN more = 1..1
          /\ more[1] = Page!LoadOrg(db)
      BY <1>a, <1>c
    <3>2. answers' = old \o more /\ UNCHANGED <<newest, lost>>
      BY <1>14, <2>1, <2>5 DEF Page!SavedArrives, Page!AfterSaved
    <3> HIDE DEF more
    <3>3. ~HasConf(more)
      BY <1>a, <1>c, <3>1 DEF HasConf
    <3>4. /\ answers' \in Seq(Answers)
          /\ HasConf(answers') <=> HasConf(old)
          /\ LastIs(old, newest) => LastIs(answers', newest)
      BY <2>2, <3>1, <3>2, <3>3, Queued
    <3>5. Page!UnderWay' <=> Page!UnderWay
      BY <1>c, <2>2, <3>4 DEF Page!UnderWay, HasConf
    <3>6. UNCHANGED <<db, disk, left, right, sending, typed>> /\ edit' = FALSE
      BY <1>14 DEF Page!SavedArrives
    <3>7. Page!LeftIsGenerated' /\ (~lost' => LastIs(answers', newest'))
      BY <1>d, <2>3, <2>5, <3>2, <3>4, <3>5, <3>6
    <3>8. edit' \in BOOLEAN
      BY <3>6, Zenon
    <3>9. PageTypeInv'
      BY <1>0, <3>2, <3>4, <3>6, <3>8 DEF PageTypeInv
    <3> QED BY <3>7, <3>9 DEF PageInv
  <2> QED BY <2>4, <2>5
<1>15. ASSUME NEW i \in DOMAIN answers, Page!AnswerFails(i)
       PROVE  PageInv'
  <2>1. /\ answers' = Page!RemoveAt(answers, i)
        /\ lost' = (lost \/ Page!IsConf(answers[i]))
        /\ UNCHANGED <<db, disk, left, right, edit, sending, newest, typed>>
    BY <1>15 DEF Page!AnswerFails
  <2>2. lost' \in BOOLEAN
    BY <2>1, Zenon
  <2>3. PageTypeInv'
    BY <1>0, <1>9, <2>1, <2>2 DEF PageTypeInv
  <2>4. CASE Page!IsConf(answers[i])
    <3>1. lost' = TRUE
      BY <2>1, <2>4
    <3> QED BY <2>3, <3>1 DEF PageInv, Page!LeftIsGenerated
  <2>5. CASE ~Page!IsConf(answers[i])
    <3>1. lost' <=> lost
      BY <2>1, <2>5, Zenon
    <3>2. Page!UnderWay' <=> Page!UnderWay
      BY <1>11, <1>c, <2>1, <2>5 DEF Page!UnderWay, HasConf
    <3>3. ~lost' => LastIs(answers', newest')
      BY <1>0, <1>10, <2>1, <2>5, <3>1
    <3>4. Page!LeftIsGenerated'
      BY <1>0, <2>1, <3>1, <3>2 DEF Page!LeftIsGenerated
    <3> QED BY <2>3, <3>3, <3>4 DEF PageInv
  <2> QED BY <2>4, <2>5
<1>16. CASE Page!Type
  <2>1. left' \in Confs
    BY <1>0, <1>16, Typed DEF Page!Type
  <2>2. typed' = TRUE
    BY <1>16 DEF Page!Type
  <2>3. typed' \in BOOLEAN
    BY <2>2, Zenon
  <2>4. PageTypeInv'
    BY <1>0, <1>16, <2>1, <2>3 DEF Page!Type, PageTypeInv
  <2> QED
    BY <1>0, <1>16, <2>2, <2>4
       DEF Page!Type, PageInv, LastIs, Page!LeftIsGenerated
<1>17. CASE UNCHANGED pageVars
  BY <1>0, <1>17
     DEF pageVars, PageInv, PageTypeInv, LastIs, Page!LeftIsGenerated,
         Page!UnderWay
<1> QED
  BY <1>1, <1>2, <1>3, <1>4, <1>5, <1>6, <1>7, <1>8, <1>12, <1>13, <1>14,
     <1>15, <1>16, <1>17 DEF Page!Next

-----------------------------------------------------------------------------
(* A step of the panel is a step of each part, or leaves it as it is.      *)

LEMMA PartsStep ==
    ASSUME [Next]_partsVars
    PROVE  /\ [Publish!Next]_publishVars
           /\ [Page!Next]_pageVars
           /\ [Pass!Next]_passVars
           /\ [Store!Next]_storeVars
           /\ [Token!Next]_tokenVars
           /\ [Cert!Next]_certVars
           /\ [Lists!Next]_listVars
           /\ [Servers!Next]_serverVars
<1>1. CASE UNCHANGED partsVars
  BY <1>1
     DEF partsVars
<1>2. CASE PublishStep
  BY <1>2 DEF PublishStep
<1>3. CASE PageStep
  BY <1>3 DEF PageStep
<1>4. CASE PassStep
  BY <1>4 DEF PassStep
<1>5. CASE StoreStep
  BY <1>5 DEF StoreStep
<1>6. CASE TokenStep
  BY <1>6 DEF TokenStep
<1>7. CASE CertStep
  BY <1>7 DEF CertStep
<1>8. CASE ListStep
  BY <1>8 DEF ListStep
<1>9. CASE ServerStep
  BY <1>9 DEF ServerStep
<1> QED
  BY <1>1, <1>2, <1>3, <1>4, <1>5, <1>6, <1>7, <1>8, <1>9 DEF Next

LEMMA PartsInit ==
    ASSUME Init
    PROVE  /\ Publish!Init
           /\ Page!Init
           /\ Pass!Init
           /\ Store!Init
           /\ Token!Init
           /\ Cert!Init
           /\ Lists!Init
           /\ Servers!Init
BY DEF Init

LEMMA PublishPart == Spec => Publish!Spec
<1>1. Init => Publish!Init
  BY PartsInit
<1>2. [Next]_partsVars => [Publish!Next]_(Publish!vars)
  BY PartsStep DEF Publish!vars, publishVars,
     Publish!disk, Publish!nginx, Publish!tables, Publish!counters
<1> QED BY <1>1, <1>2, PTL DEF Spec, Publish!Spec

LEMMA StorePart == Spec => Store!Spec
<1>1. Init => Store!Init
  BY PartsInit
<1>2. [Next]_partsVars => [Store!Next]_(Store!storeVars)
  BY PartsStep DEF Store!storeVars, storeVars
<1> QED BY <1>1, <1>2, PTL DEF Spec, Store!Spec

LEMMA ServersPart == Spec => Servers!Spec
<1>1. Init => Servers!Init
  BY PartsInit
<1>2. [Next]_partsVars => [Servers!Next]_(Servers!serverVars)
  BY PartsStep DEF Servers!serverVars, serverVars,
     Servers!storeRows, Servers!hist
<1> QED BY <1>1, <1>2, PTL DEF Spec, Servers!Spec

LEMMA TokenInvAlways ==
    ASSUME PartsAssumption
    PROVE  Spec => []TokenInv
<1>1. Token!TokenAssumption
  BY DEF PartsAssumption
<1>2. Init => TokenInv
  BY <1>1, PartsInit, TokenInvInit
<1>3. TokenInv /\ [Next]_partsVars => TokenInv'
  BY <1>1, PartsStep, TokenInvNext
<1> QED BY <1>2, <1>3, PTL DEF Spec

LEMMA PassInvAlways ==
    ASSUME PartsAssumption
    PROVE  Spec => []PassInv
<1>1. Pass!ChallengeAssumption
  BY DEF PartsAssumption
<1>2. Init => PassInv
  BY <1>1, PartsInit, PassInvInit
<1>3. PassInv /\ [Next]_partsVars => PassInv'
  BY <1>1, PartsStep, PassInvNext
<1> QED BY <1>2, <1>3, PTL DEF Spec

LEMMA LifeInvAlways ==
    ASSUME PartsAssumption
    PROVE  Spec => []LifeInv
<1>1. Pass!ChallengeAssumption
  BY DEF PartsAssumption
<1>2. Init => LifeInv
  BY <1>1, PartsInit, LifeInvInit
<1>3. LifeInv /\ [Next]_partsVars => LifeInv'
  BY <1>1, PartsStep, LifeInvNext
<1> QED BY <1>2, <1>3, PTL DEF Spec

LEMMA CertInvAlways ==
    ASSUME PartsAssumption
    PROVE  Spec => []CertInv
<1>1. Cert!CertAssumption
  BY DEF PartsAssumption
<1>2. Init => CertInv
  BY <1>1, PartsInit, CertInvInit
<1>3. CertInv /\ [Next]_partsVars => CertInv'
  BY <1>1, PartsStep, CertInvNext
<1> QED BY <1>2, <1>3, PTL DEF Spec

LEMMA ListInvInit == Lists!Init => ListInv
BY DEF Lists!Init, ListInv, ListTypeInv, Lists!SavedStays, Lists!NotEmptied

LEMMA ListInvAlways == Spec => []ListInv
<1>1. Init => ListInv
  BY PartsInit, ListInvInit
<1>2. ListInv /\ [Next]_partsVars => ListInv'
  BY PartsStep, ListInvNext
<1> QED BY <1>1, <1>2, PTL DEF Spec

LEMMA PageInvAlways ==
    ASSUME PartsAssumption
    PROVE  Spec => []PageInv
<1>1. Page!PageAssumption
  BY DEF PartsAssumption
<1>2. Init => PageInv
  BY <1>1, PartsInit, PageInvInit
<1>3. PageInv /\ [Next]_partsVars => PageInv'
  BY <1>1, PartsStep, PageInvNext
<1> QED BY <1>2, <1>3, PTL DEF Spec

-----------------------------------------------------------------------------
(* The theorems.                                                           *)

\* What requests read, test, write and record stays of the types the code
\* gives it, in any number of publishes and restores.  (ConfService.replace)
THEOREM PublishTypeOKCorrect ==
    ASSUME PartsAssumption
    PROVE  Spec => []PublishTypeOK
<1>1. Publish!PublishAssumption
  BY DEF PartsAssumption
<1>2. Publish!Spec => []Publish!TypeOK
  BY <1>1, Publish!TypeCorrect
<1>3. Publish!TypeOK <=> PublishTypeOK
  BY DEF PublishTypeOK
<1> QED BY <1>2, <1>3, PublishPart, PTL

\* nginx never runs a mixture of two publishes or restores that reload one
\* after the other.  (ConfService.replace, ConfController.reload)
THEOREM RunsWholeCorrect ==
    ASSUME PartsAssumption
    PROVE  Spec => []RunsWhole
<1>1. Publish!PublishAssumption
  BY DEF PartsAssumption
<1>2. Publish!Spec => []Publish!RunsWhole
  BY <1>1, Publish!RunsWholeCorrect
<1>3. Publish!RunsWhole <=> RunsWhole
  BY DEF RunsWhole
<1> QED BY <1>2, <1>3, PublishPart, PTL

\* As long as requests do not overlap and none fails, the files are those of
\* the last publish or restore.  (ConfService.replace, BakController.replace)
THEOREM LiveIsExpectedCorrect ==
    ASSUME PartsAssumption
    PROVE  Spec => []LiveIsExpected
<1>1. Publish!PublishAssumption
  BY DEF PartsAssumption
<1>2. Publish!Spec => []Publish!LiveIsExpected
  BY <1>1, Publish!LiveIsExpectedCorrect
<1>3. Publish!LiveIsExpected <=> LiveIsExpected
  BY DEF LiveIsExpected
<1> QED BY <1>2, <1>3, PublishPart, PTL

\* A recorded backup is the configuration one request wrote, and its files
\* are recorded with it.  (ConfService.replace, BakService)
THEOREM BackupIsWholeCorrect ==
    ASSUME PartsAssumption
    PROVE  Spec => []BackupIsWhole
<1>1. Publish!PublishAssumption
  BY DEF PartsAssumption
<1>2. Publish!Spec => []Publish!BackupIsWhole
  BY <1>1, Publish!BackupIsWholeCorrect
<1>3. Publish!BackupIsWhole <=> BackupIsWhole
  BY DEF BackupIsWhole
<1> QED BY <1>2, <1>3, PublishPart, PTL

\* Whatever order answers arrive in, what the page would publish outside edit
\* mode is a configuration the database generated.  (conf/index.js)
THEOREM LeftIsGeneratedCorrect ==
    ASSUME PartsAssumption
    PROVE  Spec => []LeftIsGenerated
<1>1. PageInv => LeftIsGenerated
  BY DEF PageInv, LeftIsGenerated
<1> QED BY <1>1, PageInvAlways, PTL

\* However stores and cleanups interleave, a request has one event.
\* (WafEventService.store)
THEOREM OneEventCorrect ==
    ASSUME PartsAssumption
    PROVE  Spec => []OneEvent
<1>1. Store!StoreAssumption
  BY DEF PartsAssumption
<1>2. Store!Spec => []Store!OneEvent
  BY <1>1, Store!OneEventCorrect
<1>3. Store!OneEvent <=> OneEvent
  BY DEF OneEvent
<1> QED BY <1>2, <1>3, StorePart, PTL

\* A hit that is known is stored with all its rules.
\* (WafEventService.store and cleanup)
THEOREM KnownIsWholeCorrect ==
    ASSUME PartsAssumption
    PROVE  Spec => []KnownIsWhole
<1>1. Store!StoreAssumption
  BY DEF PartsAssumption
<1>2. Store!Spec => []Store!KnownIsWhole
  BY <1>1, Store!KnownIsWholeCorrect
<1>3. Store!KnownIsWhole <=> KnownIsWhole
  BY DEF KnownIsWhole
<1> QED BY <1>2, <1>3, StorePart, PTL

\* What a store returned for is in the table until a cleanup of its time.
\* (WafEventService.store)
THEOREM AckedIsStoredCorrect ==
    ASSUME PartsAssumption
    PROVE  Spec => []AckedIsStored
<1>1. Store!StoreAssumption
  BY DEF PartsAssumption
<1>2. Store!Spec => []Store!AckedIsStored
  BY <1>1, Store!AckedIsStoredCorrect
<1>3. Store!AckedIsStored <=> AckedIsStored
  BY DEF AckedIsStored
<1> QED BY <1>2, <1>3, StorePart, PTL

\* The description of the only location of its place survives every later
\* save of the server.  (ServerService.findLocationDescr)
THEOREM DescrStaysCorrect ==
    ASSUME PartsAssumption
    PROVE  Spec => []DescrStays
<1>1. Servers!ServerAssumption
  BY DEF PartsAssumption
<1>2. Servers!Spec => []Servers!DescrStays
  BY <1>1, Servers!DescrStaysCorrect
<1>3. Servers!DescrStays <=> DescrStays
  BY DEF DescrStays
<1> QED BY <1>2, <1>3, ServersPart, PTL

\* An edit of a server is undone only by a move that read the row before it.
\* (ServerService.setSeq)
THEOREM EditsStayCorrect ==
    ASSUME PartsAssumption
    PROVE  Spec => []EditsStay
<1>1. Servers!ServerAssumption
  BY DEF PartsAssumption
<1>2. Servers!Spec => []Servers!EditsStay
  BY <1>1, Servers!EditsStayCorrect
<1>3. Servers!EditsStay <=> EditsStay
  BY DEF EditsStay
<1> QED BY <1>2, <1>3, ServersPart, PTL

\* After a save that nothing disturbed, the page of a server shows what was
\* sent.  (ServerService.addOver, ServerController.detail)
THEOREM SavedIsShownCorrect ==
    ASSUME PartsAssumption
    PROVE  Spec => []SavedIsShown
<1>1. Servers!ServerAssumption
  BY DEF PartsAssumption
<1>2. Servers!Spec => []Servers!SavedIsShown
  BY <1>1, Servers!SavedIsShownCorrect
<1>3. Servers!SavedIsShown <=> SavedIsShown
  BY DEF SavedIsShown
<1> QED BY <1>2, <1>3, ServersPart, PTL

\* Moves, new servers and deletions one at a time leave the order that they
\* mean.  (ServerService.setSeq)
THEOREM OrderIsWantedCorrect ==
    ASSUME PartsAssumption
    PROVE  Spec => []OrderIsWanted
<1>1. Servers!ServerAssumption
  BY DEF PartsAssumption
<1>2. Servers!Spec => []Servers!OrderIsWanted
  BY <1>1, Servers!OrderIsWantedCorrect
<1>3. Servers!OrderIsWanted <=> OrderIsWanted
  BY DEF OrderIsWanted
<1> QED BY <1>2, <1>3, ServersPart, PTL

\* No request is refused because its token expired on the way: the margin of
\* token() covers the timeout of a request.  (CrowdSecClient.token)
THEOREM NoneExpiresCorrect ==
    ASSUME PartsAssumption
    PROVE  Spec => []NoneExpires
<1>1. TokenInv => NoneExpires
  BY DEF TokenInv, NoneExpires
<1> QED BY <1>1, TokenInvAlways, PTL

\* However many callers drop and renew the token, none of them is told that
\* the machine's credentials are wrong unless CrowdSec changed its secret
\* again between its two requests.  (CrowdSecClient.sendWithJwt)
THEOREM NoFalseAlarmCorrect ==
    ASSUME PartsAssumption
    PROVE  Spec => []NoFalseAlarm
<1>1. TokenInv => NoFalseAlarm
  BY DEF TokenInv, NoFalseAlarm
<1> QED BY <1>1, TokenInvAlways, PTL

\* A response ticket or an ALTCHA challenge gives a pass once as long as
\* nginx keeps its shared memory, whatever the clocks do: its nonce leaves
\* the dict after it has expired.  (nwu_challenge.lua)
THEOREM TokenPassesOnceCorrect ==
    ASSUME PartsAssumption
    PROVE  Spec => []TokenPassesOnce
<1>1. PassInv => TokenPassesOnce
  BY DEF PassInv, TokenPassesOnce
<1> QED BY <1>1, PassInvAlways, PTL

\* No token is refused while it has time left and its nonce is unused, for
\* every skew of the clocks that leaves the limit its room.
\* (check_ticket, tickets.js)
THEOREM NoFalseRefusalCorrect ==
    ASSUME PartsAssumption
    PROVE  Spec => []NoFalseRefusal
<1>1. LifeInv => NoFalseRefusal
  BY DEF LifeInv, NoFalseRefusal
<1> QED BY <1>1, LifeInvAlways, PTL

\* For any number of prefixes around an address, the most specific decision
\* that is not a captcha decides, although the code looks for it in two
\* searches.  (cs.allowIp, action_behind_captcha)
THEOREM FirstDecidesCorrect ==
    ASSUME PartsAssumption
    PROVE  Spec => []FirstDecides
<1>1. Pass!ChallengeAssumption
  BY DEF PartsAssumption
<1>2. PassInv => FirstDecides
  BY <1>1, ActionIsFirst
     DEF PassInv, FirstDecides, Pass!FirstDecides, Pass!Verdict
<1> QED BY <1>2, PassInvAlways, PTL

\* However many pages apply for certificates while the task renews its list,
\* an edit or a deletion is undone only if it came while acme.sh ran for that
\* certificate.  (CertController.apply reads the row by its id)
THEOREM EditSurvivesCorrect ==
    ASSUME PartsAssumption
    PROVE  Spec => []EditSurvives
<1>1. CertInv => EditSurvives
  BY DEF CertInv, EditSurvives
<1> QED BY <1>1, CertInvAlways, PTL

\* Applying is never locked without a call inside, but for exceptions, with
\* any number of calls that pass the test of the flag together.  (isInApply)
THEOREM FlagHasOwnerCorrect ==
    ASSUME PartsAssumption
    PROVE  Spec => []FlagHasOwner
<1>1. CertInv => FlagHasOwner
  BY DEF CertInv, FlagHasOwner
<1> QED BY <1>1, CertInvAlways, PTL

\* What an admin saved or deleted is undone by nothing but a refresh that
\* writes back a row it read before.  (ScheduleTask.fetchDenyAllowLists)
THEOREM SavedStaysCorrect ==
    Spec => []SavedStays
<1>1. ListInv => SavedStays
  BY DEF ListInv, SavedStays
<1> QED BY <1>1, ListInvAlways, PTL

\* No answer of a source empties a list.  (DenyAllowService.fetchAndUpdate)
THEOREM NotEmptiedCorrect ==
    Spec => []NotEmptied
<1>1. ListInv => NotEmptied
  BY DEF ListInv, NotEmptied
<1> QED BY <1>1, ListInvAlways, PTL
=============================================================================
