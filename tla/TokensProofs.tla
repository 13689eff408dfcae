----------------------------- MODULE TokensProofs -----------------------------
(***************************************************************************)
(* For any number of token sources: whatever logins and refreshes overtake *)
(* each other, only tokens of the configured account are kept and used.    *)
(***************************************************************************)
EXTENDS Tokens, TLAPS

(* What the login is about to save has passed the account check, and every *)
(* token of an open source is a token.                                     *)
TokensInv ==
    /\ TypeOK
    /\ AccountOnly
    /\ login.at = "saving" => owner[login.token] = Account

USE AccountAssumption, SentinelAssumption

LEMMA InitInv == Init => TokensInv
  BY DEF Init, TokensInv, TypeOK, AccountOnly, Closed, Idle, URLs

(* The steps of the login that keep clear of tokens.                       *)
LEMMA LoginSteps ==
    ASSUME TokensInv,
           \/ LoginInteractively \/ LoginWithURL
           \/ \E a \in Accounts : Consent(a)
           \/ \E own \in BOOLEAN : Paste(own)
           \/ Mismatch \/ LoginFails \/ EndLogin \/ CheckAccount
    PROVE  TokensInv'
<1>1. CASE LoginInteractively
  BY <1>1 DEF LoginInteractively, NewFlow, TokensInv, TypeOK, AccountOnly, Closed, Idle, URLs
<1>2. CASE LoginWithURL
  <2>1. redirect # NoURL /\ redirect \in URLs /\ redirect' \in URLs
    BY <1>2 DEF LoginWithURL, NewFlow, TokensInv, TypeOK, URLs
  <2>. QED BY <1>2, <2>1 DEF LoginWithURL, NewFlow, TokensInv, TypeOK, AccountOnly, Closed, Idle, URLs
<1>3. ASSUME NEW a \in Accounts, Consent(a) PROVE TokensInv'
  BY <1>3 DEF Consent, TokensInv, TypeOK, AccountOnly, Closed, URLs
<1>4. ASSUME NEW own \in BOOLEAN, Paste(own) PROVE TokensInv'
  BY <1>4 DEF Paste, TokensInv, TypeOK, AccountOnly, Closed
<1>5. CASE Mismatch
  BY <1>5 DEF Mismatch, TokensInv, TypeOK, AccountOnly, Closed
<1>6. CASE LoginFails
  BY <1>6 DEF LoginFails, TokensInv, TypeOK, AccountOnly, Closed
<1>7. CASE EndLogin
  BY <1>7 DEF EndLogin, TokensInv, TypeOK, AccountOnly, Closed, Idle
<1>8. CASE CheckAccount
  BY <1>8 DEF CheckAccount, TokensInv, TypeOK, AccountOnly, Closed
<1>. QED BY <1>1, <1>2, <1>3, <1>4, <1>5, <1>6, <1>7, <1>8

(* The token issued is none that is held, so recording its account does    *)
(* not touch the keyring's or a source's.                                  *)
LEMMA ExchangeStep == ASSUME TokensInv, Exchange PROVE TokensInv'
<1>. DEFINE t == CHOOSE u \in Tokens \ Held : TRUE
<1>1. t \in Tokens \ Held
  BY DEF Exchange
<1>. HIDE DEF t
<1>2. /\ live' = live \cup {t}
      /\ owner' = [owner EXCEPT ![t] = redirect.account]
      /\ login' = [login EXCEPT !.at = "checking", !.token = t]
      /\ UNCHANGED <<stored, source, redirect>>
  BY DEF Exchange, t
<1>3. redirect.account \in Accounts
  BY DEF Exchange, TokensInv, TypeOK, URLs
<1>4. TypeOK'
  <2>1. live' \subseteq Tokens /\ owner' \in [Tokens -> Accounts]
    BY <1>1, <1>2, <1>3 DEF TokensInv, TypeOK
  <2>2. login' = [at |-> "checking", token |-> t, flag |-> login.flag]
    BY <1>2 DEF TokensInv, TypeOK
  <2>3. t \in Tokens /\ t # NoToken /\ login.flag \in BOOLEAN
    BY <1>1 DEF TokensInv, TypeOK
  <2>. QED BY <1>2, <2>1, <2>2, <2>3 DEF TokensInv, TypeOK
<1>5. t # stored /\ \A s \in Sources : t # source[s].token
  BY <1>1 DEF Held
<1>6. AccountOnly'
  BY <1>1, <1>2, <1>5 DEF TokensInv, TypeOK, AccountOnly, Closed
<1>. QED BY <1>2, <1>4, <1>6 DEF TokensInv, TypeOK

LEMMA SaveLoginStep == ASSUME TokensInv, SaveLogin PROVE TokensInv'
  BY DEF SaveLogin, TokensInv, TypeOK, AccountOnly, Closed, Idle

(* A source only ever holds, and saves, what was in the keyring.           *)
LEMMA SourceSteps ==
    ASSUME TokensInv, NEW s \in Sources,
           Open(s) \/ Refresh(s) \/ SaveRefreshed(s) \/ Close(s)
    PROVE  TokensInv'
<1>1. CASE Open(s)
  BY <1>1 DEF Open, Set, TokensInv, TypeOK, AccountOnly, Closed
<1>2. CASE Refresh(s)
  BY <1>2 DEF Refresh, Set, TokensInv, TypeOK, AccountOnly, Closed
<1>3. CASE SaveRefreshed(s)
  BY <1>3 DEF SaveRefreshed, Set, TokensInv, TypeOK, AccountOnly, Closed
<1>4. CASE Close(s)
  BY <1>4 DEF Close, Set, TokensInv, TypeOK, AccountOnly, Closed
<1>. QED BY <1>1, <1>2, <1>3, <1>4

LEMMA NextInv == TokensInv /\ [Next]_vars => TokensInv'
<1>. SUFFICES ASSUME TokensInv, [Next]_vars PROVE TokensInv'
  OBVIOUS
<1>1. CASE UNCHANGED vars
  BY <1>1 DEF vars, TokensInv, TypeOK, AccountOnly, Closed
<1>2. ASSUME NEW t \in Tokens, Revoke(t) PROVE TokensInv'
  BY <1>2 DEF Revoke, TokensInv, TypeOK, AccountOnly, Closed
<1>3. CASE Astray
  BY <1>2, <1>3, LoginSteps DEF Astray
<1>4. CASE Login
  BY <1>4, LoginSteps, ExchangeStep, SaveLoginStep DEF Login
<1>. QED BY <1>1, <1>3, <1>4, SourceSteps DEF Next

LEMMA Invariance == Spec => []TokensInv
  BY InitInv, NextInv, PTL DEF Spec

(* For every number of sources and tokens, no variable leaves its type.    *)
THEOREM TokensTypeCorrect == Spec => []TypeOK
<1>1. TokensInv => TypeOK
  BY DEF TokensInv
<1>. QED BY <1>1, Invariance, PTL

(* For every number of racing sources: no token of an account other than   *)
(* the configured one is stored or used.                                   *)
THEOREM OnlyConfiguredAccount == Spec => []AccountOnly
<1>1. TokensInv => AccountOnly
  BY DEF TokensInv
<1>. QED BY <1>1, Invariance, PTL
==============================================================================
