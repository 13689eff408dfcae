-------------------------------- MODULE Tokens --------------------------------
(***************************************************************************)
(* The OAuth token of the Gmail account: the login command that obtains    *)
(* and stores it (internal/auth/flow.go, runAuth of main.go), and the      *)
(* token sources of running commands and approvals, which load it once,    *)
(* refresh it when it expires and store what they got back                 *)
(* (internal/auth/store.go).                                               *)
(*                                                                         *)
(* A token stands for its refresh token.  An access token matters only as  *)
(* valid or expired, so that a refreshed token differs from the loaded one *)
(* and is saved.  Google is taken to keep a refresh token when it is used. *)
(* One login runs at a time, in the owner's terminal and browser.          *)
(***************************************************************************)
CONSTANTS
    Tokens,       \* refresh tokens: a bound, two more than there are sources
    Sources,      \* gmail.Client values in use, of any process
    Accounts, Account,    \* Google accounts, and the configured one
    NoToken, NoURL

VARIABLES
    live,         \* refresh tokens Google accepts
    owner,        \* the account each token was issued for
    stored,       \* what the keyring holds
    source,       \* the token of each source, and whether it is to be saved
    login,        \* the login command: step, token, "--auth-url" or not
    redirect      \* the last redirect URL in the browser

vars == <<live, owner, stored, source, login, redirect>>

ASSUME AccountAssumption == Account \in Accounts

Idle == [at |-> "idle", token |-> NoToken, flag |-> FALSE]
Closed == [at |-> "closed", token |-> NoToken]

(* A URL carries the state of the flow that printed it: this login's own,  *)
(* or an earlier one's.                                                    *)
URLs == [own : BOOLEAN, account : Accounts]

ASSUME SentinelAssumption == NoToken \notin Tokens /\ NoURL \notin URLs

Held == {stored, login.token} \cup {source[s].token : s \in Sources}

Init ==
    /\ live = {}
    /\ owner = [t \in Tokens |-> Account]
    /\ stored = NoToken
    /\ source = [s \in Sources |-> Closed]
    /\ login = Idle
    /\ redirect = NoURL

-----------------------------------------------------------------------------
(* auth login                                                              *)

(* NewManualFlow draws a random state: no older URL carries it.            *)
NewFlow(flag, step) ==
    /\ login = Idle
    /\ login' = [login EXCEPT !.at = step, !.flag = flag]
    /\ redirect' = IF redirect = NoURL THEN NoURL
                   ELSE [redirect EXCEPT !.own = FALSE]
    /\ UNCHANGED <<live, owner, stored, source>>

LoginInteractively == NewFlow(FALSE, "waiting")

LoginWithAnything == NewFlow(TRUE, "exchanging")

(* --auth-url: no URL is printed, the one given is used.                   *)
LoginWithURL == redirect # NoURL /\ NewFlow(TRUE, "exchanging")

(* The browser follows the printed URL; the person picks an account.       *)
Consent(a) ==
    /\ login.at = "waiting"
    /\ redirect' = [own |-> TRUE, account |-> a]
    /\ UNCHANGED <<live, owner, stored, source, login>>

(* The URL pasted is this flow's, or by mistake an older one.              *)
Paste(own) ==
    /\ login.at = "waiting"
    /\ redirect # NoURL
    /\ redirect.own = own
    /\ login' = [login EXCEPT !.at = "exchanging"]
    /\ UNCHANGED <<live, owner, stored, source, redirect>>

Mismatch ==
    /\ login.at = "exchanging"
    /\ ~redirect.own
    /\ login' = [login EXCEPT !.at = "mismatch"]
    /\ UNCHANGED <<live, owner, stored, source, redirect>>

(* Google issues a refresh token for the code.                             *)
Exchange ==
    /\ login.at = "exchanging"
    /\ redirect.own
    /\ Tokens \ Held # {}
    /\ LET t == CHOOSE u \in Tokens \ Held : TRUE IN
          /\ live' = live \cup {t}
          /\ owner' = [owner EXCEPT ![t] = redirect.account]
          /\ login' = [login EXCEPT !.at = "checking", !.token = t]
    /\ UNCHANGED <<stored, source, redirect>>

TrustAccount ==
    /\ login.at = "checking"
    /\ login' = [login EXCEPT !.at = "saving"]
    /\ UNCHANGED <<live, owner, stored, source, redirect>>

CheckAccount ==
    /\ login.at = "checking"
    /\ login' = [login EXCEPT !.at = IF owner[login.token] = Account
                                       THEN "saving" ELSE "failed"]
    /\ UNCHANGED <<live, owner, stored, source, redirect>>

SaveLogin ==
    /\ login.at = "saving"
    /\ stored' = login.token
    /\ login' = Idle
    /\ UNCHANGED <<live, owner, source, redirect>>

(* A call to Google or to the keyring fails, Google sends no refresh token *)
(* or the person gives up.                                                 *)
LoginFails ==
    /\ login.at \in {"waiting", "exchanging", "checking", "saving"}
    /\ login' = [login EXCEPT !.at = "failed"]
    /\ UNCHANGED <<live, owner, stored, source, redirect>>

EndLogin ==
    /\ login.at \in {"mismatch", "failed"}
    /\ login' = Idle
    /\ UNCHANGED <<live, owner, stored, source, redirect>>

-----------------------------------------------------------------------------
(* Token sources                                                           *)

Set(s, value) ==
    /\ source' = [source EXCEPT ![s] = value]
    /\ UNCHANGED <<live, owner, login, redirect>>

(* gmail.New: TokenSource loads what the keyring holds.                    *)
Open(s) ==
    /\ source[s] = Closed
    /\ stored # NoToken
    /\ Set(s, [at |-> "open", token |-> stored])
    /\ UNCHANGED stored

RefreshUnchecked(s) ==
    /\ source[s].at = "open"
    /\ Set(s, [source[s] EXCEPT !.at = "refreshed"])
    /\ UNCHANGED stored

(* The access token has expired: base.Token asks Google for another one.   *)
Refresh(s) ==
    /\ source[s].at = "open"
    /\ source[s].token \in live
    /\ Set(s, [source[s] EXCEPT !.at = "refreshed"])
    /\ UNCHANGED stored

(* The refreshed token differs from the last one: it is saved, over        *)
(* whatever the keyring holds by now.  A failure to save is ignored.       *)
SaveRefreshed(s) ==
    /\ source[s].at = "refreshed"
    /\ stored' \in {stored, source[s].token}
    /\ Set(s, [source[s] EXCEPT !.at = "open"])

(* The command ends, done or on an error, or its process dies.             *)
Close(s) ==
    /\ source[s] # Closed
    /\ Set(s, Closed)
    /\ UNCHANGED stored

-----------------------------------------------------------------------------

(* The owner, or Google, withdraws a refresh token.                        *)
Revoke(t) ==
    /\ t \in live
    /\ live' = live \ {t}
    /\ UNCHANGED <<owner, stored, source, login, redirect>>

Usable == stored \in live

Astray ==
    \/ \E t \in Tokens : Revoke(t)
    \/ LoginFails \/ LoginWithURL \/ Paste(FALSE)
    \/ \E a \in Accounts \ {Account} : Consent(a)

Login ==
    \/ LoginInteractively \/ Consent(Account) \/ Paste(TRUE) \/ Mismatch
    \/ Exchange \/ CheckAccount \/ SaveLogin \/ EndLogin

Next ==
    \/ Astray
    \/ Login
    \/ \E s \in Sources :
          Open(s) \/ Refresh(s) \/ SaveRefreshed(s) \/ Close(s)

(* While the stored token is refused, the owner logs in again, and follows *)
(* the printed URL before pasting.                                         *)
Fairness ==
    /\ WF_vars(~Usable /\ LoginInteractively)
    /\ WF_vars(redirect # [own |-> TRUE, account |-> Account]
                 /\ Consent(Account))
    /\ WF_vars(Paste(TRUE))
    /\ WF_vars(Mismatch \/ Exchange \/ CheckAccount \/ SaveLogin \/ EndLogin)

Spec == Init /\ [][Next]_vars
FairSpec == Spec /\ Fairness

-----------------------------------------------------------------------------
(* Every variable keeps to its type; a login and a source hold a token     *)
(* exactly when they are past obtaining one, and a token that can be saved *)
(* was issued to the login or loaded from the keyring.                     *)
TypeOK ==
    /\ live \subseteq Tokens
    /\ owner \in [Tokens -> Accounts]
    /\ stored \in Tokens \cup {NoToken}
    /\ source \in [Sources -> [at : {"closed", "open", "refreshed"},
                               token : Tokens \cup {NoToken}]]
    /\ login \in [at : {"idle", "waiting", "exchanging", "checking",
                        "saving", "mismatch", "failed"},
                  token : Tokens \cup {NoToken}, flag : BOOLEAN]
    /\ redirect \in URLs \cup {NoURL}
    /\ \A s \in Sources : (source[s].at = "closed") <=> (source[s].token = NoToken)
    /\ login.at \in {"checking", "saving"} => login.token # NoToken
    /\ login.at = "exchanging" => redirect # NoURL

(* Whatever logins and refreshes overtake each other, the keyring and      *)
(* every Gmail client hold a token of the configured account only.         *)
AccountOnly ==
    /\ stored # NoToken => owner[stored] = Account
    /\ \A s \in Sources :
          source[s] # Closed => owner[source[s].token] = Account

(* Once nothing is revoked and logins go right, the stored token stays     *)
(* usable, although commands that loaded an older one may still store it   *)
(* over a newer login.                                                     *)
UsableAgain ==
    (<>[][~Astray]_vars) => <>[]Usable

(* main.go:200 offers "Paste final redirect URL non-interactively" for     *)
(* --auth-url: such a login is not refused for the URL's state.            *)
PastedURLAccepted ==
    ~(login.flag /\ login.at = "mismatch")
==============================================================================
