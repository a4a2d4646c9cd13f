------------------------------ MODULE Sessions ------------------------------
(***************************************************************************)
(* The sessions of one account.  A sign-in makes a family: a row whose     *)
(* access and refresh tokens rotate together.  Tabs of one browser share a *)
(* cookie jar and send requests with the cookies they had; the answers     *)
(* come back in any order, or never.  Everything that revokes runs under   *)
(* the lock of the row of the account.                                     *)
(*                                                                         *)
(* Token k of a family is the k-th it was given; the last one is not       *)
(* consumed.  Source: backend/internal/auth/*.go.                          *)
(***************************************************************************)
EXTENDS Integers, FiniteSets

CONSTANTS
    Tabs,           \* tabs of the browser
    Renewing,       \* bound: those of them that only renew and sign out
    Mailer,         \* mail is configured: a registration has to be confirmed
    HandoffLimit,   \* pending sign-ins of the native app (8 in the code)
    MaxFamilies,    \* bound: sign-ins
    MaxRotations,   \* bound: tokens of a family
    MaxRevocations, \* bound: changes that revoke every session
    MaxRequests,    \* bound: requests of the browser, and links asked for
    MaxSessionFaults \* bound: lost answers, dead handlers, expired families

ASSUME SessionsConstants ==
    /\ Renewing \subseteq Tabs
    /\ Mailer \in BOOLEAN
    /\ {HandoffLimit, MaxFamilies, MaxRotations, MaxRevocations, MaxRequests, MaxSessionFaults}
           \subseteq Nat
    /\ MaxRotations > 0

VARIABLES
    account,    \* the row of users and its identity
    families,   \* sessions with their tokens: how many, which are in grace, which give access
    made,       \* families made so far
    jar,        \* the cookies of the browser: a family and the number of its token
    tab,        \* the request of each tab
    flow,       \* the OAuth flow of the browser
    handoffs,   \* families with a pending sign-in of the native app
    mail,       \* the links that are valid
    epoch,      \* revocations so far
    loggedOut,  \* history: families a logout answered for
    requests,   \* asked so far
    excused,    \* history: families that end, or whose answers are lost or late
    sessionFaults

sessionVars == <<account, families, made, jar, tab, flow, handoffs, mail, epoch,
                 loggedOut, excused, requests, sessionFaults>>

Family == 1..MaxFamilies
NoCookies == [f |-> 0, k |-> 0]
NoRequest == [at |-> "idle", do |-> "none", f |-> 0, k |-> 0, pw |-> 0]
NoFlow == [purpose |-> "none", f |-> 0]
Dead == [live |-> FALSE, last |-> 0, grace |-> 0, access |-> 0, by |-> 0]

SessionTypeOK ==
    /\ account.pw \in -1..MaxRevocations
    /\ \A f \in Family : /\ families[f].last \in 0..MaxRotations
                         /\ families[f].by \in -1..MaxRevocations
                         /\ families[f].grace \in 0..families[f].last
    /\ jar.f \in 0..made /\ made \in 0..MaxFamilies
    /\ \A t \in Tabs : tab[t].at \in {"idle", "sent", "entered", "holding", "provider", "found",
                                      "cookies", "clear", "plain"}
    /\ handoffs \subseteq {f \in Family : families[f].live}
    /\ (loggedOut \cup excused) \subseteq Family

SessionInit ==
    /\ account = [exists |-> FALSE, enabled |-> TRUE, verified |-> FALSE, linked |-> FALSE, pw |-> -1]
    /\ families = [f \in Family |-> Dead] /\ made = 0
    /\ jar = NoCookies /\ tab = [t \in Tabs |-> NoRequest]
    /\ flow = NoFlow /\ handoffs = {} /\ mail = {}
    /\ epoch = 0 /\ loggedOut = {} /\ excused = {} /\ requests = 0 /\ sessionFaults = 0

Ask == requests < MaxRequests /\ requests' = requests + 1
SessionFault == sessionFaults < MaxSessionFaults /\ sessionFaults' = sessionFaults + 1

-----------------------------------------------------------------------------
\* What the handlers ask of the account and of a family.

Available == account.exists /\ account.enabled /\ account.verified
Authenticated(f, k) == f # 0 /\ families[f].live /\ Available /\ k >= families[f].access
AccountSession(f) == Available /\ f # 0 /\ families[f].live

RowFree_Unshared == TRUE \* mutant: a login reads the account without its lock
\* A login keeps its share of the row from the check of the password to its commit.
RowFree == \A t \in Tabs : tab[t].at # "holding"

\* 'by' is the revocation after which the authority of the family was given.
Mint(rest, by) ==
    /\ made < MaxFamilies /\ made' = made + 1
    /\ families' = [rest EXCEPT ![made + 1] =
                        [live |-> TRUE, last |-> 1, grace |-> 1, access |-> 1, by |-> by]]

Answer(t, as) == tab' = [tab EXCEPT ![t] = [NoRequest EXCEPT !.at = as]]
AnswerCookies(t, f, k) == tab' = [tab EXCEPT ![t] = [@ EXCEPT !.at = "cookies", !.f = f, !.k = k]]
AnswerNew(t) == AnswerCookies(t, made + 1, 1)

End_KeepsHandoffs(fs) == \* mutant: codes for the native app outlive their family
    /\ families' = [f \in Family |-> IF f \in fs THEN Dead ELSE families[f]]
    /\ excused' = excused \cup fs
    /\ UNCHANGED handoffs
\* The handoffs of a family go with it.
End(fs) ==
    /\ families' = [f \in Family |-> IF f \in fs THEN Dead ELSE families[f]]
    /\ handoffs' = handoffs \ fs
    /\ excused' = excused \cup fs

Everyone == [f \in Family |-> Dead]
RevokeAll ==
    /\ epoch < MaxRevocations /\ epoch' = epoch + 1
    /\ flow' = IF flow.purpose = "link" THEN NoFlow ELSE flow
    /\ handoffs' = {}
    /\ excused' = excused \cup {f \in Family : families[f].live}

-----------------------------------------------------------------------------
\* Accounts.

NewAccount(verified, linked, pw) ==
    /\ ~account.exists
    /\ account' = [exists |-> TRUE, enabled |-> TRUE, verified |-> verified, linked |-> linked, pw |-> pw]

\* Without mail the registration signs in; a session family comes with the account.
Register(t) ==
    /\ tab[t].at = "idle"
    /\ t \notin Renewing /\ NewAccount(~Mailer, FALSE, epoch)
    /\ IF Mailer
       THEN mail' = mail \cup {"verify"} /\ UNCHANGED <<families, made, tab>>
       ELSE Mint(families, epoch) /\ AnswerNew(t) /\ UNCHANGED mail
    /\ UNCHANGED <<jar, flow, handoffs, epoch, loggedOut, excused, requests, sessionFaults>>

CreateManagedUser ==
    /\ NewAccount(TRUE, FALSE, epoch)
    /\ UNCHANGED <<families, made, jar, tab, flow, handoffs, mail, epoch, loggedOut,
                   excused, requests, sessionFaults>>

\* Whoever asks gets the same answer; a new link replaces the one of its purpose.
RequestMail ==
    /\ Ask
    /\ Mailer /\ account.exists /\ account.enabled
    /\ RowFree
    /\ \E purpose \in {"verify", "reset"} :
           /\ purpose = "reset" \/ ~account.verified
           /\ mail' = mail \cup {purpose}
    /\ UNCHANGED <<account, families, made, jar, tab, flow, handoffs, epoch, loggedOut,
                   excused, sessionFaults>>

\* The link is taken under the lock of the account.
TakeMail(purpose) == purpose \in mail /\ account.enabled /\ RowFree

VerifyEmail ==
    /\ TakeMail("verify")
    /\ mail' = mail \ {"verify"}
    /\ account' = [account EXCEPT !.verified = TRUE]
    /\ UNCHANGED <<families, made, jar, tab, flow, handoffs, epoch, loggedOut, excused,
                   requests, sessionFaults>>

ResetPassword ==
    /\ TakeMail("reset")
    /\ RevokeAll
    /\ families' = Everyone /\ mail' = {}
    /\ account' = [account EXCEPT !.verified = TRUE, !.pw = epoch + 1]
    /\ UNCHANGED <<made, jar, tab, loggedOut, requests, sessionFaults>>

\* By an administrator: what is disabled, given a password or another role is signed out.
ChangeManagedUser ==
    /\ account.exists /\ RowFree
    /\ \/ /\ account' \in {[account EXCEPT !.enabled = FALSE], account,
                           [account EXCEPT !.pw = epoch + 1]}
          /\ RevokeAll
          /\ families' = Everyone /\ mail' = {}
       \/ /\ account' = [account EXCEPT !.enabled = TRUE] /\ ~account.enabled
          /\ UNCHANGED <<families, mail, flow, handoffs, epoch, excused>>
    /\ UNCHANGED <<made, jar, tab, loggedOut, requests, sessionFaults>>

-----------------------------------------------------------------------------
\* The browser.

Requests == {"login", "refresh", "logout", "handoff", "password", "unlink", "link", "oauth", "callback"}

\* With the cookies of the moment; a password is the one its user knows now.
Send(t) ==
    /\ Ask
    /\ tab[t].at = "idle" /\ account.exists
    /\ \E do \in Requests :
           /\ do \in {"login", "oauth", "callback"} \/ jar.f # 0
           /\ do = "callback" => flow # NoFlow
           /\ t \in Renewing => do \in {"refresh", "logout"}
           /\ tab' = [tab EXCEPT ![t] =
                  [at |-> "sent", do |-> do, f |-> IF do \in {"login", "oauth"} THEN 0 ELSE jar.f,
                   k |-> IF do \in {"login", "oauth"} THEN 0 ELSE jar.k,
                   pw |-> IF do \in {"login", "password"} THEN account.pw ELSE 0]]
    /\ UNCHANGED <<account, families, made, jar, flow, handoffs, mail, epoch, loggedOut,
                   excused, sessionFaults>>

\* Set, cleared or left alone, in the order the answers come.
Deliver(t) ==
    /\ tab[t].at \in {"cookies", "clear", "plain"}
    /\ jar' = CASE tab[t].at = "cookies" -> [f |-> tab[t].f, k |-> tab[t].k]
                [] tab[t].at = "clear" -> NoCookies
                [] OTHER -> jar
    /\ tab' = [tab EXCEPT ![t] = NoRequest]
    /\ UNCHANGED <<account, families, made, flow, handoffs, mail, epoch, loggedOut,
                   excused, requests, sessionFaults>>

\* The limit of attempts, an unreachable store or a failed transaction.
Refused(t) ==
    /\ tab[t].at \in {"sent", "entered", "holding", "provider", "found"}
    /\ Answer(t, "plain")
    /\ UNCHANGED <<account, families, made, jar, flow, handoffs, mail, epoch, loggedOut,
                   excused, requests, sessionFaults>>

\* The answer, or the handler with its uncommitted transaction.
RequestLost(t) ==
    /\ SessionFault
    /\ tab[t].at # "idle"
    /\ tab' = [tab EXCEPT ![t] = NoRequest]
    /\ excused' = excused \cup ({tab[t].f} \ {0})
    /\ UNCHANGED <<account, families, made, jar, flow, handoffs, mail, epoch, loggedOut, requests>>

-----------------------------------------------------------------------------
\* Rotation.

Redeemed_AnyTime(f, k) == k < families[f].last \* mutant: no grace for a second tab
\* Longer ago than two tabs with the same cookie need.
Redeemed(f, k) == k < families[f].grace

RotateFamily(f) == [families EXCEPT ![f].last = @ + 1]

\* Under the lock of the account, then of the token: rotate, wait for the answer of the other
\* tab, or end the family.
Refresh(t) ==
    LET f == tab[t].f  k == tab[t].k
    IN  /\ tab[t].at = "sent" /\ tab[t].do = "refresh" /\ RowFree
        /\ IF ~families[f].live
           THEN Answer(t, "clear") /\ UNCHANGED <<families, handoffs, excused>>
           ELSE \/ /\ Available /\ k = families[f].last
                   /\ k < MaxRotations
                   /\ families' = RotateFamily(f)
                   /\ AnswerCookies(t, f, k + 1)
                   /\ UNCHANGED <<handoffs, excused>>
                \/ /\ Available /\ k < families[f].last /\ ~Redeemed(f, k)
                   /\ Answer(t, "plain")
                   /\ UNCHANGED <<families, handoffs, excused>>
                \/ /\ ~Available \/ Redeemed(f, k)
                   /\ families' = [families EXCEPT ![f] = Dead] /\ handoffs' = handoffs \ {f}
                   /\ Answer(t, "clear")
                   /\ UNCHANGED excused
        /\ UNCHANGED <<account, made, jar, flow, mail, epoch, loggedOut, requests, sessionFaults>>

\* Five seconds.  A request or an answer of the family that takes longer is late.
GracePasses(f) ==
    /\ families[f].live /\ families[f].grace < families[f].last
    /\ families' = [families EXCEPT ![f].grace = families[f].last]
    /\ excused' = IF \E t \in Tabs : tab[t].do = "refresh" /\ tab[t].f = f
                  THEN excused \cup {f} ELSE excused
    /\ UNCHANGED <<account, made, jar, tab, flow, handoffs, mail, epoch, loggedOut,
                   requests, sessionFaults>>

\* Two hours for an access token, thirty days for a family.
TokensExpire(f) ==
    /\ families[f].live
    /\ \/ /\ families' = [families EXCEPT ![f].access = families[f].last + 1]
          /\ UNCHANGED <<handoffs, excused, requests, sessionFaults>>
       \/ SessionFault /\ End({f})
    /\ UNCHANGED <<account, made, jar, tab, flow, mail, epoch, loggedOut, requests>>

\* Consumed tokens name their family too.
Identified(f, k) == k <= families[f].last

Logout(t) ==
    LET f == tab[t].f
    IN  /\ tab[t].at = "sent" /\ tab[t].do = "logout" /\ RowFree
        /\ IF families[f].live /\ (tab[t].k >= families[f].access \/ Identified(f, tab[t].k))
           THEN End({f}) ELSE UNCHANGED <<families, handoffs, excused>>
        /\ loggedOut' = loggedOut \cup {f}
        /\ Answer(t, "clear")
        /\ UNCHANGED <<account, made, jar, flow, mail, epoch, requests, sessionFaults>>

-----------------------------------------------------------------------------
\* Sign-in with a password.

LoginCheck(t) ==
    /\ tab[t].at = "sent" /\ tab[t].do = "login"
    /\ IF account.pw = tab[t].pw /\ account.pw >= 0 /\ Available
       THEN tab' = [tab EXCEPT ![t].at = "holding", ![t].pw = epoch] ELSE Answer(t, "plain")
    /\ UNCHANGED <<account, families, made, jar, flow, handoffs, mail, epoch, loggedOut,
                   excused, requests, sessionFaults>>

LoginCommit(t) ==
    /\ tab[t].at = "holding"
    /\ Mint(families, tab[t].pw) /\ AnswerNew(t)
    /\ UNCHANGED <<account, jar, flow, handoffs, mail, epoch, loggedOut, excused, requests, sessionFaults>>

-----------------------------------------------------------------------------
\* Requests of a signed-in browser: the access token is checked first, the family under the lock.

Enter(t) ==
    /\ tab[t].at = "sent" /\ tab[t].do \in {"handoff", "password", "unlink", "link"}
    /\ IF Authenticated(tab[t].f, tab[t].k)
       THEN tab' = [tab EXCEPT ![t].at = "entered"] ELSE Answer(t, "plain")
    /\ UNCHANGED <<account, families, made, jar, flow, handoffs, mail, epoch, loggedOut,
                   excused, requests, sessionFaults>>

Entered(t, do) == tab[t].at = "entered" /\ tab[t].do = do
Confirmed(t, do) == Entered(t, do) /\ RowFree /\ AccountSession(tab[t].f)

\* The current password is asked for where there is one.
ChangePassword(t) ==
    /\ Confirmed(t, "password") /\ tab[t].pw = account.pw
    /\ RevokeAll /\ mail' = {}
    /\ account' = [account EXCEPT !.pw = epoch + 1]
    /\ Mint(Everyone, epoch + 1) /\ AnswerNew(t)
    /\ UNCHANGED <<jar, loggedOut, requests, sessionFaults>>

\* Not the last way to sign in; the links in the mail stay valid.
UnlinkIdentity(t) ==
    /\ Confirmed(t, "unlink") /\ account.pw >= 0
    /\ RevokeAll
    /\ account' = [account EXCEPT !.linked = FALSE]
    /\ Mint(Everyone, epoch + 1) /\ AnswerNew(t)
    /\ UNCHANGED <<jar, mail, loggedOut, requests, sessionFaults>>

\* A code for the native app, bound to this family.
NativeHandoff(t) ==
    /\ Confirmed(t, "handoff")
    /\ Cardinality(handoffs) < HandoffLimit
    /\ handoffs' = handoffs \cup {tab[t].f}
    /\ Answer(t, "plain")
    /\ UNCHANGED <<account, families, made, jar, flow, mail, epoch, loggedOut, excused,
                   requests, sessionFaults>>

\* Once; its family must live under the lock.  The cookies go to the app.
NativeExchange(f) ==
    /\ f \in handoffs
    /\ Available /\ families[f].live /\ RowFree
    /\ handoffs' = handoffs \ {f}
    /\ Mint(families, families[f].by)
    /\ UNCHANGED <<account, jar, tab, flow, mail, epoch, loggedOut, excused, requests, sessionFaults>>
HandoffExpires(f) ==
    /\ f \in handoffs /\ handoffs' = handoffs \ {f}
    /\ UNCHANGED <<account, families, made, jar, tab, flow, mail, epoch, loggedOut,
                   excused, requests, sessionFaults>>

-----------------------------------------------------------------------------
\* OAuth.

\* A flow per browser and provider; linking is bound to the family.
BeginOAuth(t) ==
    /\ \/ Entered(t, "link") /\ flow' = [purpose |-> "link", f |-> tab[t].f]
       \/ tab[t].at = "sent" /\ tab[t].do = "oauth" /\ flow' = [purpose |-> "login", f |-> 0]
    /\ Answer(t, "plain")
    /\ UNCHANGED <<account, families, made, jar, handoffs, mail, epoch, loggedOut, excused,
                   requests, sessionFaults>>

\* A refresh-only browser counts, with the token that is not consumed.
BrowserFamily(f, k) == IF f # 0 /\ families[f].live /\ (k >= families[f].access \/ k = families[f].last)
                       THEN f ELSE 0

\* The flow is consumed whatever comes of it.
OAuthCallback(t) ==
    /\ tab[t].at = "sent" /\ tab[t].do = "callback"
    /\ IF flow = NoFlow \/ (flow.purpose = "link" /\ BrowserFamily(tab[t].f, tab[t].k) # flow.f)
       THEN Answer(t, "plain")
       ELSE tab' = [tab EXCEPT ![t] = [NoRequest EXCEPT !.at = "provider", !.do = flow.purpose,
                                                        !.f = flow.f]]
    /\ flow' = NoFlow
    /\ UNCHANGED <<account, families, made, jar, handoffs, mail, epoch, loggedOut, excused,
                   requests, sessionFaults>>

LinkIdentity(t) ==
    /\ tab[t].at = "provider" /\ tab[t].do = "link"
    /\ RowFree /\ AccountSession(tab[t].f)
    /\ account' = [account EXCEPT !.linked = TRUE]
    /\ Answer(t, "plain")
    /\ UNCHANGED <<families, made, jar, flow, handoffs, mail, epoch, loggedOut, excused,
                   requests, sessionFaults>>

\* A new identity registers unless its address is taken.
FindIdentity(t) ==
    /\ tab[t].at = "provider" /\ tab[t].do = "login"
    /\ \/ account.linked /\ tab' = [tab EXCEPT ![t].at = "found"]
       \/ ~account.linked /\ Answer(t, "plain")
    /\ UNCHANGED <<account, families, made, jar, flow, handoffs, mail, epoch, loggedOut,
                   excused, requests, sessionFaults>>
RegisterIdentity(t) ==
    /\ tab[t].at = "idle" /\ t \notin Renewing
    /\ NewAccount(TRUE, TRUE, -1)
    /\ Mint(families, epoch) /\ AnswerNew(t)
    /\ UNCHANGED <<jar, flow, handoffs, mail, epoch, loggedOut, excused, requests, sessionFaults>>

\* The identity is looked up again under the lock of the account.
OAuthLogin(t) ==
    /\ tab[t].at = "found"
    /\ RowFree /\ Available /\ account.linked
    /\ Mint(families, epoch) /\ AnswerNew(t)
    /\ UNCHANGED <<account, jar, flow, handoffs, mail, epoch, loggedOut, excused, requests, sessionFaults>>

-----------------------------------------------------------------------------
TabStep(t) ==
    \/ Register(t) \/ RegisterIdentity(t)
    \/ Send(t) \/ Deliver(t) \/ Refused(t) \/ RequestLost(t)
    \/ Refresh(t) \/ Logout(t) \/ LoginCheck(t) \/ LoginCommit(t)
    \/ Enter(t) \/ ChangePassword(t) \/ UnlinkIdentity(t) \/ NativeHandoff(t)
    \/ BeginOAuth(t) \/ OAuthCallback(t) \/ LinkIdentity(t) \/ FindIdentity(t) \/ OAuthLogin(t)

SessionNext ==
    \/ \E t \in Tabs : TabStep(t)
    \/ CreateManagedUser \/ RequestMail \/ VerifyEmail \/ ResetPassword \/ ChangeManagedUser
    \/ \E f \in Family : \/ GracePasses(f) \/ TokensExpire(f)
                         \/ NativeExchange(f) \/ HandoffExpires(f)

SessionSpec == SessionInit /\ [][SessionNext]_sessionVars

-----------------------------------------------------------------------------
(* A revocation is final: after a reset, a new password, a disabled account, another role or an *)
(* unlinked identity, no family lives on authority given before it, whatever login, exchange,   *)
(* rotation or callback was under way; and a logout that was answered has ended the family its  *)
(* cookies named, although another tab may have rotated them or the access token expired.       *)
RevocationWins ==
    \A f \in Family : families[f].live => families[f].by = epoch /\ f \notin loggedOut

(* Tabs that renew with the same cookie do not lose the session: unless it was ended, or an     *)
(* answer was lost or late, the browser holds the current token or an answer brings it.         *)
TabsKeepSession ==
    jar.f # 0 /\ jar.f \notin excused =>
        /\ families[jar.f].live
        /\ \/ jar.k = families[jar.f].last
           \/ \E t \in Tabs : tab[t].at = "cookies" /\ tab[t].f = jar.f /\ tab[t].k = families[jar.f].last
=============================================================================
