---------------------------- MODULE Account_proofs ----------------------------
(*****************************************************************************)
(* Proofs about what an account holds: its sessions and the connections of   *)
(* its apps, for any number of tabs, families, rotations, revocations,       *)
(* readers, grants and faults.                                               *)
(*****************************************************************************)
EXTENDS Sessions, AppConnections, TLAPS

-----------------------------------------------------------------------------
(*****************************************************************************)
(* Sessions: a revocation is final, and a tab keeps its session.             *)
(*****************************************************************************)

AccountRow ==
    [exists : BOOLEAN, enabled : BOOLEAN, verified : BOOLEAN, linked : BOOLEAN, pw : Int]
FamilyRow == [live : BOOLEAN, last : Int, grace : Int, access : Int, by : Int]
Stages == {"idle", "sent", "entered", "holding", "provider", "found", "cookies", "clear", "plain"}
Purposes == {"none", "login", "link"}
RequestRow == [at : Stages, do : Requests \cup {"none"}, f : 0..made, k : Int, pw : Int]

\* A live family was given under the present epoch and nobody signed it out; any token that names
\* it is recognised by a logout, as an access token or as one of its refresh tokens.
FamiliesOK ==
    /\ families \in [Family -> FamilyRow]
    /\ \A f \in Family : families[f].access <= families[f].last + 1
    /\ made \in 0..MaxFamilies /\ epoch \in Nat
    /\ loggedOut \subseteq 0..made
    /\ RevocationWins

\* Requests and cookies name families that were made, so that none names the next one; a login
\* keeps the epoch of the password it checked.
ClientsOK ==
    /\ account \in AccountRow
    /\ jar \in [f : 0..made, k : Int]
    /\ flow \in [purpose : Purposes, f : 0..made]
    /\ tab \in [Tabs -> RequestRow]
    /\ \A t \in Tabs : tab[t].at = "holding" => tab[t].pw = epoch

SessionInv == FamiliesOK /\ ClientsOK

\* A live family belongs to an account that may sign in: who holds the row has checked it, and
\* who takes that away ends every family.
AvailableTrue ==
    /\ \A f \in Family : families[f].live => Available
    /\ \A t \in Tabs : tab[t].at = "holding" => Available

\* The counters stay in their bounds, and rows name what was made.
BoundsTrue ==
    /\ epoch <= MaxRevocations /\ account.pw \in -1..MaxRevocations
    /\ \A f \in Family : /\ families[f].last \in 0..MaxRotations
                         /\ families[f].grace \in 0..families[f].last
                         /\ families[f].by \in -1..MaxRevocations
                         /\ families[f].live => f <= made
    /\ handoffs \subseteq {f \in Family : families[f].live}
    /\ loggedOut \subseteq Family /\ excused \subseteq Family
    /\ \A t \in Tabs : tab[t].at = "sent" /\ tab[t].do \in {"refresh", "logout"} => tab[t].f # 0

\* An answer on its way with cookies of a family; a request to renew with one of its tokens.
Brings(row, f) == row.at = "cookies" /\ row.f = f
Renews(row, f) == row.at = "sent" /\ row.do = "refresh" /\ row.f = f

\* Nobody has a token of the family too old for its grace.  The last one is in the cookies of the
\* browser or in the only answer that brings it: then nobody can have renewed with it.
KeptFamily(f) ==
    /\ families[f].live /\ families[f].grace >= 1
    /\ jar.f = f => jar.k \in families[f].grace..families[f].last
    /\ \A t \in Tabs : Renews(tab[t], f) => tab[t].k \in families[f].grace..families[f].last
    /\ \A t \in Tabs : Brings(tab[t], f) =>
           /\ tab[t].k = families[f].last
           /\ tab[t].do # "refresh" => families[f].last = 1
           /\ jar.f = f => jar.k < families[f].last
           /\ \A s \in Tabs : /\ Renews(tab[s], f) => tab[s].k < families[f].last
                              /\ Brings(tab[s], f) => s = t
    /\ jar.f = f /\ jar.k # families[f].last => \E t \in Tabs : Brings(tab[t], f)

TokensTrue == \A f \in 1..made : f \notin excused => KeptFamily(f)

AccountInv == SessionInv /\ AvailableTrue /\ BoundsTrue /\ TokensTrue

-----------------------------------------------------------------------------
LEMMA SessionBounds == MaxFamilies \in Nat /\ MaxRotations \in Nat
BY SessionsConstants DEF SessionsConstants

LEMMA DeadRow == Dead \in FamilyRow /\ ~Dead.live /\ Dead.access <= Dead.last + 1
<1>0. 0 \in Int OBVIOUS
<1>1. Dead \in FamilyRow BY <1>0, Zenon DEF Dead, FamilyRow
<1>2. Dead.live = FALSE BY Zenon DEF Dead
<1>3. Dead.access = 0 /\ Dead.last = 0 BY DEF Dead
<1> QED BY <1>1, <1>2, <1>3

LEMMA SessionInitially == SessionInit => SessionInv
<1> SUFFICES ASSUME SessionInit PROVE SessionInv OBVIOUS
<1>0. 0 \in 0..0 /\ 0 \in 0..MaxFamilies /\ 0 \in Int /\ -1 \in Int BY SessionBounds
<1>1. FamiliesOK BY <1>0, DeadRow DEF SessionInit, FamiliesOK, RevocationWins
<1>2. account \in AccountRow BY <1>0, Zenon DEF SessionInit, AccountRow
<1>3. 0 \in 0..made BY DEF SessionInit
<1>4. NoRequest \in RequestRow /\ NoRequest.at # "holding" BY <1>0, <1>3 DEF NoRequest, RequestRow, Stages
<1>5. tab = [t \in Tabs |-> NoRequest] /\ jar = NoCookies /\ flow = NoFlow BY Zenon DEF SessionInit
<1>6. jar \in [f : 0..made, k : Int] /\ flow \in [purpose : Purposes, f : 0..made]
  BY <1>0, <1>3, <1>5 DEF NoCookies, NoFlow, Purposes
<1> QED BY <1>1, <1>2, <1>4, <1>5, <1>6 DEF SessionInv, ClientsOK

-----------------------------------------------------------------------------
(* Families *)

LEMMA FamiliesSame ==
    ASSUME FamiliesOK, UNCHANGED <<families, made, epoch, loggedOut>>
    PROVE  FamiliesOK'
BY DEF FamiliesOK, RevocationWins, Family

LEMMA FamiliesRevoked ==
    ASSUME FamiliesOK, RevokeAll, families' = Everyone, UNCHANGED <<made, loggedOut>>
    PROVE  FamiliesOK'
<1>1. epoch' = epoch + 1 BY DEF RevokeAll
<1> QED BY <1>1, DeadRow DEF FamiliesOK, RevocationWins, Family, Everyone

LEMMA FamiliesEnd ==
    ASSUME FamiliesOK, NEW fs, families' = [f \in Family |-> IF f \in fs THEN Dead ELSE families[f]],
           UNCHANGED <<made, epoch>>, loggedOut' \subseteq loggedOut \cup (fs \cap 0..made)
    PROVE  FamiliesOK'
BY DeadRow DEF FamiliesOK, RevocationWins, Family

\* A family made under the present epoch, beside the others or after they ended.
LEMMA FamiliesMinted ==
    ASSUME FamiliesOK, NEW rest, NEW by, Mint(rest, by), UNCHANGED loggedOut,
           by = epoch',
           (rest = families /\ epoch' = epoch) \/ (rest = Everyone /\ epoch' = epoch + 1)
    PROVE  FamiliesOK' /\ made' = made + 1
<1> DEFINE row == [live |-> TRUE, last |-> 1, grace |-> 1, access |-> 1, by |-> by]
<1>1. epoch' \in Nat /\ by \in Int /\ 1 \in Int BY DEF FamiliesOK
<1>2. row \in FamilyRow BY <1>1, Zenon DEF FamilyRow
<1>3. row.by = by /\ row.access = 1 /\ row.last = 1 OBVIOUS
<1>4. families' = [rest EXCEPT ![made + 1] = row] /\ made' = made + 1 /\ made < MaxFamilies
  BY DEF Mint
<1> HIDE DEF row
<1>5. made' \in 0..MaxFamilies /\ made + 1 \in Family /\ made + 1 \notin loggedOut
      /\ loggedOut' \subseteq 0..made'
  BY <1>4, SessionBounds DEF FamiliesOK, Family
<1>6. rest \in [Family -> FamilyRow]
      /\ \A f \in Family : /\ rest[f].access <= rest[f].last + 1
                           /\ rest[f].live => rest[f].by = epoch' /\ f \notin loggedOut
  BY DeadRow DEF FamiliesOK, RevocationWins, Everyone
<1>7. families' \in [Family -> FamilyRow] BY <1>2, <1>4, <1>6
<1>8. \A f \in Family : families'[f] = IF f = made + 1 THEN row ELSE rest[f] BY <1>4, <1>6
<1>9. \A f \in Family : families'[f].access <= families'[f].last + 1 BY <1>3, <1>6, <1>8
<1>10. RevocationWins' BY <1>3, <1>5, <1>6, <1>8 DEF RevocationWins, Family
<1> QED BY <1>1, <1>4, <1>5, <1>7, <1>9, <1>10 DEF FamiliesOK, Family

\* Rotation, the end of a grace, an expired access token: counters of one family.
LEMMA FamiliesCount ==
    ASSUME FamiliesOK, NEW f \in Family, NEW row \in FamilyRow, families' = [families EXCEPT ![f] = row],
           row.live = families[f].live, row.by = families[f].by, row.access <= row.last + 1,
           UNCHANGED <<made, epoch, loggedOut>>
    PROVE  FamiliesOK'
BY DEF FamiliesOK, RevocationWins, Family

LEMMA CountedRow ==
    ASSUME NEW row \in FamilyRow, NEW n \in Int
    PROVE  /\ [row EXCEPT !.last = n] \in FamilyRow /\ [row EXCEPT !.grace = n] \in FamilyRow
           /\ [row EXCEPT !.access = n] \in FamilyRow
           /\ [row EXCEPT !.last = n].live = row.live /\ [row EXCEPT !.grace = n].live = row.live
           /\ [row EXCEPT !.access = n].live = row.live
           /\ [row EXCEPT !.last = n].by = row.by /\ [row EXCEPT !.grace = n].by = row.by
           /\ [row EXCEPT !.access = n].by = row.by
           /\ [row EXCEPT !.last = n].last = n /\ [row EXCEPT !.last = n].access = row.access
           /\ [row EXCEPT !.grace = n].last = row.last /\ [row EXCEPT !.grace = n].access = row.access
           /\ [row EXCEPT !.access = n].last = row.last /\ [row EXCEPT !.access = n].access = n
BY DEF FamilyRow

-----------------------------------------------------------------------------
(* Requests *)

AccountTyped == UNCHANGED account \/ account' \in AccountRow
JarTyped == UNCHANGED jar \/ jar' \in [f : 0..made', k : Int]
FlowTyped == UNCHANGED flow \/ flow' \in [purpose : Purposes, f : 0..made']

\* Authority ends only while no login is under way.
LoginsSafe == epoch' = epoch \/ RowFree

LEMMA OwnRows ==
    ASSUME SessionInv, FamiliesOK', made <= made', AccountTyped, JarTyped, FlowTyped
    PROVE  /\ RequestRow \subseteq RequestRow'
           /\ account' \in AccountRow
           /\ jar' \in [f : 0..made', k : Int]
           /\ flow' \in [purpose : Purposes, f : 0..made']
<1>1. 0..made \subseteq 0..made' BY DEF SessionInv, FamiliesOK
<1>2. RequestRow \subseteq RequestRow' BY <1>1 DEF RequestRow
<1>3. account' \in AccountRow BY DEF SessionInv, ClientsOK, AccountTyped
<1>4. jar' \in [f : 0..made', k : Int] BY <1>1 DEF SessionInv, ClientsOK, JarTyped
<1>5. flow' \in [purpose : Purposes, f : 0..made'] BY <1>1 DEF SessionInv, ClientsOK, FlowTyped
<1> QED BY <1>2, <1>3, <1>4, <1>5

\* A step that leaves the requests alone.
LEMMA QuietStep ==
    ASSUME SessionInv, FamiliesOK', made <= made', AccountTyped, JarTyped, FlowTyped, LoginsSafe,
           UNCHANGED tab
    PROVE  SessionInv'
<1>1. tab' \in [Tabs -> RequestRow'] BY OwnRows DEF SessionInv, ClientsOK
<1>2. \A s \in Tabs : tab'[s].at = "holding" => tab'[s].pw = epoch'
  BY DEF SessionInv, ClientsOK, RowFree, LoginsSafe
<1> QED BY <1>1, <1>2, OwnRows DEF SessionInv, ClientsOK, AccountRow, RequestRow

\* A step of one tab.
LEMMA TabStepKept ==
    ASSUME SessionInv, FamiliesOK', made <= made', AccountTyped, JarTyped, FlowTyped, LoginsSafe,
           NEW t \in Tabs, NEW row \in RequestRow', tab' = [tab EXCEPT ![t] = row],
           row.at = "holding" => row.pw = epoch'
    PROVE  SessionInv'
<1>1. tab' \in [Tabs -> RequestRow'] BY OwnRows DEF SessionInv, ClientsOK
<1>2. \A s \in Tabs : tab'[s].at = "holding" => tab'[s].pw = epoch'
  BY DEF SessionInv, ClientsOK, RowFree, LoginsSafe
<1> QED BY <1>1, <1>2, OwnRows DEF SessionInv, ClientsOK, AccountRow, RequestRow

\* An answer without cookies.
LEMMA AnswerStep ==
    ASSUME SessionInv, FamiliesOK', made <= made', AccountTyped, JarTyped, FlowTyped, LoginsSafe,
           NEW t \in Tabs, NEW as \in Stages \ {"holding"}, Answer(t, as)
    PROVE  SessionInv'
<1> DEFINE row == [NoRequest EXCEPT !.at = as]
<1>1. 0 \in 0..made' BY DEF FamiliesOK
<1>2. NoRequest \in RequestRow' BY <1>1 DEF NoRequest, RequestRow, Stages
<1>3. row \in RequestRow' /\ row.at # "holding" BY <1>2 DEF RequestRow
<1>4. tab' = [tab EXCEPT ![t] = row] BY DEF Answer
<1> HIDE DEF row
<1> QED BY <1>3, <1>4, TabStepKept

\* An answer with cookies of a family.
LEMMA CookieStep ==
    ASSUME SessionInv, FamiliesOK', made <= made', AccountTyped, JarTyped, FlowTyped, LoginsSafe,
           NEW t \in Tabs, NEW f \in 0..made', NEW k \in Int, AnswerCookies(t, f, k)
    PROVE  SessionInv'
<1> DEFINE row == [tab[t] EXCEPT !.at = "cookies", !.f = f, !.k = k]
<1>1. tab[t] \in RequestRow' BY OwnRows DEF SessionInv, ClientsOK
<1>2. row \in RequestRow' /\ row.at # "holding" BY <1>1 DEF RequestRow, Stages
<1>3. tab' = [tab EXCEPT ![t] = row] BY DEF AnswerCookies, SessionInv, ClientsOK
<1> HIDE DEF row
<1> QED BY <1>2, <1>3, TabStepKept

\* A sign-in, beside the other families or after they ended.
LEMMA SignIn ==
    ASSUME SessionInv, AccountTyped, JarTyped, FlowTyped, UNCHANGED loggedOut,
           NEW t \in Tabs, NEW rest, NEW by, Mint(rest, by), AnswerNew(t), by = epoch',
           \/ rest = families /\ epoch' = epoch
           \/ rest = Everyone /\ epoch' = epoch + 1 /\ RowFree
    PROVE  SessionInv'
<1>1. FamiliesOK' /\ made' = made + 1 BY FamiliesMinted DEF SessionInv
<1>2. made <= made' /\ made + 1 \in 0..made' /\ 1 \in Int BY <1>1 DEF SessionInv, FamiliesOK
<1>3. LoginsSafe BY DEF LoginsSafe
<1> QED BY <1>1, <1>2, <1>3, CookieStep DEF AnswerNew

LEMMA AccountRows ==
    ASSUME NEW acc \in AccountRow, NEW n \in Int, NEW q \in BOOLEAN
    PROVE  /\ [acc EXCEPT !.verified = q] \in AccountRow
           /\ [acc EXCEPT !.enabled = q] \in AccountRow
           /\ [acc EXCEPT !.linked = q] \in AccountRow
           /\ [acc EXCEPT !.pw = n] \in AccountRow
           /\ [acc EXCEPT !.verified = q, !.pw = n] \in AccountRow
BY DEF AccountRow

-----------------------------------------------------------------------------
(* The steps *)

LEMMA SameAccount ==
    ASSUME SessionInv, UNCHANGED <<families, made, epoch, loggedOut>>
    PROVE  FamiliesOK' /\ made <= made' /\ LoginsSafe
BY FamiliesSame DEF SessionInv, FamiliesOK, LoginsSafe

LEMMA AccountKeeps ==
    ASSUME SessionInv, CreateManagedUser \/ RequestMail \/ VerifyEmail \/ ResetPassword \/ ChangeManagedUser
    PROVE  SessionInv'
<1> USE DEF JarTyped
<1>0. account \in AccountRow /\ epoch + 1 \in Int /\ epoch \in Int
  BY DEF SessionInv, ClientsOK, FamiliesOK
<1>1. CASE CreateManagedUser
  <2>1. account' \in AccountRow BY <1>0, <1>1, Zenon DEF CreateManagedUser, NewAccount, AccountRow
  <2> QED BY <1>1, <2>1, SameAccount, QuietStep DEF CreateManagedUser, AccountTyped, FlowTyped
<1>2. CASE RequestMail
  BY <1>2, SameAccount, QuietStep DEF RequestMail, AccountTyped, FlowTyped
<1>3. CASE VerifyEmail
  <2>1. account' \in AccountRow BY <1>0, <1>3, AccountRows DEF VerifyEmail
  <2> QED BY <1>3, <2>1, SameAccount, QuietStep DEF VerifyEmail, AccountTyped, FlowTyped
<1>4. ASSUME RevokeAll, families' = Everyone, UNCHANGED <<made, jar, tab, loggedOut>>, RowFree,
             account' \in AccountRow
      PROVE  SessionInv'
  <2>1. FamiliesOK' BY <1>4, FamiliesRevoked DEF SessionInv
  <2>2. made <= made' BY <1>4 DEF SessionInv, FamiliesOK
  <2>3. FlowTyped
    <3>1. 0 \in 0..made' BY <2>1 DEF FamiliesOK
    <3>2. NoFlow \in [purpose : Purposes, f : 0..made'] BY <3>1 DEF NoFlow, Purposes
    <3> QED BY <1>4, <3>2 DEF RevokeAll, FlowTyped
  <2> QED BY <1>4, <2>1, <2>2, <2>3, QuietStep DEF AccountTyped, LoginsSafe
<1>5. CASE ResetPassword
  <2>1. account' \in AccountRow BY <1>0, <1>5, AccountRows DEF ResetPassword
  <2> QED BY <1>4, <1>5, <2>1 DEF ResetPassword, TakeMail
<1>6. CASE ChangeManagedUser
  <2>1. account' \in AccountRow BY <1>0, <1>6, AccountRows DEF ChangeManagedUser
  <2>2. CASE UNCHANGED <<families, mail, flow, handoffs, epoch, excused>>
    BY <1>6, <2>1, <2>2, SameAccount, QuietStep DEF ChangeManagedUser, AccountTyped, FlowTyped
  <2> QED BY <1>4, <1>6, <2>1, <2>2 DEF ChangeManagedUser
<1> QED BY <1>1, <1>2, <1>3, <1>5, <1>6

LEMMA FamilyKeeps ==
    ASSUME SessionInv, NEW f \in Family,
           GracePasses(f) \/ TokensExpire(f) \/ NativeExchange(f) \/ HandoffExpires(f)
    PROVE  SessionInv'
<1> USE DEF JarTyped, AccountTyped, FlowTyped, LoginsSafe
<1>0. /\ families[f] \in FamilyRow /\ families[f].last \in Int /\ families[f].last + 1 \in Int
      /\ families[f].access <= families[f].last + 1 /\ made <= made
      /\ families \in [Family -> FamilyRow]
  BY DEF SessionInv, FamiliesOK, FamilyRow
<1>1. CASE GracePasses(f)
  <2>1. families' = [families EXCEPT ![f] = [families[f] EXCEPT !.grace = families[f].last]]
    BY <1>1 DEF GracePasses
  <2>2. FamiliesOK'
    <3> HIDE DEF JarTyped, AccountTyped, FlowTyped, LoginsSafe
    <3> DEFINE row == [families[f] EXCEPT !.grace = families[f].last]
    <3>1. /\ row \in FamilyRow /\ row.live = families[f].live /\ row.by = families[f].by
          /\ row.access <= row.last + 1
      BY <1>0, CountedRow
    <3>2. families' = [families EXCEPT ![f] = row] BY <2>1
    <3> HIDE DEF row
    <3> QED BY <1>1, <3>1, <3>2, FamiliesCount DEF SessionInv, GracePasses
  <2> QED BY <1>0, <1>1, <2>2, QuietStep DEF GracePasses
<1>2. CASE TokensExpire(f)
  <2>1. CASE families' = [families EXCEPT ![f].access = families[f].last + 1]
    <3> HIDE DEF JarTyped, AccountTyped, FlowTyped, LoginsSafe
    <3> DEFINE row == [families[f] EXCEPT !.access = families[f].last + 1]
    <3>1. /\ row \in FamilyRow /\ row.live = families[f].live /\ row.by = families[f].by
          /\ row.access <= row.last + 1
      <4>1. /\ row \in FamilyRow /\ row.live = families[f].live /\ row.by = families[f].by
            /\ row.access = families[f].last + 1 /\ row.last = families[f].last
        BY <1>0, CountedRow
      <4> HIDE DEF row
      <4> QED BY <1>0, <4>1
    <3>2. families' = [families EXCEPT ![f] = row] BY <2>1
    <3> HIDE DEF row
    <3>3. FamiliesOK' BY <1>2, <3>1, <3>2, FamiliesCount DEF SessionInv, TokensExpire
    <3> QED
      BY <1>0, <1>2, <3>3, QuietStep
         DEF TokensExpire, JarTyped, AccountTyped, FlowTyped, LoginsSafe
  <2>2. CASE End({f})
    <3>1. FamiliesOK' BY <1>2, <2>2, FamiliesEnd DEF SessionInv, TokensExpire, End
    <3> QED BY <1>0, <1>2, <3>1, QuietStep DEF TokensExpire
  <2> QED BY <1>2, <2>1, <2>2 DEF TokensExpire
<1>3. CASE NativeExchange(f)
  <2>1. families[f].by = epoch BY <1>3 DEF NativeExchange, SessionInv, FamiliesOK, RevocationWins
  <2>2. FamiliesOK' /\ made' = made + 1
    BY <1>3, <2>1, FamiliesMinted DEF NativeExchange, SessionInv
  <2>3. made <= made' BY <2>2 DEF SessionInv, FamiliesOK
  <2> QED BY <1>3, <2>2, <2>3, QuietStep DEF NativeExchange
<1>4. CASE HandoffExpires(f)
  BY <1>4, SameAccount, QuietStep DEF HandoffExpires
<1> QED BY <1>1, <1>2, <1>3, <1>4

LEMMA SignInKeeps ==
    ASSUME SessionInv, NEW t \in Tabs,
           \/ Register(t) \/ RegisterIdentity(t) \/ LoginCommit(t) \/ OAuthLogin(t)
           \/ ChangePassword(t) \/ UnlinkIdentity(t)
    PROVE  SessionInv'
<1> USE DEF JarTyped, AccountTyped
<1>0. /\ account \in AccountRow /\ epoch \in Int /\ epoch + 1 \in Int /\ -1 \in Int
      /\ made \in Nat
  BY DEF SessionInv, ClientsOK, FamiliesOK
<1>1. ASSUME NEW q \in BOOLEAN, NEW k \in BOOLEAN, NEW n \in Int, NewAccount(q, k, n)
      PROVE  account' \in AccountRow
  BY <1>1, Zenon DEF NewAccount, AccountRow
<1>2. CASE Register(t)
  <2>1. account' \in AccountRow
    <3>1. (~Mailer) \in BOOLEAN /\ FALSE \in BOOLEAN OBVIOUS
    <3>2. NewAccount(~Mailer, FALSE, epoch) BY <1>2 DEF Register
    <3> QED BY <1>0, <1>1, <3>1, <3>2, Zenon
  <2>2. CASE Mailer
    BY <1>2, <2>1, <2>2, SameAccount, QuietStep DEF Register, FlowTyped
  <2>3. CASE ~Mailer
    BY <1>2, <2>1, <2>3, SignIn DEF Register, FlowTyped
  <2> QED BY <2>2, <2>3
<1>3. CASE RegisterIdentity(t)
  <2>1. account' \in AccountRow BY <1>0, <1>1, <1>3 DEF RegisterIdentity
  <2> QED BY <1>3, <2>1, SignIn DEF RegisterIdentity, FlowTyped
<1>4. CASE LoginCommit(t)
  <2>1. tab[t].pw = epoch BY <1>4 DEF LoginCommit, SessionInv, ClientsOK
  <2> QED BY <1>4, <2>1, SignIn DEF LoginCommit, FlowTyped
<1>5. CASE OAuthLogin(t)
  BY <1>5, SignIn DEF OAuthLogin, FlowTyped
<1>6. ASSUME RevokeAll, made' = made + 1 PROVE FlowTyped /\ epoch' = epoch + 1
  <2>0. 0 \in 0..made' BY <1>0, <1>6
  <2>1. NoFlow \in [purpose : Purposes, f : 0..made'] BY <2>0 DEF NoFlow, Purposes
  <2> QED BY <1>6, <2>1 DEF RevokeAll, FlowTyped
<1>7. CASE ChangePassword(t)
  <2>1. account' \in AccountRow BY <1>0, <1>7, AccountRows DEF ChangePassword
  <2> QED BY <1>6, <1>7, <2>1, SignIn DEF ChangePassword, Confirmed, Mint
<1>8. CASE UnlinkIdentity(t)
  <2>1. account' \in AccountRow BY <1>0, <1>8, AccountRows DEF UnlinkIdentity
  <2> QED BY <1>6, <1>8, <2>1, SignIn DEF UnlinkIdentity, Confirmed, Mint
<1> QED BY <1>2, <1>3, <1>4, <1>5, <1>7, <1>8

\* Requests sent, passed on, answered without a sign-in, or lost.
LEMMA RequestKeeps ==
    ASSUME SessionInv, NEW t \in Tabs,
           \/ Send(t) \/ Deliver(t) \/ Refused(t) \/ RequestLost(t) \/ LoginCheck(t) \/ Enter(t)
           \/ NativeHandoff(t) \/ BeginOAuth(t) \/ OAuthCallback(t) \/ LinkIdentity(t) \/ FindIdentity(t)
    PROVE  SessionInv'
<1> USE DEF JarTyped, AccountTyped, FlowTyped
<1>0. /\ tab[t] \in RequestRow /\ account \in AccountRow /\ jar \in [f : 0..made, k : Int]
      /\ flow \in [purpose : Purposes, f : 0..made] /\ epoch \in Int /\ 0 \in 0..made
  BY DEF SessionInv, ClientsOK, FamiliesOK
<1>1. NoRequest \in RequestRow /\ NoRequest.at # "holding"
  BY <1>0 DEF NoRequest, RequestRow, Stages
<1>2. ASSUME NEW row \in RequestRow, row.at = "holding" => row.pw = epoch,
             tab' = [tab EXCEPT ![t] = row], UNCHANGED <<families, made, epoch, loggedOut>>,
             AccountTyped, JarTyped, FlowTyped
      PROVE  SessionInv'
  <2>1. row \in RequestRow' BY <1>2 DEF RequestRow
  <2> QED BY <1>2, <2>1, SameAccount, TabStepKept
<1>3. ASSUME NEW as \in {"clear", "plain"}, Answer(t, as), UNCHANGED <<families, made, epoch, loggedOut>>,
             AccountTyped, JarTyped, FlowTyped
      PROVE  SessionInv'
  <2>1. as \in Stages \ {"holding"} BY DEF Stages
  <2> QED BY <1>3, <2>1, SameAccount, AnswerStep
<1>4. CASE Send(t)
  <2> PICK do \in Requests :
         tab' = [tab EXCEPT ![t] =
                  [at |-> "sent", do |-> do, f |-> IF do \in {"login", "oauth"} THEN 0 ELSE jar.f,
                   k |-> IF do \in {"login", "oauth"} THEN 0 ELSE jar.k,
                   pw |-> IF do \in {"login", "password"} THEN account.pw ELSE 0]]
    BY <1>4 DEF Send
  <2> DEFINE row == [at |-> "sent", do |-> do, f |-> IF do \in {"login", "oauth"} THEN 0 ELSE jar.f,
                     k |-> IF do \in {"login", "oauth"} THEN 0 ELSE jar.k,
                     pw |-> IF do \in {"login", "password"} THEN account.pw ELSE 0]
  <2>1. account.pw \in Int BY <1>0 DEF AccountRow
  <2>2. row \in RequestRow /\ row.at # "holding" BY <1>0, <2>1 DEF RequestRow, Stages
  <2>3. tab' = [tab EXCEPT ![t] = row] OBVIOUS
  <2> HIDE DEF row
  <2> QED BY <1>2, <1>4, <2>2, <2>3 DEF Send
<1>5. CASE Deliver(t)
  <2>1. jar' \in [f : 0..made, k : Int]
    <3>1. [f |-> tab[t].f, k |-> tab[t].k] \in [f : 0..made, k : Int] BY <1>0 DEF RequestRow
    <3>2. NoCookies \in [f : 0..made, k : Int] BY <1>0 DEF NoCookies
    <3> QED BY <1>0, <1>5, <3>1, <3>2 DEF Deliver
  <2>2. jar' \in [f : 0..made', k : Int] BY <1>5, <2>1 DEF Deliver
  <2> QED BY <1>1, <1>2, <1>5, <2>2 DEF Deliver
<1>6. CASE Refused(t) BY <1>3, <1>6 DEF Refused
<1>7. CASE RequestLost(t) BY <1>1, <1>2, <1>7 DEF RequestLost
<1>8. ASSUME NEW at \in Stages \ {"holding"}, tab' = [tab EXCEPT ![t].at = at],
             UNCHANGED <<account, families, made, jar, flow, epoch, loggedOut>>
      PROVE  SessionInv'
  <2> DEFINE row == [tab[t] EXCEPT !.at = at]
  <2>1. row \in RequestRow /\ row.at # "holding" BY <1>0 DEF RequestRow
  <2>2. tab' = [tab EXCEPT ![t] = row] BY <1>8
  <2> HIDE DEF row
  <2> QED BY <1>2, <1>8, <2>1, <2>2
<1>9. CASE LoginCheck(t)
  <2>1. CASE tab' = [tab EXCEPT ![t].at = "holding", ![t].pw = epoch]
    <3> DEFINE row == [tab[t] EXCEPT !.at = "holding", !.pw = epoch]
    <3>1. row \in RequestRow /\ row.pw = epoch BY <1>0 DEF RequestRow, Stages
    <3>2. tab' = [tab EXCEPT ![t] = row] BY <2>1
    <3> HIDE DEF row
    <3> QED BY <1>2, <1>9, <3>1, <3>2 DEF LoginCheck
  <2> QED BY <1>3, <1>9, <2>1 DEF LoginCheck
<1>10. CASE Enter(t)
  BY <1>3, <1>8, <1>10 DEF Enter, Stages
<1>11. CASE NativeHandoff(t)
  BY <1>3, <1>11 DEF NativeHandoff
<1>12. CASE BeginOAuth(t)
  <2>1. flow' \in [purpose : Purposes, f : 0..made]
    <3>1. [purpose |-> "link", f |-> tab[t].f] \in [purpose : Purposes, f : 0..made]
      BY <1>0 DEF RequestRow, Purposes
    <3>2. [purpose |-> "login", f |-> 0] \in [purpose : Purposes, f : 0..made]
      BY <1>0 DEF Purposes
    <3> QED BY <1>12, <3>1, <3>2 DEF BeginOAuth
  <2>2. flow' \in [purpose : Purposes, f : 0..made'] BY <1>12, <2>1 DEF BeginOAuth
  <2> QED BY <1>3, <1>12, <2>2 DEF BeginOAuth
<1>13. CASE OAuthCallback(t)
  <2>1. NoFlow \in [purpose : Purposes, f : 0..made] BY <1>0 DEF NoFlow, Purposes
  <2>2. FlowTyped BY <1>13, <2>1 DEF OAuthCallback
  <2>3. CASE tab' = [tab EXCEPT ![t] = [NoRequest EXCEPT !.at = "provider", !.do = flow.purpose,
                                                        !.f = flow.f]] /\ flow # NoFlow
    <3> DEFINE row == [NoRequest EXCEPT !.at = "provider", !.do = flow.purpose, !.f = flow.f]
    <3>1. flow.purpose \in Requests \cup {"none"} /\ flow.f \in 0..made
      BY <1>0 DEF Purposes, Requests
    <3>2. row \in RequestRow /\ row.at # "holding" BY <1>1, <3>1 DEF RequestRow, Stages
    <3>3. tab' = [tab EXCEPT ![t] = row] BY <2>3
    <3> HIDE DEF row
    <3> QED BY <1>2, <1>13, <2>2, <3>2, <3>3 DEF OAuthCallback
  <2> QED BY <1>3, <1>13, <2>2, <2>3 DEF OAuthCallback
<1>14. CASE LinkIdentity(t)
  <2>1. account' \in AccountRow BY <1>0, <1>14, AccountRows DEF LinkIdentity
  <2> QED BY <1>3, <1>14, <2>1 DEF LinkIdentity
<1>15. CASE FindIdentity(t)
  BY <1>3, <1>8, <1>15 DEF FindIdentity, Stages
<1> QED
  BY <1>4, <1>5, <1>6, <1>7, <1>9, <1>10, <1>11, <1>12, <1>13, <1>14, <1>15

\* Renewal and sign-out.
LEMMA TokenKeeps ==
    ASSUME SessionInv, NEW t \in Tabs, Refresh(t) \/ Logout(t)
    PROVE  SessionInv'
<1> DEFINE f == tab[t].f  k == tab[t].k
<1>0. /\ f \in 0..made /\ k \in Int /\ k + 1 \in Int /\ made \in Nat
      /\ Family = 1..MaxFamilies /\ f \in Family => families[f] \in FamilyRow
      /\ families \in [Family -> FamilyRow]
  BY DEF SessionInv, ClientsOK, FamiliesOK, RequestRow, Family
<1>1. "clear" \in Stages \ {"holding"} /\ "plain" \in Stages \ {"holding"} BY DEF Stages
<1>2. ASSUME UNCHANGED <<account, jar, flow>> PROVE AccountTyped /\ JarTyped /\ FlowTyped
  BY <1>2 DEF AccountTyped, JarTyped, FlowTyped
<1>3. CASE Refresh(t)
  <2>0. UNCHANGED <<account, jar, flow, made, epoch, loggedOut>> BY <1>3 DEF Refresh
  <2>1. made <= made' /\ LoginsSafe BY <1>0, <2>0 DEF LoginsSafe
  <2>2. CASE UNCHANGED families /\ (Answer(t, "clear") \/ Answer(t, "plain"))
    BY <1>1, <1>2, <2>0, <2>2, SameAccount, AnswerStep
  <2>3. CASE families' = RotateFamily(f) /\ AnswerCookies(t, f, k + 1)
    <3>1. FamiliesOK'
      <4>1. CASE f \in Family
        <5>1. families[f] \in FamilyRow /\ families[f].last + 1 \in Int
              /\ families[f].access <= families[f].last + 1
          BY <1>0, <4>1 DEF SessionInv, FamiliesOK, FamilyRow
        <5> DEFINE row == [families[f] EXCEPT !.last = families[f].last + 1]
        <5>2. families' = [families EXCEPT ![f] = row] BY <2>3 DEF RotateFamily
        <5>3. /\ row \in FamilyRow /\ row.live = families[f].live /\ row.by = families[f].by
              /\ row.last = families[f].last + 1 /\ row.access = families[f].access
          BY <5>1, CountedRow
        <5> HIDE DEF row, f
        <5>4. row.access <= row.last + 1
          <6>1. families[f].access \in Int /\ families[f].last \in Int BY <5>1 DEF FamilyRow
          <6> QED BY <5>1, <5>3, <6>1
        <5> QED BY <2>0, <4>1, <5>2, <5>3, <5>4, FamiliesCount DEF SessionInv
      <4>2. CASE f \notin Family
        BY <1>0, <2>0, <2>3, <4>2, FamiliesSame DEF RotateFamily, SessionInv
      <4> QED BY <4>1, <4>2
    <3>2. f \in 0..made' /\ k + 1 \in Int BY <1>0, <2>0
    <3> HIDE DEF f, k
    <3> QED BY <1>2, <2>0, <2>1, <2>3, <3>1, <3>2, CookieStep
  <2>4. CASE families' = [families EXCEPT ![f] = Dead] /\ Answer(t, "clear")
    <3>1. families' = [g \in Family |-> IF g \in {f} THEN Dead ELSE families[g]] BY <1>0, <2>4
    <3>2. FamiliesOK'
      <4> HIDE DEF f
      <4> QED BY <2>0, <3>1, FamiliesEnd DEF SessionInv
    <3> QED BY <1>1, <1>2, <2>0, <2>1, <2>4, <3>2, AnswerStep
  <2> QED BY <1>3, <2>2, <2>3, <2>4 DEF Refresh
<1>4. CASE Logout(t)
  <2>0. /\ UNCHANGED <<account, jar, flow, made, epoch>> /\ Answer(t, "clear")
        /\ loggedOut' = loggedOut \cup {f}
    BY <1>4 DEF Logout
  <2>1. made <= made' /\ LoginsSafe BY <1>0, <2>0 DEF LoginsSafe
  <2>2. families' = [g \in Family |-> IF g \in {f} THEN Dead ELSE families[g]]
        \/ (UNCHANGED families /\ ~(f \in Family /\ families[f].live))
    <3>1. CASE families[f].live /\ (k >= families[f].access \/ Identified(f, k))
      BY <1>4, <3>1 DEF Logout, End
    <3>2. CASE ~(families[f].live /\ (k >= families[f].access \/ Identified(f, k)))
      <4>1. UNCHANGED families BY <1>4, <3>2 DEF Logout
      <4>2. ASSUME f \in Family, families[f].live PROVE FALSE
        <5>1. families[f].access \in Int /\ families[f].last \in Int
              /\ families[f].access <= families[f].last + 1
          BY <1>0, <4>2 DEF SessionInv, FamiliesOK, FamilyRow
        <5>2. k < families[f].access /\ ~(k <= families[f].last)
          BY <1>0, <3>2, <4>2, <5>1 DEF Identified
        <5> HIDE DEF k, f
        <5> QED BY <1>0, <5>1, <5>2
      <4> QED BY <4>1, <4>2
    <3> QED BY <3>1, <3>2
  <2>3. FamiliesOK'
    <3> HIDE DEF f, k
    <3>1. CASE families' = [g \in Family |-> IF g \in {f} THEN Dead ELSE families[g]]
      BY <1>0, <2>0, <3>1, FamiliesEnd DEF SessionInv
    <3>2. CASE UNCHANGED families /\ ~(f \in Family /\ families[f].live)
      BY <1>0, <2>0, <3>2 DEF SessionInv, FamiliesOK, RevocationWins, Family
    <3> QED BY <2>2, <3>1, <3>2
  <2> QED BY <1>1, <1>2, <2>0, <2>1, <2>3, AnswerStep
<1> QED BY <1>3, <1>4

LEMMA SessionStep ==
    ASSUME SessionInv, [SessionNext]_sessionVars
    PROVE  SessionInv'
<1>1. CASE UNCHANGED sessionVars
  BY <1>1, SameAccount, QuietStep DEF sessionVars, AccountTyped, JarTyped, FlowTyped
<1>2. CASE \E t \in Tabs : TabStep(t)
  BY <1>2, SignInKeeps, RequestKeeps, TokenKeeps DEF TabStep
<1>3. CASE \E f \in Family : GracePasses(f) \/ TokensExpire(f) \/ NativeExchange(f) \/ HandoffExpires(f)
  BY <1>3, FamilyKeeps
<1> QED BY <1>1, <1>2, <1>3, AccountKeeps DEF SessionNext

\* Whatever was under way when authority was withdrawn: nothing signed in with it stays, and what
\* was signed out stays so.
THEOREM FinalRevocation == SessionSpec => []RevocationWins
<1>1. SessionInv => RevocationWins BY DEF SessionInv, FamiliesOK
<1> QED BY <1>1, SessionInitially, SessionStep, PTL DEF SessionSpec

-----------------------------------------------------------------------------
(* Tokens *)

LEMMA TokenBounds ==
    /\ MaxFamilies \in Nat /\ MaxRotations \in Nat /\ MaxRotations > 0 /\ MaxRevocations \in Nat
    /\ Family = 1..MaxFamilies
BY SessionsConstants DEF SessionsConstants, Family

LEMMA SessionRows ==
    ASSUME SessionInv
    PROVE  /\ \A f \in Family : /\ families[f] \in FamilyRow /\ families[f].last \in Int
                                /\ families[f].grace \in Int /\ families[f].access \in Int
                                /\ families[f].by \in Int
           /\ \A t \in Tabs : /\ tab[t] \in RequestRow /\ tab[t].f \in 0..made /\ tab[t].k \in Int
                              /\ tab[t].pw \in Int
           /\ made \in 0..MaxFamilies /\ epoch \in Nat /\ jar.f \in 0..made /\ jar.k \in Int
           /\ account \in AccountRow
BY DEF SessionInv, FamiliesOK, ClientsOK, FamilyRow, RequestRow

\* A family ends, for a reason its browser is excused for, or keeps its tokens.
Ended(f) == families'[f] = Dead /\ (f <= made => f \in excused')
SameTokens(f) ==
    /\ families'[f].live = families[f].live /\ families'[f].last = families[f].last
    /\ families'[f].grace = families[f].grace /\ families'[f].by = families[f].by

\* A tab asks with the cookies there are, or is answered without any.
AsksOrEnds(t) ==
    /\ tab[t].at # "cookies" \/ tab[t].f \in excused' \cup {0}
    /\ tab'[t].at # "cookies"
    /\ tab'[t].at = "sent" /\ tab'[t].do \in {"refresh", "logout"} =>
           tab'[t].f # 0 /\ tab'[t].f = jar.f /\ tab'[t].k = jar.k
    /\ tab'[t].at = "holding" => Available'

\* The rest of the invariant, when bounds and rows are kept.
BoundsKept ==
    /\ epoch' <= MaxRevocations /\ account'.pw \in -1..MaxRevocations
    /\ handoffs' \subseteq {f \in Family : families'[f].live}
    /\ loggedOut' \subseteq Family
    /\ excused \subseteq excused' /\ excused' \subseteq Family

LEMMA DeadBounds ==
    /\ Dead.live = FALSE /\ Dead.last \in 0..MaxRotations /\ Dead.grace \in 0..Dead.last
    /\ Dead.by \in -1..MaxRevocations
<1>1. Dead.live = FALSE BY Zenon DEF Dead
<1>2. Dead.last = 0 /\ Dead.grace = 0 /\ Dead.by = 0 BY DEF Dead
<1> QED BY <1>1, <1>2, TokenBounds

\* A step that brings no cookies and ends or keeps the families.
LEMMA EndsMoves ==
    ASSUME AccountInv, SessionInv', BoundsKept, made' = made, jar' = jar,
           \A f \in Family : Ended(f) \/ SameTokens(f),
           \A t \in Tabs : tab'[t] = tab[t] \/ AsksOrEnds(t),
           \/ Available => Available'
           \/ RowFree /\ \A f \in Family : families'[f] = Dead
    PROVE  AccountInv'
<1>1. AvailableTrue'
  <2>1. \A f \in Family : families'[f].live => families[f].live
    BY DeadBounds DEF Ended, SameTokens
  <2>2. \A t \in Tabs : tab'[t].at = "holding" => tab[t].at = "holding" \/ Available' BY DEF AsksOrEnds
  <2>3. CASE Available => Available' BY <2>1, <2>2, <2>3 DEF AccountInv, AvailableTrue
  <2>4. CASE RowFree /\ \A f \in Family : families'[f] = Dead
    BY <2>2, <2>4, DeadBounds DEF AvailableTrue, RowFree
  <2> QED BY <2>3, <2>4
<1>2. BoundsTrue'
  <2>1. ASSUME NEW f \in Family
        PROVE  /\ families'[f].last \in 0..MaxRotations
               /\ families'[f].grace \in 0..families'[f].last
               /\ families'[f].by \in -1..MaxRevocations
               /\ families'[f].live => f <= made'
    BY DeadBounds DEF AccountInv, BoundsTrue, Ended, SameTokens
  <2>2. \A t \in Tabs : tab'[t].at = "sent" /\ tab'[t].do \in {"refresh", "logout"} => tab'[t].f # 0
    BY DEF AccountInv, BoundsTrue, AsksOrEnds
  <2> QED BY <2>1, <2>2 DEF BoundsTrue, BoundsKept
<1>3. ASSUME NEW f \in 1..made, f \notin excused' PROVE KeptFamily(f)'
  <2>1. KeptFamily(f) BY <1>3 DEF AccountInv, TokensTrue, BoundsKept
  <2>2. f \in Family /\ f # 0 /\ f <= made BY <1>3, SessionRows, TokenBounds DEF AccountInv
  <2>3. SameTokens(f) BY <1>3, <2>2 DEF Ended
  <2>4. families[f].last \in Int /\ families[f].grace \in Int /\ jar.k \in Int
    BY <2>2, SessionRows DEF AccountInv
  <2>5. ASSUME NEW t \in Tabs, Brings(tab'[t], f)
        PROVE  Brings(tab[t], f) /\ tab'[t] = tab[t]
    BY <2>5 DEF Brings, AsksOrEnds
  <2>6. ASSUME NEW t \in Tabs, Brings(tab[t], f)
        PROVE  Brings(tab'[t], f) /\ tab'[t] = tab[t]
    BY <1>3, <2>2, <2>6 DEF Brings, AsksOrEnds
  <2>7. ASSUME NEW t \in Tabs, Renews(tab'[t], f)
        PROVE  \/ Renews(tab[t], f) /\ tab'[t] = tab[t]
               \/ jar.f = f /\ tab'[t].k = jar.k
    BY <2>7 DEF Renews, AsksOrEnds
  <2>8. /\ families'[f].live /\ families'[f].grace >= 1
        /\ jar'.f = f => jar'.k \in families'[f].grace..families'[f].last
    BY <2>1, <2>3 DEF KeptFamily, SameTokens
  <2>9. ASSUME NEW t \in Tabs, Renews(tab'[t], f)
        PROVE  tab'[t].k \in families'[f].grace..families'[f].last
    BY <2>1, <2>3, <2>7, <2>9 DEF KeptFamily, SameTokens
  <2>10. ASSUME NEW t \in Tabs, Brings(tab'[t], f)
         PROVE  /\ tab'[t].k = families'[f].last
                /\ tab'[t].do # "refresh" => families'[f].last = 1
                /\ jar'.f = f => jar'.k < families'[f].last
                /\ \A s \in Tabs : /\ Renews(tab'[s], f) => tab'[s].k < families'[f].last
                                   /\ Brings(tab'[s], f) => s = t
    <3>1. Brings(tab[t], f) /\ tab'[t] = tab[t] BY <2>5, <2>10
    <3>2. /\ tab[t].k = families[f].last /\ (tab[t].do # "refresh" => families[f].last = 1)
          /\ jar.f = f => jar.k < families[f].last
          /\ \A s \in Tabs : /\ Renews(tab[s], f) => tab[s].k < families[f].last
                             /\ Brings(tab[s], f) => s = t
      BY <2>1, <3>1 DEF KeptFamily
    <3>3. ASSUME NEW s \in Tabs, Renews(tab'[s], f) PROVE tab'[s].k < families'[f].last
      BY <2>3, <2>7, <3>2, <3>3 DEF SameTokens
    <3>4. ASSUME NEW s \in Tabs, Brings(tab'[s], f) PROVE s = t BY <2>5, <3>2, <3>4
    <3> QED BY <2>3, <3>1, <3>2, <3>3, <3>4 DEF SameTokens
  <2>11. jar'.f = f /\ jar'.k # families'[f].last => \E t \in Tabs : Brings(tab'[t], f)
    BY <2>1, <2>3, <2>6 DEF KeptFamily, SameTokens
  <2> QED BY <2>8, <2>9, <2>10, <2>11 DEF KeptFamily
<1>4. TokensTrue' BY <1>3 DEF TokensTrue
<1> QED BY <1>1, <1>2, <1>4 DEF AccountInv

\* A new family, beside the others or after they ended; its cookies are under way or go elsewhere.
LEMMA MintMoves ==
    ASSUME AccountInv, SessionInv', BoundsKept, made' = made + 1, jar' = jar, Available',
           \A f \in Family \ {made + 1} : Ended(f) \/ SameTokens(f),
           families'[made + 1].live, families'[made + 1].last = 1, families'[made + 1].grace = 1,
           families'[made + 1].by \in -1..MaxRevocations,
           \A t \in Tabs : \/ tab'[t] = tab[t]
                           \/ tab[t].at # "cookies" /\ Brings(tab'[t], made + 1) /\ tab'[t].k = 1,
           \A s, t \in Tabs : tab'[s] # tab[s] /\ tab'[t] # tab[t] => s = t
    PROVE  AccountInv'
<1>0. /\ made \in Nat /\ made + 1 \in Family /\ made' <= MaxFamilies
      /\ \A t \in Tabs : tab[t].f \in 0..made
      /\ jar.f \in 0..made
  BY SessionRows, TokenBounds DEF AccountInv, SessionInv, FamiliesOK
<1>1. AvailableTrue' BY DEF AvailableTrue
<1>2. BoundsTrue'
  <2>1. ASSUME NEW f \in Family
        PROVE  /\ families'[f].last \in 0..MaxRotations
               /\ families'[f].grace \in 0..families'[f].last
               /\ families'[f].by \in -1..MaxRevocations
               /\ families'[f].live => f <= made'
    <3>1. CASE f = made + 1 BY <1>0, <3>1, TokenBounds
    <3>2. CASE f # made + 1
      <4>1. CASE Ended(f) BY <4>1, DeadBounds DEF Ended
      <4>2. CASE SameTokens(f)
        <5>1. /\ families[f].last \in 0..MaxRotations /\ families[f].grace \in 0..families[f].last
              /\ families[f].by \in -1..MaxRevocations /\ (families[f].live => f <= made)
          BY DEF AccountInv, BoundsTrue
        <5> QED BY <1>0, <4>2, <5>1, TokenBounds DEF SameTokens, Family
      <4> QED BY <3>2, <4>1, <4>2
    <3> QED BY <3>1, <3>2
  <2>2. \A t \in Tabs : tab'[t].at = "sent" /\ tab'[t].do \in {"refresh", "logout"} => tab'[t].f # 0
    BY DEF AccountInv, BoundsTrue, Brings
  <2> QED BY <2>1, <2>2 DEF BoundsTrue, BoundsKept
<1>3. ASSUME NEW f \in 1..made', f \notin excused' PROVE KeptFamily(f)'
  <2>1. CASE f = made + 1
    <3>1. jar'.f # f BY <1>0, <2>1
    <3>2. ASSUME NEW t \in Tabs
          PROVE  /\ ~Renews(tab'[t], f)
                 /\ Brings(tab'[t], f) => tab'[t].k = 1 /\ tab'[t] # tab[t]
      <4>1. tab[t].f # f BY <1>0, <2>1
      <4> QED BY <2>1, <4>1 DEF Brings, Renews
    <3> QED BY <2>1, <3>1, <3>2 DEF KeptFamily
  <2>2. CASE f # made + 1
    <3>1. f \in 1..made /\ f \in Family /\ f \notin excused
      BY <1>0, <1>3, <2>2, TokenBounds DEF BoundsKept
    <3>2. KeptFamily(f) /\ SameTokens(f) BY <1>3, <2>2, <3>1 DEF AccountInv, TokensTrue, Ended
    <3>3. ASSUME NEW t \in Tabs
          PROVE  /\ Renews(tab'[t], f) => Renews(tab[t], f) /\ tab'[t] = tab[t]
                 /\ Brings(tab'[t], f) <=> Brings(tab[t], f)
                 /\ Brings(tab[t], f) => tab'[t] = tab[t]
      BY <2>2 DEF Brings, Renews
    <3>4. /\ families'[f].live /\ families'[f].grace >= 1
          /\ jar'.f = f => jar'.k \in families'[f].grace..families'[f].last
      BY <3>2 DEF KeptFamily, SameTokens
    <3>5. \A t \in Tabs : Renews(tab'[t], f) => tab'[t].k \in families'[f].grace..families'[f].last
      BY <3>2, <3>3 DEF KeptFamily, SameTokens
    <3>6. ASSUME NEW t \in Tabs, Brings(tab'[t], f)
          PROVE  /\ tab'[t].k = families'[f].last
                 /\ tab'[t].do # "refresh" => families'[f].last = 1
                 /\ jar'.f = f => jar'.k < families'[f].last
                 /\ \A s \in Tabs : /\ Renews(tab'[s], f) => tab'[s].k < families'[f].last
                                    /\ Brings(tab'[s], f) => s = t
      BY <3>2, <3>3, <3>6 DEF KeptFamily, SameTokens
    <3>7. jar'.f = f /\ jar'.k # families'[f].last => \E t \in Tabs : Brings(tab'[t], f)
      BY <3>2, <3>3 DEF KeptFamily, SameTokens
    <3> QED BY <3>4, <3>5, <3>6, <3>7 DEF KeptFamily
  <2> QED BY <2>1, <2>2
<1>4. TokensTrue' BY <1>3 DEF TokensTrue
<1> QED BY <1>1, <1>2, <1>4 DEF AccountInv

\* The rest of the invariant, when bounds, rows and the account are kept and no family ends.
LEMMA CountsMove ==
    ASSUME AccountInv, SessionInv', BoundsKept, made' = made, UNCHANGED account,
           \A f \in Family : /\ families'[f].live = families[f].live /\ families'[f].by = families[f].by
                             /\ families'[f].last \in 0..MaxRotations
                             /\ families'[f].grace \in 0..families'[f].last,
           \A t \in Tabs : tab'[t] = tab[t] \/ tab'[t].at \notin {"sent", "holding"}
    PROVE  AvailableTrue' /\ BoundsTrue' /\ (TokensTrue' => AccountInv')
<1>1. AvailableTrue' BY DEF AccountInv, AvailableTrue, Available
<1>2. BoundsTrue' BY DEF AccountInv, BoundsTrue, BoundsKept
<1>3. TokensTrue' => AccountInv' BY <1>1, <1>2 DEF AccountInv
<1> QED BY <1>1, <1>2, <1>3

\* An answer reaches the browser.
LEMMA DeliverKept ==
    ASSUME AccountInv, SessionInv', NEW t \in Tabs, Deliver(t)
    PROVE  AccountInv'
<1>1. /\ UNCHANGED <<account, families, made, epoch, handoffs, loggedOut, excused>>
      /\ tab[t].at \in {"cookies", "clear", "plain"}
      /\ jar' = CASE tab[t].at = "cookies" -> [f |-> tab[t].f, k |-> tab[t].k]
                  [] tab[t].at = "clear" -> NoCookies
                  [] OTHER -> jar
  BY DEF Deliver
<1>2. tab'[t] = NoRequest /\ \A s \in Tabs \ {t} : tab'[s] = tab[s]
  BY DEF Deliver, AccountInv, SessionInv, ClientsOK
<1>3. tab'[t].at = "idle" BY <1>2 DEF NoRequest
<1>4. BoundsKept BY <1>1 DEF AccountInv, BoundsTrue, BoundsKept
<1>5. TokensTrue' => AccountInv'
  <2>1. \A f \in Family : /\ families'[f].last \in 0..MaxRotations
                          /\ families'[f].grace \in 0..families'[f].last
    BY <1>1 DEF AccountInv, BoundsTrue
  <2>2. \A s \in Tabs : tab'[s] = tab[s] \/ tab'[s].at \notin {"sent", "holding"} BY <1>2, <1>3
  <2> QED BY <1>1, <1>4, <2>1, <2>2, CountsMove
<1>6. ASSUME NEW f \in 1..made', f \notin excused' PROVE KeptFamily(f)'
  <2>1. KeptFamily(f) BY <1>1, <1>6 DEF AccountInv, TokensTrue
  <2>2. f \in Family /\ f # 0 BY <1>1, <1>6, SessionRows, TokenBounds DEF AccountInv
  <2>3. /\ families[f].last \in Int /\ families[f].grace \in Int /\ families[f].grace <= families[f].last
    BY <2>2, SessionRows DEF AccountInv, BoundsTrue
  <2>4. ASSUME NEW s \in Tabs
        PROVE  /\ Renews(tab'[s], f) => s # t /\ Renews(tab[s], f) /\ tab'[s] = tab[s]
               /\ Brings(tab'[s], f) => s # t /\ Brings(tab[s], f) /\ tab'[s] = tab[s]
    BY <1>2, <1>3 DEF Renews, Brings
  <2>5. CASE Brings(tab[t], f)
    <3>1. /\ tab[t].k = families[f].last
          /\ \A s \in Tabs : Brings(tab[s], f) => s = t
      BY <2>1, <2>5 DEF KeptFamily
    <3>2. jar'.f = f /\ jar'.k = families[f].last BY <1>1, <2>5, <3>1 DEF Brings
    <3>3. \A s \in Tabs : ~Brings(tab'[s], f) BY <2>4, <3>1
    <3>4. \A s \in Tabs : Renews(tab'[s], f) => tab'[s].k \in families'[f].grace..families'[f].last
      BY <1>1, <2>1, <2>4 DEF KeptFamily
    <3>5. families'[f].live /\ families'[f].grace >= 1 BY <1>1, <2>1 DEF KeptFamily
    <3> QED BY <1>1, <2>3, <3>2, <3>3, <3>4, <3>5 DEF KeptFamily
  <2>6. CASE ~Brings(tab[t], f)
    <3>1. jar'.f = f => jar' = jar BY <1>1, <2>2, <2>6 DEF Brings, NoCookies
    <3>2. ASSUME NEW s \in Tabs, Brings(tab[s], f) PROVE Brings(tab'[s], f)
      BY <1>2, <2>6, <3>2
    <3>3. jar'.f = f => jar'.k \in families'[f].grace..families'[f].last
      BY <1>1, <2>1, <3>1 DEF KeptFamily
    <3>4. ASSUME NEW s \in Tabs, Brings(tab'[s], f)
          PROVE  /\ tab'[s].k = families'[f].last
                 /\ tab'[s].do # "refresh" => families'[f].last = 1
                 /\ jar'.f = f => jar'.k < families'[f].last
                 /\ \A u \in Tabs : /\ Renews(tab'[u], f) => tab'[u].k < families'[f].last
                                    /\ Brings(tab'[u], f) => u = s
      BY <1>1, <2>1, <2>4, <3>1, <3>4 DEF KeptFamily
    <3>5. \A s \in Tabs : Renews(tab'[s], f) => tab'[s].k \in families'[f].grace..families'[f].last
      BY <1>1, <2>1, <2>4 DEF KeptFamily
    <3>6. families'[f].live /\ families'[f].grace >= 1 BY <1>1, <2>1 DEF KeptFamily
    <3>7. jar'.f = f /\ jar'.k # families'[f].last => \E s \in Tabs : Brings(tab'[s], f)
      BY <1>1, <2>1, <3>1, <3>2 DEF KeptFamily
    <3> QED BY <3>3, <3>4, <3>5, <3>6, <3>7 DEF KeptFamily
  <2> QED BY <2>5, <2>6
<1> QED BY <1>5, <1>6 DEF TokensTrue

\* The tokens of a family rotate: the request held the last one, so nobody else has its cookies
\* under way.
LEMMA RotationKept ==
    ASSUME AccountInv, SessionInv', NEW t \in Tabs, Refresh(t),
           NEW g \in Family, g = tab[t].f, families[g].live,
           tab[t].k = families[g].last, tab[t].k < MaxRotations,
           families' = RotateFamily(g), AnswerCookies(t, g, tab[t].k + 1),
           UNCHANGED <<handoffs, excused>>
    PROVE  AccountInv'
<1>1. /\ UNCHANGED <<account, made, jar, epoch, handoffs, loggedOut, excused>>
      /\ tab[t].at = "sent" /\ tab[t].do = "refresh"
  BY DEF Refresh
<1>2. PICK k \in Int : k = tab[t].k BY SessionRows DEF AccountInv
<1>3. /\ \A f \in Family \ {g} : families'[f] = families[f]
      /\ families'[g].live = families[g].live /\ families'[g].by = families[g].by
      /\ families'[g].last = k + 1 /\ families'[g].grace = families[g].grace
  <2>1. families \in [Family -> FamilyRow] BY DEF AccountInv, SessionInv, FamiliesOK
  <2> QED BY <1>2, <2>1 DEF RotateFamily, FamilyRow
<1>4. /\ \A s \in Tabs \ {t} : tab'[s] = tab[s]
      /\ tab'[t].at = "cookies" /\ tab'[t].f = g /\ tab'[t].k = k + 1 /\ tab'[t].do = "refresh"
  <2>1. tab \in [Tabs -> RequestRow] /\ tab[t] \in RequestRow BY DEF AccountInv, SessionInv, ClientsOK
  <2> QED BY <1>1, <1>2, <2>1 DEF AnswerCookies, RequestRow
<1>5. /\ families[g].grace \in 0..k /\ k \in 0..MaxRotations /\ k < MaxRotations /\ families[g].last = k
  BY <1>2 DEF AccountInv, BoundsTrue
<1>6. BoundsKept
  <2>1. \A f \in Family : families[f].live => families'[f].live BY <1>3
  <2> QED BY <1>1, <2>1 DEF AccountInv, BoundsTrue, BoundsKept
<1>7. TokensTrue' => AccountInv'
  <2>1. ASSUME NEW f \in Family
        PROVE  /\ families'[f].live = families[f].live /\ families'[f].by = families[f].by
               /\ families'[f].last \in 0..MaxRotations
               /\ families'[f].grace \in 0..families'[f].last
    <3>1. CASE f = g
      <4>1. PICK old \in 0..k : old = families[g].grace BY <1>5
      <4>2. k + 1 \in 0..MaxRotations /\ old \in 0..k + 1 BY <1>5, <4>1, TokenBounds
      <4> QED BY <1>3, <3>1, <4>1, <4>2
    <3>2. CASE f # g BY <1>3, <3>2 DEF AccountInv, BoundsTrue
    <3> QED BY <3>1, <3>2
  <2>2. \A s \in Tabs : tab'[s] = tab[s] \/ tab'[s].at \notin {"sent", "holding"} BY <1>4
  <2> QED BY <1>1, <1>6, <2>1, <2>2, CountsMove
<1>8. ASSUME NEW f \in 1..made', f \notin excused' PROVE KeptFamily(f)'
  <2>1. KeptFamily(f) BY <1>1, <1>8 DEF AccountInv, TokensTrue
  <2>2. f \in Family BY <1>1, <1>8, SessionRows, TokenBounds DEF AccountInv
  <2>3. CASE f = g
    <3>1. Renews(tab[t], f) BY <1>1, <2>3 DEF Renews
    <3>2. \A s \in Tabs : ~Brings(tab[s], f) BY <1>2, <1>5, <2>1, <2>3, <3>1 DEF KeptFamily
    <3>3. /\ families[f].live /\ families[f].grace >= 1
          /\ jar.f = f => jar.k \in families[f].grace..k
          /\ \A s \in Tabs : Renews(tab[s], f) => tab[s].k \in families[f].grace..k
      BY <1>5, <2>1, <2>3 DEF KeptFamily
    <3>4. ASSUME NEW s \in Tabs
          PROVE  /\ Renews(tab'[s], f) => s # t /\ Renews(tab[s], f) /\ tab'[s] = tab[s]
                 /\ Brings(tab'[s], f) <=> s = t
      BY <1>4, <2>3, <3>2 DEF Renews, Brings
    <3>5. ASSUME NEW s \in Tabs, Renews(tab'[s], f)
          PROVE  /\ tab'[s].k \in families'[f].grace..families'[f].last
                 /\ tab'[s].k < families'[f].last
      <4>1. tab'[s].k \in families[f].grace..k BY <3>3, <3>4, <3>5
      <4> QED BY <1>3, <1>5, <2>3, <4>1
    <3>6. jar'.f = f => /\ jar'.k \in families'[f].grace..families'[f].last
                        /\ jar'.k < families'[f].last
      BY <1>1, <1>3, <1>5, <2>3, <3>3
    <3>7. families'[f].live /\ families'[f].grace >= 1 BY <1>3, <2>3, <3>3
    <3> QED BY <1>3, <1>4, <2>3, <3>4, <3>5, <3>6, <3>7 DEF KeptFamily
  <2>4. CASE f # g
    <3>1. families'[f] = families[f] BY <1>3, <2>2, <2>4
    <3>2. ASSUME NEW s \in Tabs
          PROVE  /\ Renews(tab'[s], f) => Renews(tab[s], f) /\ tab'[s] = tab[s]
                 /\ Brings(tab'[s], f) <=> Brings(tab[s], f)
                 /\ Brings(tab[s], f) => tab'[s] = tab[s]
      BY <1>1, <1>4, <2>4 DEF Renews, Brings
    <3>3. \A s \in Tabs : Renews(tab'[s], f) => tab'[s].k \in families'[f].grace..families'[f].last
      BY <2>1, <3>1, <3>2 DEF KeptFamily
    <3>4. ASSUME NEW s \in Tabs, Brings(tab'[s], f)
          PROVE  /\ tab'[s].k = families'[f].last
                 /\ tab'[s].do # "refresh" => families'[f].last = 1
                 /\ jar'.f = f => jar'.k < families'[f].last
                 /\ \A u \in Tabs : /\ Renews(tab'[u], f) => tab'[u].k < families'[f].last
                                    /\ Brings(tab'[u], f) => u = s
      BY <1>1, <2>1, <3>1, <3>2, <3>4 DEF KeptFamily
    <3>5. /\ families'[f].live /\ families'[f].grace >= 1
          /\ jar'.f = f => jar'.k \in families'[f].grace..families'[f].last
          /\ jar'.f = f /\ jar'.k # families'[f].last => \E s \in Tabs : Brings(tab'[s], f)
      BY <1>1, <2>1, <3>1, <3>2 DEF KeptFamily
    <3> QED BY <3>3, <3>4, <3>5 DEF KeptFamily
  <2> QED BY <2>3, <2>4
<1> QED BY <1>7, <1>8 DEF TokensTrue

\* The grace of consumed tokens ends: a family with a renewal under way is excused, and without
\* one the browser holds the last token.
LEMMA GraceKept ==
    ASSUME AccountInv, SessionInv', NEW g \in Family, GracePasses(g)
    PROVE  AccountInv'
<1>1. /\ UNCHANGED <<account, made, jar, tab, epoch, handoffs, loggedOut>>
      /\ families[g].live
      /\ excused' = IF \E t \in Tabs : tab[t].do = "refresh" /\ tab[t].f = g
                    THEN excused \cup {g} ELSE excused
  BY DEF GracePasses
<1>2. /\ \A f \in Family \ {g} : families'[f] = families[f]
      /\ families'[g].live = families[g].live /\ families'[g].by = families[g].by
      /\ families'[g].last = families[g].last /\ families'[g].grace = families[g].last
  <2>1. families \in [Family -> FamilyRow] BY DEF AccountInv, SessionInv, FamiliesOK
  <2> QED BY <2>1 DEF GracePasses, FamilyRow
<1>3. BoundsKept
  <2>1. \A f \in Family : families[f].live => families'[f].live BY <1>2
  <2> QED BY <1>1, <2>1 DEF AccountInv, BoundsTrue, BoundsKept
<1>4. TokensTrue' => AccountInv'
  <2>1. ASSUME NEW f \in Family
        PROVE  /\ families'[f].live = families[f].live /\ families'[f].by = families[f].by
               /\ families'[f].last \in 0..MaxRotations
               /\ families'[f].grace \in 0..families'[f].last
    <3>0. families[f].last \in 0..MaxRotations /\ families[f].grace \in 0..families[f].last
      BY DEF AccountInv, BoundsTrue
    <3>1. CASE f = g BY <1>2, <3>0, <3>1, TokenBounds
    <3>2. CASE f # g BY <1>2, <3>0, <3>2
    <3> QED BY <3>1, <3>2
  <2> QED BY <1>1, <1>3, <2>1, CountsMove
<1>5. ASSUME NEW f \in 1..made', f \notin excused' PROVE KeptFamily(f)'
  <2>1. KeptFamily(f) BY <1>1, <1>5 DEF AccountInv, TokensTrue
  <2>2. f \in Family BY <1>1, <1>5, SessionRows, TokenBounds DEF AccountInv
  <2>3. CASE f = g
    <3>1. \A t \in Tabs : tab[t].do = "refresh" => tab[t].f # f BY <1>1, <1>5, <2>3
    <3>2. \A t \in Tabs : ~Renews(tab[t], f) BY <3>1 DEF Renews
    <3>3. families[f].last \in Int /\ families[f].grace \in Int /\ families[f].grace <= families[f].last
      BY <2>2, SessionRows DEF AccountInv, BoundsTrue
    <3>4. ASSUME NEW t \in Tabs, Brings(tab[t], f)
          PROVE  families[f].last = 1 /\ jar.f # f
      <4>1. families[f].last = 1 BY <2>1, <3>1, <3>4 DEF KeptFamily, Brings
      <4>2. jar.f = f => jar.k < 1 /\ jar.k \in families[f].grace..families[f].last /\ families[f].grace >= 1
        BY <2>1, <3>4, <4>1 DEF KeptFamily
      <4> QED BY <3>3, <4>1, <4>2
    <3>5. jar.f = f => jar.k = families[f].last BY <2>1, <3>4 DEF KeptFamily
    <3>6. families'[f].live /\ families'[f].grace >= 1 BY <1>2, <2>1, <2>3, <3>3 DEF KeptFamily
    <3>7. jar'.f = f => jar'.k \in families'[f].grace..families'[f].last
      BY <1>1, <1>2, <2>3, <3>3, <3>5
    <3>8. ASSUME NEW t \in Tabs, Brings(tab'[t], f)
          PROVE  /\ tab'[t].k = families'[f].last
                 /\ tab'[t].do # "refresh" => families'[f].last = 1
                 /\ jar'.f = f => jar'.k < families'[f].last
                 /\ \A s \in Tabs : /\ Renews(tab'[s], f) => tab'[s].k < families'[f].last
                                    /\ Brings(tab'[s], f) => s = t
      BY <1>1, <1>2, <2>1, <2>3, <3>2, <3>8 DEF KeptFamily
    <3> QED BY <1>1, <1>2, <2>3, <3>2, <3>5, <3>6, <3>7, <3>8 DEF KeptFamily
  <2>4. CASE f # g
    <3>1. families'[f] = families[f] BY <1>2, <2>2, <2>4
    <3> QED BY <1>1, <2>1, <3>1 DEF KeptFamily
  <2> QED BY <2>3, <2>4
<1> QED BY <1>4, <1>5 DEF TokensTrue

-----------------------------------------------------------------------------
(* The steps keep the rest of the invariant *)

\* Every revocation excuses the families it ends.
LEMMA EveryoneEnds ==
    ASSUME AccountInv, RevokeAll, NEW f \in Family
    PROVE  f <= made => f \in excused'
<1> SUFFICES ASSUME f <= made, f \notin excused PROVE families[f].live BY DEF RevokeAll
<1>1. f \in 1..made BY SessionRows, TokenBounds DEF AccountInv
<1> QED BY <1>1 DEF AccountInv, TokensTrue, KeptFamily

LEMMA RevokedBounds ==
    ASSUME AccountInv, RevokeAll, UNCHANGED loggedOut, account'.pw \in {account.pw, epoch + 1}
    PROVE  BoundsKept
<1>1. epoch \in Nat /\ epoch + 1 <= MaxRevocations /\ epoch' = epoch + 1
  BY SessionRows, TokenBounds DEF AccountInv, RevokeAll
<1>2. epoch' <= MaxRevocations /\ account'.pw \in -1..MaxRevocations
  BY <1>1, TokenBounds DEF AccountInv, BoundsTrue
<1>3. handoffs' = {} /\ excused' = excused \cup {f \in Family : families[f].live} BY DEF RevokeAll
<1> QED BY <1>2, <1>3 DEF AccountInv, BoundsTrue, BoundsKept

LEMMA SameBounds ==
    ASSUME AccountInv, UNCHANGED <<families, handoffs, loggedOut>>, epoch' = epoch,
           account'.pw \in {account.pw, epoch}, excused \subseteq excused', excused' \subseteq Family
    PROVE  BoundsKept /\ \A f \in Family : SameTokens(f)
<1>1. epoch \in Nat /\ epoch <= MaxRevocations BY SessionRows DEF AccountInv, BoundsTrue
<1>2. account'.pw \in -1..MaxRevocations BY <1>1, TokenBounds DEF AccountInv, BoundsTrue
<1> QED BY <1>1, <1>2 DEF AccountInv, BoundsTrue, BoundsKept, SameTokens

LEMMA PasswordRows ==
    ASSUME NEW acc \in AccountRow, NEW n \in Int, NEW q \in BOOLEAN
    PROVE  /\ [acc EXCEPT !.verified = q].pw = acc.pw /\ [acc EXCEPT !.enabled = q].pw = acc.pw
           /\ [acc EXCEPT !.linked = q].pw = acc.pw /\ [acc EXCEPT !.pw = n].pw = n
           /\ [acc EXCEPT !.verified = q, !.pw = n].pw = n
           /\ [acc EXCEPT !.pw = n].exists = acc.exists /\ [acc EXCEPT !.pw = n].enabled = acc.enabled
           /\ [acc EXCEPT !.pw = n].verified = acc.verified
           /\ [acc EXCEPT !.linked = q].exists = acc.exists
           /\ [acc EXCEPT !.linked = q].enabled = acc.enabled
           /\ [acc EXCEPT !.linked = q].verified = acc.verified
           /\ [acc EXCEPT !.verified = q].exists = acc.exists
           /\ [acc EXCEPT !.verified = q].enabled = acc.enabled
           /\ [acc EXCEPT !.verified = q].verified = q
BY DEF AccountRow

\* A new account, which nobody can have signed in to.
LEMMA NewAccountRow ==
    ASSUME NEW q, NEW l, NEW n, NewAccount(q, l, n)
    PROVE  account'.pw = n /\ ~Available /\ (q => Available')
<1>1. /\ ~account.exists
      /\ account' = [exists |-> TRUE, enabled |-> TRUE, verified |-> q, linked |-> l, pw |-> n]
  BY DEF NewAccount
<1>2. account'.pw = n /\ account'.exists = TRUE /\ account'.enabled = TRUE /\ account'.verified = q
  BY <1>1, Zenon
<1>3. account'.exists /\ account'.enabled BY <1>2
<1> QED BY <1>1, <1>2, <1>3 DEF Available

LEMMA AccountSteps ==
    ASSUME AccountInv, SessionInv',
           CreateManagedUser \/ RequestMail \/ VerifyEmail \/ ResetPassword \/ ChangeManagedUser
    PROVE  AccountInv'
<1>0. /\ account \in AccountRow /\ epoch \in Int /\ epoch + 1 \in Int /\ TRUE \in BOOLEAN /\ FALSE \in BOOLEAN
      /\ excused \subseteq Family
  BY SessionRows DEF AccountInv, BoundsTrue
<1>1. UNCHANGED <<made, jar, tab, loggedOut>>
  BY DEF CreateManagedUser, RequestMail, VerifyEmail, ResetPassword, ChangeManagedUser
<1>2. ASSUME UNCHANGED <<families, handoffs, epoch, excused>>, account'.pw \in {account.pw, epoch},
             Available => Available'
      PROVE  AccountInv'
  <2>1. BoundsKept /\ \A f \in Family : SameTokens(f) BY <1>0, <1>1, <1>2, SameBounds
  <2> QED BY <1>1, <1>2, <2>1, EndsMoves
<1>3. ASSUME RevokeAll, families' = Everyone, RowFree, account'.pw \in {account.pw, epoch + 1}
      PROVE  AccountInv'
  <2>1. BoundsKept BY <1>1, <1>3, RevokedBounds
  <2>2. \A f \in Family : families'[f] = Dead BY <1>3 DEF Everyone
  <2>3. \A f \in Family : Ended(f) BY <1>3, <2>2, EveryoneEnds DEF Ended
  <2> QED BY <1>1, <1>3, <2>1, <2>2, <2>3, EndsMoves
<1>4. CASE CreateManagedUser
  <2>1. account'.pw = epoch /\ ~Available BY <1>4, NewAccountRow DEF CreateManagedUser
  <2> QED BY <1>2, <1>4, <2>1 DEF CreateManagedUser
<1>5. CASE RequestMail BY <1>2, <1>5 DEF RequestMail, Available
<1>6. CASE VerifyEmail
  <2>1. account' = [account EXCEPT !.verified = TRUE] BY <1>6 DEF VerifyEmail
  <2>2. account'.pw = account.pw /\ (Available => Available')
    BY <1>0, <2>1, PasswordRows DEF Available
  <2> QED BY <1>2, <1>6, <2>2 DEF VerifyEmail
<1>7. CASE ResetPassword
  <2>1. account'.pw = epoch + 1 BY <1>0, <1>7, PasswordRows DEF ResetPassword
  <2> QED BY <1>3, <1>7, <2>1 DEF ResetPassword, TakeMail
<1>8. CASE ChangeManagedUser
  <2>1. CASE RevokeAll /\ families' = Everyone
    <3>1. account'.pw \in {account.pw, epoch + 1}
      <4>1. account' \in {[account EXCEPT !.enabled = FALSE], account, [account EXCEPT !.pw = epoch + 1]}
               \/ account' = [account EXCEPT !.enabled = TRUE]
        BY <1>8 DEF ChangeManagedUser
      <4>2. /\ [account EXCEPT !.enabled = FALSE].pw = account.pw
            /\ [account EXCEPT !.enabled = TRUE].pw = account.pw
            /\ [account EXCEPT !.pw = epoch + 1].pw = epoch + 1
        BY <1>0, PasswordRows
      <4> QED BY <4>1, <4>2
    <3> QED BY <1>3, <1>8, <2>1, <3>1 DEF ChangeManagedUser
  <2>2. CASE /\ account' = [account EXCEPT !.enabled = TRUE] /\ ~account.enabled
             /\ UNCHANGED <<families, mail, flow, handoffs, epoch, excused>>
    <3>1. account'.pw = account.pw /\ ~Available BY <1>0, <2>2, PasswordRows DEF Available
    <3> QED BY <1>2, <2>2, <3>1
  <2> QED BY <1>8, <2>1, <2>2 DEF ChangeManagedUser
<1> QED BY <1>4, <1>5, <1>6, <1>7, <1>8

LEMMA MintedRow ==
    ASSUME AccountInv, NEW rest \in [Family -> FamilyRow], NEW by, Mint(rest, by)
    PROVE  /\ made' = made + 1 /\ made + 1 \in Family
           /\ families'[made + 1].live /\ families'[made + 1].last = 1
           /\ families'[made + 1].grace = 1 /\ families'[made + 1].by = by
           /\ \A f \in Family \ {made + 1} : families'[f] = rest[f]
<1>1. made + 1 \in Family /\ made' = made + 1
  BY SessionRows, TokenBounds DEF AccountInv, Mint
<1>2. PICK row : row = [live |-> TRUE, last |-> 1, grace |-> 1, access |-> 1, by |-> by] OBVIOUS
<1>3. row.live = TRUE /\ row.last = 1 /\ row.grace = 1 /\ row.by = by BY <1>2, Zenon
<1>4. families' = [rest EXCEPT ![made + 1] = row] BY <1>2 DEF Mint
<1>5. families'[made + 1] = row /\ \A f \in Family \ {made + 1} : families'[f] = rest[f] BY <1>1, <1>4
<1>6. families'[made + 1].live BY <1>3, <1>5
<1> QED BY <1>1, <1>3, <1>5, <1>6

\* The answer of a sign-in.
LEMMA NewCookies ==
    ASSUME AccountInv, NEW t \in Tabs, tab[t].at # "cookies", AnswerNew(t) \/ UNCHANGED tab
    PROVE  /\ \A u \in Tabs : \/ tab'[u] = tab[u]
                              \/ tab[u].at # "cookies" /\ Brings(tab'[u], made + 1) /\ tab'[u].k = 1
           /\ \A s, u \in Tabs : tab'[s] # tab[s] /\ tab'[u] # tab[u] => s = u
<1>1. CASE UNCHANGED tab BY <1>1
<1>2. CASE AnswerNew(t)
  <2>1. tab \in [Tabs -> RequestRow] /\ tab[t] \in RequestRow BY DEF AccountInv, SessionInv, ClientsOK
  <2>2. /\ tab'[t].at = "cookies" /\ tab'[t].f = made + 1 /\ tab'[t].k = 1
        /\ \A u \in Tabs \ {t} : tab'[u] = tab[u]
    BY <1>2, <2>1 DEF AnswerNew, AnswerCookies, RequestRow
  <2> QED BY <2>2 DEF Brings
<1> QED BY <1>1, <1>2

LEMMA SignInSteps ==
    ASSUME AccountInv, SessionInv', NEW t \in Tabs,
           \/ Register(t) \/ RegisterIdentity(t) \/ LoginCommit(t) \/ OAuthLogin(t)
           \/ ChangePassword(t) \/ UnlinkIdentity(t)
    PROVE  AccountInv'
<1>0. /\ account \in AccountRow /\ epoch \in Nat /\ epoch <= MaxRevocations /\ epoch + 1 \in Int
      /\ families \in [Family -> FamilyRow] /\ Everyone \in [Family -> FamilyRow]
      /\ excused \subseteq Family /\ FALSE \in BOOLEAN /\ -1 \in -1..MaxRevocations
      /\ account.pw \in -1..MaxRevocations /\ epoch \in -1..MaxRevocations
  BY SessionRows, DeadRow, TokenBounds DEF AccountInv, BoundsTrue, SessionInv, FamiliesOK, Everyone
<1>1. UNCHANGED <<jar, loggedOut>> /\ tab[t].at # "cookies"
  BY DEF Register, RegisterIdentity, LoginCommit, OAuthLogin, ChangePassword, UnlinkIdentity,
         Confirmed, Entered
\* Beside the other families.
<1>2. ASSUME NEW by \in -1..MaxRevocations, Mint(families, by), AnswerNew(t), Available',
             account'.pw \in -1..MaxRevocations, UNCHANGED <<handoffs, epoch, excused>>
      PROVE  AccountInv'
  <2>1. /\ made' = made + 1 /\ families'[made + 1].live /\ families'[made + 1].last = 1
        /\ families'[made + 1].grace = 1 /\ families'[made + 1].by = by
        /\ \A f \in Family \ {made + 1} : families'[f] = families[f]
    BY <1>0, <1>2, MintedRow
  <2>2. BoundsKept
    <3>1. \A f \in Family : families[f].live => families'[f].live BY <2>1
    <3> QED BY <1>0, <1>1, <1>2, <3>1 DEF AccountInv, BoundsTrue, BoundsKept
  <2>3. \A f \in Family \ {made + 1} : SameTokens(f) BY <2>1 DEF SameTokens
  <2> QED BY <1>1, <1>2, <2>1, <2>2, <2>3, NewCookies, MintMoves
\* After they ended.
<1>3. ASSUME RevokeAll, Mint(Everyone, epoch + 1), AnswerNew(t), Available',
             account'.pw \in {account.pw, epoch + 1}
      PROVE  AccountInv'
  <2>1. /\ made' = made + 1 /\ families'[made + 1].live /\ families'[made + 1].last = 1
        /\ families'[made + 1].grace = 1 /\ families'[made + 1].by = epoch + 1
        /\ \A f \in Family \ {made + 1} : families'[f] = Dead
    BY <1>0, <1>3, MintedRow DEF Everyone
  <2>2. BoundsKept BY <1>1, <1>3, RevokedBounds
  <2>3. \A f \in Family \ {made + 1} : Ended(f) BY <1>3, <2>1, EveryoneEnds DEF Ended
  <2>4. epoch + 1 \in -1..MaxRevocations BY <1>0, <1>3, TokenBounds DEF RevokeAll
  <2> QED BY <1>1, <1>3, <2>1, <2>2, <2>3, <2>4, NewCookies, MintMoves
<1>4. CASE Register(t)
  <2>1. NewAccount(~Mailer, FALSE, epoch) BY <1>4 DEF Register
  <2>2. account'.pw = epoch /\ ~Available /\ (~Mailer => Available') BY <2>1, NewAccountRow
  <2>3. CASE Mailer
    <3>1. UNCHANGED <<families, made, tab, handoffs, epoch, excused>> BY <1>4, <2>3 DEF Register
    <3>2. BoundsKept /\ \A f \in Family : SameTokens(f) BY <1>0, <1>1, <2>2, <3>1, SameBounds
    <3> QED BY <1>1, <2>2, <3>1, <3>2, EndsMoves
  <2>4. CASE ~Mailer
    <3>1. Mint(families, epoch) /\ AnswerNew(t) /\ UNCHANGED <<handoffs, epoch, excused>>
      BY <1>4, <2>4 DEF Register
    <3> QED BY <1>0, <1>2, <2>2, <2>4, <3>1
  <2> QED BY <2>3, <2>4
<1>5. CASE RegisterIdentity(t)
  <2>1. account'.pw = -1 /\ Available' BY <1>5, NewAccountRow DEF RegisterIdentity
  <2> QED BY <1>0, <1>2, <1>5, <2>1 DEF RegisterIdentity
<1>6. CASE LoginCommit(t)
  <2>1. tab[t].pw = epoch /\ Available
    BY <1>6 DEF LoginCommit, AccountInv, AvailableTrue, SessionInv, ClientsOK
  <2>2. Available' BY <1>6, <2>1 DEF LoginCommit, Available
  <2> QED BY <1>0, <1>2, <1>6, <2>1, <2>2 DEF LoginCommit
<1>7. CASE OAuthLogin(t)
  <2>1. Available' BY <1>7 DEF OAuthLogin, Available
  <2> QED BY <1>0, <1>2, <1>7, <2>1 DEF OAuthLogin
<1>8. CASE ChangePassword(t)
  <2>1. account' = [account EXCEPT !.pw = epoch + 1] /\ Available
    BY <1>8 DEF ChangePassword, Confirmed, AccountSession
  <2>2. account'.pw = epoch + 1 /\ Available' BY <1>0, <2>1, PasswordRows DEF Available
  <2> QED BY <1>3, <1>8, <2>2 DEF ChangePassword
<1>9. CASE UnlinkIdentity(t)
  <2>1. account' = [account EXCEPT !.linked = FALSE] /\ Available
    BY <1>9 DEF UnlinkIdentity, Confirmed, AccountSession
  <2>2. account'.pw = account.pw /\ Available' BY <1>0, <2>1, PasswordRows DEF Available
  <2> QED BY <1>3, <1>9, <2>2 DEF UnlinkIdentity
<1> QED BY <1>4, <1>5, <1>6, <1>7, <1>8, <1>9

LEMMA FamilySteps ==
    ASSUME AccountInv, SessionInv', NEW f \in Family,
           GracePasses(f) \/ TokensExpire(f) \/ NativeExchange(f) \/ HandoffExpires(f)
    PROVE  AccountInv'
<1>0. /\ epoch \in Nat /\ epoch <= MaxRevocations /\ families \in [Family -> FamilyRow]
      /\ excused \subseteq Family /\ account.pw \in -1..MaxRevocations
  BY SessionRows DEF AccountInv, BoundsTrue, SessionInv, FamiliesOK
<1>1. CASE GracePasses(f) BY <1>1, GraceKept
<1>2. CASE TokensExpire(f)
  <2>1. UNCHANGED <<account, made, jar, tab, epoch, loggedOut>> BY <1>2 DEF TokensExpire
  <2>2. Available => Available' BY <2>1 DEF Available
  <2>3. CASE /\ families' = [families EXCEPT ![f].access = families[f].last + 1]
             /\ UNCHANGED <<handoffs, excused>>
    <3>1. \A g \in Family : SameTokens(g) BY <1>0, <2>3 DEF SameTokens, FamilyRow
    <3>2. BoundsKept
      <4>1. \A g \in Family : families[g].live => families'[g].live BY <3>1 DEF SameTokens
      <4> QED BY <1>0, <2>1, <2>3, <4>1 DEF AccountInv, BoundsTrue, BoundsKept
    <3> QED BY <2>1, <2>2, <3>1, <3>2, EndsMoves
  <2>4. CASE End({f})
    <3>1. /\ \A g \in Family : families'[g] = IF g = f THEN Dead ELSE families[g]
          /\ handoffs' = handoffs \ {f} /\ excused' = excused \cup {f}
      BY <2>4 DEF End
    <3>2. \A g \in Family : Ended(g) \/ SameTokens(g) BY <3>1 DEF Ended, SameTokens
    <3>3. BoundsKept
      <4>1. handoffs' \subseteq {g \in Family : families'[g].live} BY <3>1 DEF AccountInv, BoundsTrue
      <4> QED BY <1>0, <2>1, <3>1, <4>1 DEF AccountInv, BoundsTrue, BoundsKept
    <3> QED BY <2>1, <2>2, <3>2, <3>3, EndsMoves
  <2> QED BY <1>2, <2>3, <2>4 DEF TokensExpire
<1>3. CASE NativeExchange(f)
  <2>1. /\ Mint(families, families[f].by) /\ Available /\ handoffs' = handoffs \ {f}
        /\ UNCHANGED <<account, jar, tab, epoch, loggedOut, excused>>
    BY <1>3 DEF NativeExchange
  <2>2. families[f].by \in -1..MaxRevocations BY DEF AccountInv, BoundsTrue
  <2>3. /\ made' = made + 1 /\ families'[made + 1].live /\ families'[made + 1].last = 1
        /\ families'[made + 1].grace = 1 /\ families'[made + 1].by = families[f].by
        /\ \A g \in Family \ {made + 1} : families'[g] = families[g]
    BY <1>0, <2>1, MintedRow
  <2>4. BoundsKept
    <3>1. \A g \in Family : families[g].live => families'[g].live BY <2>3
    <3> QED BY <1>0, <2>1, <3>1 DEF AccountInv, BoundsTrue, BoundsKept
  <2>5. \A g \in Family \ {made + 1} : SameTokens(g) BY <2>3 DEF SameTokens
  <2>6. Available' BY <2>1 DEF Available
  <2> QED BY <2>1, <2>2, <2>3, <2>4, <2>5, <2>6, MintMoves
<1>4. CASE HandoffExpires(f)
  <2>1. UNCHANGED <<account, families, made, jar, tab, epoch, loggedOut, excused>> /\ handoffs' \subseteq handoffs
    BY <1>4 DEF HandoffExpires
  <2>2. BoundsKept BY <1>0, <2>1 DEF AccountInv, BoundsTrue, BoundsKept
  <2>3. (\A g \in Family : SameTokens(g)) /\ (Available => Available')
    BY <2>1 DEF SameTokens, Available
  <2> QED BY <2>1, <2>2, <2>3, EndsMoves
<1> QED BY <1>1, <1>2, <1>3, <1>4

-----------------------------------------------------------------------------
LEMMA NoRequestRow == NoRequest.at = "idle" /\ NoRequest.do = "none" /\ NoRequest.f = 0
BY DEF NoRequest

\* An answer without cookies, which is not lost.
LEMMA AnswerEnds ==
    ASSUME AccountInv, NEW t \in Tabs, NEW as \in {"clear", "plain", "idle", "provider"}, NEW do, NEW f,
           \/ Answer(t, as)
           \/ tab' = [tab EXCEPT ![t] = NoRequest]
           \/ tab' = [tab EXCEPT ![t] = [NoRequest EXCEPT !.at = as, !.do = do, !.f = f]],
           tab[t].at # "cookies" \/ tab[t].f \in excused' \cup {0}
    PROVE  \A s \in Tabs : tab'[s] = tab[s] \/ AsksOrEnds(s)
<1>1. tab \in [Tabs -> RequestRow] BY DEF AccountInv, SessionInv, ClientsOK
<1>2. \A s \in Tabs \ {t} : tab'[s] = tab[s] BY <1>1 DEF Answer
<1>3. tab'[t].at \in {"clear", "plain", "idle", "provider"}
  <2>1. [NoRequest EXCEPT !.at = as].at = as BY DEF NoRequest
  <2>2. [NoRequest EXCEPT !.at = as, !.do = do, !.f = f].at = as BY DEF NoRequest
  <2> QED BY <1>1, <2>1, <2>2, NoRequestRow DEF Answer
<1>4. AsksOrEnds(t) BY <1>3 DEF AsksOrEnds
<1> QED BY <1>2, <1>4

LEMMA RequestSteps ==
    ASSUME AccountInv, SessionInv', NEW t \in Tabs,
           \/ Send(t) \/ Refused(t) \/ RequestLost(t) \/ LoginCheck(t) \/ Enter(t)
           \/ NativeHandoff(t) \/ BeginOAuth(t) \/ OAuthCallback(t) \/ LinkIdentity(t) \/ FindIdentity(t)
    PROVE  AccountInv'
<1>0. /\ account \in AccountRow /\ epoch \in Nat /\ excused \subseteq Family /\ TRUE \in BOOLEAN
      /\ tab \in [Tabs -> RequestRow] /\ tab[t] \in RequestRow /\ tab[t].f \in 0..made
      /\ made \in 0..MaxFamilies
  BY SessionRows DEF AccountInv, BoundsTrue, SessionInv, ClientsOK
<1>1. UNCHANGED <<families, made, jar, epoch, loggedOut>>
  BY DEF Send, Refused, RequestLost, LoginCheck, Enter, NativeHandoff, BeginOAuth, OAuthCallback,
         LinkIdentity, FindIdentity
<1>2. account'.pw = account.pw /\ (Available => Available')
  <2>1. CASE LinkIdentity(t)
    <3>1. account' = [account EXCEPT !.linked = TRUE] BY <2>1 DEF LinkIdentity
    <3> QED BY <1>0, <3>1, PasswordRows DEF Available
  <2>2. CASE ~LinkIdentity(t)
    <3>1. UNCHANGED account
      BY <2>2 DEF Send, Refused, RequestLost, LoginCheck, Enter, NativeHandoff, BeginOAuth,
                  OAuthCallback, FindIdentity
    <3> QED BY <3>1 DEF Available
  <2> QED BY <2>1, <2>2
<1>3. ASSUME \A s \in Tabs : tab'[s] = tab[s] \/ AsksOrEnds(s), UNCHANGED handoffs,
             excused \subseteq excused', excused' \subseteq Family
      PROVE  AccountInv'
  <2>1. BoundsKept /\ \A f \in Family : SameTokens(f) BY <1>1, <1>2, <1>3, SameBounds
  <2> QED BY <1>1, <1>2, <1>3, <2>1, EndsMoves
<1>4. ASSUME Answer(t, "plain"), tab[t].at # "cookies"
      PROVE  \A s \in Tabs : tab'[s] = tab[s] \/ AsksOrEnds(s)
  BY <1>4, AnswerEnds
\* The request goes on.
<1>5. ASSUME NEW row \in RequestRow, tab' = [tab EXCEPT ![t] = row], tab[t].at # "cookies",
             row.at \in {"entered", "found"} \/ (row.at = "holding" /\ Available)
      PROVE  \A s \in Tabs : tab'[s] = tab[s] \/ AsksOrEnds(s)
  <2>1. tab'[t] = row /\ \A s \in Tabs \ {t} : tab'[s] = tab[s] BY <1>0, <1>5
  <2>2. AsksOrEnds(t) BY <1>2, <1>5, <2>1 DEF AsksOrEnds
  <2> QED BY <2>1, <2>2
<1>6. CASE Send(t)
  <2> PICK do \in Requests :
         /\ do \in {"login", "oauth", "callback"} \/ jar.f # 0
         /\ tab' = [tab EXCEPT ![t] =
                  [at |-> "sent", do |-> do, f |-> IF do \in {"login", "oauth"} THEN 0 ELSE jar.f,
                   k |-> IF do \in {"login", "oauth"} THEN 0 ELSE jar.k,
                   pw |-> IF do \in {"login", "password"} THEN account.pw ELSE 0]]
    BY <1>6 DEF Send
  <2>1. /\ tab'[t].at = "sent" /\ tab'[t].do = do
        /\ do \notin {"login", "oauth"} => tab'[t].f = jar.f /\ tab'[t].k = jar.k
        /\ \A s \in Tabs \ {t} : tab'[s] = tab[s]
    BY <1>0
  <2>2. tab[t].at = "idle" /\ UNCHANGED <<handoffs, excused>> BY <1>6 DEF Send
  <2>3. AsksOrEnds(t) BY <2>1, <2>2 DEF AsksOrEnds
  <2> QED BY <1>0, <1>3, <2>1, <2>2, <2>3
<1>7. CASE Refused(t) BY <1>0, <1>3, <1>4, <1>7 DEF Refused
<1>8. CASE RequestLost(t)
  <2>1. /\ tab' = [tab EXCEPT ![t] = NoRequest] /\ UNCHANGED handoffs
        /\ excused' = excused \cup ({tab[t].f} \ {0})
    BY <1>8 DEF RequestLost
  <2>2. tab[t].f \in excused' \cup {0} BY <2>1
  <2>3. excused \subseteq excused' /\ excused' \subseteq Family
    <3>1. tab[t].f # 0 => tab[t].f \in Family BY <1>0, TokenBounds
    <3> QED BY <1>0, <2>1, <3>1
  <2>4. \A s \in Tabs : tab'[s] = tab[s] \/ AsksOrEnds(s) BY <2>1, <2>2, AnswerEnds
  <2> QED BY <1>3, <2>1, <2>3, <2>4
<1>9. CASE LoginCheck(t)
  <2>1. tab[t].at = "sent" /\ UNCHANGED <<handoffs, excused>> BY <1>9 DEF LoginCheck
  <2>2. CASE tab' = [tab EXCEPT ![t].at = "holding", ![t].pw = epoch] /\ Available
    <3>1. PICK old \in RequestRow : old = tab[t] BY <1>0
    <3>2. PICK n \in Int : n = epoch BY <1>0
    <3>3. PICK row \in RequestRow : row = [old EXCEPT !.at = "holding", !.pw = n]
      BY DEF RequestRow, Stages
    <3>4. tab' = [tab EXCEPT ![t] = row] /\ row.at = "holding"
      BY <1>0, <2>2, <3>1, <3>2, <3>3 DEF RequestRow
    <3> QED BY <1>0, <1>3, <1>5, <2>1, <2>2, <3>4
  <2>3. CASE Answer(t, "plain") BY <1>0, <1>3, <1>4, <2>1, <2>3
  <2> QED BY <1>9, <2>2, <2>3 DEF LoginCheck
<1>10. ASSUME NEW at \in {"entered", "found"}, tab' = [tab EXCEPT ![t].at = at], tab[t].at # "cookies"
       PROVE  \A s \in Tabs : tab'[s] = tab[s] \/ AsksOrEnds(s)
  <2>1. PICK row \in RequestRow : row = [tab[t] EXCEPT !.at = at] BY <1>0 DEF RequestRow, Stages
  <2>2. tab' = [tab EXCEPT ![t] = row] /\ row.at = at BY <1>0, <1>10, <2>1 DEF RequestRow
  <2> QED BY <1>5, <1>10, <2>2
<1>11. CASE Enter(t) BY <1>0, <1>3, <1>4, <1>10, <1>11 DEF Enter
<1>12. CASE NativeHandoff(t)
  <2>1. /\ tab[t].at = "entered" /\ AccountSession(tab[t].f) /\ Answer(t, "plain")
        /\ handoffs' = handoffs \cup {tab[t].f} /\ UNCHANGED excused
    BY <1>12 DEF NativeHandoff, Confirmed, Entered
  <2>2. tab[t].f \in {f \in Family : families[f].live} BY <1>0, <2>1, TokenBounds DEF AccountSession
  <2>3. BoundsKept
    BY <1>0, <1>1, <1>2, <2>1, <2>2 DEF AccountInv, BoundsTrue, BoundsKept
  <2>4. \A f \in Family : SameTokens(f) BY <1>1 DEF SameTokens
  <2>5. \A s \in Tabs : tab'[s] = tab[s] \/ AsksOrEnds(s) BY <1>4, <2>1
  <2> QED BY <1>1, <1>2, <2>3, <2>4, <2>5, EndsMoves
<1>13. CASE BeginOAuth(t) BY <1>0, <1>3, <1>4, <1>13 DEF BeginOAuth, Entered
<1>14. CASE OAuthCallback(t)
  <2>1. tab[t].at = "sent" /\ UNCHANGED <<handoffs, excused>> BY <1>14 DEF OAuthCallback
  <2>2. CASE tab' = [tab EXCEPT ![t] = [NoRequest EXCEPT !.at = "provider", !.do = flow.purpose,
                                                        !.f = flow.f]]
    <3>1. \A s \in Tabs : tab'[s] = tab[s] \/ AsksOrEnds(s) BY <2>1, <2>2, AnswerEnds
    <3> QED BY <1>0, <1>3, <2>1, <3>1
  <2>3. CASE Answer(t, "plain") BY <1>0, <1>3, <1>4, <2>1, <2>3
  <2> QED BY <1>14, <2>2, <2>3 DEF OAuthCallback
<1>15. CASE LinkIdentity(t) BY <1>0, <1>3, <1>4, <1>15 DEF LinkIdentity
<1>16. CASE FindIdentity(t) BY <1>0, <1>3, <1>4, <1>10, <1>16 DEF FindIdentity
<1> QED BY <1>6, <1>7, <1>8, <1>9, <1>11, <1>12, <1>13, <1>14, <1>15, <1>16

LEMMA TokenSteps ==
    ASSUME AccountInv, SessionInv', NEW t \in Tabs, Refresh(t) \/ Logout(t)
    PROVE  AccountInv'
<1>0. /\ epoch \in Nat /\ epoch <= MaxRevocations /\ excused \subseteq Family
      /\ account.pw \in -1..MaxRevocations /\ families \in [Family -> FamilyRow]
      /\ tab[t].f \in 0..made /\ tab[t].k \in Int /\ made \in 0..MaxFamilies
  BY SessionRows DEF AccountInv, BoundsTrue, SessionInv, FamiliesOK
<1>1. /\ UNCHANGED <<account, made, jar, epoch>> /\ tab[t].at = "sent"
      /\ tab[t].do \in {"refresh", "logout"}
  BY DEF Refresh, Logout
<1>2. PICK f \in Family : f = tab[t].f BY <1>0, <1>1, TokenBounds DEF AccountInv, BoundsTrue
<1>3. Available => Available' BY <1>1 DEF Available
<1>4. /\ families[f] \in FamilyRow /\ families[f].last \in Int /\ families[f].grace \in Int
      /\ f \in 1..made
  BY <1>0, <1>2, SessionRows, TokenBounds DEF AccountInv
<1>5. CASE Refresh(t)
  <2>1. UNCHANGED <<loggedOut, excused>> /\ tab[t].do = "refresh" BY <1>5 DEF Refresh
  <2>2. CASE UNCHANGED <<families, handoffs>> /\ (Answer(t, "clear") \/ Answer(t, "plain"))
    <3>1. \A s \in Tabs : tab'[s] = tab[s] \/ AsksOrEnds(s) BY <1>1, <2>2, AnswerEnds
    <3>2. BoundsKept /\ \A g \in Family : SameTokens(g) BY <1>0, <1>1, <2>1, <2>2, SameBounds
    <3> QED BY <1>1, <1>3, <3>1, <3>2, EndsMoves
  <2>3. CASE /\ families[f].live /\ tab[t].k = families[f].last /\ tab[t].k < MaxRotations
             /\ families' = RotateFamily(f) /\ AnswerCookies(t, f, tab[t].k + 1)
             /\ UNCHANGED <<handoffs, excused>>
    BY <1>2, <1>5, <2>3, RotationKept
  \* The family of a token too old is excused already, and a live one has an account.
  <2>4. CASE /\ families[f].live /\ (~Available \/ Redeemed(f, tab[t].k))
             /\ families' = [families EXCEPT ![f] = Dead] /\ handoffs' = handoffs \ {f}
             /\ Answer(t, "clear")
    <3>1. f \in excused
      <4>1. Redeemed(f, tab[t].k) BY <2>4 DEF AccountInv, AvailableTrue
      <4>2. Renews(tab[t], f) BY <1>1, <1>2, <2>1 DEF Renews
      <4>3. ASSUME f \notin excused PROVE FALSE
        <5>1. tab[t].k \in families[f].grace..families[f].last
          BY <1>4, <4>2, <4>3 DEF AccountInv, TokensTrue, KeptFamily
        <5> QED BY <1>0, <1>4, <4>1, <5>1 DEF Redeemed
      <4> QED BY <4>3
    <3>2. \A g \in Family : families'[g] = IF g = f THEN Dead ELSE families[g] BY <1>0, <2>4
    <3>3. \A g \in Family : Ended(g) \/ SameTokens(g) BY <2>1, <3>1, <3>2 DEF Ended, SameTokens
    <3>4. BoundsKept
      <4>1. handoffs' \subseteq {g \in Family : families'[g].live}
        BY <2>4, <3>2 DEF AccountInv, BoundsTrue
      <4> QED BY <1>0, <1>1, <2>1, <4>1 DEF AccountInv, BoundsTrue, BoundsKept
    <3>5. \A s \in Tabs : tab'[s] = tab[s] \/ AsksOrEnds(s) BY <1>1, <2>4, AnswerEnds
    <3> QED BY <1>1, <1>3, <3>3, <3>4, <3>5, EndsMoves
  <2> QED BY <1>2, <1>5, <2>2, <2>3, <2>4 DEF Refresh
<1>6. CASE Logout(t)
  <2>1. Answer(t, "clear") /\ loggedOut' = loggedOut \cup {f} BY <1>2, <1>6 DEF Logout
  <2>2. \A s \in Tabs : tab'[s] = tab[s] \/ AsksOrEnds(s) BY <1>1, <2>1, AnswerEnds
  <2>3. CASE UNCHANGED <<families, handoffs, excused>>
    <3>1. BoundsKept BY <1>0, <1>1, <2>1, <2>3 DEF AccountInv, BoundsTrue, BoundsKept
    <3>2. \A g \in Family : SameTokens(g) BY <2>3 DEF SameTokens
    <3> QED BY <1>1, <1>3, <2>2, <3>1, <3>2, EndsMoves
  <2>4. CASE End({f})
    <3>1. /\ \A g \in Family : families'[g] = IF g = f THEN Dead ELSE families[g]
          /\ handoffs' = handoffs \ {f} /\ excused' = excused \cup {f}
      BY <2>4 DEF End
    <3>2. \A g \in Family : Ended(g) \/ SameTokens(g) BY <3>1 DEF Ended, SameTokens
    <3>3. BoundsKept
      <4>1. handoffs' \subseteq {g \in Family : families'[g].live} BY <3>1 DEF AccountInv, BoundsTrue
      <4> QED BY <1>0, <1>1, <2>1, <3>1, <4>1 DEF AccountInv, BoundsTrue, BoundsKept
    <3> QED BY <1>1, <1>3, <2>2, <3>2, <3>3, EndsMoves
  <2> QED BY <1>2, <1>6, <2>3, <2>4 DEF Logout
<1> QED BY <1>5, <1>6

-----------------------------------------------------------------------------
LEMMA AccountInitially == SessionInit => AccountInv
<1> SUFFICES ASSUME SessionInit PROVE AccountInv OBVIOUS
<1>1. SessionInv BY SessionInitially
<1>2. /\ families = [f \in Family |-> Dead] /\ made = 0 /\ epoch = 0
      /\ handoffs = {} /\ loggedOut = {} /\ excused = {}
      /\ tab = [t \in Tabs |-> NoRequest]
  BY Zenon DEF SessionInit
<1>3. account.pw = -1
  <2>1. account = [exists |-> FALSE, enabled |-> TRUE, verified |-> FALSE, linked |-> FALSE, pw |-> -1]
    BY Zenon DEF SessionInit
  <2> QED BY <2>1
<1>4. AvailableTrue
  <2>1. \A f \in Family : ~families[f].live BY <1>2, DeadRow
  <2>2. \A t \in Tabs : tab[t].at = "idle" BY <1>2, NoRequestRow
  <2> QED BY <2>1, <2>2 DEF AvailableTrue
<1>5. BoundsTrue
  <2>1. \A f \in Family : /\ families[f].last \in 0..MaxRotations
                          /\ families[f].grace \in 0..families[f].last
                          /\ families[f].by \in -1..MaxRevocations
                          /\ ~families[f].live
    BY <1>2, DeadBounds
  <2>2. \A t \in Tabs : tab[t].at = "idle" BY <1>2, NoRequestRow
  <2>3. epoch <= MaxRevocations /\ account.pw \in -1..MaxRevocations BY <1>2, <1>3, TokenBounds
  <2> QED BY <1>2, <2>1, <2>2, <2>3 DEF BoundsTrue
<1>6. TokensTrue BY <1>2 DEF TokensTrue
<1> QED BY <1>1, <1>4, <1>5, <1>6 DEF AccountInv

LEMMA AccountStep == AccountInv /\ [SessionNext]_sessionVars => AccountInv'
<1> SUFFICES ASSUME AccountInv, [SessionNext]_sessionVars PROVE AccountInv' OBVIOUS
<1>1. SessionInv' BY SessionStep DEF AccountInv
<1>2. CASE UNCHANGED sessionVars
  <2>1. UNCHANGED <<account, families, made, jar, tab, handoffs, epoch, loggedOut, excused>>
    BY <1>2 DEF sessionVars
  <2>2. BoundsKept /\ \A f \in Family : SameTokens(f)
    BY <2>1, SameBounds DEF AccountInv, BoundsTrue
  <2>3. Available => Available' BY <2>1 DEF Available
  <2> QED BY <1>1, <2>1, <2>2, <2>3, EndsMoves
<1>3. ASSUME NEW t \in Tabs, TabStep(t) PROVE AccountInv'
  BY <1>1, <1>3, SignInSteps, RequestSteps, TokenSteps, DeliverKept DEF TabStep
<1>4. ASSUME NEW f \in Family, GracePasses(f) \/ TokensExpire(f) \/ NativeExchange(f) \/ HandoffExpires(f)
      PROVE  AccountInv'
  BY <1>1, <1>4, FamilySteps
<1> QED BY <1>1, <1>2, <1>3, <1>4, AccountSteps DEF SessionNext

LEMMA AccountInvariant == SessionSpec => []AccountInv
BY AccountInitially, AccountStep, PTL DEF SessionSpec

LEMMA SessionTyped == AccountInv => SessionTypeOK
<1> SUFFICES ASSUME AccountInv PROVE SessionTypeOK OBVIOUS
<1>1. \A t \in Tabs : tab[t].at \in Stages BY SessionRows DEF AccountInv, RequestRow
<1> QED BY <1>1, SessionRows DEF AccountInv, BoundsTrue, SessionTypeOK, Stages

\* Type correctness: counters of tokens in their bounds, cookies of families that were made, and
\* codes for the native app of live families only.
THEOREM SessionTypes == SessionSpec => []SessionTypeOK
BY SessionTyped, AccountInvariant, PTL

\* Tabs that renew with the same cookie do not lose the session: unless its family was ended, or an
\* answer was lost or late, the browser holds the current token or an answer on its way brings it,
\* however many tabs renew at once and in whatever order the answers come.
THEOREM SessionKept == SessionSpec => []TabsKeepSession
<1>1. AccountInv => TabsKeepSession
  <2> SUFFICES ASSUME AccountInv, jar.f # 0, jar.f \notin excused
               PROVE  /\ families[jar.f].live
                      /\ \/ jar.k = families[jar.f].last
                         \/ \E t \in Tabs : /\ tab[t].at = "cookies" /\ tab[t].f = jar.f
                                            /\ tab[t].k = families[jar.f].last
    BY DEF TabsKeepSession
  <2>1. PICK f \in 1..made : f = jar.f BY SessionRows DEF AccountInv
  <2>2. KeptFamily(f) BY <2>1 DEF AccountInv, TokensTrue
  <2> QED BY <2>1, <2>2 DEF KeptFamily, Brings
<1> QED BY <1>1, AccountInvariant, PTL

-----------------------------------------------------------------------------
(*****************************************************************************)
(* AppConnections: the stored grant is the latest the user gave.             *)
(*****************************************************************************)

ConnectionRow ==
    [status : {"disconnected", "connected", "reauthorize"}, gen : Nat, flow : Nat, token : Nat,
     of : Nat, pending : BOOLEAN]
ReaderRow ==
    [at : {"idle", "exchange", "finish", "credential", "reading", "rejected"}, token : Nat,
     gen : Nat, next : Nat, lock : BOOLEAN]
CallbackRow == [at : {"idle", "exchange", "save"}, gen : Nat, token : Nat]

\* The rows with their domains, and tokens as the provider numbers them.
AppTables ==
    /\ connection \in ConnectionRow
    /\ reader \in [Readers -> ReaderRow]
    /\ callback \in CallbackRow
    /\ granted \in 0..MaxGrants
    /\ redeemable \subseteq 1..granted /\ presented \subseteq 1..granted
    /\ due \in BOOLEAN /\ sessionLive \in BOOLEAN /\ replayed \in BOOLEAN /\ cut \in Nat

\* Who holds a token that is still to be sent: a reader about to renew, or with the answer.
Unspent == redeemable \ presented
Exchanges(r) == reader[r].at = "exchange"
Renewed(r) == reader[r].at = "finish" /\ reader[r].next # 0
Saving == callback.at = "save"
Stored == connection.status = "connected" /\ ~connection.pending

\* A token that is held can be redeemed and was never sent.
HeldFresh ==
    /\ Stored => connection.token \in Unspent
    /\ Saving => callback.token \in Unspent
    /\ \A r \in Readers : /\ Exchanges(r) => reader[r].token \in Unspent /\ reader[r].next = 0
                          /\ Renewed(r) => reader[r].next \in Unspent

\* Nobody else holds it.
HeldOnce ==
    /\ Stored /\ Saving => connection.token # callback.token
    /\ \A r \in Readers :
           /\ Stored /\ Exchanges(r) => connection.token # reader[r].token
           /\ Stored /\ Renewed(r) => connection.token # reader[r].next
           /\ Saving /\ Exchanges(r) => callback.token # reader[r].token
           /\ Saving /\ Renewed(r) => callback.token # reader[r].next
    /\ \A r, s \in Readers :
           /\ r # s /\ Exchanges(r) /\ Exchanges(s) => reader[r].token # reader[s].token
           /\ r # s /\ Renewed(r) /\ Renewed(s) => reader[r].next # reader[s].next
           /\ Exchanges(r) /\ Renewed(s) => reader[r].token # reader[s].next

\* What was begun before the last disconnection is of an older generation.
Generations ==
    /\ cut <= connection.gen
    /\ connection.flow # 0 => cut < connection.flow
    /\ callback.at # "idle" =>
           /\ callback.gen <= connection.gen
           /\ callback.gen = connection.gen => cut < callback.gen
    /\ connection.status = "connected" => cut < connection.of

AppInv == AppTables /\ ~replayed /\ HeldFresh /\ HeldOnce /\ Generations

-----------------------------------------------------------------------------
LEMMA AppLimits == MaxGrants \in Nat /\ MaxFlows \in Nat
BY AppConstants DEF AppConstants

LEMMA AppInitially == AppInit => AppInv
<1> SUFFICES ASSUME AppInit PROVE AppInv OBVIOUS
<1> USE DEF AppInit, Nobody, NoCallback
<1>0. 0 \in Nat /\ 0 \in 0..MaxGrants BY AppLimits
<1>1. AppTables
  <2>1. connection \in ConnectionRow BY <1>0 DEF ConnectionRow
  <2>2. reader \in [Readers -> ReaderRow] /\ callback \in CallbackRow BY <1>0 DEF ReaderRow, CallbackRow
  <2>3. redeemable \subseteq 1..granted /\ presented \subseteq 1..granted OBVIOUS
  <2>4. due \in BOOLEAN /\ sessionLive \in BOOLEAN /\ replayed \in BOOLEAN OBVIOUS
  <2> QED BY <1>0, <2>1, <2>2, <2>3, <2>4 DEF AppTables
<1>2. HeldFresh /\ HeldOnce BY DEF HeldFresh, HeldOnce, Stored, Saving, Exchanges, Renewed
<1>3. Generations BY DEF Generations
<1> QED BY <1>1, <1>2, <1>3 DEF AppInv

\* The row that an invalid grant becomes.
LEMMA InvalidateRow ==
    ASSUME AppTables, Invalidate
    PROVE  /\ connection' \in ConnectionRow /\ ~Stored' /\ connection'.status = "reauthorize"
           /\ connection'.gen = connection.gen /\ connection'.flow = connection.flow
BY DEF AppTables, Invalidate, ConnectionRow, Stored

\* A step in which holders only let go of their tokens.
LEMMA LetsGo ==
    ASSUME AppInv, AppTables', UNCHANGED <<redeemable, presented, granted, replayed>>,
           Stored' => Stored /\ connection'.token = connection.token,
           Saving' => Saving /\ callback'.token = callback.token,
           \A r \in Readers : /\ Exchanges(r)' => /\ Exchanges(r) /\ reader'[r].token = reader[r].token
                                                 /\ reader'[r].next = reader[r].next
                              /\ Renewed(r)' => Renewed(r) /\ reader'[r].next = reader[r].next,
           Generations'
    PROVE  AppInv'
<1> USE DEF AppInv
<1>1. Unspent' = Unspent BY DEF Unspent
<1>2. HeldFresh' BY <1>1 DEF HeldFresh
<1>3. HeldOnce' BY DEF HeldOnce
<1> QED BY <1>2, <1>3

LEMMA UserKeeps ==
    ASSUME AppInv, ConnectApp \/ DisconnectApp \/ ConsumeFlow \/ CallbackEnds \/ TokenAges \/ SessionEnds
    PROVE  AppInv'
<1> USE DEF AppInv, Generations
<1>0. /\ connection \in ConnectionRow /\ callback \in CallbackRow /\ cut \in Nat
      /\ connection.gen \in Nat /\ connection.flow \in Nat /\ connection.gen + 1 \in Nat
  BY DEF AppTables, ConnectionRow
<1>1. CASE ConnectApp
  <2>1. connection' = [connection EXCEPT !.gen = connection.gen + 1, !.flow = connection.gen + 1]
    BY <1>1 DEF ConnectApp
  <2>2. connection' \in ConnectionRow BY <1>0, <2>1, Zenon DEF ConnectionRow
  <2>3. AppTables' BY <1>1, <2>2 DEF ConnectApp, AppTables
  <2>4. /\ connection'.gen = connection.gen + 1 /\ connection'.flow = connection.gen + 1
        /\ connection'.status = connection.status /\ connection'.token = connection.token
        /\ connection'.pending = connection.pending /\ connection'.of = connection.of
    BY <1>0, <2>1 DEF ConnectionRow
  <2>5. Generations' BY <1>0, <1>1, <2>4 DEF ConnectApp, CallbackRow
  <2> QED BY <1>1, <2>3, <2>4, <2>5, LetsGo DEF ConnectApp, Stored, Saving, Exchanges, Renewed
<1>2. CASE DisconnectApp
  <2>1. connection' \in ConnectionRow BY <1>0, <1>2 DEF DisconnectApp, ConnectionRow
  <2>2. AppTables' BY <1>0, <1>2, <2>1 DEF DisconnectApp, AppTables
  <2>3. Generations' BY <1>0, <1>2 DEF DisconnectApp, CallbackRow
  <2> QED BY <1>2, <2>2, <2>3, LetsGo DEF DisconnectApp, Stored, Saving, Exchanges, Renewed
<1>3. CASE ConsumeFlow
  <2>1. connection' \in ConnectionRow BY <1>0, <1>3 DEF ConsumeFlow, ConnectionRow
  <2>2. callback' = [at |-> "exchange", gen |-> connection.flow, token |-> 0]
    BY <1>3 DEF ConsumeFlow, NoCallback
  <2>3. AppTables'
    <3>1. callback' \in CallbackRow BY <1>0, <2>2, Zenon DEF CallbackRow
    <3> QED BY <1>3, <2>1, <3>1 DEF ConsumeFlow, AppTables
  <2>4. /\ connection'.gen = connection.gen /\ connection'.flow = 0
        /\ connection'.status = connection.status /\ connection'.token = connection.token
        /\ connection'.pending = connection.pending /\ connection'.of = connection.of
    BY <1>0, <1>3 DEF ConsumeFlow, ConnectionRow
  <2>5. Generations' BY <1>0, <1>3, <2>2, <2>4 DEF ConsumeFlow
  <2> QED BY <1>3, <2>2, <2>3, <2>4, <2>5, LetsGo DEF ConsumeFlow, Stored, Saving, Exchanges, Renewed
<1>4. CASE CallbackEnds
  <2>1. AppTables' BY <1>4 DEF CallbackEnds, AppTables, NoCallback, CallbackRow
  <2>2. Generations' BY <1>4 DEF CallbackEnds, NoCallback
  <2> QED BY <1>4, <2>1, <2>2, LetsGo DEF CallbackEnds, NoCallback, Stored, Saving, Exchanges, Renewed
<1>5. CASE TokenAges
  <2>1. AppTables' BY <1>5 DEF TokenAges, AppTables
  <2> QED BY <1>5, <2>1, LetsGo DEF TokenAges, Stored, Saving, Exchanges, Renewed
<1>6. CASE SessionEnds
  <2>1. AppTables' BY <1>6 DEF SessionEnds, AppTables
  <2> QED BY <1>6, <2>1, LetsGo DEF SessionEnds, Stored, Saving, Exchanges, Renewed
<1> QED BY <1>1, <1>2, <1>3, <1>4, <1>5, <1>6

\* The callback obtains a token nobody has, and stores it under the generation it began with.
LEMMA CallbackKeeps ==
    ASSUME AppInv, ExchangeCode \/ SaveGrant PROVE AppInv'
<1> USE DEF AppInv
<1>0. /\ connection \in ConnectionRow /\ callback \in CallbackRow /\ granted \in Nat
      /\ redeemable \subseteq 1..granted /\ presented \subseteq 1..granted
  BY AppLimits DEF AppTables
<1>1. CASE ExchangeCode
  <2> DEFINE new == granted + 1
  <2>1. /\ callback' = [callback EXCEPT !.at = "save", !.token = new] /\ granted' = new
        /\ redeemable' = redeemable \cup {new} /\ callback.at = "exchange"
        /\ UNCHANGED <<connection, due, reader, sessionLive, presented, replayed, cut>>
        /\ granted < MaxGrants
    BY <1>1 DEF ExchangeCode
  <2>2. /\ callback' \in CallbackRow /\ callback'.at = "save" /\ callback'.token = new
        /\ callback'.gen = callback.gen
    <3>1. new \in Nat BY <1>0
    <3> HIDE DEF new
    <3> QED BY <1>0, <2>1, <3>1 DEF CallbackRow
  <2>3. AppTables' BY <1>0, <2>1, <2>2, AppLimits DEF AppTables
  <2>4. new \in Unspent' /\ Unspent \subseteq Unspent' /\ new \notin Unspent
    BY <1>0, <2>1 DEF Unspent
  <2>5. /\ Stored' <=> Stored
        /\ \A r \in Readers : (Exchanges(r)' <=> Exchanges(r)) /\ (Renewed(r)' <=> Renewed(r))
    BY <2>1 DEF Stored, Exchanges, Renewed
  <2> HIDE DEF new
  <2>6. HeldFresh' BY <2>1, <2>2, <2>4, <2>5 DEF HeldFresh, Saving
  <2>7. HeldOnce'
    <3>1. Stored => connection.token # new BY <2>4 DEF HeldFresh
    <3>2. \A r \in Readers : /\ Exchanges(r) => reader[r].token # new
                             /\ Renewed(r) => reader[r].next # new
      BY <2>4 DEF HeldFresh
    <3> QED BY <2>1, <2>2, <2>5, <3>1, <3>2 DEF HeldOnce, Saving
  <2>8. Generations' BY <2>1, <2>2 DEF Generations
  <2> QED BY <2>1, <2>3, <2>6, <2>7, <2>8
<1>2. CASE SaveGrant
  <2>1. /\ connection' = [connection EXCEPT !.status = "connected", !.token = callback.token,
                              !.of = callback.gen, !.pending = FALSE]
        /\ callback' = NoCallback /\ due' = FALSE /\ Saving /\ connection.gen = callback.gen
        /\ UNCHANGED <<redeemable, granted, reader, sessionLive, presented, replayed, cut>>
    BY <1>2 DEF SaveGrant, Saving, SameFlow
  <2>2. callback.token \in Nat /\ callback.gen \in Nat BY <1>0 DEF CallbackRow
  <2>3. connection' \in ConnectionRow BY <1>0, <2>1, <2>2, Zenon DEF ConnectionRow
  <2>4. /\ connection'.token = callback.token /\ connection'.gen = connection.gen
        /\ connection'.flow = connection.flow /\ connection'.of = callback.gen
    BY <1>0, <2>1 DEF ConnectionRow
  <2>5. AppTables' BY <2>1, <2>3 DEF AppTables, NoCallback, CallbackRow
  <2>6. /\ Unspent' = Unspent /\ ~Saving'
        /\ \A r \in Readers : (Exchanges(r)' <=> Exchanges(r)) /\ (Renewed(r)' <=> Renewed(r))
    BY <2>1 DEF Unspent, NoCallback, Saving, Exchanges, Renewed
  <2>7. HeldFresh' BY <2>1, <2>4, <2>6 DEF HeldFresh
  <2>8. HeldOnce' BY <2>1, <2>4, <2>6 DEF HeldOnce
  <2>9. Generations' BY <2>1, <2>4 DEF Generations, Saving, NoCallback
  <2> QED BY <2>1, <2>5, <2>7, <2>8, <2>9
<1> QED BY <1>1, <1>2

\* A reader that moves on without a token to renew, and may invalidate the grant.
LEMMA ReaderMovesOn ==
    ASSUME AppInv, NEW r \in Readers, NEW row \in ReaderRow,
           reader' = [reader EXCEPT ![r] = row],
           \/ row.at \notin {"exchange", "finish"}
           \/ row.at = reader[r].at /\ row.token = reader[r].token /\ row.next = reader[r].next,
           Invalidate \/ connection' = connection,
           UNCHANGED <<redeemable, granted, due, callback, sessionLive, presented, replayed, cut>>
    PROVE  AppInv'
<1> USE DEF AppInv
<1>1. /\ connection' \in ConnectionRow
      /\ Stored' => Stored /\ connection'.token = connection.token
      /\ connection'.gen = connection.gen /\ connection'.flow = connection.flow
      /\ connection'.status = "connected" => connection' = connection
  BY InvalidateRow DEF AppTables, Stored
<1>2. AppTables' BY <1>1 DEF AppTables
<1>3. Generations' BY <1>1 DEF Generations
<1>4. \A s \in Readers : /\ Exchanges(s)' => /\ Exchanges(s) /\ reader'[s].token = reader[s].token
                                                 /\ reader'[s].next = reader[s].next
                         /\ Renewed(s)' => Renewed(s) /\ reader'[s].next = reader[s].next
  BY DEF AppTables, Exchanges, Renewed
<1>5. Saving' => Saving /\ callback'.token = callback.token BY DEF Saving
<1> QED BY <1>1, <1>2, <1>3, <1>4, <1>5, LetsGo

\* The intent: the token passes from the row to the reader.
LEMMA ReadyKeeps ==
    ASSUME AppInv, NEW r \in Readers, ReadyToken(r) PROVE AppInv'
<1> USE DEF AppInv
<1>0. /\ connection \in ConnectionRow /\ reader[r] \in ReaderRow /\ reader[r].at = "idle"
      /\ UNCHANGED <<redeemable, granted, due, callback, sessionLive, presented, replayed, cut>>
  BY DEF AppTables, ReadyToken
<1>1. CASE connection.pending
  <2>1. Invalidate /\ reader' = reader BY <1>1 DEF ReadyToken
  <2>2. reader' = [reader EXCEPT ![r] = reader[r]] BY <2>1 DEF AppTables
  <2> QED BY <1>0, <2>1, <2>2, ReaderMovesOn
<1>2. CASE ~connection.pending /\ ~due
  <2> DEFINE row == [reader[r] EXCEPT !.at = "credential"]
  <2>1. row \in ReaderRow /\ row.at = "credential" BY <1>0 DEF ReaderRow
  <2>2. reader' = [reader EXCEPT ![r] = row] /\ connection' = connection BY <1>2 DEF ReadyToken
  <2> HIDE DEF row
  <2> QED BY <1>0, <2>1, <2>2, ReaderMovesOn
<1>3. CASE ~connection.pending /\ due
  <2> DEFINE row == [at |-> "exchange", token |-> connection.token, gen |-> connection.gen,
                     next |-> 0, lock |-> TRUE]
  <2>1. /\ connection' = [connection EXCEPT !.pending = TRUE]
        /\ reader' = [reader EXCEPT ![r] = row] /\ Stored
    BY <1>3 DEF ReadyToken, Intent, Stored
  <2>2. connection.token \in Nat /\ connection.gen \in Nat BY <1>0 DEF ConnectionRow
  <2>3. /\ row \in ReaderRow /\ row.at = "exchange" /\ row.token = connection.token /\ row.next = 0
    BY <2>2 DEF ReaderRow
  <2> HIDE DEF row
  <2>4. connection' \in ConnectionRow BY <1>0, <2>1, Zenon DEF ConnectionRow
  <2>5. /\ ~Stored' /\ connection'.gen = connection.gen /\ connection'.flow = connection.flow
        /\ connection'.of = connection.of /\ connection'.status = connection.status
    BY <1>0, <2>1 DEF ConnectionRow, Stored
  <2>6. AppTables' BY <1>0, <2>1, <2>3, <2>4 DEF AppTables
  <2>7. Generations' BY <1>0, <2>5 DEF Generations
  <2>8. /\ Unspent' = Unspent /\ (Saving' <=> Saving) /\ callback' = callback
        /\ Exchanges(r)' /\ ~Renewed(r)' /\ reader'[r].token = connection.token
        /\ reader'[r].next = 0
        /\ \A s \in Readers \ {r} : /\ Exchanges(s)' <=> Exchanges(s)
                                    /\ Renewed(s)' <=> Renewed(s)
                                    /\ reader'[s] = reader[s]
    BY <1>0, <2>1, <2>3 DEF AppTables, Unspent, Saving, Exchanges, Renewed
  <2>9. HeldFresh' BY <2>1, <2>5, <2>8 DEF HeldFresh
  <2>10. HeldOnce' BY <2>1, <2>5, <2>8 DEF HeldOnce
  <2> QED BY <1>0, <2>6, <2>7, <2>9, <2>10
<1> QED BY <1>1, <1>2, <1>3

\* The token is sent, for the only time, and the answer brings one that nobody has.
LEMMA ExchangeKeeps ==
    ASSUME AppInv, NEW r \in Readers, ExchangeRefresh(r) PROVE AppInv'
<1> USE DEF AppInv
<1> DEFINE t == reader[r].token
           new == granted + 1
<1>0. /\ reader[r] \in ReaderRow /\ granted \in Nat /\ new \in Nat
      /\ redeemable \subseteq 1..granted /\ presented \subseteq 1..granted
      /\ UNCHANGED <<connection, due, callback, sessionLive, cut>>
  BY AppLimits DEF AppTables, ExchangeRefresh
<1>1. Exchanges(r) /\ t \in Unspent BY DEF ExchangeRefresh, Exchanges, HeldFresh
<1>2. /\ presented' = presented \cup {t} /\ replayed' = FALSE
  BY <1>1 DEF ExchangeRefresh, Unspent
<1>3. \/ /\ granted < MaxGrants /\ granted' = new /\ redeemable' = (redeemable \ {t}) \cup {new}
         /\ \/ reader' = [reader EXCEPT ![r].at = "finish", ![r].next = new]
            \/ reader' = [reader EXCEPT ![r].at = "finish"]
      \/ /\ granted' = granted /\ redeemable' = redeemable
         /\ reader' = [reader EXCEPT ![r].at = "finish"]
  BY DEF ExchangeRefresh
<1>4. reader[r].next = 0 BY <1>1 DEF HeldFresh
<1>5. t \in Nat /\ t # new /\ new \notin Unspent /\ new \notin presented
  BY <1>0, <1>1 DEF ReaderRow, Unspent
<1> HIDE DEF t, new
<1>6. /\ reader' \in [Readers -> ReaderRow] /\ ~Exchanges(r)'
      /\ Renewed(r)' => reader'[r].next = new /\ new \in Unspent'
      /\ \A s \in Readers \ {r} : reader'[s] = reader[s]
  <2>1. CASE reader' = [reader EXCEPT ![r].at = "finish"]
    BY <1>0, <1>4, <2>1 DEF AppTables, ReaderRow, Exchanges, Renewed
  <2>2. CASE /\ reader' = [reader EXCEPT ![r].at = "finish", ![r].next = new]
             /\ redeemable' = (redeemable \ {t}) \cup {new}
    BY <1>0, <1>2, <1>5, <2>2 DEF AppTables, ReaderRow, Exchanges, Renewed, Unspent
  <2> QED BY <1>3, <2>1, <2>2
<1>7. Unspent \ {t} \subseteq Unspent' BY <1>2, <1>3 DEF Unspent
<1>8. AppTables'
  <2>1. t \in 1..granted BY <1>0, <1>1 DEF Unspent
  <2>2. granted' \in 0..MaxGrants /\ redeemable' \subseteq 1..granted' /\ presented' \subseteq 1..granted'
    BY <1>0, <1>2, <1>3, <2>1, AppLimits DEF AppTables, new
  <2> QED BY <1>0, <1>2, <1>6, <2>2 DEF AppTables
<1>9. /\ Stored' <=> Stored
      /\ Saving' <=> Saving
      /\ \A s \in Readers \ {r} : (Exchanges(s)' <=> Exchanges(s)) /\ (Renewed(s)' <=> Renewed(s))
  BY <1>0, <1>6 DEF Stored, Saving, Exchanges, Renewed
<1>10. /\ Stored => connection.token # t /\ connection.token # new
       /\ Saving => callback.token # t /\ callback.token # new
       /\ \A s \in Readers \ {r} : /\ Exchanges(s) => reader[s].token # t /\ reader[s].token # new
                                   /\ Renewed(s) => reader[s].next # t /\ reader[s].next # new
  BY <1>1, <1>5 DEF HeldOnce, HeldFresh, t
<1>11. HeldFresh' BY <1>0, <1>6, <1>7, <1>9, <1>10 DEF HeldFresh
<1>12. HeldOnce' BY <1>0, <1>6, <1>9, <1>10 DEF HeldOnce
<1>13. Generations' BY <1>0 DEF Generations
<1> QED BY <1>2, <1>8, <1>11, <1>12, <1>13

\* The new token passes to the row, if the row still waits for it.
LEMMA FinishKeeps ==
    ASSUME AppInv, NEW r \in Readers, FinishRefresh(r) PROVE AppInv'
<1> USE DEF AppInv
<1>0. /\ connection \in ConnectionRow /\ Nobody \in ReaderRow /\ Nobody.at = "idle"
      /\ UNCHANGED <<redeemable, granted, callback, sessionLive, presented, replayed, cut>>
  BY DEF AppTables, FinishRefresh, Nobody, ReaderRow
<1>1. CASE reader' = [reader EXCEPT ![r] = Nobody] /\ due' = due
           /\ (Invalidate \/ connection' = connection)
  BY <1>0, <1>1, ReaderMovesOn
<1>2. CASE /\ reader[r].next # 0 /\ Unchanged(r)
           /\ connection' = [connection EXCEPT !.token = reader[r].next, !.pending = FALSE]
           /\ due' = FALSE /\ reader' = [reader EXCEPT ![r] = [Nobody EXCEPT !.at = "credential"]]
  <2> DEFINE next == reader[r].next
  <2>1. Renewed(r) /\ next \in Nat BY <1>2 DEF FinishRefresh, Renewed, AppTables, ReaderRow
  <2>2. connection' \in ConnectionRow BY <1>0, <1>2, <2>1, Zenon DEF ConnectionRow
  <2>3. /\ connection'.token = next /\ connection'.gen = connection.gen
        /\ connection'.flow = connection.flow /\ connection'.of = connection.of
        /\ connection'.status = connection.status
    BY <1>0, <1>2 DEF ConnectionRow
  <2>4. reader' \in [Readers -> ReaderRow] BY <1>2 DEF AppTables, Nobody, ReaderRow
  <2>5. AppTables' BY <1>0, <1>2, <2>2, <2>4 DEF AppTables
  <2>6. Generations' BY <1>0, <2>3 DEF Generations
  <2>7. /\ ~Exchanges(r)' /\ ~Renewed(r)' /\ (Saving' <=> Saving) /\ Unspent' = Unspent
        /\ \A s \in Readers \ {r} : /\ Exchanges(s)' <=> Exchanges(s)
                                    /\ Renewed(s)' <=> Renewed(s)
                                    /\ reader'[s] = reader[s]
    BY <1>0, <1>2 DEF AppTables, Nobody, Exchanges, Renewed, Saving, Unspent
  <2>8. HeldFresh' BY <1>0, <2>1, <2>3, <2>7 DEF HeldFresh
  <2>9. HeldOnce' BY <1>0, <2>1, <2>3, <2>7 DEF HeldOnce
  <2> QED BY <1>0, <2>5, <2>6, <2>8, <2>9
<1> QED BY <1>1, <1>2 DEF FinishRefresh

LEMMA ReaderKeeps ==
    ASSUME AppInv, NEW r \in Readers, ReaderStep(r) PROVE AppInv'
<1>0. reader[r] \in ReaderRow /\ reader \in [Readers -> ReaderRow] /\ connection \in ConnectionRow
  BY DEF AppInv, AppTables
<1>a. Nobody \in ReaderRow /\ Nobody.at = "idle" BY DEF Nobody, ReaderRow
<1>1. CASE ReadResource(r)
  <2> DEFINE reading == [Nobody EXCEPT !.at = "reading", !.token = connection.token]
  <2>1. connection.token \in Nat BY <1>0 DEF ConnectionRow
  <2>2. reading \in ReaderRow /\ reading.at = "reading" BY <2>1 DEF Nobody, ReaderRow
  <2>3. /\ reader' = [reader EXCEPT ![r] = reading] \/ reader' = [reader EXCEPT ![r] = Nobody]
        /\ UNCHANGED <<connection, redeemable, granted, due, callback, sessionLive, presented, replayed, cut>>
    BY <1>1 DEF ReadResource
  <2> HIDE DEF reading
  <2> QED BY <1>a, <2>2, <2>3, ReaderMovesOn
<1>2. CASE ResourceAnswers(r)
  <2> DEFINE rejected == [reader[r] EXCEPT !.at = "rejected"]
  <2>1. rejected \in ReaderRow /\ rejected.at = "rejected" BY <1>0 DEF ReaderRow
  <2>2. /\ reader' = [reader EXCEPT ![r] = rejected] \/ reader' = [reader EXCEPT ![r] = Nobody]
        /\ UNCHANGED <<connection, redeemable, granted, due, callback, sessionLive, presented, replayed, cut>>
    BY <1>2 DEF ResourceAnswers
  <2> HIDE DEF rejected
  <2> QED BY <1>a, <2>1, <2>2, ReaderMovesOn
<1>3. CASE RejectCredential(r) BY <1>a, <1>3, ReaderMovesOn DEF RejectCredential
<1>4. CASE ReaderLost(r) BY <1>a, <1>4, ReaderMovesOn DEF ReaderLost
<1>5. CASE LoseRefreshLock(r)
  <2> DEFINE row == [reader[r] EXCEPT !.lock = FALSE]
  <2>1. /\ row \in ReaderRow /\ row.at = reader[r].at /\ row.token = reader[r].token
        /\ row.next = reader[r].next
    BY <1>0 DEF ReaderRow
  <2>2. /\ reader' = [reader EXCEPT ![r] = row]
        /\ UNCHANGED <<connection, redeemable, granted, due, callback, sessionLive, presented, replayed, cut>>
    BY <1>5 DEF LoseRefreshLock
  <2> HIDE DEF row
  <2> QED BY <2>1, <2>2, ReaderMovesOn
<1> QED BY <1>1, <1>2, <1>3, <1>4, <1>5, ReadyKeeps, ExchangeKeeps, FinishKeeps DEF ReaderStep

LEMMA AppInvStep == AppInv /\ [AppNext]_appVars => AppInv'
<1> SUFFICES ASSUME AppInv, [AppNext]_appVars PROVE AppInv' OBVIOUS
<1>1. CASE UNCHANGED appVars
  BY <1>1 DEF appVars, AppInv, AppTables, HeldFresh, HeldOnce, Generations, Unspent, Exchanges, Renewed,
     Saving, Stored
<1>2. CASE AppNext BY <1>2, UserKeeps, CallbackKeeps, ReaderKeeps DEF AppNext
<1> QED BY <1>1, <1>2

-----------------------------------------------------------------------------
\* Generations are counted, and a token is one the provider gave.
AppBounds ==
    /\ connection.gen <= 2 * MaxFlows
    /\ connection.flow <= connection.gen /\ connection.of <= connection.gen
    /\ connection.token <= granted

\* The row keeps its numbers, or gives the token up.
LEMMA RowBounds ==
    ASSUME AppInv, AppBounds, granted <= granted', granted' \in Nat,
           \/ UNCHANGED connection
           \/ /\ connection' \in ConnectionRow
              /\ connection'.gen = connection.gen /\ connection'.of \in {connection.of, connection.gen}
              /\ connection'.flow \in {connection.flow, 0}
              /\ connection'.token \in {connection.token, 0} \cup 1..granted
    PROVE  AppBounds'
BY SMT DEF AppInv, AppTables, AppBounds, ConnectionRow

\* A grant that is given up.
LEMMA InvalidNumbers ==
    ASSUME AppInv, Invalidate
    PROVE  /\ connection' \in ConnectionRow /\ connection'.gen = connection.gen
           /\ connection'.of = connection.of /\ connection'.flow = connection.flow
           /\ connection'.token = 0
BY DEF AppInv, AppTables, Invalidate, ConnectionRow

LEMMA AppBoundsStep ==
    ASSUME AppInv, AppBounds, [AppNext]_appVars
    PROVE  AppBounds'
<1>t. /\ connection \in ConnectionRow /\ granted \in Nat /\ callback \in CallbackRow
      /\ reader \in [Readers -> ReaderRow]
      /\ \A n \in Unspent : n \in 1..granted
  BY AppLimits DEF AppInv, AppTables, Unspent
<1>s. UNCHANGED <<connection, granted>> => AppBounds' BY <1>t, RowBounds
<1>1. CASE UNCHANGED appVars BY <1>1, <1>s DEF appVars
<1>2. CASE ConnectApp
  <2>1. /\ connection'.gen = connection.gen + 1 /\ connection'.flow = connection.gen + 1
        /\ connection'.of = connection.of /\ connection'.token = connection.token
        /\ connection.gen < 2 * MaxFlows - 1 /\ granted' = granted
    BY <1>2, <1>t DEF ConnectApp, ConnectionRow
  <2> QED BY <2>1, <1>t, AppLimits, SMT DEF AppBounds, ConnectionRow
<1>3. CASE DisconnectApp
  <2>1. /\ connection'.gen = connection.gen + 1 /\ connection'.flow = 0
        /\ connection'.of = 0 /\ connection'.token = 0
        /\ connection.gen <= 2 * MaxFlows - 1 /\ granted' = granted
    BY <1>3, <1>t, AppLimits DEF DisconnectApp, ConnectionRow
  <2> QED BY <2>1, <1>t, AppLimits, SMT DEF AppBounds, ConnectionRow
<1>4. CASE ConsumeFlow
  BY <1>4, <1>t, RowBounds DEF ConsumeFlow, ConnectionRow
<1>5. CASE ExchangeCode
  <2>1. granted' = granted + 1 /\ UNCHANGED connection BY <1>5 DEF ExchangeCode
  <2> QED BY <2>1, <1>t, RowBounds
<1>6. CASE SaveGrant
  <2>1. callback.token \in 1..granted
    BY <1>6, <1>t DEF SaveGrant, AppInv, HeldFresh, Saving
  <2>2. /\ connection' = [connection EXCEPT !.status = "connected", !.token = callback.token,
                                            !.of = callback.gen, !.pending = FALSE]
        /\ callback.gen = connection.gen /\ granted' = granted
    BY <1>6 DEF SaveGrant, SameFlow
  <2>3. connection' \in ConnectionRow BY <2>1, <2>2, <1>t DEF ConnectionRow, CallbackRow
  <2>4. /\ connection'.gen = connection.gen /\ connection'.of = connection.gen
        /\ connection'.flow = connection.flow /\ connection'.token = callback.token
    BY <2>2, <1>t DEF ConnectionRow
  <2> QED BY <2>1, <2>2, <2>3, <2>4, <1>t, RowBounds
<1>7. CASE CallbackEnds \/ TokenAges \/ SessionEnds
  BY <1>7, <1>s DEF CallbackEnds, TokenAges, SessionEnds
<1>8. ASSUME NEW r \in Readers, ReaderStep(r) PROVE AppBounds'
  <2>1. CASE ReadyToken(r)
    <3>1. granted' = granted BY <2>1 DEF ReadyToken
    <3>2. CASE Invalidate BY <3>1, <3>2, <1>t, InvalidNumbers, RowBounds
    <3>3. CASE UNCHANGED connection BY <3>1, <3>3, <1>s
    <3>4. CASE connection' = Intent(connection)
      <4>1. /\ connection' \in ConnectionRow /\ connection'.gen = connection.gen
            /\ connection'.of = connection.of /\ connection'.flow = connection.flow
            /\ connection'.token = connection.token
        BY <3>4, <1>t DEF Intent, ConnectionRow
      <4> QED BY <3>1, <4>1, <1>t, RowBounds
    <3> QED BY <2>1, <3>2, <3>3, <3>4 DEF ReadyToken
  <2>2. CASE ExchangeRefresh(r)
    <3>1. granted' \in {granted, granted + 1} /\ UNCHANGED connection BY <2>2 DEF ExchangeRefresh
    <3> QED BY <3>1, <1>t, RowBounds
  <2>3. CASE FinishRefresh(r)
    <3>1. granted' = granted BY <2>3 DEF FinishRefresh
    <3>2. CASE Invalidate BY <3>1, <3>2, <1>t, InvalidNumbers, RowBounds
    <3>3. CASE UNCHANGED connection BY <3>1, <3>3, <1>s
    <3>4. CASE /\ connection' = [connection EXCEPT !.token = reader[r].next, !.pending = FALSE]
               /\ reader[r].next # 0 /\ reader[r].at = "finish"
      <4>1. reader[r].next \in 1..granted BY <3>4, <1>t DEF AppInv, HeldFresh, Renewed
      <4>2. reader[r].next \in Nat BY <1>t DEF ReaderRow
      <4>3. /\ connection' \in ConnectionRow /\ connection'.gen = connection.gen
            /\ connection'.of = connection.of /\ connection'.flow = connection.flow
            /\ connection'.token = reader[r].next
        BY <3>4, <4>2, <1>t DEF ConnectionRow
      <4> QED BY <3>1, <4>1, <4>3, <1>t, RowBounds
    <3> QED BY <2>3, <3>2, <3>3, <3>4 DEF FinishRefresh
  <2>4. CASE RejectCredential(r)
    <3>1. granted' = granted BY <2>4 DEF RejectCredential
    <3>2. CASE Invalidate BY <3>1, <3>2, <1>t, InvalidNumbers, RowBounds
    <3>3. CASE UNCHANGED connection BY <3>1, <3>3, <1>s
    <3> QED BY <2>4, <3>2, <3>3 DEF RejectCredential
  <2> QED BY <1>8, <1>s, <2>1, <2>2, <2>3, <2>4
          DEF ReaderStep, ReadResource, ResourceAnswers, ReaderLost, LoseRefreshLock
<1> QED BY <1>1, <1>2, <1>3, <1>4, <1>5, <1>6, <1>7, <1>8 DEF AppNext

LEMMA AppTyped == AppInv /\ AppBounds => AppTypeOK
BY AppLimits DEF AppInv, AppTables, AppBounds, AppTypeOK, ConnectionRow, ReaderRow, CallbackRow

LEMMA AppBegins == AppInit => AppBounds
BY AppLimits DEF AppInit, AppBounds

\* Rows, tokens and generations stay in their domains: a token is one that was given, a flow and
\* a grant are of a generation that was begun.
THEOREM AppTypes == AppSpec => []AppTypeOK
<1>1. AppInv /\ AppBounds /\ [AppNext]_appVars => AppBounds' BY AppBoundsStep
<1> QED BY <1>1, AppBegins, AppTyped, AppInitially, AppInvStep, PTL DEF AppSpec

\* Whichever callbacks, renewals and disconnections end last, and whatever answers, locks and
\* processes are lost: no refresh token is sent twice, the stored one can be redeemed, and a
\* disconnected app comes back only through a later flow.
THEOREM TrueGrants == AppSpec => []GrantsTrue
<1>1. AppInv => GrantsTrue
  BY DEF AppInv, GrantsTrue, HeldFresh, Generations, Stored, Unspent
<1> QED BY <1>1, AppInitially, AppInvStep, PTL DEF AppSpec
=============================================================================
