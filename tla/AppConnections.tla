--------------------------- MODULE AppConnections ---------------------------
(***************************************************************************)
(* One app connection of one user: a grant that an OAuth callback stores,  *)
(* readers that renew and use it, and the user who connects again or       *)
(* disconnects meanwhile.                                                  *)
(*                                                                         *)
(* The provider rotates: a refresh token is redeemed once, and the answer  *)
(* may be lost.  The reader therefore writes its intent before it asks,    *)
(* under an advisory lock that a lost database session gives up early.     *)
(*                                                                         *)
(* Source: backend/internal/connector/{store,oauth,protocol}.go.           *)
(***************************************************************************)
EXTENDS Integers

CONSTANTS
    Readers,        \* tasks and pages that use the connection
    MaxGrants,      \* bound: refresh tokens the provider gives
    MaxFlows,       \* bound: connections asked for and withdrawn
    MaxAppFaults    \* bound: failed calls, lost answers, processes and sessions

ASSUME AppConstants == {MaxGrants, MaxFlows, MaxAppFaults} \subseteq Nat

VARIABLES
    connection,     \* the row of app_connections and of its flow
    redeemable,     \* at the provider: refresh tokens it would accept
    granted,        \* at the provider: tokens given
    due,            \* the access token of the row is about to expire
    callback,       \* the OAuth callback
    reader,
    sessionLive,    \* the account and its session are valid
    presented,      \* history: refresh tokens sent to the provider
    replayed,       \* history: one was sent twice
    cut,            \* history: the generation of the last disconnection
    appFaults

appVars == <<connection, redeemable, granted, due, callback, reader, sessionLive, presented,
             replayed, cut, appFaults>>

Nobody == [at |-> "idle", token |-> 0, gen |-> 0, next |-> 0, lock |-> FALSE]
NoCallback == [at |-> "idle", gen |-> 0, token |-> 0]

AppTypeOK ==
    /\ connection.status \in {"disconnected", "connected", "reauthorize"}
    /\ connection.gen \in 0..(2 * MaxFlows) /\ connection.flow \in 0..connection.gen
    /\ connection.of \in 0..connection.gen
    /\ connection.token \in 0..granted /\ granted \in 0..MaxGrants
    /\ redeemable \subseteq 1..granted /\ presented \subseteq 1..granted
    /\ callback.at \in {"idle", "exchange", "save"}
    /\ \A r \in Readers : reader[r].at \in {"idle", "exchange", "finish", "credential", "reading",
                                            "rejected"}

AppInit ==
    /\ connection = [status |-> "disconnected", gen |-> 0, flow |-> 0, token |-> 0, of |-> 0,
                     pending |-> FALSE]
    /\ redeemable = {} /\ granted = 0 /\ due = FALSE
    /\ callback = NoCallback /\ reader = [r \in Readers |-> Nobody]
    /\ sessionLive = TRUE /\ presented = {} /\ replayed = FALSE /\ cut = 0
    /\ appFaults = 0

AppFault == appFaults < MaxAppFaults /\ appFaults' = appFaults + 1

-----------------------------------------------------------------------------
\* Every transaction checks the account, the session and the membership first.
Authorized == sessionLive
\* A reader keeps a share of the row while it reads the resource.
ConnectionFree == \A r \in Readers : reader[r].at # "reading"
RefreshFree == \A r \in Readers : ~reader[r].lock

\* With the revision the page shows; an older one is a conflict.
ConnectApp ==
    /\ Authorized /\ ConnectionFree
    /\ connection.gen < 2 * MaxFlows - 1
    /\ connection' = [connection EXCEPT !.gen = @ + 1, !.flow = connection.gen + 1]
    /\ UNCHANGED <<redeemable, granted, due, callback, reader, sessionLive, presented, replayed,
                   cut, appFaults>>

DisconnectApp ==
    /\ Authorized /\ ConnectionFree
    /\ connection.gen \in 1..(2 * MaxFlows - 1)
    /\ connection' = [status |-> "disconnected", gen |-> connection.gen + 1, flow |-> 0,
                      token |-> 0, of |-> 0, pending |-> FALSE]
    /\ cut' = connection.gen + 1
    /\ UNCHANGED <<redeemable, granted, due, callback, reader, sessionLive, presented, replayed,
                   appFaults>>

\* What a refused or unusable grant becomes.
Invalidate == connection' = [connection EXCEPT !.status = "reauthorize", !.pending = FALSE, !.token = 0]

-----------------------------------------------------------------------------
\* The callback: the flow is consumed, the code exchanged, the grant stored.

\* Of the browser that began it, with the generation it began with.
ConsumeFlow ==
    /\ callback.at = "idle" /\ connection.flow # 0
    /\ Authorized /\ ConnectionFree /\ connection.flow = connection.gen
    /\ connection' = [connection EXCEPT !.flow = 0]
    /\ callback' = [NoCallback EXCEPT !.at = "exchange", !.gen = connection.flow]
    /\ UNCHANGED <<redeemable, granted, due, reader, sessionLive, presented, replayed, cut, appFaults>>

ExchangeCode ==
    /\ callback.at = "exchange" /\ granted < MaxGrants
    /\ granted' = granted + 1
    /\ redeemable' = redeemable \cup {granted + 1}
    /\ callback' = [callback EXCEPT !.at = "save", !.token = granted + 1]
    /\ UNCHANGED <<connection, due, reader, sessionLive, presented, replayed, cut, appFaults>>

SameFlow == connection.gen = callback.gen

SaveGrant ==
    /\ callback.at = "save"
    /\ Authorized /\ ConnectionFree /\ SameFlow
    /\ connection' = [connection EXCEPT !.status = "connected", !.token = callback.token,
                                        !.of = callback.gen, !.pending = FALSE]
    /\ due' = FALSE
    /\ callback' = NoCallback
    /\ UNCHANGED <<redeemable, granted, reader, sessionLive, presented, replayed, cut, appFaults>>

\* The user refused, the provider failed, or the state changed.
CallbackEnds ==
    /\ callback.at # "idle"
    /\ IF callback.at = "save" /\ (~Authorized \/ connection.gen # callback.gen)
       THEN UNCHANGED appFaults ELSE AppFault
    /\ callback' = NoCallback
    /\ UNCHANGED <<connection, redeemable, granted, due, reader, sessionLive, presented, replayed, cut>>

-----------------------------------------------------------------------------
\* Readers: a token that is ready, then the resource.

Intent_Later(c) == c \* mutant: the intent is not written before the request
\* Committed before the provider is asked.
Intent(c) == [c EXCEPT !.pending = TRUE]

\* An intent that was left behind means the token may be consumed.
ReadyToken(r) ==
    /\ reader[r].at = "idle"
    /\ Authorized /\ RefreshFree /\ ConnectionFree
    /\ connection.status = "connected"
    /\ \/ /\ connection.pending
          /\ Invalidate /\ UNCHANGED reader
       \/ /\ ~connection.pending /\ ~due
          /\ reader' = [reader EXCEPT ![r].at = "credential"]
          /\ UNCHANGED connection
       \/ /\ ~connection.pending /\ due
          /\ connection' = Intent(connection)
          /\ reader' = [reader EXCEPT ![r] = [at |-> "exchange", token |-> connection.token,
                                              gen |-> connection.gen, next |-> 0, lock |-> TRUE]]
    /\ UNCHANGED <<redeemable, granted, due, callback, sessionLive, presented, replayed, cut, appFaults>>

\* The provider consumes the token and gives another; a lost answer reads as a failure.
ExchangeRefresh(r) ==
    LET t == reader[r].token
    IN  /\ reader[r].at = "exchange"
        /\ presented' = presented \cup {t}
        /\ replayed' = (replayed \/ t \in presented)
        /\ IF t \in redeemable /\ granted < MaxGrants
           THEN /\ granted' = granted + 1
                /\ redeemable' = (redeemable \ {t}) \cup {granted + 1}
                /\ \/ reader' = [reader EXCEPT ![r].at = "finish", ![r].next = granted + 1]
                      /\ UNCHANGED appFaults
                   \/ AppFault /\ reader' = [reader EXCEPT ![r].at = "finish"]
           ELSE /\ reader' = [reader EXCEPT ![r].at = "finish"]
                /\ UNCHANGED <<granted, redeemable, appFaults>>
        /\ UNCHANGED <<connection, due, callback, sessionLive, cut>>

Unchanged(r) ==
    /\ connection.pending
    /\ connection.gen = reader[r].gen /\ connection.token = reader[r].token

\* In a second transaction of the same session, even when the request that started it is gone.
FinishRefresh(r) ==
    /\ reader[r].at = "finish" /\ ConnectionFree
    /\ IF ~reader[r].lock \/ ~Authorized \/ ~Unchanged(r)
       THEN /\ UNCHANGED <<connection, due>>
            /\ reader' = [reader EXCEPT ![r] = Nobody]
       ELSE IF reader[r].next = 0
       THEN /\ Invalidate /\ UNCHANGED due
            /\ reader' = [reader EXCEPT ![r] = Nobody]
       ELSE /\ connection' = [connection EXCEPT !.token = reader[r].next, !.pending = FALSE]
            /\ due' = FALSE
            /\ reader' = [reader EXCEPT ![r] = [Nobody EXCEPT !.at = "credential"]]
    /\ UNCHANGED <<redeemable, granted, callback, sessionLive, presented, replayed, cut, appFaults>>

\* The credential is read again and held for the time of the request.
ReadResource(r) ==
    /\ reader[r].at = "credential"
    /\ IF Authorized /\ connection.status = "connected"
       THEN reader' = [reader EXCEPT ![r] = [Nobody EXCEPT !.at = "reading", !.token = connection.token]]
       ELSE reader' = [reader EXCEPT ![r] = Nobody]
    /\ UNCHANGED <<connection, redeemable, granted, due, callback, sessionLive, presented, replayed,
                   cut, appFaults>>

\* A result, an error that says nothing of the grant, or a refusal of the credential.
ResourceAnswers(r) ==
    /\ reader[r].at = "reading"
    /\ \/ reader' = [reader EXCEPT ![r] = Nobody] /\ UNCHANGED appFaults
       \/ AppFault /\ reader' = [reader EXCEPT ![r].at = "rejected"]
    /\ UNCHANGED <<connection, redeemable, granted, due, callback, sessionLive, presented, replayed, cut>>

\* Only the credential that was refused.
RejectCredential(r) ==
    /\ reader[r].at = "rejected" /\ ConnectionFree
    /\ IF Authorized /\ connection.token = reader[r].token THEN Invalidate ELSE UNCHANGED connection
    /\ reader' = [reader EXCEPT ![r] = Nobody]
    /\ UNCHANGED <<redeemable, granted, due, callback, sessionLive, presented, replayed, cut, appFaults>>

-----------------------------------------------------------------------------
ReaderLost(r) ==
    /\ AppFault
    /\ reader[r].at # "idle" /\ reader' = [reader EXCEPT ![r] = Nobody]
    /\ UNCHANGED <<connection, redeemable, granted, due, callback, sessionLive, presented, replayed, cut>>
\* The session of the lock ends.
LoseRefreshLock(r) ==
    /\ AppFault
    /\ reader[r].lock /\ reader' = [reader EXCEPT ![r].lock = FALSE]
    /\ UNCHANGED <<connection, redeemable, granted, due, callback, sessionLive, presented, replayed, cut>>

TokenAges ==
    /\ connection.status = "connected" /\ ~due /\ due' = TRUE
    /\ UNCHANGED <<connection, redeemable, granted, callback, reader, sessionLive, presented,
                   replayed, cut, appFaults>>
SessionEnds ==
    /\ AppFault
    /\ sessionLive /\ sessionLive' = FALSE
    /\ UNCHANGED <<connection, redeemable, granted, due, callback, reader, presented, replayed, cut>>

ReaderStep(r) ==
    \/ ReadyToken(r) \/ ExchangeRefresh(r) \/ FinishRefresh(r)
    \/ ReadResource(r) \/ ResourceAnswers(r) \/ RejectCredential(r)
    \/ ReaderLost(r) \/ LoseRefreshLock(r)

AppNext ==
    \/ ConnectApp \/ DisconnectApp
    \/ ConsumeFlow \/ ExchangeCode \/ SaveGrant \/ CallbackEnds
    \/ TokenAges \/ SessionEnds
    \/ \E r \in Readers : ReaderStep(r)

AppSpec == AppInit /\ [][AppNext]_appVars

-----------------------------------------------------------------------------
(* The stored grant is the latest the user gave: no refresh token is sent to the provider a     *)
(* second time, a grant that is not being renewed can be redeemed, and what a user disconnected *)
(* comes back only through a flow begun after that, whichever callback or renewal ends last.    *)
GrantsTrue ==
    /\ ~replayed
    /\ connection.status = "connected" =>
           /\ connection.of > cut
           /\ ~connection.pending => connection.token \in redeemable
=============================================================================
