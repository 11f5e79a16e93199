--------------------------- MODULE IdentityProofs ---------------------------
(***************************************************************************)
(* Proofs about accounts, sign-in and worker tokens, for every set of      *)
(* uids, administrators, tokens, workers, users and amounts.               *)
(*                                                                         *)
(* The inductive invariant IdentityInv follows the names a request can     *)
(* bring into the ledger: the actor of a request that was authenticated,   *)
(* the owner of a worker, the user of a token and the payer of a hold all  *)
(* have a wallet that some sign-in made, whatever the requests' bodies     *)
(* say and however long ago they were authenticated.                       *)
(***************************************************************************)
EXTENDS Identity, LedgerProofs

(* The users that have a wallet. *)
Known == registered \ {Platform}

BoundAccounts == {bindings[uid] : uid \in DOMAIN bindings}

NamesInv ==
    /\ \A request \in requests : request.actor \in Known
    /\ \A worker \in DOMAIN owners : owners[worker] \in Known
    /\ \A token \in DOMAIN tokens : tokens[token] \in [user : Known, revoked : BOOLEAN]
    /\ \A job \in DOMAIN holds : holds[job].user \in Known

BindingsInv ==
    /\ Known = BoundAccounts
    /\ \A u1, u2 \in DOMAIN bindings : bindings[u1] = bindings[u2] => u1 = u2

BootstrapRows(user) ==
    {t \in transactions : t.user = user /\ t.source = "bootstrap_credits"}

(* One row for an account, none for a name without one. *)
GrantsInv ==
    \A user \in Users :
        IF user \in registered
        THEN \E row : BootstrapRows(user) = {row}
        ELSE BootstrapRows(user) = {}

IdentityInv ==
    /\ registered \subseteq Accounts
    /\ NamesInv
    /\ BindingsInv
    /\ GrantsInv

-----------------------------------------------------------------------------
(* What a call of the ledger does to names and grants *)

(* The ledger learns no name; the platform's wallet is nobody's.           *)
NoNewName ==
    /\ Known' = Known
    /\ registered' \subseteq Accounts
    /\ \A job \in DOMAIN holds' : holds'[job].user \in Known'

NoNewGrant == \A user \in Users : BootstrapRows(user)' = BootstrapRows(user)

LEMMA UntouchedLedger ==
    ASSUME IdentityInv, UNCHANGED ledgerVars
    PROVE  NoNewName /\ NoNewGrant
  BY DEF IdentityInv, NamesInv, NoNewName, NoNewGrant, Known, BootstrapRows, ledgerVars

LEMMA RegisterKnown ==
    ASSUME IdentityInv, NEW user \in Known, RegisterUser(user)
    PROVE  NoNewName /\ NoNewGrant
  BY DEF IdentityInv, NamesInv, NoNewName, NoNewGrant, Known, BootstrapRows, RegisterUser

LEMMA PurchaseOfKnown ==
    ASSUME IdentityInv, NEW user \in Known, NEW amount, Purchase(user, amount)
    PROVE  NoNewName /\ NoNewGrant
  BY DEF IdentityInv, NamesInv, NoNewName, NoNewGrant, Known, BootstrapRows, Purchase, Record, Row

LEMMA AdjustmentGrantsNothing ==
    ASSUME IdentityInv, NEW account, NEW amount, AdminAdjust(account, amount)
    PROVE  NoNewName /\ NoNewGrant
  BY DEF IdentityInv, NamesInv, NoNewName, NoNewGrant, Known, BootstrapRows, AdminAdjust, Record, Row

LEMMA ReserveOfKnown ==
    ASSUME IdentityInv, NEW user \in Known, NEW job, NEW amount, Reserve(user, job, amount)
    PROVE  NoNewName /\ NoNewGrant
<1>1. /\ registered' = registered \cup {user}
      /\ holds' = With(holds, job, [user |-> user, amount |-> amount])
      /\ transactions' = transactions \cup {PendingRow(user, amount, job)}
  BY DEF Reserve, Record
<1>2. NoNewName
  BY <1>1 DEF IdentityInv, NamesInv, NoNewName, Known, With
<1>3. PendingRow(user, amount, job).source = "job_reservation"
  BY DEF PendingRow
<1> QED
  BY <1>1, <1>2, <1>3 DEF NoNewGrant, BootstrapRows

LEMMA ReleaseGrantsNothing ==
    ASSUME IdentityInv, NEW job, NEW source \in ReleaseSource, Release(job, source)
    PROVE  NoNewName /\ NoNewGrant
<1> DEFINE row == Row(0, holds[job].user, "refund", holds[job].amount, source, job)
<1>1. /\ registered' = registered
      /\ holds' = HoldsWithout(job)
      /\ transactions' = WithoutPending(job, holds[job].user) \cup {row}
  BY DEF Release
<1>2. row.source # "bootstrap_credits"
  BY DEF Row, ReleaseSource
<1> HIDE DEF row
<1>3. NoNewName
  BY <1>1 DEF IdentityInv, NamesInv, NoNewName, Known, HoldsWithout, Restrict
<1> QED
  BY <1>1, <1>2, <1>3 DEF NoNewGrant, BootstrapRows, WithoutPending, IsPendingReservation

LEMMA SettleGrantsNothing ==
    ASSUME IdentityInv, NEW job, NEW owner \in Known, NEW cost, Settle(job, owner, cost)
    PROVE  NoNewName /\ NoNewGrant
<1> DEFINE hold == holds[job]
           refund == hold.amount - cost
           share == WorkerShare(cost)
           fee == cost - share
           rows == SettlementRows(job, hold.user, owner, cost, refund, share, fee)
<1>1. job \in DOMAIN holds /\ holds' = HoldsWithout(job) /\ hold.user \in Known
  BY DEF Settle, IdentityInv, NamesInv
<1>2. \/ UNCHANGED <<registered, transactions>>
      \/ /\ registered' = registered \cup {hold.user, owner, Platform}
         /\ transactions' = WithoutPending(job, hold.user) \cup rows
  BY DEF Settle
<1>3. \A t \in rows : t.source # "bootstrap_credits"
  BY DEF SettlementRows, Row
<1> HIDE DEF rows
<1>4. NoNewName
  BY <1>1, <1>2 DEF IdentityInv, NamesInv, NoNewName, Known, HoldsWithout, Restrict, Accounts
<1> QED
  BY <1>2, <1>3, <1>4 DEF NoNewGrant, BootstrapRows, WithoutPending, IsPendingReservation

(* The first sign-in of a uid: one new name, one new grant.                *)
LEMMA BootstrapNames ==
    ASSUME IdentityInv, NEW user \in Users \ registered, NEW amount, Bootstrap(user, amount)
    PROVE  /\ Known' = Known \cup {user} /\ registered' \subseteq Accounts /\ holds' = holds
           /\ GrantsInv'
<1> DEFINE row == Row(0, user, "adjustment", amount, "bootstrap_credits", NoJob)
<1>1. /\ registered' = registered \cup {user} /\ holds' = holds
      /\ transactions' = transactions \cup {row}
  BY DEF Bootstrap, Record
<1>2. row.user = user /\ row.source = "bootstrap_credits"
  BY DEF Row
<1> HIDE DEF row
<1>3. user # Platform
  BY LedgerAssumption
<1>4. BootstrapRows(user)' = {row}
  BY <1>1, <1>2 DEF IdentityInv, GrantsInv, BootstrapRows
<1>5. \A other \in Users \ {user} : BootstrapRows(other)' = BootstrapRows(other)
  BY <1>1, <1>2 DEF BootstrapRows
<1>6. GrantsInv'
  BY <1>1, <1>4, <1>5 DEF IdentityInv, GrantsInv
<1> QED
  BY <1>1, <1>3, <1>6 DEF IdentityInv, Known, Accounts

-----------------------------------------------------------------------------
(* The calls *)

(* A handler that brings no name into the ledger.                          *)
LEMMA HandlerKeepsInv ==
    ASSUME IdentityInv, NoNewName, NoNewGrant, UNCHANGED bindings,
           requests' \subseteq requests,
           \A worker \in DOMAIN owners' : owners'[worker] \in Known,
           \A token \in DOMAIN tokens' : tokens'[token] \in [user : Known, revoked : BOOLEAN]
    PROVE  IdentityInv'
<1>1. \A user \in Users : user \in registered' <=> user \in registered
  BY LedgerAssumption DEF NoNewName, Known
<1>2. GrantsInv'
  BY <1>1 DEF IdentityInv, NoNewGrant, GrantsInv
<1>3. NamesInv' /\ BindingsInv'
  BY DEF IdentityInv, NoNewName, NamesInv, BindingsInv, BoundAccounts
<1> QED
  BY <1>2, <1>3 DEF IdentityInv, NoNewName

LEMMA RequestAccepted ==
    ASSUME IdentityInv, NEW request, request.actor \in Known, Accepts(request),
           UNCHANGED <<ledgerVars, bindings, tokens, owners>>
    PROVE  IdentityInv'
<1>1. NoNewName /\ NoNewGrant
  BY UntouchedLedger
<1>2. \A user \in Users : user \in registered' <=> user \in registered
  BY LedgerAssumption DEF ledgerVars
<1>3. GrantsInv'
  BY <1>1, <1>2 DEF IdentityInv, NoNewGrant, GrantsInv
<1>4. NamesInv' /\ BindingsInv'
  BY <1>1 DEF IdentityInv, NoNewName, NamesInv, BindingsInv, BoundAccounts, Accepts
<1> QED
  BY <1>1, <1>3, <1>4 DEF IdentityInv, NoNewName

LEMMA FirstSignInKeepsInv ==
    ASSUME IdentityInv, NEW uid \in Uids, FirstSignIn(uid)
    PROVE  IdentityInv'
<1>1. PICK user \in Users \ registered :
        /\ Bootstrap(user, BootstrapCredits)
        /\ bindings' = With(bindings, uid, user)
        /\ Accepts(Session(uid, user))
  BY DEF FirstSignIn
<1>2. UNCHANGED <<tokens, owners>> /\ uid \notin DOMAIN bindings
  BY DEF FirstSignIn
<1>3. /\ Known' = Known \cup {user} /\ registered' \subseteq Accounts /\ holds' = holds
      /\ GrantsInv'
  BY <1>1, BootstrapNames
<1>4. DOMAIN bindings' = DOMAIN bindings \cup {uid} /\ bindings'[uid] = user
      /\ \A u \in DOMAIN bindings : bindings'[u] = bindings[u]
  BY <1>1, <1>2 DEF With
<1>5. user \notin BoundAccounts
  BY DEF IdentityInv, BindingsInv, Known
<1>6. BindingsInv'
  BY <1>3, <1>4, <1>5 DEF IdentityInv, BindingsInv, BoundAccounts
<1>7. requests' = requests \cup {Session(uid, user)} /\ Session(uid, user).actor = user
  BY <1>1 DEF Accepts, Session
<1>8. NamesInv'
  BY <1>2, <1>3, <1>7 DEF IdentityInv, NamesInv
<1> QED
  BY <1>3, <1>6, <1>8 DEF IdentityInv

LEMMA WorkerRouteKeepsInv ==
    ASSUME IdentityInv, NEW request \in requests, WorkerRoute(request)
    PROVE  IdentityInv'
<1>1. /\ request.actor \in Known
      /\ \A worker \in DOMAIN owners : owners[worker] \in Known
      /\ \A token \in DOMAIN tokens : tokens[token] \in [user : Known, revoked : BOOLEAN]
  BY DEF IdentityInv, NamesInv
<1>2. ASSUME NEW worker, NEW owner, RegisterWorkerRequest(request, worker, owner)
      PROVE  IdentityInv'
  <2>1. owner \in Known /\ RegisterUser(owner) /\ owners' = With(owners, worker, owner)
        /\ requests' \subseteq requests /\ UNCHANGED <<bindings, tokens>>
    BY <1>1, <1>2 DEF RegisterWorkerRequest, AssertActorMatches, Handled
  <2>2. NoNewName /\ NoNewGrant
    BY <2>1, RegisterKnown
  <2> QED
    BY <1>1, <2>1, <2>2, HandlerKeepsInv DEF With
<1>3. ASSUME NEW worker, NEW job, NEW cost, CompleteJobRequest(request, worker, job, cost)
      PROVE  IdentityInv'
  <2>1. owners[worker] \in Known /\ requests' \subseteq requests
        /\ UNCHANGED <<bindings, tokens, owners>>
    BY <1>1, <1>3 DEF CompleteJobRequest, Handled
  <2>2. \/ \E source \in ReleaseSource : Release(job, source)
        \/ Settle(job, owners[worker], cost)
    BY <1>3 DEF CompleteJobRequest, ReleaseSource
  <2>3. NoNewName /\ NoNewGrant
    BY <2>1, <2>2, ReleaseGrantsNothing, SettleGrantsNothing
  <2> QED
    BY <1>1, <2>1, <2>3, HandlerKeepsInv
<1> QED
  BY <1>2, <1>3 DEF WorkerRoute

LEMMA UserRouteKeepsInv ==
    ASSUME IdentityInv, NEW request \in requests, UserRoute(request)
    PROVE  IdentityInv'
<1>1. /\ request.actor \in Known
      /\ \A worker \in DOMAIN owners : owners[worker] \in Known
      /\ \A token \in DOMAIN tokens : tokens[token] \in [user : Known, revoked : BOOLEAN]
  BY DEF IdentityInv, NamesInv
<1>2. ASSUME NoNewName, NoNewGrant, Handled(request), UNCHANGED <<bindings, tokens, owners>>
      PROVE  IdentityInv'
  BY <1>1, <1>2, HandlerKeepsInv DEF Handled
<1>3. ASSUME NEW user, NEW credits, RegisterUserRequest(request, user, credits)
      PROVE  IdentityInv'
  <2>1. UNCHANGED ledgerVars
    BY <1>1, <1>3 DEF RegisterUserRequest, AssertActorMatches, Known
  <2> QED
    BY <1>2, <1>3, <2>1, UntouchedLedger DEF RegisterUserRequest
<1>4. ASSUME NEW user, NEW job, NEW reserved, SubmitJobRequest(request, user, job, reserved)
      PROVE  IdentityInv'
  BY <1>1, <1>2, <1>4, ReserveOfKnown DEF SubmitJobRequest, AssertActorMatches
<1>5. ASSUME NEW amount, PurchaseRequest(request, amount)
      PROVE  IdentityInv'
  BY <1>1, <1>2, <1>5, PurchaseOfKnown DEF PurchaseRequest
<1>6. ASSUME NEW account, NEW amount, AdminAdjustRequest(request, account, amount)
      PROVE  IdentityInv'
  BY <1>2, <1>6, AdjustmentGrantsNothing DEF AdminAdjustRequest
<1>7. ASSUME NEW token, IssueTokenRequest(request, token)
      PROVE  IdentityInv'
  <2>1. \A t \in DOMAIN tokens' : tokens'[t] \in [user : Known, revoked : BOOLEAN]
    BY <1>1, <1>7 DEF IssueTokenRequest, With
  <2> QED
    BY <1>1, <1>7, <2>1, UntouchedLedger, HandlerKeepsInv DEF IssueTokenRequest, Handled
<1>8. ASSUME NEW token, RevokeTokenRequest(request, token)
      PROVE  IdentityInv'
  <2>1. /\ token \in DOMAIN tokens
        /\ tokens' = [tokens EXCEPT ![token] = [tokens[token] EXCEPT !.revoked = TRUE]]
    BY <1>8 DEF RevokeTokenRequest
  <2>2. [tokens[token] EXCEPT !.revoked = TRUE] \in [user : Known, revoked : BOOLEAN]
    BY <1>1, <2>1
  <2>3. \A t \in DOMAIN tokens' : tokens'[t] \in [user : Known, revoked : BOOLEAN]
    BY <1>1, <2>1, <2>2
  <2> QED
    BY <1>1, <1>8, <2>3, UntouchedLedger, HandlerKeepsInv DEF RevokeTokenRequest, Handled
<1> QED
  BY <1>3, <1>4, <1>5, <1>6, <1>7, <1>8 DEF UserRoute

LEMMA IdentityInvInit == IdentityInit => IdentityInv
  BY DEF IdentityInit, LedgerInit, EmptyDict, IdentityInv, NamesInv, BindingsInv, GrantsInv,
     BoundAccounts, Known, BootstrapRows

LEMMA IdentityInvStep ==
    ASSUME IdentityInv, [IdentityNext]_allVars
    PROVE  IdentityInv'
<1>1. ASSUME NEW uid \in Uids, SignIn(uid)
      PROVE  IdentityInv'
  <2>1. bindings[uid] \in Known
    BY <1>1 DEF SignIn, IdentityInv, BindingsInv, BoundAccounts
  <2>2. Session(uid, bindings[uid]).actor = bindings[uid]
    BY DEF Session
  <2> QED
    BY <1>1, <2>1, <2>2, RequestAccepted DEF SignIn
<1>2. ASSUME NEW token \in Tokens, AuthenticateWorkerToken(token)
      PROVE  IdentityInv'
  <2>1. tokens[token].user \in Known
    BY <1>2 DEF AuthenticateWorkerToken, IdentityInv, NamesInv
  <2> QED
    BY <1>2, <2>1, RequestAccepted DEF AuthenticateWorkerToken
<1>3. ASSUME NEW request \in requests, Refuse(request)
      PROVE  IdentityInv'
  BY <1>3, UntouchedLedger, HandlerKeepsInv DEF Refuse, Handled, IdentityInv, NamesInv
<1>4. CASE UNCHANGED allVars
  BY <1>4, UntouchedLedger, HandlerKeepsInv DEF allVars, identityVars, IdentityInv, NamesInv
<1> QED
  BY <1>1, <1>2, <1>3, <1>4, FirstSignInKeepsInv, WorkerRouteKeepsInv, UserRouteKeepsInv
  DEF IdentityNext

LEMMA IdentityInvHolds == IdentitySpec => []IdentityInv
<1>1. IdentityInv /\ [IdentityNext]_allVars => IdentityInv'
  BY IdentityInvStep
<1> QED
  BY <1>1, IdentityInvInit, PTL DEF IdentitySpec

-----------------------------------------------------------------------------

(* Every wallet but the platform's was made by the first sign-in of one    *)
(* uid, whose account no other uid gets; workers and tokens belong to such *)
(* accounts.  A request that is authenticated and handled later, or names  *)
(* another user or owner in its body, makes no wallet (service.py:1210,    *)
(* ledger.py:280).                                                         *)
THEOREM AccountsAlwaysBound == IdentitySpec => []AccountsAreBound
<1>1. IdentityInv => AccountsAreBound
  BY DEF IdentityInv, NamesInv, BindingsInv, BoundAccounts, Known, AccountsAreBound
<1> QED
  BY <1>1, IdentityInvHolds, PTL

(* An account is granted the bootstrap credits once, although the ledger   *)
(* grants them to any wallet with nothing available and nothing spent      *)
(* (ledger.py:23).                                                         *)
THEOREM BootstrapGrantedOnce == IdentitySpec => []GrantedOnce
<1>1. IdentityInv => GrantedOnce
  <2> SUFFICES ASSUME IdentityInv, NEW user \in Users
               PROVE  Cardinality(BootstrapRows(user)) = IF user \in registered THEN 1 ELSE 0
    BY DEF GrantedOnce, BootstrapRows
  <2> QED
    BY FS_EmptySet, FS_Singleton DEF IdentityInv, GrantsInv
<1> QED
  BY <1>1, IdentityInvHolds, PTL

-----------------------------------------------------------------------------
(* The API keeps the ledger's contract *)

LEMMA CallIsLedgerStep ==
    ASSUME IdentityInv, [IdentityNext]_allVars
    PROVE  [LedgerNext]_ledgerVars
<1>1. Known \subseteq Users
  BY DEF IdentityInv, Known, Accounts
<1>2. ASSUME NEW uid \in Uids, SignIn(uid) \/ FirstSignIn(uid)
      PROVE  [LedgerNext]_ledgerVars
  BY <1>2, IdentityAssumption DEF SignIn, FirstSignIn, LedgerNext
<1>3. ASSUME NEW request \in requests, WorkerRoute(request)
      PROVE  [LedgerNext]_ledgerVars
  <2>1. ASSUME NEW worker \in WorkerIds, NEW owner \in Users,
               RegisterWorkerRequest(request, worker, owner)
        PROVE  [LedgerNext]_ledgerVars
    BY <2>1 DEF RegisterWorkerRequest, LedgerNext
  <2>2. ASSUME NEW worker \in WorkerIds, NEW job \in JobIds, NEW cost \in Prices,
               CompleteJobRequest(request, worker, job, cost)
        PROVE  [LedgerNext]_ledgerVars
    <3>1. owners[worker] \in Users
      BY <1>1, <2>2 DEF CompleteJobRequest, IdentityInv, NamesInv
    <3>2. \/ LedgerRelease(job)
          \/ LedgerSettle(job)
      BY <2>2, <3>1 DEF CompleteJobRequest, LedgerRelease, ReleaseSource, LedgerSettle
    <3> QED
      BY <3>2 DEF LedgerNext
  <2> QED
    BY <1>3, <2>1, <2>2 DEF WorkerRoute
<1>4. ASSUME NEW request \in requests, UserRoute(request)
      PROVE  [LedgerNext]_ledgerVars
  <2>1. request.actor \in Users
    BY <1>1 DEF IdentityInv, NamesInv
  <2>2. ASSUME NEW user \in Users, NEW credits \in Grants, RegisterUserRequest(request, user, credits)
        PROVE  [LedgerNext]_ledgerVars
    BY <2>2 DEF RegisterUserRequest, LedgerNext
  <2>3. ASSUME NEW user \in Users, NEW job \in JobIds, NEW reserved \in Prices,
               SubmitJobRequest(request, user, job, reserved)
        PROVE  [LedgerNext]_ledgerVars
    BY <2>3 DEF SubmitJobRequest, LedgerReserve, LedgerNext
  <2>4. ASSUME NEW amount \in Grants, PurchaseRequest(request, amount)
        PROVE  [LedgerNext]_ledgerVars
    BY <2>1, <2>4 DEF PurchaseRequest, LedgerNext
  <2>5. ASSUME NEW account \in Accounts, NEW amount \in Adjustments,
               AdminAdjustRequest(request, account, amount)
        PROVE  [LedgerNext]_ledgerVars
    BY <2>5 DEF AdminAdjustRequest, LedgerNext
  <2>6. ASSUME NEW token \in Tokens, IssueTokenRequest(request, token) \/ RevokeTokenRequest(request, token)
        PROVE  UNCHANGED ledgerVars
    BY <2>6 DEF IssueTokenRequest, RevokeTokenRequest
  <2> QED
    BY <1>4, <2>2, <2>3, <2>4, <2>5, <2>6 DEF UserRoute
<1>5. UNCHANGED allVars => UNCHANGED ledgerVars
  BY DEF allVars
<1> QED
  BY <1>2, <1>3, <1>4, <1>5 DEF IdentityNext, AuthenticateWorkerToken, Refuse

(* The API calls the ledger as the ledger's own specification allows: only *)
(* owners other than the payer are paid, costs stay within the hold, job   *)
(* ids are fresh.  So credits are conserved whoever is behind a request.   *)
THEOREM ApiConservesCredits == IdentitySpec => LedgerSpec /\ []CreditsConserved
<1>1. IdentityInit => LedgerInit
  BY DEF IdentityInit
<1>2. IdentityInv /\ [IdentityNext]_allVars => [LedgerNext]_ledgerVars
  BY CallIsLedgerStep
<1>3. IdentitySpec => LedgerSpec
  BY <1>1, <1>2, IdentityInvHolds, PTL DEF IdentitySpec, LedgerSpec
<1> QED
  BY <1>3, CreditsAreConserved

=============================================================================
