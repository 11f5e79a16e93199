------------------------------ MODULE Identity ------------------------------
(***************************************************************************)
(* Accounts, sign-in and worker tokens (service.py) behind the HTTP API    *)
(* (api.py) of a server that requires authentication.  A request is first  *)
(* authenticated, by its Firebase claims or its worker token, and handled  *)
(* afterwards: two takings of the service's lock, with other requests in   *)
(* between.                                                                *)
(*                                                                         *)
(* Abstracted: the verification of Firebase tokens (a request may come     *)
(* from any uid), secrets and hashes, e-mails other than being an admin's, *)
(* routes that only read.  Which worker a job is assigned to is left open  *)
(* (see Coordinator).                                                      *)
(***************************************************************************)
EXTENDS Ledger

CONSTANTS
    Uids,           \* Firebase user ids
    Admins,         \* uids whose e-mail is an admin's
    WorkerIds, Tokens,
    BootstrapCredits,   \* _firebase_bootstrap_credits
    MaxRequests     \* bound: requests being handled at a time

(* The service is built with a grant for new accounts (service.py:37).     *)
ASSUME IdentityAssumption == BootstrapCredits \in Grants

VARIABLES
    bindings,       \* uid -> account, _meta["firebase_users"]
    tokens,         \* token id -> [user, revoked], _meta["worker_tokens"]
    owners,         \* worker id -> owner_user_id
    requests        \* authenticated requests not handled yet

identityVars == <<bindings, tokens, owners, requests>>

allVars == <<ledgerVars, identityVars>>

Request == [actor : Users, admin : BOOLEAN, token : Tokens \cup {"none"}]

Accepts(request) ==
    /\ Cardinality(requests) < MaxRequests
    /\ requests' = requests \cup {request}

Handled(request) == requests' = requests \ {request}

(* Variant with a bug: any account may be named.                           *)
AssertActorNamed(request, user) == user \in Users

(* _assert_actor_matches; the actor is never empty here. *)
AssertActorMatches(request, user) == request.actor = user

-----------------------------------------------------------------------------
(* Variants of the calls, each with a plausible bug.                       *)

(* The grant is not limited to accounts without a wallet. *)
RegisterUserRequestGranting(request, user, credits) ==
    /\ AssertActorMatches(request, user)
    /\ Bootstrap(user, credits)
    /\ Handled(request)
    /\ UNCHANGED <<bindings, tokens, owners>>

-----------------------------------------------------------------------------
(* Authentication *)

IdentityInit ==
    /\ LedgerInit
    /\ bindings = EmptyDict
    /\ tokens = EmptyDict
    /\ owners = EmptyDict
    /\ requests = {}

Session(uid, user) == [actor |-> user, admin |-> uid \in Admins, token |-> "none"]

(* get_authenticated_session of a uid that has an account. *)
SignIn(uid) ==
    /\ uid \in DOMAIN bindings
    /\ bindings[uid] \in registered
    /\ Accepts(Session(uid, bindings[uid]))
    /\ UNCHANGED <<ledgerVars, bindings, tokens, owners>>

(* get_authenticated_session of a uid that has none: a fresh account is    *)
(* made, with the bootstrap credits.                                       *)
FirstSignIn(uid) ==
    /\ uid \notin DOMAIN bindings
    /\ \E user \in Users \ registered :
         /\ Bootstrap(user, BootstrapCredits)
         /\ bindings' = With(bindings, uid, user)
         /\ Accepts(Session(uid, user))
    /\ UNCHANGED <<tokens, owners>>

(* authenticate_worker_token, for the routes of a worker daemon. *)
AuthenticateWorkerToken(token) ==
    /\ token \in DOMAIN tokens
    /\ ~tokens[token].revoked
    /\ tokens[token].user \in registered
    /\ Accepts([actor |-> tokens[token].user, admin |-> FALSE, token |-> token])
    /\ UNCHANGED <<ledgerVars, bindings, tokens, owners>>

-----------------------------------------------------------------------------
(* Handlers.  A request that is refused changes nothing more. *)

Refuse(request) ==
    /\ Handled(request)
    /\ UNCHANGED <<ledgerVars, bindings, tokens, owners>>

(* POST /users/register, /users/issue: starting credits only for an actor  *)
(* without a wallet.                                                       *)
RegisterUserRequest(request, user, credits) ==
    /\ AssertActorMatches(request, user)
    /\ IF user \in registered THEN UNCHANGED ledgerVars ELSE Bootstrap(user, credits)
    /\ Handled(request)
    /\ UNCHANGED <<bindings, tokens, owners>>

(* POST /workers/register, with an owner the payload names. *)
RegisterWorkerRequest(request, worker, owner) ==
    /\ AssertActorMatches(request, owner)
    /\ owners' = With(owners, worker, owner)
    /\ RegisterUser(owner)
    /\ Handled(request)
    /\ UNCHANGED <<bindings, tokens>>

(* POST /jobs *)
SubmitJobRequest(request, requester, job, reserved) ==
    /\ AssertActorMatches(request, requester)
    /\ FreshJob(job)
    /\ Reserve(requester, job, reserved)
    /\ Handled(request)
    /\ UNCHANGED <<bindings, tokens, owners>>

(* POST /jobs/complete, by the worker's owner or an admin: a failed job,   *)
(* one of the owner's own, or one that is paid.                            *)
CompleteJobRequest(request, worker, job, cost) ==
    /\ worker \in DOMAIN owners
    /\ request.admin \/ AssertActorMatches(request, owners[worker])
    /\ job \in DOMAIN holds
    /\ \/ Release(job, "job_failed_or_unverified")
       \/ holds[job].user = owners[worker] /\ Release(job, "self_served_refund")
       \/ /\ holds[job].user # owners[worker]
          /\ cost <= holds[job].amount
          /\ Settle(job, owners[worker], cost)
    /\ Handled(request)
    /\ UNCHANGED <<bindings, tokens, owners>>

(* POST /credits/purchase *)
PurchaseRequest(request, amount) ==
    /\ Purchase(request.actor, amount)
    /\ Handled(request)
    /\ UNCHANGED <<bindings, tokens, owners>>

(* POST /admin/users/<id>/credits *)
AdminAdjustRequest(request, account, amount) ==
    /\ request.admin
    /\ AdminAdjust(account, amount)
    /\ Handled(request)
    /\ UNCHANGED <<bindings, tokens, owners>>

(* POST /workers/tokens *)
IssueTokenRequest(request, token) ==
    /\ token \notin DOMAIN tokens
    /\ request.actor \in registered
    /\ tokens' = With(tokens, token, [user |-> request.actor, revoked |-> FALSE])
    /\ Handled(request)
    /\ UNCHANGED <<ledgerVars, bindings, owners>>

(* POST /workers/tokens/<id>/revoke *)
RevokeTokenRequest(request, token) ==
    /\ token \in DOMAIN tokens
    /\ AssertActorMatches(request, tokens[token].user)
    /\ tokens' = [tokens EXCEPT ![token].revoked = TRUE]
    /\ Handled(request)
    /\ UNCHANGED <<ledgerVars, bindings, owners>>

(* The routes _path_allows_worker_token opens to a worker token. *)
WorkerRoute(request) ==
    \E worker \in WorkerIds :
        \/ \E owner \in Users : RegisterWorkerRequest(request, worker, owner)
        \/ \E job \in JobIds, cost \in Prices : CompleteJobRequest(request, worker, job, cost)

UserRoute(request) ==
    /\ request.token = "none"
    /\ \/ \E user \in Users, credits \in Grants : RegisterUserRequest(request, user, credits)
       \/ \E user \in Users, job \in JobIds, reserved \in Prices :
            SubmitJobRequest(request, user, job, reserved)
       \/ \E amount \in Grants : PurchaseRequest(request, amount)
       \/ \E account \in Accounts, amount \in Adjustments : AdminAdjustRequest(request, account, amount)
       \/ \E token \in Tokens : IssueTokenRequest(request, token) \/ RevokeTokenRequest(request, token)

IdentityNext ==
    \/ \E uid \in Uids : SignIn(uid) \/ FirstSignIn(uid)
    \/ \E token \in Tokens : AuthenticateWorkerToken(token)
    \/ \E request \in requests : WorkerRoute(request) \/ UserRoute(request) \/ Refuse(request)

IdentitySpec == IdentityInit /\ [][IdentityNext]_allVars

-----------------------------------------------------------------------------
(* Properties *)

(* Every account was made by somebody's sign-in and belongs to one uid     *)
(* only; workers and tokens belong to accounts.  No request, whatever user *)
(* or owner its body names, makes a wallet of its own (ledger.py:280       *)
(* creates one for any name it is given).                                  *)
AccountsAreBound ==
    /\ registered \ {Platform} = {bindings[uid] : uid \in DOMAIN bindings}
    /\ \A u1, u2 \in DOMAIN bindings : bindings[u1] = bindings[u2] => u1 = u2
    /\ \A worker \in DOMAIN owners : owners[worker] \in registered
    /\ \A token \in DOMAIN tokens : tokens[token].user \in registered

(* An account gets the bootstrap credits at its first sign-in and never    *)
(* again (landing.py:276), although the ledger grants them to any wallet   *)
(* with nothing available and nothing spent (ledger.py:23), which a wallet *)
(* with all its credits on hold is too.                                    *)
GrantedOnce ==
    \A user \in Users :
        Cardinality({t \in transactions : t.user = user /\ t.source = "bootstrap_credits"})
            = IF user \in registered THEN 1 ELSE 0

=============================================================================
