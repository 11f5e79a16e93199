----------------------------- MODULE Dashboard -----------------------------
(***************************************************************************)
(* A tab of the dashboard (the script in dashboard.py) and the server it   *)
(* calls.  Every handler of the page is asynchronous: it sends a request,  *)
(* an interval and other handlers run, people sign in and out, and the     *)
(* rest of the handler runs on whatever state the page has when the answer *)
(* comes.  Answers come in any order, or as errors.                        *)
(*                                                                         *)
(* Abstracted: what is only drawn (lists, drawers, wallets, the messages   *)
(* of a conversation), the worker's and the administrator's panels except  *)
(* "run once", archiving, and the loads of a fresh page, of which one call *)
(* stands for all.  Nobody is an administrator.                            *)
(***************************************************************************)
EXTENDS Naturals, FiniteSets

CONSTANTS
    Users,
    JobIds,         \* bound: jobs of a behaviour
    Threads,        \* bound: conversations of a behaviour
    Slots,          \* bound: calls of the page under way
    Buttons,        \* bound: what the user presses, of Ops and "signout"
    None            \* "", null or {} in the script

ASSUME NoneIsNothing == None \notin Users \cup JobIds \cup Threads

VARIABLES
    authUser, session,          \* who is signed in; the account the page shows
    lastJobId, trackedJob,      \* the job the page asks for; the one it shows
    activeConversationId,       \* None: the next prompt starts a conversation
    pollHandle, intervals,      \* is an interval remembered; how many run
    calls,                      \* slot -> call
    jobs                        \* the server's: id -> [user, thread, status]

tabVars == <<session, lastJobId, trackedJob, activeConversationId, pollHandle, intervals>>
vars == <<authUser, tabVars, calls, jobs>>

NoJob == [job |-> None, status |-> "none"]

(* token: whose ID token is sent; page: the account in the form's field;   *)
(* about: the job or conversation it names; reply: the job told of;        *)
(* listed: the conversations told of.                                      *)
Call(op, token, page, about) ==
    [op |-> op, token |-> token, page |-> page, about |-> about,
     retried |-> FALSE, answer |-> "pending", reply |-> NoJob, listed |-> {}]

Idle == [Call("none", None, None, None) EXCEPT !.answer = "none"]

Free(s) == calls[s] = Idle

UserThreads(user) == {jobs[j].thread : j \in {k \in DOMAIN jobs : jobs[k].user = user}}

UsedThreads == {jobs[j].thread : j \in DOMAIN jobs}

JobReply(j) == [job |-> j, status |-> jobs[j].status]

NewJob(j, user, thread) ==
    jobs' = [k \in DOMAIN jobs \cup {j} |->
                IF k = j THEN [user |-> user, thread |-> thread, status |-> "queued"] ELSE jobs[k]]

DashboardInit ==
    /\ authUser = None /\ session = None
    /\ lastJobId = None /\ trackedJob = NoJob
    /\ activeConversationId = None
    /\ pollHandle = FALSE /\ intervals = 0
    /\ calls = [s \in Slots |-> Idle]
    /\ jobs = [j \in {} |-> None]

-----------------------------------------------------------------------------
(* Variants, each with a plausible bug.                                    *)

(* The remembered interval is not looked at. *)
EnsurePollingAgain ==
    /\ pollHandle' = TRUE
    /\ intervals' = intervals + 1

(* The job the page shows as finished is not asked for again. *)
TickUnlessFinished(s) ==
    /\ Free(s)
    /\ intervals > 0 /\ authUser # None /\ lastJobId # None
    /\ trackedJob.status \notin {"completed", "failed"}
    /\ calls' = [calls EXCEPT ![s] = Call("job", authUser, None, lastJobId)]
    /\ UNCHANGED <<authUser, tabVars, jobs>>

(* The account named in the body is not looked at. *)
RequesterIsActor(c) == c.token

-----------------------------------------------------------------------------
(* What the user does *)

(* onAuthStateChanged with a user, also in the place of another: the chain *)
(* of handleAuthenticatedSession begins.                                   *)
SignIn(s, user) ==
    /\ Free(s)
    /\ authUser # user
    /\ authUser' = user
    /\ calls' = [calls EXCEPT ![s] = Call("session", user, None, None)]
    /\ UNCHANGED <<tabVars, jobs>>

(* onAuthStateChanged without a user: resetSignedOutState.  Calls under    *)
(* way are not canceled.                                                   *)
SignOut ==
    /\ "signout" \in Buttons
    /\ authUser # None
    /\ authUser' = None
    /\ session' = None /\ lastJobId' = None /\ trackedJob' = NoJob
    /\ activeConversationId' = None
    /\ pollHandle' = FALSE
    /\ intervals' = IF pollHandle THEN intervals - 1 ELSE intervals
    /\ UNCHANGED <<calls, jobs>>

(* A handler that begins by sending a request. *)
Press(s, call) ==
    /\ call.op \in Buttons
    /\ Free(s)
    /\ authUser # None
    /\ calls' = [calls EXCEPT ![s] = call]
    /\ UNCHANGED <<authUser, tabVars, jobs>>

SubmitJob(s) == Press(s, Call("submit", authUser, session, activeConversationId))

(* The button appears with a failed job; whose job it is, the server asks. *)
RestartTrackedJob(s) ==
    /\ trackedJob.status = "failed"
    /\ Press(s, Call("restart", authUser, None, trackedJob.job))

RefreshTrackedJob(s) ==
    /\ lastJobId # None
    /\ Press(s, Call("job", authUser, None, lastJobId))

RefreshNoJob ==
    /\ authUser # None
    /\ lastJobId = None
    /\ trackedJob' = NoJob
    /\ UNCHANGED <<authUser, session, lastJobId, activeConversationId, pollHandle, intervals, calls, jobs>>

RunWorkerOnce(s) == Press(s, Call("run", authUser, None, None))

RefreshConversations(s) == Press(s, Call("list", authUser, None, None))

StartNewConversation ==
    /\ authUser # None
    /\ activeConversationId' = None
    /\ UNCHANGED <<authUser, session, lastJobId, trackedJob, pollHandle, intervals, calls, jobs>>

(* The user picks one of his conversations. *)
LoadConversation(thread) ==
    /\ authUser # None
    /\ thread \in UserThreads(authUser)
    /\ activeConversationId' = thread
    /\ UNCHANGED <<authUser, session, lastJobId, trackedJob, pollHandle, intervals, calls, jobs>>

(* An interval fires, every four seconds. *)
Tick(s) ==
    /\ Free(s)
    /\ intervals > 0 /\ authUser # None /\ lastJobId # None
    /\ calls' = [calls EXCEPT ![s] = Call("job", authUser, None, lastJobId)]
    /\ UNCHANGED <<authUser, tabVars, jobs>>

-----------------------------------------------------------------------------
(* What the server does *)

(* The rest of the handler needs the answer alone. *)
Answer(s, reply, listed) ==
    calls' = [calls EXCEPT ![s] = [Call(calls[s].op, None, None, None) EXCEPT
                                     !.answer = "ok", !.reply = reply, !.listed = listed]]

(* requester_user_id, checked against the actor; None: refused *)
Requester(c) ==
    LET user == IF c.page = None THEN c.token ELSE c.page
    IN  IF user = c.token THEN user ELSE None

CanContinue(thread, user) == thread = None \/ thread \in UserThreads(user)

Serve(s, op) ==
    /\ calls[s].op = op
    /\ calls[s].answer = "pending"
    /\ UNCHANGED <<authUser, tabVars>>

ServeList(s, op) ==
    /\ Serve(s, op)
    /\ Answer(s, NoJob, UserThreads(calls[s].token))
    /\ UNCHANGED jobs

(* get_job, for the requester only *)
ServeJob(s, op) ==
    LET job == calls[s].about IN
    /\ Serve(s, op)
    /\ jobs[job].user = calls[s].token
    /\ Answer(s, JobReply(job), {})
    /\ UNCHANGED jobs

ServeSubmit(s, job, thread) ==
    LET c == calls[s] IN
    /\ Serve(s, "submit")
    /\ job \notin DOMAIN jobs
    /\ Requester(c) # None
    /\ CanContinue(c.about, Requester(c))
    /\ IF c.about = None THEN thread \notin UsedThreads ELSE thread = c.about
    /\ NewJob(job, Requester(c), thread)
    /\ Answer(s, [job |-> job, status |-> "queued"], {})

(* restart_failed_job *)
ServeRestart(s, job) ==
    LET failed == jobs[calls[s].about] IN
    /\ Serve(s, "restart")
    /\ job \notin DOMAIN jobs
    /\ failed.status = "failed"
    /\ failed.user = calls[s].token
    /\ NewJob(job, failed.user, failed.thread)
    /\ Answer(s, [job |-> job, status |-> "queued"], {})

(* run_worker_cycle: another user's job, if one is queued *)
ServeRun(s) ==
    /\ Serve(s, "run")
    /\ \/ /\ Answer(s, NoJob, {})
          /\ UNCHANGED jobs
       \/ \E job \in DOMAIN jobs, status \in {"completed", "failed"} :
            /\ jobs[job].status = "queued"
            /\ jobs[job].user # calls[s].token
            /\ jobs' = [jobs EXCEPT ![job].status = status]
            /\ Answer(s, [job |-> job, status |-> status], {})

(* A worker elsewhere on the network. *)
FinishJob(job, status) ==
    /\ job \in DOMAIN jobs
    /\ jobs[job].status = "queued"
    /\ jobs' = [jobs EXCEPT ![job].status = status]
    /\ UNCHANGED <<authUser, tabVars, calls>>

-----------------------------------------------------------------------------
(* What the page does with an answer *)

EnsurePolling ==
    IF pollHandle
    THEN UNCHANGED <<pollHandle, intervals>>
    ELSE /\ pollHandle' = TRUE
         /\ intervals' = intervals + 1

Deliver(s, op) ==
    /\ calls[s].op = op
    /\ calls[s].answer = "ok"
    /\ UNCHANGED <<authUser, jobs>>

Then(s, op) ==
    calls' = [calls EXCEPT ![s] = IF op = "none" THEN Idle ELSE Call(op, authUser, None, None)]

(* The request or its answer is lost, or it is refused (no credits, no     *)
(* such model, no rights): api throws and the handler ends, the chain of   *)
(* handleAuthenticatedSession too, which then never sets the interval.  A  *)
(* call that only reads may as well fail before it is served.              *)
CallFails(s, op) ==
    /\ calls[s].op = op
    /\ calls[s].answer = "pending" \/ op \in {"submit", "restart", "run"}
    /\ Then(s, "none")
    /\ UNCHANGED <<authUser, tabVars, jobs>>

(* 401: sent again, as whoever is signed in now, with a refreshed token.   *)
CallUnauthorized(s, op) ==
    /\ calls[s].op = op
    /\ calls[s].answer = "pending" /\ ~calls[s].retried
    /\ authUser # None
    /\ calls' = [calls EXCEPT ![s].token = authUser, ![s].retried = TRUE]
    /\ UNCHANGED <<authUser, tabVars, jobs>>

(* fetchSession: the answer depends on the token alone. *)
FetchSession(s) ==
    /\ calls[s].op = "session"
    /\ session' = calls[s].token
    /\ Then(s, "open")
    /\ UNCHANGED <<authUser, lastJobId, trackedJob, activeConversationId, pollHandle, intervals, jobs>>

(* renderConversationList *)
RenderConversationList(listed) ==
    activeConversationId' = IF activeConversationId \in listed THEN activeConversationId ELSE None

DeliverList(s) ==
    /\ Deliver(s, "list")
    /\ RenderConversationList(calls[s].listed)
    /\ Then(s, "none")
    /\ UNCHANGED <<session, lastJobId, trackedJob, pollHandle, intervals>>

(* The loads of a fresh page end with the tracked job, if there is one. *)
DeliverOpen(s) ==
    /\ Deliver(s, "open")
    /\ RenderConversationList(calls[s].listed)
    /\ IF lastJobId # None
       THEN /\ calls' = [calls EXCEPT ![s] = Call("first", authUser, None, lastJobId)]
            /\ UNCHANGED <<trackedJob, pollHandle, intervals>>
       ELSE /\ trackedJob' = NoJob
            /\ EnsurePolling
            /\ Then(s, "none")
    /\ UNCHANGED <<session, lastJobId>>

(* refreshTrackedJob, called by the interval *)
RenderJobAnswer(reply) ==
    /\ trackedJob' = reply
    /\ activeConversationId' = jobs[reply.job].thread

DeliverJob(s) ==
    /\ Deliver(s, "job")
    /\ RenderJobAnswer(calls[s].reply)
    /\ Then(s, "none")
    /\ UNCHANGED <<session, lastJobId, pollHandle, intervals>>

(* refreshTrackedJob, called by handleAuthenticatedSession *)
DeliverFirstJob(s) ==
    /\ Deliver(s, "first")
    /\ RenderJobAnswer(calls[s].reply)
    /\ Then(s, "wallet")
    /\ UNCHANGED <<session, lastJobId, pollHandle, intervals>>

(* ... where a failing syncWalletDisplay is ignored. *)
SyncWalletDisplay(s) ==
    /\ calls[s].op = "wallet"
    /\ EnsurePolling
    /\ Then(s, "none")
    /\ UNCHANGED <<authUser, session, lastJobId, trackedJob, activeConversationId, jobs>>

(* submitJob; the conversations are read again. *)
DeliverSubmit(s) ==
    LET reply == calls[s].reply IN
    /\ Deliver(s, "submit")
    /\ lastJobId' = reply.job
    /\ RenderJobAnswer(reply)
    /\ Then(s, "list")
    /\ UNCHANGED <<session, pollHandle, intervals>>

(* restartTrackedJob, and runWorkerOnce when it ran a job *)
DeliverOther(s, op) ==
    LET reply == calls[s].reply IN
    /\ Deliver(s, op)
    /\ IF reply.job = None
       THEN /\ Then(s, "none")
            /\ UNCHANGED <<lastJobId, trackedJob>>
       ELSE /\ lastJobId' = reply.job
            /\ trackedJob' = reply
            /\ Then(s, "list")
    /\ UNCHANGED <<session, activeConversationId, pollHandle, intervals>>

-----------------------------------------------------------------------------
Ops == {"session", "open", "first", "job", "list", "submit", "restart", "run"}

UserStep ==
    \/ SignOut
    \/ StartNewConversation
    \/ RefreshNoJob
    \/ \E thread \in Threads : LoadConversation(thread)
    \/ \E s \in Slots :
         \/ \E user \in Users : SignIn(s, user)
         \/ SubmitJob(s)
         \/ RestartTrackedJob(s)
         \/ RefreshTrackedJob(s)
         \/ RunWorkerOnce(s)
         \/ RefreshConversations(s)

ServerStep(s) ==
    \/ \E op \in {"open", "list"} : ServeList(s, op)
    \/ \E op \in {"first", "job"} : ServeJob(s, op)
    \/ \E job \in JobIds, thread \in Threads : ServeSubmit(s, job, thread)
    \/ \E job \in JobIds : ServeRestart(s, job)
    \/ ServeRun(s)

PageStep(s) ==
    \/ FetchSession(s)
    \/ DeliverList(s)
    \/ DeliverOpen(s)
    \/ DeliverJob(s)
    \/ DeliverFirstJob(s)
    \/ SyncWalletDisplay(s)
    \/ DeliverSubmit(s)
    \/ \E op \in {"restart", "run"} : DeliverOther(s, op)

CallEnds(s) == \E op \in Ops : CallFails(s, op) \/ CallUnauthorized(s, op)

DashboardNext ==
    \/ UserStep
    \/ \E s \in Slots : Tick(s) \/ ServerStep(s) \/ PageStep(s) \/ CallEnds(s)
    \/ \E job \in JobIds, status \in {"completed", "failed"} : FinishJob(job, status)

DashboardSpec == DashboardInit /\ [][DashboardNext]_vars

(* Every request is answered or fails, every answer is delivered, a timer  *)
(* that is set keeps firing (the bound on calls under way is not the       *)
(* browser's), and polls do not fail for ever.                             *)
FairSpec ==
    /\ DashboardSpec
    /\ \A s \in Slots : WF_vars(ServerStep(s) \/ PageStep(s) \/ CallEnds(s))
    /\ SF_vars(\E s \in Slots : Tick(s))
    /\ SF_vars(\E s \in Slots : ServeJob(s, "job"))

-----------------------------------------------------------------------------
(* Properties *)

(* Every interval that runs is the remembered one: signing out and in, or  *)
(* as another user, in the middle of the chain that ends in ensurePolling  *)
(* leaves no interval behind that nothing can stop (dashboard.py:1849).    *)
NoStrayInterval == intervals = IF pollHandle THEN 1 ELSE 0

(* A prompt is charged to the account the page showed when it was sent,    *)
(* also when the session on the page is another user's than the one signed *)
(* in, and when the request is sent again as someone else                  *)
(* (dashboard.py:519).                                                     *)
ShownAccountPays ==
    [][\A j \in DOMAIN jobs' \ DOMAIN jobs :
        \E s \in Slots :
            /\ calls[s].op \in {"submit", "restart"}
            /\ calls[s].page \in {jobs'[j].user, None}]_vars

Finished(user, job) ==
    /\ intervals > 0
    /\ authUser = user
    /\ lastJobId = job
    /\ job \in DOMAIN jobs
    /\ jobs[job].user = user
    /\ jobs[job].status # "queued"

(* While the page polls for a job of the user, its end is shown sooner or  *)
(* later and then stays, whatever late answers, about this or earlier      *)
(* jobs, were drawn over it (dashboard.py:1562).                           *)
FinishedJobsAreShown ==
    \A user \in Users, job \in JobIds :
        <>[]Finished(user, job) => <>[](job \in DOMAIN jobs /\ trackedJob = JobReply(job))

(* "Start a new conversation" stays selected until the user picks a        *)
(* conversation or sends a prompt (dashboard.py:836).                      *)
NewConversationStays ==
    [][activeConversationId = None /\ pollHandle =>
         \/ activeConversationId' = None
         \/ \E thread \in Threads : LoadConversation(thread)
         \/ \E s \in Slots : DeliverSubmit(s)]_vars

=============================================================================
