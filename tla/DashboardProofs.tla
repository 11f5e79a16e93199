-------------------------- MODULE DashboardProofs --------------------------
(***************************************************************************)
(* Proofs about a tab of the dashboard, for any number of people, jobs,    *)
(* conversations and calls under way: its interval, and who is charged.    *)
(***************************************************************************)
EXTENDS Dashboard, TLAPS

(* The inductive invariant. *)
IntervalInv ==
    /\ pollHandle \in BOOLEAN
    /\ NoStrayInterval

-----------------------------------------------------------------------------
(* The interval *)

(* What the server does and how calls fail is nothing to the interval.     *)
LEMMA OthersLeaveInterval ==
    ASSUME NEW s \in Slots, Tick(s) \/ CallEnds(s) \/ ServerStep(s)
    PROVE  UNCHANGED <<pollHandle, intervals>>
<1>1. CASE Tick(s)
  BY <1>1 DEF Tick, tabVars
<1>2. CASE CallEnds(s)
  <2>1. ASSUME NEW op \in Ops, CallFails(s, op) PROVE UNCHANGED tabVars
    BY <2>1 DEF CallFails
  <2>2. ASSUME NEW op \in Ops, CallUnauthorized(s, op) PROVE UNCHANGED tabVars
    BY <2>2, Zenon DEF CallUnauthorized
  <2> QED
    BY <1>2, <2>1, <2>2 DEF CallEnds, tabVars
<1>3. CASE ServerStep(s)
  <2>1. ASSUME NEW op, Serve(s, op) PROVE UNCHANGED <<pollHandle, intervals>>
    BY <2>1 DEF Serve, tabVars
  <2>2. \E op : Serve(s, op)
    BY <1>3, Zenon DEF ServerStep, ServeList, ServeJob, ServeSubmit, ServeRestart, ServeRun
  <2> QED
    BY <2>1, <2>2
<1> QED
  BY <1>1, <1>2, <1>3

(* Setting the interval when none is remembered, clearing it when the user *)
(* signs out: the remembered one is the only one.                          *)
LEMMA StepKeepsInterval == IntervalInv /\ [DashboardNext]_vars => IntervalInv'
<1> SUFFICES ASSUME IntervalInv, [DashboardNext]_vars PROVE IntervalInv'
  OBVIOUS
<1>0. ASSUME UNCHANGED <<pollHandle, intervals>> PROVE IntervalInv'
  BY <1>0 DEF IntervalInv, NoStrayInterval
<1>1. CASE UserStep
  <2>1. CASE SignOut
    <3>1. pollHandle' = FALSE
      BY <2>1 DEF SignOut
    <3>2. CASE pollHandle
      <4>1. intervals = 1 /\ intervals' = intervals - 1
        BY <2>1, <3>2, Zenon DEF SignOut, IntervalInv, NoStrayInterval
      <4>2. intervals' = 0
        BY <4>1, SMT
      <4> QED
        BY <3>1, <4>2, Zenon DEF IntervalInv, NoStrayInterval
    <3>3. CASE ~pollHandle
      <4>1. intervals' = 0
        BY <2>1, <3>3, Zenon DEF SignOut, IntervalInv, NoStrayInterval
      <4> QED
        BY <3>1, <4>1, Zenon DEF IntervalInv, NoStrayInterval
    <3> QED
      BY <3>2, <3>3
  <2>2. CASE StartNewConversation \/ RefreshNoJob
    BY <1>0, <2>2 DEF StartNewConversation, RefreshNoJob
  <2>3. ASSUME NEW thread \in Threads, LoadConversation(thread) PROVE IntervalInv'
    BY <1>0, <2>3 DEF LoadConversation
  <2>4. ASSUME NEW s \in Slots, NEW user \in Users, SignIn(s, user) PROVE IntervalInv'
    BY <1>0, <2>4 DEF SignIn, tabVars
  <2>5. ASSUME NEW s \in Slots,
               \/ SubmitJob(s) \/ RestartTrackedJob(s) \/ RefreshTrackedJob(s)
               \/ RunWorkerOnce(s) \/ RefreshConversations(s)
        PROVE  IntervalInv'
    <3>1. PICK call : Press(s, call)
      BY <2>5, Zenon DEF SubmitJob, RestartTrackedJob, RefreshTrackedJob, RunWorkerOnce,
                         RefreshConversations
    <3> QED
      BY <1>0, <3>1 DEF Press, tabVars
  <2> QED
    BY <1>1, <2>1, <2>2, <2>3, <2>4, <2>5 DEF UserStep
<1>2. ASSUME NEW s \in Slots, Tick(s) \/ CallEnds(s) \/ ServerStep(s) PROVE IntervalInv'
  BY <1>0, <1>2, OthersLeaveInterval
<1>3. ASSUME NEW s \in Slots, PageStep(s) PROVE IntervalInv'
  <2>1. CASE DeliverOpen(s) \/ SyncWalletDisplay(s)
    <3>1. UNCHANGED <<pollHandle, intervals>> \/ EnsurePolling
      BY <2>1, Zenon DEF DeliverOpen, SyncWalletDisplay
    <3>2. CASE EnsurePolling /\ ~pollHandle
      <4>1. intervals = 0 /\ intervals' = intervals + 1 /\ pollHandle' = TRUE
        BY <3>2, Zenon DEF EnsurePolling, IntervalInv, NoStrayInterval
      <4>2. intervals' = 1
        BY <4>1, SMT
      <4> QED
        BY <4>1, <4>2, Zenon DEF IntervalInv, NoStrayInterval
    <3>3. CASE EnsurePolling /\ pollHandle
      BY <1>0, <3>3, Zenon DEF EnsurePolling
    <3> QED
      BY <1>0, <3>1, <3>2, <3>3
  <2>2. CASE \/ FetchSession(s) \/ DeliverList(s) \/ DeliverJob(s) \/ DeliverFirstJob(s)
             \/ DeliverSubmit(s) \/ \E op \in {"restart", "run"} : DeliverOther(s, op)
    <3>1. UNCHANGED <<pollHandle, intervals>>
      BY <2>2, Zenon DEF FetchSession, DeliverList, DeliverJob, DeliverFirstJob, DeliverSubmit,
                         DeliverOther
    <3> QED
      BY <1>0, <3>1
  <2> QED
    BY <1>3, <2>1, <2>2 DEF PageStep
<1>4. ASSUME NEW job \in JobIds, NEW status \in {"completed", "failed"}, FinishJob(job, status)
      PROVE  IntervalInv'
  <2>1. UNCHANGED tabVars
    BY <1>4, Zenon DEF FinishJob
  <2> QED
    BY <1>0, <2>1 DEF tabVars
<1>5. CASE UNCHANGED vars
  BY <1>0, <1>5 DEF vars, tabVars
<1> QED
  BY <1>1, <1>2, <1>3, <1>4, <1>5 DEF DashboardNext

(* No interval runs that the page has forgotten and nothing can stop       *)
(* (dashboard.py:1849), however sign-ins, sign-outs and answers interleave.*)
THEOREM IntervalsAreRemembered == DashboardSpec => []NoStrayInterval
<1>1. DashboardInit => IntervalInv
  BY DEF DashboardInit, IntervalInv, NoStrayInterval
<1>2. IntervalInv => NoStrayInterval
  BY DEF IntervalInv
<1> QED
  BY <1>1, <1>2, StepKeepsInterval, PTL DEF DashboardSpec

-----------------------------------------------------------------------------
(* Who is charged *)

(* A restart names no account: the server takes the job's.                 *)
NamesNobody(call) ==
    /\ {"op", "page"} \subseteq DOMAIN call
    /\ call.op = "restart" => call.page = None

RestartsNameNobody ==
    /\ DOMAIN calls = Slots
    /\ \A s \in Slots : NamesNobody(calls[s])

LEMMA NewCall ==
    ASSUME NEW op, NEW token, NEW page, NEW about, op = "restart" => page = None
    PROVE  NamesNobody(Call(op, token, page, about))
  BY DEF NamesNobody, Call

LEMMA AnsweredCall ==
    ASSUME NEW op, NEW reply, NEW listed
    PROVE  NamesNobody([Call(op, None, None, None) EXCEPT !.answer = "ok", !.reply = reply,
                                                          !.listed = listed])
  BY DEF NamesNobody, Call

LEMMA IdleCall == NamesNobody(Idle)
  BY DEF NamesNobody, Idle, Call

LEMMA CallReplaced ==
    ASSUME RestartsNameNobody, NEW s \in Slots, NEW call, NamesNobody(call),
           calls' = [calls EXCEPT ![s] = call]
    PROVE  RestartsNameNobody'
  BY DEF RestartsNameNobody

LEMMA PressNamesNobody ==
    ASSUME RestartsNameNobody, NEW s \in Slots,
           \/ SubmitJob(s) \/ RestartTrackedJob(s) \/ RefreshTrackedJob(s)
           \/ RunWorkerOnce(s) \/ RefreshConversations(s)
    PROVE  RestartsNameNobody'
<1>1. PICK call : Press(s, call) /\ NamesNobody(call)
  <2>1. CASE SubmitJob(s)
    BY <2>1, NewCall DEF SubmitJob
  <2>2. CASE RestartTrackedJob(s)
    BY <2>2, NewCall DEF RestartTrackedJob
  <2>3. CASE RefreshTrackedJob(s)
    BY <2>3, NewCall DEF RefreshTrackedJob
  <2>4. CASE RunWorkerOnce(s)
    BY <2>4, NewCall DEF RunWorkerOnce
  <2>5. CASE RefreshConversations(s)
    BY <2>5, NewCall DEF RefreshConversations
  <2> QED
    BY <2>1, <2>2, <2>3, <2>4, <2>5
<1> QED
  BY <1>1, CallReplaced DEF Press

LEMMA ServedNamesNobody ==
    ASSUME RestartsNameNobody, NEW s \in Slots, ServerStep(s)
    PROVE  RestartsNameNobody'
<1>1. PICK reply, listed : Answer(s, reply, listed)
  BY Zenon DEF ServerStep, ServeList, ServeJob, ServeSubmit, ServeRestart, ServeRun
<1> QED
  BY <1>1, AnsweredCall, CallReplaced DEF Answer

LEMMA ThenNamesNobody ==
    ASSUME RestartsNameNobody, NEW s \in Slots, NEW op, Then(s, op)
    PROVE  RestartsNameNobody'
<1>1. CASE op = "none"
  BY <1>1, IdleCall, CallReplaced DEF Then
<1>2. CASE op # "none"
  BY <1>2, NewCall, CallReplaced DEF Then
<1> QED
  BY <1>1, <1>2

LEMMA PageNamesNobody ==
    ASSUME RestartsNameNobody, NEW s \in Slots, PageStep(s)
    PROVE  RestartsNameNobody'
<1>1. \/ \E op : Then(s, op)
      \/ \E job : calls' = [calls EXCEPT ![s] = Call("first", authUser, None, job)]
  BY Zenon DEF PageStep, FetchSession, DeliverList, DeliverOpen, DeliverJob, DeliverFirstJob,
               SyncWalletDisplay, DeliverSubmit, DeliverOther
<1> QED
  BY <1>1, ThenNamesNobody, NewCall, CallReplaced

LEMMA EndedNamesNobody ==
    ASSUME RestartsNameNobody, NEW s \in Slots, CallEnds(s)
    PROVE  RestartsNameNobody'
<1>1. PICK op \in Ops : CallFails(s, op) \/ CallUnauthorized(s, op)
  BY DEF CallEnds
<1>2. CASE CallFails(s, op)
  BY <1>2, ThenNamesNobody DEF CallFails
<1>3. CASE CallUnauthorized(s, op)
  <2>1. PICK call : call = [calls[s] EXCEPT !.token = authUser, !.retried = TRUE]
    OBVIOUS
  <2>2. calls' = [calls EXCEPT ![s] = call]
    BY <1>3, <2>1 DEF CallUnauthorized
  <2>3. NamesNobody(calls[s])
    BY DEF RestartsNameNobody
  <2>4. DOMAIN call = DOMAIN calls[s] /\ call.op = calls[s].op /\ call.page = calls[s].page
    BY <2>1, <2>3 DEF NamesNobody
  <2> QED
    BY <2>2, <2>3, <2>4, CallReplaced DEF NamesNobody
<1> QED
  BY <1>1, <1>2, <1>3

LEMMA StepNamesNobody ==
    ASSUME RestartsNameNobody, [DashboardNext]_vars
    PROVE  RestartsNameNobody'
<1>1. UNCHANGED calls => RestartsNameNobody'
  BY DEF RestartsNameNobody
<1>2. CASE UserStep
  <2>1. ASSUME NEW s \in Slots, NEW user \in Users, SignIn(s, user)
        PROVE  RestartsNameNobody'
    BY <2>1, NewCall, CallReplaced DEF SignIn
  <2>2. \/ SignOut \/ StartNewConversation \/ RefreshNoJob
        \/ \E thread \in Threads : LoadConversation(thread)
        => UNCHANGED calls
    BY DEF SignOut, StartNewConversation, RefreshNoJob, LoadConversation
  <2> QED
    BY <1>1, <1>2, <2>1, <2>2, PressNamesNobody DEF UserStep
<1>3. ASSUME NEW s \in Slots, Tick(s)
      PROVE  RestartsNameNobody'
  BY <1>3, NewCall, CallReplaced DEF Tick
<1>4. CASE \E job \in JobIds, status \in {"completed", "failed"} : FinishJob(job, status)
  BY <1>1, <1>4 DEF FinishJob
<1>5. CASE UNCHANGED vars
  BY <1>1, <1>5 DEF vars
<1> QED
  BY <1>2, <1>3, <1>4, <1>5, ServedNamesNobody, PageNamesNobody, EndedNamesNobody
  DEF DashboardNext

(* What happens to the server's jobs. *)
LEMMA JobsMade ==
    ASSUME [DashboardNext]_vars, NEW j \in DOMAIN jobs' \ DOMAIN jobs
    PROVE  \E s \in Slots :
             \/ \E thread \in Threads : ServeSubmit(s, j, thread)
             \/ ServeRestart(s, j)
<1>1. DOMAIN jobs' # DOMAIN jobs
  OBVIOUS
<1>2. UNCHANGED jobs => FALSE
  BY <1>1
<1>3. ~UserStep
  BY <1>2 DEF UserStep, SignOut, StartNewConversation, RefreshNoJob, LoadConversation, SignIn,
              SubmitJob, RestartTrackedJob, RefreshTrackedJob, RunWorkerOnce,
              RefreshConversations, Press
<1>4. ASSUME NEW s \in Slots, Tick(s) \/ CallEnds(s)
      PROVE  FALSE
  <2>1. UNCHANGED jobs
    BY <1>4, Zenon DEF Tick, CallEnds, CallFails, CallUnauthorized
  <2> QED
    BY <1>2, <2>1
<1>5. ASSUME NEW s \in Slots, PageStep(s)
      PROVE  FALSE
  <2>1. UNCHANGED jobs
    BY <1>5, Zenon DEF PageStep, FetchSession, DeliverList, DeliverOpen, DeliverJob,
                       DeliverFirstJob, SyncWalletDisplay, DeliverSubmit, DeliverOther, Deliver
  <2> QED
    BY <1>2, <2>1
<1>6. ASSUME NEW job, NEW status, jobs' = [jobs EXCEPT ![job].status = status]
      PROVE  FALSE
  BY <1>1, <1>6
<1>7. ~(\E job \in JobIds, status \in {"completed", "failed"} : FinishJob(job, status))
  BY <1>6 DEF FinishJob
<1>8. ~UNCHANGED vars
  BY <1>2 DEF vars
<1>9. PICK s \in Slots : ServerStep(s)
  BY <1>3, <1>4, <1>5, <1>7, <1>8 DEF DashboardNext
<1>10. ~(\E op \in {"open", "list"} : ServeList(s, op))
       /\ ~(\E op \in {"first", "job"} : ServeJob(s, op)) /\ ~ServeRun(s)
  BY <1>2, <1>6, Zenon DEF ServeList, ServeJob, ServeRun
<1>11. ASSUME NEW job, NEW user, NEW thread, NewJob(job, user, thread)
       PROVE  j = job
  BY <1>11 DEF NewJob
<1>12. PICK job \in JobIds : (\E thread \in Threads : ServeSubmit(s, job, thread)) \/ ServeRestart(s, job)
  BY <1>9, <1>10 DEF ServerStep
<1>13. j = job
  BY <1>11, <1>12, Zenon DEF ServeSubmit, ServeRestart
<1> QED
  BY <1>12, <1>13

LEMMA MadeJobIsPaidByShown ==
    ASSUME RestartsNameNobody, [DashboardNext]_vars, NEW j \in DOMAIN jobs' \ DOMAIN jobs
    PROVE  \E s \in Slots : /\ calls[s].op \in {"submit", "restart"}
                            /\ calls[s].page \in {jobs'[j].user, None}
<1>1. PICK s \in Slots : (\E thread \in Threads : ServeSubmit(s, j, thread)) \/ ServeRestart(s, j)
  BY JobsMade
<1>2. CASE ServeRestart(s, j)
  <2>1. calls[s].op = "restart"
    BY <1>2 DEF ServeRestart, Serve
  <2> QED
    BY <2>1 DEF RestartsNameNobody, NamesNobody
<1>3. ASSUME NEW thread \in Threads, ServeSubmit(s, j, thread)
      PROVE  calls[s].op = "submit" /\ calls[s].page \in {jobs'[j].user, None}
  <2>1. calls[s].op = "submit" /\ NewJob(j, Requester(calls[s]), thread)
        /\ Requester(calls[s]) # None
    BY <1>3 DEF ServeSubmit, Serve
  <2>2. jobs'[j].user = Requester(calls[s])
    BY <2>1 DEF NewJob
  <2>3. calls[s].page = None \/ Requester(calls[s]) = calls[s].page
    BY <2>1 DEF Requester
  <2> QED
    BY <2>1, <2>2, <2>3
<1> QED
  BY <1>1, <1>2, <1>3

(* A prompt is charged to the account that the page showed when it was     *)
(* sent, or to the restarted job's own (dashboard.py:519), whoever signed  *)
(* in and out meanwhile and whoever sent the request again.                *)
THEOREM ShownAccountAlwaysPays == DashboardSpec => ShownAccountPays
<1>1. DashboardInit => RestartsNameNobody
  BY IdleCall DEF DashboardInit, RestartsNameNobody
<1>2. RestartsNameNobody /\ [DashboardNext]_vars => RestartsNameNobody'
  BY StepNamesNobody
<1>3. RestartsNameNobody /\ [DashboardNext]_vars =>
        [\A j \in DOMAIN jobs' \ DOMAIN jobs :
           \E s \in Slots :
             /\ calls[s].op \in {"submit", "restart"}
             /\ calls[s].page \in {jobs'[j].user, None}]_vars
  BY MadeJobIsPaidByShown
<1> QED
  BY <1>1, <1>2, <1>3, PTL DEF DashboardSpec, ShownAccountPays

=============================================================================
