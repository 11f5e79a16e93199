--------------------------- MODULE Conversations ---------------------------
(***************************************************************************)
(* Conversations (service.py): every prompt belongs to a thread, the jobs  *)
(* of a thread run on the network at the same time, and their answers come *)
(* back in the order in which they complete.  Each action is a call of the *)
(* service with the coordinator's call inside it.                          *)
(*                                                                         *)
(* Abstracted: texts, of which only the author and the job count, titles,  *)
(* timestamps, and the summaries computed from them.                       *)
(***************************************************************************)
EXTENDS Coordinator

CONSTANTS
    Threads,        \* bound: conversation ids of a behaviour
    ContextLimit    \* messages of a thread that a compiled prompt repeats: 10

VARIABLES
    threads,        \* conversation id -> [user, archived, messages]
    turns           \* job id -> [conversation, turn, context] of its JobRequest

conversationVars == <<threads, turns>>

talkVars == <<vars, conversationVars>>

Message(role, job, status) == [role |-> role, job |-> job, status |-> status]

By(role, messages) == {i \in 1 .. Len(messages) : messages[i].role = role}

(* _render_conversation_prompt *)
Context(messages) ==
    SubSeq(messages, IF Len(messages) > ContextLimit THEN Len(messages) - ContextLimit + 1 ELSE 1,
           Len(messages))

NewThread(user) == [user |-> user, archived |-> FALSE, messages |-> <<>>]

(* The thread _prepare_conversation_prompt_locked continues or creates.    *)
ThreadFor(c, user) == IF c \in DOMAIN threads THEN threads[c] ELSE NewThread(user)

CanContinue(c, user) == ThreadFor(c, user).user = user /\ ~ThreadFor(c, user).archived

(* Variant with a bug: answered turns are counted.                         *)
NextTurnByAnswers(c, user) == 1 + Cardinality(By("assistant", ThreadFor(c, user).messages))

NextTurn(c, user) == 1 + Cardinality(By("user", ThreadFor(c, user).messages))

(* A prompt of the user, and the job submitted for it, join the thread.    *)
AppendPrompt(c, user, job) ==
    LET thread == ThreadFor(c, user)
    IN  /\ turns' = With(turns, job, [conversation |-> c, turn |-> NextTurn(c, user),
                                      context |-> Context(thread.messages)])
        /\ threads' = With(threads, c,
               [thread EXCEPT !.messages = Append(@, Message("user", job, "none"))])

(* The answer, or the error message of a failed job. *)
AppendAnswer(job, status) ==
    /\ threads' = [threads EXCEPT ![turns[job].conversation].messages =
                       Append(@, Message("assistant", job, status))]
    /\ UNCHANGED turns

-----------------------------------------------------------------------------
(* Variants of the calls, each with a plausible bug.                       *)

(* The prompt is appended before the job is submitted. *)
RefusedPromptAppended(c, user, reserved) ==
    /\ CanContinue(c, user)
    /\ available[user] < reserved
    /\ \E job \in JobIds \ DOMAIN jobs :
         threads' = With(threads, c, [ThreadFor(c, user) EXCEPT
                                        !.messages = Append(@, Message("user", job, "none"))])
    /\ RegisterUser(user)
    /\ UNCHANGED <<coordinatorVars, turns>>

(* A repeated result is told to the conversation before the ledger refuses. *)
RepeatedAnswerAppended(job, result) ==
    /\ LateResult(job, result)
    /\ AppendAnswer(job, jobs[job].status)

-----------------------------------------------------------------------------
(* Calls of NetworkService *)

ConversationsInit ==
    /\ Init
    /\ threads = EmptyDict
    /\ turns = EmptyDict

(* submit_job, with a new conversation or the id of an old one *)
SubmitPrompt(c, user, job, selector, reserved) ==
    /\ CanContinue(c, user)
    /\ SubmitJob(job, user, selector, reserved)
    /\ AppendPrompt(c, user, job)

(* The reservation exceeds the balance: reserve raises, after the thread   *)
(* of a new conversation was put in place.                                 *)
RefusedPrompt(c, user, reserved) ==
    /\ CanContinue(c, user)
    /\ available[user] < reserved
    /\ threads' = With(threads, c, ThreadFor(c, user))
    /\ RegisterUser(user)
    /\ UNCHANGED <<coordinatorVars, turns>>

(* restart_failed_job: the prompt is asked again, in the same thread. *)
RestartPrompt(failed, job, reserved) ==
    /\ failed \in DOMAIN jobs
    /\ CanContinue(turns[failed].conversation, jobs[failed].requester)
    /\ RestartFailedJob(failed, job, reserved)
    /\ AppendPrompt(turns[failed].conversation, jobs[failed].requester, job)

(* complete_job *)
CompleteJob(job) ==
    \/ FailJob(job) /\ AppendAnswer(job, "failed")
    \/ SelfServedJob(job) /\ AppendAnswer(job, "completed")
    \/ \E cost \in Prices : SettleJob(job, cost) /\ AppendAnswer(job, "completed")

(* A result for a job already closed raises before it is appended. *)
RepeatedAnswer(job, result) ==
    /\ LateResult(job, result)
    /\ UNCHANGED conversationVars

ArchiveConversation(c) ==
    /\ c \in DOMAIN threads
    /\ ~threads[c].archived
    /\ threads' = [threads EXCEPT ![c].archived = TRUE]
    /\ UNCHANGED <<vars, turns>>

RestoreConversation(c) ==
    /\ c \in DOMAIN threads
    /\ threads[c].archived
    /\ threads' = [threads EXCEPT ![c].archived = FALSE]
    /\ UNCHANGED <<vars, turns>>

(* The calls that leave conversations alone; a canceled job's prompt stays *)
(* in its thread and is told nothing.                                      *)
OtherCall ==
    /\ \/ LedgerCall
       \/ \E worker \in Workers : WorkerStep(worker)
       \/ \E k \in 1 .. Len(queue) : AssignNextJob(k)
       \/ \E job \in JobIds : CancelQueuedJob(job)
       \/ \E job \in JobIds, selector \in Selectors : RerouteQueuedJob(job, selector)
    /\ UNCHANGED conversationVars

ThreadStep(c) ==
    \/ \E user \in Users, job \in JobIds, selector \in Selectors, reserved \in Prices :
         SubmitPrompt(c, user, job, selector, reserved)
    \/ \E user \in Users, reserved \in Prices : RefusedPrompt(c, user, reserved)
    \/ ArchiveConversation(c)
    \/ RestoreConversation(c)

ConversationsNext ==
    \/ OtherCall
    \/ \E c \in Threads : ThreadStep(c)
    \/ \E failed, job \in JobIds, reserved \in Prices : RestartPrompt(failed, job, reserved)
    \/ \E job \in JobIds : CompleteJob(job)
    \/ \E job \in JobIds, result \in {"verified", "failed"} : RepeatedAnswer(job, result)

ConversationsSpec == ConversationsInit /\ [][ConversationsNext]_talkVars

-----------------------------------------------------------------------------
(* Properties *)

Places(c, role, job) ==
    {i \in 1 .. Len(threads[c].messages) :
        threads[c].messages[i].role = role /\ threads[c].messages[i].job = job}

(* A job's thread holds its prompt once and, when it completed or failed,  *)
(* its answer once, after the prompt: whatever order jobs complete in,     *)
(* however often results are repeated (service.py:253), and if the thread  *)
(* was archived meanwhile.                                                 *)
PromptsAnsweredOnce ==
    \A job \in DOMAIN jobs :
        LET c == turns[job].conversation IN
        /\ Cardinality(Places(c, "user", job)) = 1
        /\ Cardinality(Places(c, "assistant", job))
             = IF jobs[job].status \in {"completed", "failed"} THEN 1 ELSE 0
        /\ \A i \in Places(c, "assistant", job) :
             /\ \A k \in Places(c, "user", job) : k < i
             /\ threads[c].messages[i].status = jobs[job].status

(* A thread speaks of its user's jobs only, and of no job that was never   *)
(* submitted: a prompt the ledger refuses leaves an empty thread at most   *)
(* (service.py:166, the thread is made before the job).                    *)
MessagesHaveJobs ==
    \A c \in DOMAIN threads :
        \A i \in 1 .. Len(threads[c].messages) :
            LET job == threads[c].messages[i].job IN
            /\ job \in DOMAIN jobs
            /\ turns[job].conversation = c
            /\ jobs[job].requester = threads[c].user

(* conversation_turn numbers the prompts of a thread 1, 2, 3... in their   *)
(* order, and a job is told what its thread shows above its prompt: also   *)
(* for prompts sent before earlier ones are answered, with refused and     *)
(* canceled ones in between, and for restarts (service.py:1369).           *)
TurnsFollowThread ==
    \A c \in DOMAIN threads :
        LET messages == threads[c].messages IN
        \A i \in 1 .. Len(messages) :
            messages[i].role = "user" =>
                LET turn == turns[messages[i].job] IN
                /\ turn.turn = Cardinality(By("user", SubSeq(messages, 1, i)))
                /\ turn.context = Context(SubSeq(messages, 1, i - 1))

=============================================================================
