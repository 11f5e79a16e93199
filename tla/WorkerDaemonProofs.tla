------------------------- MODULE WorkerDaemonProofs -------------------------
(***************************************************************************)
(* Proofs about the worker daemon and the server's handlers, for every set *)
(* of jobs, every limit of the worker and any number of faults.            *)
(*                                                                         *)
(* That a fault costs one job at most is not inductive: a fault may do its *)
(* damage later, when a claim its daemon no longer waits for is served, or *)
(* when a daemon whose result was lost gives up.  LossesInv counts both    *)
(* the jobs already lost and the claims that will lose one, and one fault  *)
(* adds one to the two together: a daemon has one request or reply under   *)
(* way at a time (OneUnderWay).                                            *)
(***************************************************************************)
EXTENDS WorkerDaemon, FiniteSetTheorems, TLAPS

Places == {"down", "idle", "executing"} \cup Waiting

Requests == [run : Nat, kind : Kinds, job : Jobs \cup {NoJob}]

Replies == [kind : {"registered", "claimed", "completed"}, job : Jobs \cup {NoJob}]

TypesInv ==
    /\ run \in Nat
    /\ place \in Places
    /\ held \in Jobs \cup {NoJob}
    /\ requests \subseteq Requests
    /\ replies \subseteq Replies
    /\ jobs \in [Jobs -> {"queued", "assigned", "closed"}]
    /\ handed \in [Jobs -> Nat]
    /\ faults \in Nat

(* A job somebody speaks of has left the queue, and was handed out once.   *)
HandedInv ==
    /\ \A j \in Jobs : handed[j] = IF jobs[j] = "queued" THEN 0 ELSE 1
    /\ held \in Jobs => jobs[held] # "queued"
    /\ \A m \in requests : m.job \in Jobs => jobs[m.job] # "queued"
    /\ \A reply \in replies : reply.job \in Jobs => jobs[reply.job] # "queued"

Own(m) == m.run = run

(* The daemon waits for one thing at most, and only while it waits.        *)
OneUnderWay ==
    /\ \A m \in requests : m.run <= run
    /\ \A m \in requests : m.kind = "complete" <=> m.job \in Jobs
    /\ place \in {"idle", "executing"} => replies = {} /\ \A m \in requests : ~Own(m)
    /\ place = "down" => replies = {}
    /\ \A m1, m2 \in requests : Own(m1) /\ Own(m2) => m1 = m2
    /\ replies # {} => \A m \in requests : ~Own(m)
    /\ \A r1, r2 \in replies : r1 = r2
    /\ place = "executing" => held \in Jobs
    /\ place \in Waiting =>
         \A m \in requests : Own(m) => (m.kind = "claim" <=> place = "claiming")

(* Assigned, and nobody will close it.                                     *)
Lost ==
    {j \in Jobs :
       /\ jobs[j] = "assigned"
       /\ ~(place = "executing" /\ held = j)
       /\ \A m \in requests : m.job # j
       /\ \A reply \in replies : reply.job # j}

(* Claims the daemon no longer waits for.                                  *)
StaleClaims == {m \in requests : m.kind = "claim" /\ ~(Own(m) /\ place = "claiming")}

LossesInv ==
    /\ IsFiniteSet(Lost)
    /\ IsFiniteSet(StaleClaims)
    /\ Cardinality(Lost) + Cardinality(StaleClaims) <= faults

DaemonInv == TypesInv /\ HandedInv /\ OneUnderWay /\ LossesInv

-----------------------------------------------------------------------------
(* Counting losses *)

LEMMA AtMostOneMore ==
    ASSUME NEW before, IsFiniteSet(before), NEW x, NEW after \in SUBSET (before \cup {x})
    PROVE  IsFiniteSet(after) /\ Cardinality(after) <= Cardinality(before) + 1
<1>1. /\ IsFiniteSet(before \cup {x})
      /\ \/ Cardinality(before \cup {x}) = Cardinality(before)
         \/ Cardinality(before \cup {x}) = Cardinality(before) + 1
  BY FS_AddElement
<1> QED
  BY <1>1, FS_Subset, FS_CardinalityType

LEMMA NoMoreLosses ==
    ASSUME TypesInv, LossesInv, Lost' \subseteq Lost, StaleClaims' \subseteq StaleClaims,
           faults' \in {faults, faults + 1}
    PROVE  LossesInv'
  BY FS_Subset, FS_CardinalityType DEF TypesInv, LossesInv

LEMMA OneJobLost ==
    ASSUME TypesInv, LossesInv, NEW j, Lost' \subseteq Lost \cup {j},
           StaleClaims' \subseteq StaleClaims, faults' = faults + 1
    PROVE  LossesInv'
<1>1. IsFiniteSet(Lost)' /\ Cardinality(Lost)' <= Cardinality(Lost) + 1
  BY AtMostOneMore DEF LossesInv
<1> QED
  BY <1>1, FS_Subset, FS_CardinalityType DEF TypesInv, LossesInv

LEMMA OneClaimLeft ==
    ASSUME TypesInv, LossesInv, NEW m, Lost' \subseteq Lost,
           StaleClaims' \subseteq StaleClaims \cup {m}, faults' = faults + 1
    PROVE  LossesInv'
<1>1. IsFiniteSet(StaleClaims)' /\ Cardinality(StaleClaims)' <= Cardinality(StaleClaims) + 1
  BY AtMostOneMore DEF LossesInv
<1> QED
  BY <1>1, FS_Subset, FS_CardinalityType DEF TypesInv, LossesInv

LEMMA LeftClaimServed ==
    ASSUME TypesInv, LossesInv, NEW j, NEW m \in StaleClaims, Lost' \subseteq Lost \cup {j},
           StaleClaims' \subseteq StaleClaims \ {m}, faults' = faults
    PROVE  LossesInv'
<1>1. IsFiniteSet(Lost)' /\ Cardinality(Lost)' <= Cardinality(Lost) + 1
  BY AtMostOneMore DEF LossesInv
<1>2. /\ IsFiniteSet(StaleClaims \ {m})
      /\ Cardinality(StaleClaims \ {m}) = Cardinality(StaleClaims) - 1
  BY FS_RemoveElement DEF LossesInv
<1>3. IsFiniteSet(StaleClaims)' /\ Cardinality(StaleClaims)' <= Cardinality(StaleClaims) - 1
  BY <1>2, FS_Subset
<1> QED
  BY <1>1, <1>3, FS_CardinalityType DEF TypesInv, LossesInv

-----------------------------------------------------------------------------
(* What the daemon does *)

LEMMA RegisterKeepsInv ==
    ASSUME DaemonInv, Register
    PROVE  DaemonInv'
<1> USE DaemonAssumption DEF DaemonInv
<1>1. PICK new : new = [run |-> run', kind |-> "register", job |-> NoJob]
  OBVIOUS
<1>2. /\ requests' = requests \cup {new} /\ run' = run + 1
      /\ place = "down" /\ place' = "registering"
      /\ UNCHANGED <<held, replies, jobs, active, handed, lateClaim, faults>>
  BY <1>1 DEF Register, Send, serverVars
<1>3. new.run = run + 1 /\ new.kind = "register" /\ new.job = NoJob /\ new \in Requests
  BY <1>1, <1>2 DEF TypesInv, Requests, Kinds
<1>4. TypesInv'
  BY <1>2, <1>3 DEF TypesInv, Places, Waiting
<1>5. HandedInv'
  BY <1>2, <1>3 DEF HandedInv, TypesInv
<1>6. OneUnderWay'
  BY <1>2, <1>3 DEF OneUnderWay, Own, TypesInv, Requests, Waiting
<1>7. Lost' \subseteq Lost
  BY <1>2 DEF Lost
<1>8. StaleClaims' \subseteq StaleClaims
  BY <1>2, <1>3 DEF StaleClaims, Own
<1> QED
  BY <1>2, <1>4, <1>5, <1>6, <1>7, <1>8, NoMoreLosses

LEMMA PollKeepsInv ==
    ASSUME DaemonInv, Poll
    PROVE  DaemonInv'
<1> USE DaemonAssumption DEF DaemonInv
<1>1. PICK new : new = [run |-> run, kind |-> "claim", job |-> NoJob]
  OBVIOUS
<1>2. /\ requests' = requests \cup {new} /\ run' = run
      /\ place = "idle" /\ place' = "claiming"
      /\ UNCHANGED <<held, replies, jobs, active, handed, lateClaim, faults>>
  BY <1>1 DEF Poll, Send, serverVars
<1>3. new.run = run /\ new.kind = "claim" /\ new.job = NoJob /\ new \in Requests
  BY <1>1 DEF TypesInv, Requests, Kinds
<1>4. TypesInv'
  BY <1>2, <1>3 DEF TypesInv, Places, Waiting
<1>5. HandedInv'
  BY <1>2, <1>3 DEF HandedInv, TypesInv
<1>6. OneUnderWay'
  BY <1>2, <1>3 DEF OneUnderWay, Own, TypesInv, Waiting
<1>7. Lost' \subseteq Lost
  BY <1>2 DEF Lost
<1>8. StaleClaims' \subseteq StaleClaims
  BY <1>2, <1>3 DEF StaleClaims, Own
<1> QED
  BY <1>2, <1>4, <1>5, <1>6, <1>7, <1>8, NoMoreLosses

LEMMA ExecuteKeepsInv ==
    ASSUME DaemonInv, Execute
    PROVE  DaemonInv'
<1> USE DaemonAssumption DEF DaemonInv
<1>1. PICK new : new = [run |-> run, kind |-> "complete", job |-> held]
  OBVIOUS
<1>2. /\ requests' = requests \cup {new} /\ run' = run
      /\ place = "executing" /\ place' = "posting"
      /\ UNCHANGED <<held, replies, jobs, active, handed, lateClaim, faults>>
  BY <1>1 DEF Execute, Send, serverVars
<1>3. new.run = run /\ new.kind = "complete" /\ new.job = held /\ new \in Requests
      /\ held \in Jobs
  BY <1>1, <1>2 DEF TypesInv, Requests, Kinds, OneUnderWay
<1>4. TypesInv'
  BY <1>2, <1>3 DEF TypesInv, Places, Waiting
<1>5. HandedInv'
  BY <1>2, <1>3 DEF HandedInv, TypesInv
<1>6. OneUnderWay'
  BY <1>2, <1>3 DEF OneUnderWay, Own, TypesInv, Waiting
<1>7. Lost' \subseteq Lost
  BY <1>2, <1>3 DEF Lost
<1>8. StaleClaims' \subseteq StaleClaims
  BY <1>2, <1>3 DEF StaleClaims, Own
<1> QED
  BY <1>2, <1>4, <1>5, <1>6, <1>7, <1>8, NoMoreLosses

LEMMA GiveUpKeepsInv ==
    ASSUME DaemonInv, GiveUp
    PROVE  DaemonInv'
<1> USE DaemonAssumption DEF DaemonInv
<1>1. /\ place \in Waiting /\ replies = {} /\ \A m \in requests : ~Own(m)
      /\ place' = "down" /\ held' = NoJob /\ replies' = {}
      /\ UNCHANGED <<run, requests, jobs, active, handed, lateClaim, faults>>
  BY DEF GiveUp, Stop, serverVars, Own
<1>2. TypesInv'
  BY <1>1 DEF TypesInv, Places
<1>3. HandedInv'
  BY <1>1 DEF HandedInv
<1>4. OneUnderWay'
  BY <1>1 DEF OneUnderWay, Own, Waiting
<1>5. Lost' \subseteq Lost
  BY <1>1 DEF Lost, Waiting
<1>6. StaleClaims' \subseteq StaleClaims
  BY <1>1 DEF StaleClaims, Own
<1> QED
  BY <1>1, <1>2, <1>3, <1>4, <1>5, <1>6, NoMoreLosses

LEMMA ReceiveKeepsInv ==
    ASSUME DaemonInv, NEW reply \in replies, ReceiveReply(reply)
    PROVE  DaemonInv'
<1> USE DaemonAssumption DEF DaemonInv
<1>1. /\ place \in Waiting /\ replies' = replies \ {reply} /\ held' = reply.job
      /\ place' = IF reply.job = NoJob THEN "idle" ELSE "executing"
      /\ UNCHANGED <<run, requests, jobs, active, handed, lateClaim, faults>>
  BY DEF ReceiveReply, serverVars
<1>2. replies' = {} /\ \A m \in requests : ~Own(m)
  BY <1>1 DEF OneUnderWay
<1>3. reply.job \in Jobs \cup {NoJob}
  BY DEF TypesInv, Replies
<1>4. TypesInv'
  BY <1>1, <1>3 DEF TypesInv, Places
<1>5. HandedInv'
  BY <1>1, <1>2 DEF HandedInv
<1>6. OneUnderWay'
  BY <1>1, <1>2, <1>3 DEF OneUnderWay, Own, Waiting
<1>7. Lost' \subseteq Lost
  BY <1>1, <1>2 DEF Lost, Waiting, OneUnderWay
<1>8. StaleClaims' \subseteq StaleClaims
  BY <1>1, <1>2 DEF StaleClaims, Own
<1> QED
  BY <1>1, <1>4, <1>5, <1>6, <1>7, <1>8, NoMoreLosses

-----------------------------------------------------------------------------
(* What the server does *)

(* A reply for nobody, or for the daemon that waits for it.                *)
LEMMA AnswerReplies ==
    ASSUME DaemonInv, NEW m \in requests, NEW kind, NEW job, Answer(m, kind, job)
    PROVE  /\ requests' = requests \ {m}
           /\ IF Own(m) /\ place \in Waiting
              THEN replies' = {[kind |-> kind, job |-> job]} /\ replies = {}
              ELSE replies' = replies
           /\ Own(m) /\ place \in Waiting => \A other \in requests' : ~Own(other)
  BY DEF DaemonInv, OneUnderWay, Answer, Own

LEMMA AnswerKeepsTypes ==
    ASSUME DaemonInv, NEW m \in requests, NEW kind \in {"registered", "claimed", "completed"},
           NEW job \in Jobs \cup {NoJob}, Answer(m, kind, job)
    PROVE  requests' \subseteq Requests /\ replies' \subseteq Replies
  BY AnswerReplies DEF DaemonInv, TypesInv, Replies

LEMMA AnswerKeepsOneUnderWay ==
    ASSUME DaemonInv, NEW m \in requests, NEW kind, NEW job, Answer(m, kind, job),
           UNCHANGED daemonVars
    PROVE  OneUnderWay'
<1>1. requests' \subseteq requests /\ UNCHANGED <<run, place, held>>
  BY AnswerReplies DEF daemonVars
<1>2. /\ \A r1, r2 \in replies' : r1 = r2
      /\ replies' # {} => \A other \in requests' : ~Own(other)
      /\ place \in {"down", "idle", "executing"} => replies' = {}
  BY AnswerReplies DEF DaemonInv, OneUnderWay, Waiting
<1> QED
  BY <1>1, <1>2 DEF DaemonInv, OneUnderWay, Own

(* An answer that names no job.                                            *)
LEMMA PlainAnswerKeepsInv ==
    ASSUME DaemonInv, NEW m \in requests, m.job = NoJob,
           NEW kind \in {"registered", "claimed"}, Answer(m, kind, NoJob),
           UNCHANGED <<daemonVars, jobs, handed, faults>>
    PROVE  DaemonInv'
<1> USE DaemonAssumption DEF DaemonInv
<1>1. /\ requests' \subseteq requests /\ UNCHANGED <<run, place, held, jobs, handed, faults>>
      /\ \A other \in requests \ requests' : other.job = NoJob
      /\ \A reply \in replies' : reply \in replies \/ reply.job = NoJob
      /\ \A reply \in replies : reply \in replies' \/ reply.job = NoJob
  BY AnswerReplies DEF daemonVars
<1>2. TypesInv'
  BY <1>1, AnswerKeepsTypes DEF TypesInv
<1>3. HandedInv'
  BY <1>1 DEF HandedInv
<1>4. OneUnderWay'
  BY AnswerKeepsOneUnderWay
<1>5. Lost' \subseteq Lost
  BY <1>1 DEF Lost
<1>6. StaleClaims' \subseteq StaleClaims
  BY <1>1 DEF StaleClaims, Own
<1> QED
  BY <1>1, <1>2, <1>3, <1>4, <1>5, <1>6, NoMoreLosses

LEMMA HandleClaimKeepsInv ==
    ASSUME DaemonInv, NEW m \in requests, HandleClaim(m)
    PROVE  DaemonInv'
<1> USE DaemonAssumption DEF DaemonInv
<1>1. PICK j \in Jobs :
        /\ jobs[j] = "queued"
        /\ jobs' = [jobs EXCEPT ![j] = "assigned"]
        /\ handed' = [handed EXCEPT ![j] = @ + 1]
        /\ Answer(m, "claimed", j)
  BY DEF HandleClaim
<1>2. m.kind = "claim" /\ UNCHANGED <<run, place, held, faults, daemonVars>>
  BY DEF HandleClaim, daemonVars
<1>3. /\ requests' = requests \ {m}
      /\ IF Own(m) /\ place \in Waiting
         THEN replies' = {[kind |-> "claimed", job |-> j]} /\ replies = {}
         ELSE replies' = replies
  BY <1>1, AnswerReplies
<1>4. TypesInv'
  BY <1>1, <1>2, AnswerKeepsTypes DEF TypesInv
<1>5. HandedInv'
  BY <1>1, <1>2, <1>3 DEF HandedInv, TypesInv
<1>6. OneUnderWay'
  BY <1>1, <1>2, AnswerKeepsOneUnderWay
<1>7. m.job \notin Jobs
  BY <1>2 DEF OneUnderWay
<1>8. Lost' \subseteq Lost \cup {j}
  BY <1>1, <1>2, <1>3, <1>7 DEF Lost, TypesInv
<1>9. StaleClaims' \subseteq StaleClaims \ {m}
  BY <1>2, <1>3 DEF StaleClaims, Own
<1>10. CASE m \in StaleClaims
  BY <1>2, <1>4, <1>5, <1>6, <1>8, <1>9, <1>10, LeftClaimServed
<1>11. CASE m \notin StaleClaims
  <2>1. [kind |-> "claimed", job |-> j] \in replies'
    BY <1>2, <1>3, <1>11 DEF StaleClaims, Waiting
  <2>2. Lost' \subseteq Lost
    BY <1>8, <2>1 DEF Lost
  <2> QED
    BY <1>2, <1>4, <1>5, <1>6, <1>9, <2>2, NoMoreLosses
<1> QED
  BY <1>10, <1>11

LEMMA HandleCompleteKeepsInv ==
    ASSUME DaemonInv, NEW m \in requests, HandleComplete(m)
    PROVE  DaemonInv'
<1> USE DaemonAssumption DEF DaemonInv
<1>1. /\ jobs[m.job] = "assigned" /\ jobs' = [jobs EXCEPT ![m.job] = "closed"]
      /\ Answer(m, "completed", NoJob) /\ m.kind = "complete"
      /\ UNCHANGED <<run, place, held, handed, faults, daemonVars>>
  BY DEF HandleComplete, daemonVars
<1>2. m.job \in Jobs
  BY <1>1 DEF OneUnderWay
<1>3. /\ requests' = requests \ {m}
      /\ \A reply \in replies' : reply \in replies \/ reply.job = NoJob
      /\ \A reply \in replies : reply \in replies'
  BY <1>1, AnswerReplies
<1>4. TypesInv'
  BY <1>1, AnswerKeepsTypes DEF TypesInv
<1>5. HandedInv'
  BY <1>1, <1>2, <1>3 DEF HandedInv, TypesInv
<1>6. OneUnderWay'
  BY <1>1, AnswerKeepsOneUnderWay
<1>7. Lost' \subseteq Lost
  BY <1>1, <1>2, <1>3 DEF Lost, TypesInv
<1>8. StaleClaims' \subseteq StaleClaims
  BY <1>1, <1>3 DEF StaleClaims, Own
<1> QED
  BY <1>1, <1>4, <1>5, <1>6, <1>7, <1>8, NoMoreLosses

LEMMA HandleKeepsInv ==
    ASSUME DaemonInv, NEW start \in Starts, NEW kind \in Kinds, Handle(start, kind)
    PROVE  DaemonInv'
<1>1. PICK m \in requests :
        HandleRegister(m) \/ HandleClaim(m) \/ HandleClaimNothing(m) \/ HandleComplete(m)
  BY DEF Handle
<1>2. m.kind # "complete" => m.job = NoJob
  BY DEF DaemonInv, OneUnderWay, TypesInv, Requests
<1>3. CASE HandleRegister(m)
  BY <1>2, <1>3, PlainAnswerKeepsInv DEF HandleRegister
<1>4. CASE HandleClaimNothing(m)
  BY <1>2, <1>4, PlainAnswerKeepsInv DEF HandleClaimNothing, serverVars
<1> QED
  BY <1>1, <1>3, <1>4, HandleClaimKeepsInv, HandleCompleteKeepsInv

-----------------------------------------------------------------------------
(* What a fault does *)

LEMMA LoseRequestKeepsInv ==
    ASSUME DaemonInv, LoseRequest
    PROVE  DaemonInv'
<1> USE DaemonAssumption DEF DaemonInv
<1>1. PICK m \in requests : requests' = requests \ {m}
  BY DEF LoseRequest
<1>2. /\ UNCHANGED <<run, place, held, replies, jobs, active, handed, lateClaim>>
      /\ faults' = faults + 1
  BY DEF LoseRequest, Fault, daemonVars, serverVars
<1>3. TypesInv'
  BY <1>1, <1>2 DEF TypesInv
<1>4. HandedInv'
  BY <1>1, <1>2 DEF HandedInv
<1>5. OneUnderWay'
  BY <1>1, <1>2 DEF OneUnderWay, Own
<1>6. Lost' \subseteq Lost \cup {m.job}
  BY <1>1, <1>2 DEF Lost
<1>7. StaleClaims' \subseteq StaleClaims
  BY <1>1, <1>2 DEF StaleClaims, Own
<1> QED
  BY <1>2, <1>3, <1>4, <1>5, <1>6, <1>7, OneJobLost

LEMMA LoseReplyKeepsInv ==
    ASSUME DaemonInv, LoseReply
    PROVE  DaemonInv'
<1> USE DaemonAssumption DEF DaemonInv
<1>1. PICK reply \in replies : replies' = replies \ {reply}
  BY DEF LoseReply
<1>2. /\ UNCHANGED <<run, place, held, requests, jobs, active, handed, lateClaim>>
      /\ faults' = faults + 1
  BY DEF LoseReply, Fault, daemonVars, serverVars
<1>3. TypesInv'
  BY <1>1, <1>2 DEF TypesInv
<1>4. HandedInv'
  BY <1>1, <1>2 DEF HandedInv
<1>5. OneUnderWay'
  BY <1>1, <1>2 DEF OneUnderWay, Own
<1>6. Lost' \subseteq Lost \cup {reply.job}
  BY <1>1, <1>2 DEF Lost
<1>7. StaleClaims' \subseteq StaleClaims
  BY <1>2 DEF StaleClaims, Own
<1> QED
  BY <1>2, <1>3, <1>4, <1>5, <1>6, <1>7, OneJobLost

(* The daemon ends with a job in its hands, with a claim under way that    *)
(* will be served to nobody, with a reply to come, or with none of them.   *)
LEMMA EndDaemonKeepsInv ==
    ASSUME DaemonInv, EndDaemon
    PROVE  DaemonInv'
<1> USE DaemonAssumption DEF DaemonInv
<1>1. /\ place # "down" /\ place' = "down" /\ held' = NoJob /\ replies' = {}
      /\ UNCHANGED <<run, requests, jobs, active, handed, lateClaim>>
      /\ faults' = faults + 1
  BY DEF EndDaemon, Stop, Fault, serverVars
<1>2. TypesInv'
  BY <1>1 DEF TypesInv, Places
<1>3. HandedInv'
  BY <1>1 DEF HandedInv
<1>4. OneUnderWay'
  BY <1>1 DEF OneUnderWay, Own, Waiting
<1>5. CASE place = "executing"
  <2>1. Lost' \subseteq Lost \cup {held}
    BY <1>1, <1>5 DEF Lost, OneUnderWay
  <2>2. StaleClaims' \subseteq StaleClaims
    BY <1>1, <1>5 DEF StaleClaims, Own
  <2> QED
    BY <1>1, <1>2, <1>3, <1>4, <2>1, <2>2, OneJobLost
<1>6. CASE place # "executing" /\ replies # {}
  <2>1. PICK reply : replies = {reply}
    BY <1>6 DEF OneUnderWay
  <2>2. Lost' \subseteq Lost \cup {reply.job}
    BY <1>1, <1>6, <2>1 DEF Lost
  <2>3. StaleClaims' \subseteq StaleClaims
    BY <1>1, <1>6 DEF StaleClaims, Own, OneUnderWay
  <2> QED
    BY <1>1, <1>2, <1>3, <1>4, <2>2, <2>3, OneJobLost
<1>7. CASE place # "executing" /\ replies = {}
  <2>1. Lost' \subseteq Lost
    BY <1>1, <1>7 DEF Lost
  <2>2. CASE \A m \in requests : ~Own(m)
    <3>1. StaleClaims' \subseteq StaleClaims
      BY <1>1, <2>2 DEF StaleClaims, Own
    <3> QED
      BY <1>1, <1>2, <1>3, <1>4, <2>1, <3>1, NoMoreLosses
  <2>3. ASSUME NEW m \in requests, Own(m)
        PROVE  DaemonInv'
    <3>1. StaleClaims' \subseteq StaleClaims \cup {m}
      BY <1>1, <2>3 DEF StaleClaims, Own, OneUnderWay
    <3> QED
      BY <1>1, <1>2, <1>3, <1>4, <2>1, <3>1, OneClaimLeft
  <2> QED
    BY <2>2, <2>3
<1> QED
  BY <1>5, <1>6, <1>7

-----------------------------------------------------------------------------

LEMMA DaemonInvInit == Init => DaemonInv
<1> SUFFICES ASSUME Init PROVE DaemonInv
  OBVIOUS
<1>1. Lost = {} /\ StaleClaims = {}
  BY DEF Init, Lost, StaleClaims
<1>2. LossesInv
  BY <1>1, FS_EmptySet DEF Init, LossesInv
<1>3. TypesInv /\ HandedInv /\ OneUnderWay
  BY DaemonAssumption DEF Init, TypesInv, HandedInv, OneUnderWay, Places, Waiting
<1> QED
  BY <1>2, <1>3 DEF DaemonInv

LEMMA DaemonInvHolds == Spec => []DaemonInv
<1>1. DaemonInv /\ [Next]_vars => DaemonInv'
  <2> SUFFICES ASSUME DaemonInv, [Next]_vars PROVE DaemonInv'
    OBVIOUS
  <2>1. CASE UNCHANGED vars
    <3>1. UNCHANGED <<run, place, held, requests, replies, jobs, active, handed, faults>>
      BY <2>1 DEF vars, daemonVars, networkVars, serverVars
    <3>2. Lost' = Lost /\ StaleClaims' = StaleClaims
      BY <3>1 DEF Lost, StaleClaims, Own
    <3>3. TypesInv' /\ HandedInv' /\ OneUnderWay'
      BY <3>1 DEF DaemonInv, TypesInv, HandedInv, OneUnderWay, Own
    <3>4. LossesInv'
      BY <3>1, <3>2 DEF DaemonInv, LossesInv
    <3> QED
      BY <3>3, <3>4 DEF DaemonInv
  <2> QED
    BY <2>1, RegisterKeepsInv, PollKeepsInv, ExecuteKeepsInv, GiveUpKeepsInv, ReceiveKeepsInv,
       HandleKeepsInv, LoseRequestKeepsInv, LoseReplyKeepsInv, EndDaemonKeepsInv
    DEF Next, DaemonStep
<1> QED
  BY <1>1, DaemonInvInit, PTL DEF Spec

(* A job is handed to one start of one daemon only, and what the daemon    *)
(* executes is not queued for anybody else, however requests are lost,     *)
(* delayed or answered too late and whenever the daemon ends and starts.   *)
THEOREM JobsExecutedOnce == Spec => []ExecutedOnce
<1>1. DaemonInv => ExecutedOnce
  BY DEF DaemonInv, TypesInv, HandedInv, ExecutedOnce
<1> QED
  BY <1>1, DaemonInvHolds, PTL

(* A fault - a request or a reply lost, a daemon that ends - costs one job *)
(* at most, for all its consequences; without one, none is left assigned   *)
(* that nobody works on (worker_daemon.py:62-76).                          *)
THEOREM FaultsCostOneJobEach == Spec => []OneJobPerFault
<1>1. DaemonInv => OneJobPerFault
  <2> SUFFICES ASSUME DaemonInv PROVE OneJobPerFault
    OBVIOUS
  <2>1. Orphans \subseteq Lost
    BY DEF Orphans, Lost
  <2>2. Cardinality(Orphans) <= Cardinality(Lost) /\ IsFiniteSet(Orphans)
    BY <2>1, FS_Subset DEF DaemonInv, LossesInv
  <2> QED
    BY <2>2, FS_CardinalityType DEF DaemonInv, TypesInv, LossesInv, OneJobPerFault
<1> QED
  BY <1>1, DaemonInvHolds, PTL

=============================================================================
