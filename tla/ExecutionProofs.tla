-------------------------- MODULE ExecutionProofs --------------------------
(***************************************************************************)
(* Safety of the local worker loops for any number of starts and stops,    *)
(* any jobs and any capacity; of the run of a model inside a cycle         *)
(* (Executor), for any timeouts and any stream; and of the files made of   *)
(* its answer (Artifacts), for any blocks and any names.                   *)
(***************************************************************************)
EXTENDS LocalWorkerLoop, Executor, Artifacts, FiniteSetTheorems, WellFoundedInduction, TLAPS

(* The fields the arguments below are about have their types.              *)
LoopTypeOK ==
    /\ pc \in [Threads -> Place]
    /\ stopEvent \in [Threads -> BOOLEAN]
    /\ session \in Threads \cup {NoThread}
    /\ assignment \in [Threads -> Jobs \cup {NoJob}]
    /\ jobs \in [Jobs -> {"queued", "assigned", "closed"}]
    /\ lateClaims \in [Threads -> Nat]

(* A thread counts a late claim only once its event is set, and is then    *)
(* past the place it could claim from: the next look at the event ends it. *)
LateClaimsAreLast ==
    \A t \in Threads :
        \/ lateClaims[t] = 0
        \/ lateClaims[t] = 1 /\ stopEvent[t] /\ pc[t] \notin {"unborn", "claim"}

LoopInv == LoopTypeOK /\ OneLoopPerWorker /\ LateClaimsAreLast

-----------------------------------------------------------------------------
(* Types *)

(* The initial state has the types.                                        *)
LEMMA InitTypes == Init => LoopTypeOK
  BY DEF Init, LoopTypeOK, Place

(* Every step keeps the types.                                             *)
LEMMA StepTypes == LoopTypeOK /\ [Next]_vars => LoopTypeOK'
<1> SUFFICES ASSUME LoopTypeOK, [Next]_vars PROVE LoopTypeOK'
  OBVIOUS
<1> USE DEF LoopTypeOK, Place, Goto, loopVars, workerVars
<1>1. CASE StartLocalWorker
  BY <1>1 DEF StartLocalWorker
<1>2. CASE StopLocalWorker
  BY <1>2 DEF StopLocalWorker
<1>3. ASSUME NEW t \in Threads, LoopStep(t) PROVE LoopTypeOK'
  <2>1. CASE CheckStop(t)
    BY <2>1 DEF CheckStop
  <2>2. CASE Claim(t)
    BY <2>2 DEF Claim
  <2>3. CASE ClaimNothing(t)
    BY <2>3 DEF ClaimNothing
  <2>4. CASE Execute(t)
    BY <2>4 DEF Execute
  <2>5. CASE Complete(t)
    BY <2>5 DEF Complete
  <2>6. CASE Report(t) \/ ReportError(t)
    BY <2>6 DEF Report, ReportError
  <2>7. CASE Wait(t)
    BY <2>7 DEF Wait
  <2> QED
    BY <1>3, <2>1, <2>2, <2>3, <2>4, <2>5, <2>6, <2>7 DEF LoopStep
<1>4. CASE UNCHANGED vars
  BY <1>4 DEF vars
<1> QED
  BY <1>1, <1>2, <1>3, <1>4 DEF Next

-----------------------------------------------------------------------------
(* One loop *)

(* Only the registered thread is alive: a start looks at the registered    *)
(* thread, and no other thread could be alive then.                        *)
LEMMA StepKeepsOneLoop ==
    LoopTypeOK /\ OneLoopPerWorker /\ [Next]_vars => OneLoopPerWorker'
<1> SUFFICES ASSUME LoopTypeOK, OneLoopPerWorker, [Next]_vars PROVE OneLoopPerWorker'
  OBVIOUS
<1> USE LoopAssumption DEF LoopTypeOK, OneLoopPerWorker, Place, Alive, Goto, loopVars, workerVars
<1>1. CASE StartLocalWorker
  BY <1>1 DEF StartLocalWorker, LoopUsable
<1>2. CASE StopLocalWorker
  BY <1>2 DEF StopLocalWorker
<1>3. ASSUME NEW t \in Threads, LoopStep(t) PROVE OneLoopPerWorker'
  <2>1. CASE CheckStop(t)
    BY <2>1 DEF CheckStop
  <2>2. CASE Claim(t)
    BY <2>2 DEF Claim
  <2>3. CASE ClaimNothing(t)
    BY <2>3 DEF ClaimNothing
  <2>4. CASE Execute(t)
    BY <2>4 DEF Execute
  <2>5. CASE Complete(t)
    BY <2>5 DEF Complete
  <2>6. CASE Report(t) \/ ReportError(t)
    BY <2>6 DEF Report, ReportError
  <2>7. CASE Wait(t)
    BY <2>7 DEF Wait
  <2> QED
    BY <1>3, <2>1, <2>2, <2>3, <2>4, <2>5, <2>6, <2>7 DEF LoopStep
<1>4. CASE UNCHANGED vars
  BY <1>4 DEF vars
<1> QED
  BY <1>1, <1>2, <1>3, <1>4 DEF Next

-----------------------------------------------------------------------------
(* Late claims *)

(* A late claim is a thread's last: it cannot return to "claim".           *)
LEMMA StepKeepsLateClaims ==
    LoopTypeOK /\ LateClaimsAreLast /\ [Next]_vars => LateClaimsAreLast'
<1> SUFFICES ASSUME LoopTypeOK, LateClaimsAreLast, [Next]_vars PROVE LateClaimsAreLast'
  OBVIOUS
<1> USE DEF LoopTypeOK, LateClaimsAreLast, Place, Goto, loopVars, workerVars
<1>1. CASE StartLocalWorker
  BY <1>1 DEF StartLocalWorker
<1>2. CASE StopLocalWorker
  BY <1>2 DEF StopLocalWorker
<1>3. ASSUME NEW t \in Threads, LoopStep(t) PROVE LateClaimsAreLast'
  <2>1. CASE CheckStop(t)
    BY <2>1 DEF CheckStop
  <2>2. CASE Claim(t)
    BY <2>2 DEF Claim
  <2>3. CASE ClaimNothing(t)
    BY <2>3 DEF ClaimNothing
  <2>4. CASE Execute(t)
    BY <2>4 DEF Execute
  <2>5. CASE Complete(t)
    BY <2>5 DEF Complete
  <2>6. CASE Report(t) \/ ReportError(t)
    BY <2>6 DEF Report, ReportError
  <2>7. CASE Wait(t)
    BY <2>7 DEF Wait
  <2> QED
    BY <1>3, <2>1, <2>2, <2>3, <2>4, <2>5, <2>6, <2>7 DEF LoopStep
<1>4. CASE UNCHANGED vars
  BY <1>4 DEF vars
<1> QED
  BY <1>1, <1>2, <1>3, <1>4 DEF Next

-----------------------------------------------------------------------------
(* Theorems *)

(* The invariant holds in every behaviour.                                 *)
LEMMA LoopInvariant == Spec => []LoopInv
<1>1. Init => LoopInv
  <2>1. Init => OneLoopPerWorker /\ LateClaimsAreLast
    BY DEF Init, OneLoopPerWorker, LateClaimsAreLast, Alive
  <2> QED
    BY <2>1, InitTypes DEF LoopInv
<1>2. LoopInv /\ [Next]_vars => LoopInv'
  BY StepTypes, StepKeepsOneLoop, StepKeepsLateClaims DEF LoopInv
<1> QED
  BY <1>1, <1>2, PTL DEF Spec

(* However starts and stops fall into its cycles, one thread at most polls *)
(* for a worker, and it has every job its cycles have claimed and not      *)
(* closed (service.py:1145).                                               *)
THEOREM OneLoopAtATime == Spec => []OneLoopPerWorker
<1>1. LoopInv => OneLoopPerWorker
  BY DEF LoopInv
<1> QED
  BY <1>1, LoopInvariant, PTL

(* A stop costs one late claim at most (service.py:1209).                  *)
THEOREM LateClaimsAreOne == Spec => []OneLateClaim
<1>1. LoopInv => OneLateClaim
  BY DEF LoopInv, LateClaimsAreLast, OneLateClaim
<1> QED
  BY <1>1, LoopInvariant, PTL

-----------------------------------------------------------------------------
(* The run of a model *)

Verdicts ==
    [verdict : {"failed", "verified"}, output : {"none", "answer", "thinking", "empty"}]

RunTypes ==
    /\ clock \in Nat
    /\ quiet \in Nat
    /\ stream \in Seq(Line)
    /\ result \in {NoResult} \cup Verdicts

(* When the last line came the overall time was not over, and the silence  *)
(* since then is an idle timeout at most; before the stream there are two  *)
(* waits of an idle timeout each.                                          *)
TimesBounded ==
    /\ quiet <= Idle
    /\ clock <= Overall + quiet
    /\ phase = "connecting" => clock = quiet
    /\ phase = "waiting" => clock <= Idle + quiet

RunInv ==
    /\ RunTypes
    /\ TimesBounded
    /\ phase # "ended" => result = NoResult
    /\ VerifiedAnswersAreFinished

(* A set of places of a sequence has a last one.                           *)
LEMMA LastPlace ==
    ASSUME NEW n \in Nat, NEW S, S \subseteq 1 .. n, S # {}
    PROVE  \E i \in S : \A k \in S : k <= i
<1> DEFINE T == {n - i : i \in S}
<1>1. T \subseteq Nat /\ T # {}
  <2>1. \A i \in 1 .. n : n - i \in Nat
    OBVIOUS
  <2> QED
    BY <2>1
<1>2. PICK t \in T : \A m \in T : ~(<<m, t>> \in OpToRel(<, Nat))
  BY <1>1, WFMin, NatLessThanWellFounded
<1>3. PICK i \in S : t = n - i
  OBVIOUS
<1>4. \A k \in S : ~(n - k < n - i)
  BY <1>1, <1>2, <1>3 DEF OpToRel
<1>5. \A k \in S : k \in 1 .. n
  OBVIOUS
<1> QED
  BY <1>3, <1>4, <1>5

(* The last of the lines that carry a field is one of them.                *)
LEMMA LastOfIsCarried ==
    ASSUME RunTypes, NEW kinds, Carrying(kinds) # {}
    PROVE  \E i \in Carrying(kinds) : stream[i] = LastOf(kinds)
<1> DEFINE lines == Carrying(kinds)
<1>1. lines \subseteq 1 .. Len(stream) /\ Len(stream) \in Nat
  BY DEF Carrying, RunTypes
<1>2. \E i \in lines : \A k \in lines : k <= i
  BY <1>1, LastPlace
<1>3. (CHOOSE i \in lines : \A k \in lines : k <= i) \in lines
  BY <1>2
<1> QED
  BY <1>3 DEF LastOf

(* A verified answer that carries text was read to a last line: "done" is  *)
(* asked of the last line that has the field, not of any or of the first,  *)
(* and the "stop" that overrules it comes with a last line.                *)
LEMMA VerdictNeedsLastLine ==
    ASSUME RunTypes, Verdict.verdict = "verified"
    PROVE  Carrying(Final) # {} \/ Carrying({"chunk", "thinking"}) = {}
<1> DEFINE answering == {"chunk", "thinking"} \cup Final
<1>1. Done \/ Stopped
  BY DEF Verdict, Failed
<1>2. CASE Stopped
  BY <1>2 DEF Stopped
<1>3. CASE Done /\ Carrying(answering) = {}
  <2>1. Carrying({"chunk", "thinking"}) \subseteq Carrying(answering)
    BY DEF Carrying
  <2> QED
    BY <1>3, <2>1
<1>4. CASE Done /\ Carrying(answering) # {}
  <2>1. LastOf(answering) \in Final
    BY <1>4 DEF Done
  <2>2. PICK i \in Carrying(answering) : stream[i] = LastOf(answering)
    BY <1>4, LastOfIsCarried
  <2>3. i \in Carrying(Final)
    BY <2>1, <2>2 DEF Carrying
  <2> QED
    BY <2>3
<1> QED
  BY <1>1, <1>2, <1>3, <1>4

LEMMA VerdictType == Verdict \in Verdicts /\ Failed \in Verdicts
  BY DEF Verdict, Failed, Output, Verdicts

(* The initial state, and every step.                                      *)
LEMMA RunInvInit == RunInit => RunInv
  BY ExecutorAssumption DEF RunInit, RunInv, RunTypes, TimesBounded, NoResult, VerifiedAnswersAreFinished

LEMMA RunInvStep == RunInv /\ [RunNext]_runVars => RunInv'
<1> SUFFICES ASSUME RunInv, [RunNext]_runVars PROVE RunInv'
  OBVIOUS
<1>0. RunTypes /\ Overall \in Nat /\ Idle \in Nat /\ 2 * Idle <= Overall
  BY ExecutorAssumption DEF RunInv
<1>1. CASE Connect
  BY <1>0, <1>1 DEF Connect, RunInv, RunTypes, TimesBounded, VerifiedAnswersAreFinished, NoResult, Carrying
<1>2. CASE Respond
  BY <1>0, <1>2 DEF Respond, RunInv, RunTypes, TimesBounded, VerifiedAnswersAreFinished, NoResult, Carrying
<1>3. ASSUME End(Failed), UNCHANGED stream
      PROVE  RunInv'
  BY <1>0, <1>3, VerdictType DEF End, Failed, RunInv, RunTypes, TimesBounded,
     VerifiedAnswersAreFinished
<1>4. CASE ConnectionFails \/ IdleTimeout
  BY <1>3, <1>4 DEF ConnectionFails, IdleTimeout
<1>5. ASSUME NEW line \in Line, ReadLine(line)
      PROVE  RunInv'
  <2>1. CASE clock > Overall \/ line = "garbage"
    BY <1>3, <1>5, <2>1 DEF ReadLine
  <2>2. CASE ~(clock > Overall \/ line = "garbage")
    <3>1. /\ phase = "reading" /\ phase' = phase
          /\ stream' = Append(stream, line)
          /\ quiet' = 0 /\ clock' = clock /\ result' = result
      BY <1>5, <2>2 DEF ReadLine
    <3>2. stream' \in Seq(Line)
      BY <1>0, <1>5, <3>1 DEF RunTypes
    <3> QED
      BY <1>0, <2>2, <3>1, <3>2
      DEF RunInv, RunTypes, TimesBounded, NoResult, VerifiedAnswersAreFinished
  <2> QED
    BY <2>1, <2>2
<1>6. CASE EndOfStream
  <2>1. VerifiedAnswersAreFinished'
    BY <1>0, <1>6, VerdictNeedsLastLine DEF EndOfStream, End, VerifiedAnswersAreFinished, Carrying
  <2> QED
    BY <1>0, <1>6, <2>1, VerdictType DEF EndOfStream, End, RunInv, RunTypes, TimesBounded
<1>7. CASE Tick
  BY <1>0, <1>7 DEF Tick, RunInv, RunTypes, TimesBounded, VerifiedAnswersAreFinished, NoResult, Carrying
<1>8. CASE UNCHANGED runVars
  BY <1>0, <1>8 DEF runVars, RunInv, RunTypes, TimesBounded, VerifiedAnswersAreFinished, NoResult, Carrying
<1> QED
  BY <1>1, <1>2, <1>4, <1>5, <1>6, <1>7, <1>8 DEF RunNext

(* A run holds its worker's slot for the overall timeout and one idle      *)
(* timeout at most (executor.py:54, 101): a line resets the silence only   *)
(* while the overall time is not over, and the connection and the headers  *)
(* come before it is.                                                      *)
THEOREM RunsEndInTime == RunSpec => []EndsInTime
<1>1. RunInv => EndsInTime
  BY ExecutorAssumption DEF RunInv, RunTypes, TimesBounded, EndsInTime
<1> QED
  BY <1>1, RunInvInit, RunInvStep, PTL DEF RunSpec

(* An answer that was begun is verified, and paid, only when its last line *)
(* came, be it by "done" (executor.py:79) or by the "stop" that overrules  *)
(* it (executor.py:80-81), whatever blank lines, errors and fragments the  *)
(* stream holds and in whatever order.                                     *)
THEOREM VerifiedMeansFinished == RunSpec => []VerifiedAnswersAreFinished
<1>1. RunInv => VerifiedAnswersAreFinished
  BY DEF RunInv
<1> QED
  BY <1>1, RunInvInit, RunInvStep, PTL DEF RunSpec

-----------------------------------------------------------------------------
(* The files of an answer *)

BlocksOK ==
    /\ answer \in Seq(Block)
    /\ prompt \in Prompts

LEMMA BlocksAlwaysOK == AnswerSpec => []BlocksOK
<1>1. AnswerInit => BlocksOK
  BY DEF AnswerInit, BlocksOK
<1>2. BlocksOK /\ [AnswerNext]_answerVars => BlocksOK'
  BY DEF BlocksOK, AnswerNext, AppendBlock, answerVars, Prompts
<1> QED
  BY <1>1, <1>2, PTL DEF AnswerSpec

(* The prompt's paths have names, and each is there once.                  *)
LEMMA PromptOnce ==
    ASSUME BlocksOK
    PROVE  /\ Len(prompt) \in Nat /\ DOMAIN prompt = 1 .. Len(prompt)
           /\ \A n \in 1 .. Len(prompt) : prompt[n] \in PromptPaths
           /\ \A n, k \in 1 .. Len(prompt) : prompt[n] = prompt[k] => n = k
<1>1. Cardinality(PromptPaths) \in Nat
  BY ArtifactsAssumption, FS_CardinalityType
<1>2. PICK n \in 0 .. Cardinality(PromptPaths) : prompt \in [1 .. n -> PromptPaths]
  BY DEF BlocksOK, Prompts
<1>3. n \in Nat
  BY <1>1
<1>4. prompt \in Seq(PromptPaths) /\ Len(prompt) = n
  BY <1>2, <1>3
<1>5. IsInjective(prompt)
  BY DEF BlocksOK, Prompts
<1> QED
  BY <1>2, <1>3, <1>4, <1>5 DEF IsInjective

(* The files of the path of block i up to block i: what Deduped counts.    *)
SamePath(i) == {k \in FileBlocks : k <= i /\ PathOf(k) = PathOf(i)}

LEMMA SamePathFinite ==
    ASSUME BlocksOK, NEW i \in FileBlocks
    PROVE  /\ FileBlocks \subseteq 1 .. Len(answer) /\ Len(answer) \in Nat
           /\ IsFiniteSet(SamePath(i)) /\ Cardinality(SamePath(i)) \in Nat
           /\ i \in SamePath(i)
<1>1. FileBlocks \subseteq 1 .. Len(answer) /\ Len(answer) \in Nat
  BY DEF BlocksOK, FileBlocks
<1>2. i \in Nat /\ i <= i
  BY <1>1
<1>3. SamePath(i) \subseteq FileBlocks /\ i \in SamePath(i)
  BY <1>2 DEF SamePath
<1>4. IsFiniteSet(1 .. Len(answer))
  BY <1>1, FS_Interval
<1>5. SamePath(i) \in SUBSET (1 .. Len(answer))
  BY <1>1, <1>3
<1> QED
  BY <1>1, <1>3, <1>4, <1>5, FS_Subset, FS_CardinalityType

(* A later block of a path counts more than an earlier one.                *)
LEMMA SamePathGrows ==
    ASSUME BlocksOK, NEW i \in FileBlocks, NEW k \in FileBlocks, i < k, PathOf(i) = PathOf(k)
    PROVE  Cardinality(SamePath(i)) < Cardinality(SamePath(k))
<1>1. i \in Nat /\ k \in Nat /\ \A j \in FileBlocks : j \in Nat
  BY SamePathFinite
<1>2. SamePath(i) \subseteq SamePath(k)
  <2> SUFFICES ASSUME NEW j \in SamePath(i) PROVE j \in SamePath(k)
    OBVIOUS
  <2>1. j \in FileBlocks /\ j <= i /\ PathOf(j) = PathOf(i)
    BY DEF SamePath
  <2>2. j <= k
    BY <1>1, <2>1
  <2> QED
    BY <2>1, <2>2 DEF SamePath
<1>3. k \in SamePath(k) /\ k \notin SamePath(i)
  BY <1>1, SamePathFinite DEF SamePath
<1> QED
  BY <1>2, <1>3, SamePathFinite, FS_Subset

(* The first file of a path keeps it.                                      *)
LEMMA FirstKeepsPath ==
    ASSUME BlocksOK, NEW i \in FileBlocks, \A k \in SamePath(i) : k = i
    PROVE  Cardinality(SamePath(i)) = 1 /\ Deduped(i) = PathOf(i)
<1>1. SamePath(i) = {i}
  BY SamePathFinite
<1>2. Cardinality(SamePath(i)) = 1
  BY <1>1, FS_Singleton
<1> QED
  BY <1>2 DEF Deduped, SamePath

LEMMA FirstFile ==
    ASSUME BlocksOK, NEW i \in FileBlocks
    PROVE  \E j \in FileBlocks : Deduped(j) = PathOf(i)
<1> DEFINE S == {k \in FileBlocks : PathOf(k) = PathOf(i)}
<1>1. S \subseteq Nat /\ S # {}
  BY SamePathFinite
<1>2. PICK j \in S : \A k \in S : ~(<<k, j>> \in OpToRel(<, Nat))
  BY <1>1, WFMin, NatLessThanWellFounded
<1>3. \A k \in S : ~(k < j)
  BY <1>1, <1>2 DEF OpToRel
<1>4. \A k \in SamePath(j) : k = j
  BY <1>1, <1>3 DEF SamePath
<1> QED
  BY <1>4, FirstKeepsPath

(* A file the answer names is created under exactly that name              *)
(* (artifacts.py:144, 225): of the blocks with one path the first keeps    *)
(* it, whether it was named by the answer, the prompt or a default.        *)
THEOREM NamedFilesAlwaysExist == AnswerSpec => []NamedFilesExist
<1>1. BlocksOK => NamedFilesExist
  <2> SUFFICES ASSUME BlocksOK, NEW i \in Named
               PROVE  answer[i].path \in DOMAIN Files
    BY DEF NamedFilesExist
  <2>1. i \in FileBlocks /\ PathOf(i) = answer[i].path
    BY DEF Named, PathOf
  <2>2. PICK j \in FileBlocks : Deduped(j) = answer[i].path
    BY <2>1, FirstFile
  <2>3. Artifacts = [b \in FileBlocks |-> Deduped(b)]
    BY <2>1 DEF Artifacts
  <2> QED
    BY <2>2, <2>3 DEF Files, Range
<1> QED
  BY <1>1, BlocksAlwaysOK, PTL

LEMMA OneAtLeast ==
    ASSUME BlocksOK, NEW i \in FileBlocks
    PROVE  Cardinality(SamePath(i)) # 0
  BY SamePathFinite, FS_EmptySet

LEMMA PathNums ==
    ASSUME NEW path, NEW dir, NEW name, NEW nums, path = Path(dir, name, nums)
    PROVE  path.nums = nums
  BY DEF Path

LEMMA AppendToOne ==
    ASSUME NEW a \in Nat, NEW b \in Nat
    PROVE  Len(Append(<<a>>, b)) = 2 /\ Append(<<a>>, b)[1] = a
  OBVIOUS

LEMMA LongerDiffers ==
    ASSUME NEW s \in Seq(Nat), NEW a \in Nat, NEW b \in Nat, a # b
    PROVE  Append(s, b) # s /\ Append(s, a) # Append(s, b)
<1>1. Len(s) \in Nat /\ Len(Append(s, b)) = Len(s) + 1
  OBVIOUS
<1>2. Append(s, a)[Len(s) + 1] = a /\ Append(s, b)[Len(s) + 1] = b
  OBVIOUS
<1>3. Append(s, b) # s
  BY <1>1
<1>4. Append(s, a) # Append(s, b)
  BY <1>2
<1> QED
  BY <1>3, <1>4

(* Without names in the answer the files get different paths.              *)
LEMMA UnnamedDiffer ==
    ASSUME BlocksOK, Named = {}, \A n \in DOMAIN prompt : Len(prompt[n].nums) <= 1,
           NEW i \in FileBlocks, NEW k \in FileBlocks, i < k
    PROVE  Deduped(i) # Deduped(k)
<1> DEFINE n(b) == Cardinality(SamePath(b))
<1>1. /\ i \in Nat \ {0} /\ k \in Nat \ {0} /\ n(i) \in Nat /\ n(k) \in Nat
      /\ \A b \in FileBlocks : b \in Nat \ {0}
  BY SamePathFinite
<1>2. \A b \in FileBlocks : PathOf(b) = IF b <= Len(prompt) THEN prompt[b] ELSE InferPath(answer[b].language, b)
  BY DEF PathOf, Named
<1>3. \A b \in FileBlocks : Deduped(b) = IF n(b) = 1 THEN PathOf(b)
                                         ELSE Path("", PathOf(b).name, Append(PathOf(b).nums, n(b)))
  BY DEF Deduped, SamePath
<1>4. PathOf(i) = PathOf(k) => n(i) < n(k)
  BY SamePathGrows
<1> HIDE DEF n
<1>5. CASE Len(prompt) = 1
  <2>1. PathOf(i) = prompt[1] /\ PathOf(k) = prompt[1]
    BY <1>1, <1>2, <1>5 DEF InferPath
  <2>2. prompt[1].nums \in Seq(Nat)
    BY <1>5, PromptOnce, ArtifactsAssumption
  <2>3. n(i) < n(k)
    BY <1>4, <2>1
  <2>4. n(k) # 1 /\ n(i) # n(k)
    BY <1>1, <2>3, SamePathFinite, OneAtLeast DEF n
  <2>5. Deduped(k) = Path("", prompt[1].name, Append(prompt[1].nums, n(k)))
    BY <1>3, <2>1, <2>4
  <2>6. /\ Append(prompt[1].nums, n(k)) # prompt[1].nums
        /\ Append(prompt[1].nums, n(i)) # Append(prompt[1].nums, n(k))
    BY <1>1, <2>2, <2>4, LongerDiffers
  <2>7. Deduped(k).nums = Append(prompt[1].nums, n(k))
    <3> DEFINE nums == Append(prompt[1].nums, n(k))
    <3>1. Deduped(k) = Path("", prompt[1].name, nums)
      BY <2>5
    <3> HIDE DEF nums
    <3>2. Deduped(k).nums = nums
      BY <3>1, PathNums
    <3> QED
      BY <3>2 DEF nums
  <2>8. CASE n(i) = 1
    <3>1. Deduped(i) = prompt[1]
      BY <1>3, <2>1, <2>8
    <3> QED
      BY <2>6, <2>7, <3>1
  <2>9. CASE n(i) # 1
    <3>1. Deduped(i) = Path("", prompt[1].name, Append(prompt[1].nums, n(i)))
      BY <1>3, <2>1, <2>9
    <3>2. Deduped(i).nums = Append(prompt[1].nums, n(i))
      <4> DEFINE nums == Append(prompt[1].nums, n(i))
      <4>1. Deduped(i) = Path("", prompt[1].name, nums)
        BY <3>1
      <4> HIDE DEF nums
      <4>2. Deduped(i).nums = nums
        BY <4>1, PathNums
      <4> QED
        BY <4>2 DEF nums
    <3> QED
      BY <2>6, <2>7, <3>2
  <2> QED
    BY <2>8, <2>9
<1>6. CASE Len(prompt) # 1
  <2>1. ASSUME NEW b \in FileBlocks
        PROVE  /\ n(b) = 1 => Deduped(b) = PathOf(b) /\ Len(PathOf(b).nums) <= 1
               /\ n(b) # 1 => Len(Deduped(b).nums) = 2 /\ Deduped(b).nums[1] = b
    <3>1. CASE b <= Len(prompt)
      <4>1. \A j \in SamePath(b) : j = b
        <5> TAKE j \in SamePath(b)
        <5>1. j \in FileBlocks /\ j <= b /\ PathOf(j) = PathOf(b)
          BY DEF SamePath
        <5>2. j \in 1 .. Len(prompt) /\ b \in 1 .. Len(prompt)
          BY <1>1, <3>1, <5>1, PromptOnce
        <5>3. prompt[j] = prompt[b]
          BY <1>2, <5>1, <5>2
        <5> QED
          BY <5>2, <5>3, PromptOnce
      <4>2. n(b) = 1
        BY <4>1, FirstKeepsPath DEF n
      <4>3. b \in DOMAIN prompt /\ PathOf(b) = prompt[b]
        BY <1>1, <1>2, <3>1, PromptOnce
      <4> QED
        BY <1>3, <4>2, <4>3
    <3>2. CASE ~(b <= Len(prompt))
      <4>1. PathOf(b) = Path("", DefaultName[answer[b].language], IF b = 1 THEN <<>> ELSE <<b>>)
        BY <1>2, <1>6, <3>2 DEF InferPath
      <4>2. b = 1 => n(b) = 1
        <5>1. ASSUME b = 1, NEW j \in SamePath(b) PROVE j = b
          BY <1>1, <5>1 DEF SamePath
        <5> QED
          BY <5>1, FirstKeepsPath DEF n
      <4>3. PathOf(b).nums = IF b = 1 THEN <<>> ELSE <<b>>
        <5> DEFINE name == DefaultName[answer[b].language]
                   nums == IF b = 1 THEN <<>> ELSE <<b>>
        <5>1. PathOf(b) = Path("", name, nums)
          BY <4>1
        <5> HIDE DEF name, nums
        <5>2. PathOf(b).nums = nums
          BY <5>1, PathNums
        <5> QED
          BY <5>2 DEF nums
      <4>4. Len(PathOf(b).nums) <= 1
        <5>1. CASE b = 1
          BY <4>3, <5>1
        <5>2. CASE b # 1
          BY <4>3, <5>2
        <5> QED
          BY <5>1, <5>2
      <4>5. CASE n(b) = 1
        BY <1>3, <4>4, <4>5
      <4>6. CASE n(b) # 1
        <5>1. PathOf(b).nums = <<b>>
          BY <4>2, <4>3, <4>6
        <5>2. Deduped(b) = Path("", PathOf(b).name, Append(<<b>>, n(b)))
          BY <1>3, <4>6, <5>1
        <5>3. Deduped(b).nums = Append(<<b>>, n(b))
          BY <5>2, PathNums
        <5>4. Len(Append(<<b>>, n(b))) = 2 /\ Append(<<b>>, n(b))[1] = b
          BY <1>1, SamePathFinite, AppendToOne DEF n
        <5> QED
          BY <4>6, <5>3, <5>4
      <4> QED
        BY <4>5, <4>6
    <3> QED
      BY <3>1, <3>2
  <2>2. CASE n(i) = 1 /\ n(k) = 1
    BY <1>4, <2>1, <2>2
  <2>3. CASE n(i) = 1 /\ n(k) # 1
    BY <2>1, <2>3
  <2>4. CASE n(i) # 1 /\ n(k) = 1
    BY <2>1, <2>4
  <2>5. CASE n(i) # 1 /\ n(k) # 1
    BY <1>1, <2>1, <2>5
  <2> QED
    BY <2>2, <2>3, <2>4, <2>5
<1> QED
  BY <1>5, <1>6

(* An answer that names no file loses no block, whatever files the prompt  *)
(* names, as long as none of them has two numbers                          *)
(* (artifacts.py:152-164, 220-233).                                        *)
THEOREM UnnamedBlocksAlwaysSurvive == AnswerSpec => []UnnamedBlocksSurvive
<1>1. BlocksOK => UnnamedBlocksSurvive
  <2> SUFFICES ASSUME BlocksOK, Named = {}, \A n \in DOMAIN prompt : Len(prompt[n].nums) <= 1,
                      NEW i \in FileBlocks
               PROVE  i \in Range(Files)
    BY DEF UnnamedBlocksSurvive
  <2>1. Artifacts = [b \in FileBlocks |-> Deduped(b)]
    BY DEF Artifacts
  <2>2. \A k \in FileBlocks : Deduped(k) = Deduped(i) => k = i
    <3>1. \A k \in FileBlocks : k \in Nat
      BY SamePathFinite
    <3>2. \A k \in FileBlocks : k < i \/ i < k => Deduped(k) # Deduped(i)
      BY UnnamedDiffer
    <3> QED
      BY <3>1, <3>2
  <2>3. Deduped(i) \in DOMAIN Files
    BY <2>1 DEF Files, Range
  <2>4. Files[Deduped(i)] = i
    <3>1. i <= i
      BY SamePathFinite
    <3> QED
      BY <2>1, <2>2, <2>3, <3>1 DEF Files
  <2> QED
    BY <2>3, <2>4 DEF Range
<1> QED
  BY <1>1, BlocksAlwaysOK, PTL

=============================================================================
