---------------------------- MODULE LedgerProofs ----------------------------
(***************************************************************************)
(* Proofs about the credit ledger, for every set of users, jobs and prices *)
(* and every bound: type correctness (balances never negative), the match  *)
(* of pending rows and holds, the refinement of the abstract escrow, and   *)
(* the sums over rows, accounts and jobs that make the books balance.      *)
(***************************************************************************)
EXTENDS Ledger, FiniteSetTheorems, TLAPS

-----------------------------------------------------------------------------
(* The worker's share *)

(* The truncated seventy percent of a cost is a whole number.              *)
LEMMA SeventyPercentType ==
    ASSUME NEW cost \in Nat
    PROVE  SeventyPercent(cost) \in Int
<1>1. (7 * cost) \div 10 \in Int
  OBVIOUS
<1>2. ASSUME NEW b \in {0, 1}
      PROVE  (7 * cost) \div 10 - b \in Int
  BY <1>1
<1> DEFINE m == cost \div 10
           b == IF cost % 10 = 0 /\ m > 0 /\ ~(\E k \in 0 .. 30 : 4 * m <= 2^k /\ 2^k <= 7 * m)
                THEN 1 ELSE 0
<1>3. b \in {0, 1}
  OBVIOUS
<1>4. SeventyPercent(cost) = (7 * cost) \div 10 - b
  BY DEF SeventyPercent
<1> HIDE DEF b
<1> QED
  BY <1>2, <1>3, <1>4

(* A job that costs anything pays its worker at least one credit and at    *)
(* most its cost (ledger.py:131-133); a free one pays nothing.             *)
LEMMA WorkerShareBounds ==
    ASSUME NEW cost \in Nat
    PROVE  /\ WorkerShare(cost) \in 0 .. cost
           /\ cost > 0 => WorkerShare(cost) >= 1
  BY SeventyPercentType DEF WorkerShare

-----------------------------------------------------------------------------
(* Type correctness *)

LEMMA RowType ==
    ASSUME LedgerTypeOK, NEW k \in Nat, NEW user \in Accounts, NEW type \in EntryType,
           NEW amount \in Int, NEW source \in Source, NEW job \in JobIds \cup {NoJob}
    PROVE  Row(k, user, type, amount, source, job) \in CreditTransaction
  BY DEF LedgerTypeOK, Row, CreditTransaction

LEMMA PendingRowType ==
    ASSUME LedgerTypeOK, NEW user \in Accounts, NEW amount \in Nat, NEW job \in JobIds
    PROVE  PendingRow(user, amount, job) \in CreditTransaction
  BY DEF LedgerTypeOK, PendingRow, CreditTransaction, EntryType, Source

(* Recording a well-formed row keeps the rows well formed.                 *)
LEMMA RecordType ==
    ASSUME LedgerTypeOK, NEW row \in CreditTransaction, Record(row)
    PROVE  /\ transactions' \subseteq CreditTransaction
           /\ nextEntry' \in Nat
  BY DEF LedgerTypeOK, Record

(* What settle appends and removes leaves well-formed rows.                *)
LEMMA SettlementRowsType ==
    ASSUME LedgerTypeOK, NEW job \in JobIds, NEW payer \in Accounts, NEW owner \in Accounts,
           NEW cost \in Nat, NEW refund \in Nat, NEW share \in Nat, NEW fee \in Nat
    PROVE  SettlementRows(job, payer, owner, cost, refund, share, fee) \subseteq CreditTransaction
<1>1. Platform \in Accounts
  BY DEF Accounts
<1>2. Row(0, payer, "spend", -cost, "job_execution", job) \in CreditTransaction
  BY RowType DEF EntryType, Source
<1>3. Row(1, payer, "refund", refund, "unused_reserved_credits", job) \in CreditTransaction
  BY RowType DEF EntryType, Source
<1>4. Row(2, owner, "earn", share, "job_execution", job) \in CreditTransaction
  BY RowType DEF EntryType, Source
<1>5. Row(3, Platform, "adjustment", fee, "platform_fee", job) \in CreditTransaction
  BY <1>1, RowType DEF EntryType, Source
<1> QED
  BY <1>2, <1>3, <1>4, <1>5 DEF SettlementRows

(* A settlement within the hold splits it into whole, non-negative parts.  *)
LEMMA SettlementParts ==
    ASSUME NEW amount \in Nat, NEW cost \in Nat, cost <= amount
    PROVE  /\ amount - cost \in Nat
           /\ WorkerShare(cost) \in Nat
           /\ cost - WorkerShare(cost) \in Nat
           /\ (amount - cost) + WorkerShare(cost) + (cost - WorkerShare(cost)) = amount
  BY WorkerShareBounds

LEMMA LedgerInitType == LedgerInit => LedgerTypeOK
  BY DEF LedgerInit, LedgerTypeOK, EmptyDict

LEMMA RegisterUserType ==
    ASSUME LedgerTypeOK, NEW user \in Accounts, RegisterUser(user)
    PROVE  LedgerTypeOK'
  BY DEF LedgerTypeOK, RegisterUser

LEMMA BootstrapType ==
    ASSUME LedgerTypeOK, NEW user \in Users, NEW amount \in Nat, Bootstrap(user, amount)
    PROVE  LedgerTypeOK'
<1>1. user \in Accounts
  BY DEF Accounts
<1>2. Row(0, user, "adjustment", amount, "bootstrap_credits", NoJob) \in CreditTransaction
  BY <1>1, RowType DEF EntryType, Source
<1>3. transactions' \subseteq CreditTransaction /\ nextEntry' \in Nat
  BY <1>2, RecordType DEF Bootstrap
<1>4. available' \in [Accounts -> Nat] /\ registered' \subseteq Accounts
  BY <1>1 DEF LedgerTypeOK, Bootstrap
<1> QED
  BY <1>3, <1>4 DEF LedgerTypeOK, Bootstrap

LEMMA PurchaseType ==
    ASSUME LedgerTypeOK, NEW user \in Users, NEW amount \in Nat, Purchase(user, amount)
    PROVE  LedgerTypeOK'
<1>1. user \in Accounts
  BY DEF Accounts
<1>2. Row(0, user, "purchase", amount, "usd_purchase", NoJob) \in CreditTransaction
  BY <1>1, RowType DEF EntryType, Source
<1>3. transactions' \subseteq CreditTransaction /\ nextEntry' \in Nat
  BY <1>2, RecordType DEF Purchase
<1>4. available' \in [Accounts -> Nat] /\ registered' \subseteq Accounts
  BY <1>1 DEF LedgerTypeOK, Purchase
<1> QED
  BY <1>3, <1>4 DEF LedgerTypeOK, Purchase

LEMMA AdminAdjustType ==
    ASSUME LedgerTypeOK, NEW account \in Accounts, NEW amount \in Int,
           AdminAdjust(account, amount)
    PROVE  LedgerTypeOK'
<1>1. Row(0, account, "adjustment", amount, "admin_adjustment", NoJob) \in CreditTransaction
  BY RowType DEF EntryType, Source
<1>2. transactions' \subseteq CreditTransaction /\ nextEntry' \in Nat
  BY <1>1, RecordType DEF AdminAdjust
<1>3. available' \in [Accounts -> Nat]
  BY DEF LedgerTypeOK, AdminAdjust
<1> QED
  BY <1>2, <1>3 DEF LedgerTypeOK, AdminAdjust

LEMMA ReserveType ==
    ASSUME LedgerTypeOK, NEW user \in Users, NEW job \in JobIds, NEW amount \in Nat \ {0},
           Reserve(user, job, amount)
    PROVE  LedgerTypeOK'
<1>1. user \in Accounts
  BY DEF Accounts
<1>2. PendingRow(user, amount, job) \in CreditTransaction
  BY <1>1, PendingRowType
<1>3. transactions' \subseteq CreditTransaction /\ nextEntry' \in Nat
  BY <1>2, RecordType DEF Reserve
<1>4. available' \in [Accounts -> Nat] /\ registered' \subseteq Accounts
  BY <1>1 DEF LedgerTypeOK, Reserve
<1>5. DOMAIN holds' \subseteq JobIds /\ \A j \in DOMAIN holds' : holds'[j] \in CreditHold
  BY DEF LedgerTypeOK, Reserve, With, CreditHold
<1> QED
  BY <1>3, <1>4, <1>5 DEF LedgerTypeOK, Reserve

LEMMA ReleaseType ==
    ASSUME LedgerTypeOK, NEW job \in JobIds, NEW source \in ReleaseSource, Release(job, source)
    PROVE  LedgerTypeOK'
<1> DEFINE hold == holds[job]
<1>1. hold \in CreditHold /\ hold.user \in Accounts /\ hold.amount \in Nat
  BY DEF Release, LedgerTypeOK, CreditHold, Accounts
<1>2. Row(0, hold.user, "refund", hold.amount, source, job) \in CreditTransaction
  BY <1>1, RowType DEF EntryType, Source, ReleaseSource
<1>3. transactions' \subseteq CreditTransaction /\ nextEntry' \in Nat
  BY <1>2 DEF Release, LedgerTypeOK, WithoutPending
<1>4. available' \in [Accounts -> Nat]
  BY <1>1 DEF LedgerTypeOK, Release
<1>5. DOMAIN holds' \subseteq JobIds /\ \A j \in DOMAIN holds' : holds'[j] \in CreditHold
  BY DEF LedgerTypeOK, Release, HoldsWithout, Restrict
<1> QED
  BY <1>3, <1>4, <1>5 DEF LedgerTypeOK, Release

LEMMA SettleType ==
    ASSUME LedgerTypeOK, NEW job \in JobIds, NEW owner \in Users, NEW cost \in Nat,
           Settle(job, owner, cost)
    PROVE  LedgerTypeOK'
<1>1. DOMAIN holds' \subseteq JobIds /\ \A j \in DOMAIN holds' : holds'[j] \in CreditHold
  BY DEF LedgerTypeOK, Settle, HoldsWithout, Restrict
<1> DEFINE hold == holds[job]
           refund == hold.amount - cost
           share == WorkerShare(cost)
           fee == cost - share
<1>2. hold \in CreditHold /\ hold.user \in Accounts /\ hold.amount \in Nat
  BY DEF Settle, LedgerTypeOK, CreditHold, Accounts
<1>3. CASE cost > hold.amount
  BY <1>1, <1>2, <1>3 DEF Settle, LedgerTypeOK
<1>4. CASE cost <= hold.amount
  <2>1. refund \in Nat /\ share \in Nat /\ fee \in Nat
    BY <1>2, <1>4, SettlementParts
  <2>2. owner \in Accounts /\ Platform \in Accounts
    BY DEF Accounts
  <2>3. /\ registered' = registered \cup {hold.user, owner, Platform}
        /\ available' = CreditedBalances(hold.user, owner, refund, share, fee)
        /\ spent' = [spent EXCEPT ![hold.user] = @ + cost]
        /\ earned' = CreditedEarnings(owner, share, fee)
        /\ transactions' = WithoutPending(job, hold.user) \cup
             SettlementRows(job, hold.user, owner, cost, refund, share, fee)
        /\ nextEntry' = nextEntry + 4
    BY <1>2, <1>4 DEF Settle
  <2> HIDE DEF hold, refund, share, fee
  <2>4. transactions' \subseteq CreditTransaction /\ nextEntry' \in Nat
    <3>1. SettlementRows(job, hold.user, owner, cost, refund, share, fee)
            \subseteq CreditTransaction
      BY <1>2, <2>1, <2>2, SettlementRowsType
    <3>2. WithoutPending(job, hold.user) \subseteq CreditTransaction
      BY DEF LedgerTypeOK, WithoutPending
    <3> QED
      BY <2>3, <3>1, <3>2 DEF LedgerTypeOK
  <2>5. available' \in [Accounts -> Nat]
    BY <1>2, <2>1, <2>2, <2>3 DEF LedgerTypeOK, CreditedBalances
  <2>6. earned' \in [Accounts -> Nat] /\ spent' \in [Accounts -> Nat]
    BY <1>2, <2>1, <2>2, <2>3 DEF LedgerTypeOK, CreditedEarnings
  <2>7. registered' \subseteq Accounts
    BY <1>2, <2>2, <2>3 DEF LedgerTypeOK
  <2> QED
    BY <1>1, <2>4, <2>5, <2>6, <2>7 DEF LedgerTypeOK
<1> QED
  BY <1>2, <1>3, <1>4

LEMMA LedgerTypeStep ==
    ASSUME LedgerTypeOK, [LedgerNext]_ledgerVars
    PROVE  LedgerTypeOK'
<1> USE LedgerAssumption DEF Accounts
<1>1. CASE \E user \in Users : RegisterUser(user)
  BY <1>1, RegisterUserType
<1>2. CASE \E user \in Users, amount \in Grants : Bootstrap(user, amount)
  BY <1>2, BootstrapType
<1>3. CASE \E user \in Users, amount \in Grants : Purchase(user, amount)
  BY <1>3, PurchaseType
<1>4. CASE \E account \in Accounts, amount \in Adjustments : AdminAdjust(account, amount)
  BY <1>4, AdminAdjustType
<1>5. CASE \E job \in JobIds : LedgerReserve(job)
  BY <1>5, ReserveType DEF LedgerReserve
<1>6. CASE \E job \in JobIds : LedgerRelease(job)
  BY <1>6, ReleaseType DEF LedgerRelease
<1>7. CASE \E job \in JobIds : LedgerSettle(job)
  BY <1>7, SettleType DEF LedgerSettle
<1>8. CASE UNCHANGED ledgerVars
  BY <1>8 DEF ledgerVars, LedgerTypeOK
<1> QED
  BY <1>1, <1>2, <1>3, <1>4, <1>5, <1>6, <1>7, <1>8 DEF LedgerNext

(* Every wallet, hold and row of the ledger keeps its type; in particular  *)
(* no balance is ever negative (ledger.py:62, service.py:566).             *)
THEOREM LedgerTypeCorrect == LedgerSpec => []LedgerTypeOK
<1>1. LedgerTypeOK /\ [LedgerNext]_ledgerVars => LedgerTypeOK'
  BY LedgerTypeStep
<1> QED
  BY <1>1, LedgerInitType, PTL DEF LedgerSpec

-----------------------------------------------------------------------------
(* Pending rows and holds *)

(* A call that neither touches the holds nor a pending row.                *)
LEMMA PendingUntouched ==
    ASSUME PendingMatchesHolds,
           holds' = holds,
           transactions \subseteq transactions',
           \A t \in transactions' \ transactions : ~t.pending
    PROVE  PendingMatchesHolds'
  BY DEF PendingMatchesHolds

LEMMA RecordKeepsPending ==
    ASSUME PendingMatchesHolds, holds' = holds,
           NEW k \in Nat, NEW user, NEW type, NEW amount, NEW source, NEW job,
           Record(Row(k, user, type, amount, source, job))
    PROVE  PendingMatchesHolds'
<1>1. transactions \subseteq transactions'
  BY DEF Record
<1>2. \A t \in transactions' \ transactions : ~t.pending
  BY DEF Record, Row
<1> QED
  BY <1>1, <1>2, PendingUntouched

(* Reserve adds the hold of a fresh job and its row.                       *)
LEMMA ReserveKeepsPending ==
    ASSUME LedgerTypeOK, PendingMatchesHolds,
           NEW user \in Users, NEW job \in JobIds, NEW amount \in Nat \ {0},
           FreshJob(job), Reserve(user, job, amount)
    PROVE  PendingMatchesHolds'
<1> DEFINE row == PendingRow(user, amount, job)
<1>1. /\ transactions' = transactions \cup {row}
      /\ DOMAIN holds' = DOMAIN holds \cup {job}
      /\ holds'[job] = [user |-> user, amount |-> amount]
      /\ \A j \in DOMAIN holds : holds'[j] = holds[j]
  BY DEF Reserve, Record, With, FreshJob
<1>2. /\ row.job = job /\ row.user = user /\ row.amount = -amount /\ row.pending
      /\ row.type = "spend" /\ row.source = "job_reservation"
  BY DEF PendingRow
<1>3. \A t \in transactions : t.job # job
  BY DEF FreshJob
<1> HIDE DEF row
<1>4. \A t \in transactions' :
        t.pending => /\ t.job \in DOMAIN holds'
                     /\ t.user = holds'[t.job].user
                     /\ t.amount = -holds'[t.job].amount
                     /\ t.type = "spend" /\ t.source = "job_reservation"
  BY <1>1, <1>2, <1>3 DEF PendingMatchesHolds
<1>5. \A j \in DOMAIN holds' : \E t \in transactions' : t.job = j /\ t.pending
  BY <1>1, <1>2 DEF PendingMatchesHolds
<1>6. \A t1, t2 \in transactions' :
        t1.pending /\ t2.pending /\ t1.job = t2.job => t1 = t2
  BY <1>1, <1>2, <1>3 DEF PendingMatchesHolds
<1> QED
  BY <1>4, <1>5, <1>6 DEF PendingMatchesHolds

(* Closing a job drops its hold and every pending row it has; the rows it  *)
(* adds are not pending.                                                   *)
LEMMA CloseKeepsPending ==
    ASSUME PendingMatchesHolds,
           NEW job \in DOMAIN holds,
           holds' = HoldsWithout(job),
           NEW rows, \A t \in rows : ~t.pending,
           transactions' = WithoutPending(job, holds[job].user) \cup rows
    PROVE  PendingMatchesHolds'
<1>1. /\ DOMAIN holds' = DOMAIN holds \ {job}
      /\ \A j \in DOMAIN holds' : holds'[j] = holds[j]
  BY DEF HoldsWithout, Restrict
<1>2. \A t \in transactions' : t.pending => t \in transactions /\ t.job # job
  BY DEF WithoutPending, IsPendingReservation, PendingMatchesHolds
<1>3. \A t \in transactions : t.pending /\ t.job # job => t \in transactions'
  BY DEF WithoutPending, IsPendingReservation
<1> QED
  BY <1>1, <1>2, <1>3 DEF PendingMatchesHolds

LEMMA ReleaseKeepsPending ==
    ASSUME PendingMatchesHolds, NEW job, NEW source, Release(job, source)
    PROVE  PendingMatchesHolds'
<1> DEFINE rows == {Row(0, holds[job].user, "refund", holds[job].amount, source, job)}
<1>1. \A t \in rows : ~t.pending
  BY DEF Row
<1>2. transactions' = WithoutPending(job, holds[job].user) \cup rows
  BY DEF Release
<1> HIDE DEF rows
<1> QED
  BY <1>1, <1>2, CloseKeepsPending DEF Release

LEMMA SettlementRowsNotPending ==
    ASSUME NEW job, NEW payer, NEW owner, NEW cost, NEW refund, NEW share, NEW fee
    PROVE  \A t \in SettlementRows(job, payer, owner, cost, refund, share, fee) : ~t.pending
  BY DEF SettlementRows, Row

LEMMA SettleKeepsPending ==
    ASSUME LedgerTypeOK, PendingMatchesHolds,
           NEW job \in JobIds, NEW owner \in Users, NEW cost \in Nat,
           Settle(job, owner, cost), cost <= holds[job].amount
    PROVE  PendingMatchesHolds'
<1> DEFINE hold == holds[job]
           share == WorkerShare(cost)
           rows == SettlementRows(job, hold.user, owner, cost, hold.amount - cost,
                                  share, cost - share)
<1>1. hold.amount \in Nat
  BY DEF Settle, LedgerTypeOK, CreditHold
<1>2. transactions' = WithoutPending(job, hold.user) \cup rows
  BY <1>1 DEF Settle
<1>3. \A t \in rows : ~t.pending
  BY SettlementRowsNotPending
<1>4. job \in DOMAIN holds /\ holds' = HoldsWithout(job)
  BY DEF Settle
<1> HIDE DEF rows
<1> QED
  BY <1>2, <1>3, <1>4, CloseKeepsPending

LEMMA PendingStep ==
    ASSUME LedgerTypeOK, PendingMatchesHolds, [LedgerNext]_ledgerVars
    PROVE  PendingMatchesHolds'
<1> USE LedgerAssumption
<1>1. CASE \E user \in Users : RegisterUser(user)
  BY <1>1 DEF RegisterUser, PendingMatchesHolds
<1>2. CASE \E user \in Users, amount \in Grants : Bootstrap(user, amount)
  BY <1>2, RecordKeepsPending DEF Bootstrap
<1>3. CASE \E user \in Users, amount \in Grants : Purchase(user, amount)
  BY <1>3, RecordKeepsPending DEF Purchase
<1>4. CASE \E account \in Accounts, amount \in Adjustments : AdminAdjust(account, amount)
  BY <1>4, RecordKeepsPending DEF AdminAdjust
<1>5. CASE \E job \in JobIds : LedgerReserve(job)
  BY <1>5, ReserveKeepsPending DEF LedgerReserve
<1>6. CASE \E job \in JobIds : LedgerRelease(job)
  BY <1>6, ReleaseKeepsPending DEF LedgerRelease
<1>7. CASE \E job \in JobIds : LedgerSettle(job)
  BY <1>7, SettleKeepsPending DEF LedgerSettle
<1>8. CASE UNCHANGED ledgerVars
  BY <1>8 DEF ledgerVars, PendingMatchesHolds
<1> QED
  BY <1>1, <1>2, <1>3, <1>4, <1>5, <1>6, <1>7, <1>8 DEF LedgerNext

(* Pending rows and open holds always correspond one to one                *)
(* (ledger.py:58-80, 310-321).                                             *)
THEOREM PendingRowsMatchHolds == LedgerSpec => []PendingMatchesHolds
<1>1. LedgerInit => PendingMatchesHolds
  BY DEF LedgerInit, PendingMatchesHolds, EmptyDict
<1>2. LedgerTypeOK /\ PendingMatchesHolds /\ [LedgerNext]_ledgerVars => PendingMatchesHolds'
  BY PendingStep
<1> QED
  BY <1>1, <1>2, LedgerTypeCorrect, PTL DEF LedgerSpec

-----------------------------------------------------------------------------
(* The ledger implements the abstract escrow *)

(* A call that adds rows of no job closes no job.                          *)
LEMMA ClosedUntouched ==
    ASSUME holds' = holds,
           NEW row, row.job \notin JobIds,
           transactions' = transactions \cup {row}
    PROVE  ClosedJobs' = ClosedJobs
  BY DEF ClosedJobs, JobRows

LEMMA ReserveClosesNothing ==
    ASSUME NEW user \in Users, NEW job \in JobIds, NEW amount \in Nat,
           FreshJob(job), Reserve(user, job, amount)
    PROVE  ClosedJobs' = ClosedJobs
<1> DEFINE row == PendingRow(user, amount, job)
<1>1. row.job = job
  BY DEF PendingRow
<1>2. DOMAIN holds' = DOMAIN holds \cup {job} /\ transactions' = transactions \cup {row}
  BY DEF Reserve, Record, With
<1> HIDE DEF row
<1>3. job \notin ClosedJobs
  BY DEF FreshJob, ClosedJobs, JobRows
<1> QED
  BY <1>1, <1>2, <1>3 DEF ClosedJobs, JobRows

(* Popping a hold and recording a row of its job closes that job alone.    *)
LEMMA CloseClosesJob ==
    ASSUME NEW job \in JobIds, job \in DOMAIN holds, holds' = HoldsWithout(job),
           NEW user, NEW rows, rows # {}, \A t \in rows : t.job = job,
           transactions' = WithoutPending(job, user) \cup rows
    PROVE  ClosedJobs' = ClosedJobs \cup {job}
<1>1. DOMAIN holds' = DOMAIN holds \ {job}
  BY DEF HoldsWithout, Restrict
<1>2. \A j \in JobIds \ {job} : JobRows(j)' = JobRows(j)
  BY DEF JobRows, WithoutPending, IsPendingReservation
<1>3. JobRows(job)' # {}
  BY DEF JobRows
<1> QED
  BY <1>1, <1>2, <1>3 DEF ClosedJobs

LEMMA MintIsDeposit ==
    ASSUME LedgerTypeOK', LedgerTypeOK, NEW account \in Accounts, NEW amount \in Int,
           available' = [available EXCEPT ![account] = @ + amount],
           holds' = holds,
           NEW type, NEW source, Record(Row(0, account, type, amount, source, NoJob))
    PROVE  Escrow!Deposit(account)
<1>1. ClosedJobs' = ClosedJobs
  <2> DEFINE row == Row(0, account, type, amount, source, NoJob)
  <2>1. row.job \notin JobIds
    BY LedgerAssumption DEF Row
  <2>2. transactions' = transactions \cup {row}
    BY DEF Record
  <2> HIDE DEF row
  <2> QED
    BY <2>1, <2>2, ClosedUntouched
<1> QED
  BY <1>1 DEF LedgerTypeOK, Escrow!Deposit

LEMMA ReserveIsPutAside ==
    ASSUME NEW user \in Users, NEW job \in JobIds, NEW amount \in Nat,
           FreshJob(job), Reserve(user, job, amount)
    PROVE  Escrow!PutAside(user, job, amount)
<1>1. job \notin DOMAIN holds \cup ClosedJobs
  BY DEF FreshJob, ClosedJobs, JobRows
<1>2. ClosedJobs' = ClosedJobs
  BY ReserveClosesNothing
<1> QED
  BY <1>1, <1>2 DEF Reserve, With, Escrow!PutAside

LEMMA ReleaseIsGiveBack ==
    ASSUME NEW job \in JobIds, NEW source, Release(job, source)
    PROVE  Escrow!GiveBack(job)
<1> DEFINE rows == {Row(0, holds[job].user, "refund", holds[job].amount, source, job)}
<1>1. rows # {} /\ \A t \in rows : t.job = job
  BY DEF Row
<1>2. transactions' = WithoutPending(job, holds[job].user) \cup rows
  BY DEF Release
<1> HIDE DEF rows
<1>3. ClosedJobs' = ClosedJobs \cup {job}
  BY <1>1, <1>2, CloseClosesJob DEF Release
<1> QED
  BY <1>3 DEF Release, HoldsWithout, Restrict, Escrow!GiveBack, Escrow!Close

LEMMA SettleIsPayOut ==
    ASSUME LedgerTypeOK, NEW job \in JobIds, NEW owner \in Users, NEW cost \in Nat \ {0},
           Settle(job, owner, cost), cost <= holds[job].amount, owner # holds[job].user
    PROVE  Escrow!PayOutAll(job, owner)
<1> DEFINE amount == holds[job].amount
           payer == holds[job].user
           share == WorkerShare(cost)
           fee == cost - share
           rows == SettlementRows(job, payer, owner, cost, amount - cost, share, fee)
<1>1. job \in DOMAIN holds /\ holds' = HoldsWithout(job)
  BY DEF Settle
<1>2. amount \in Nat
  BY <1>1 DEF LedgerTypeOK, CreditHold
<1>3. /\ transactions' = WithoutPending(job, payer) \cup rows
      /\ available' = CreditedBalances(payer, owner, amount - cost, share, fee)
  BY <1>2 DEF Settle
<1>4. share \in 1 .. cost
  BY WorkerShareBounds
<1>5. \A t \in rows : t.job = job
  BY DEF SettlementRows, Row
<1>6. rows # {}
  BY DEF SettlementRows
<1>7. owner # Platform
  BY LedgerAssumption
<1> HIDE DEF rows
<1>8. ClosedJobs' = ClosedJobs \cup {job}
  BY <1>1, <1>3, <1>5, <1>6, CloseClosesJob
<1> HIDE DEF share
<1>9. /\ share \in 1 .. amount
      /\ fee \in 0 .. amount - share
      /\ amount - share - fee = amount - cost
  BY <1>2, <1>4
<1>10. Escrow!Close(job)
  BY <1>1, <1>8 DEF Escrow!Close, HoldsWithout, Restrict
<1>11. Escrow!PayOut(job, owner, amount - cost, share, fee)
  BY <1>3, <1>7, <1>10 DEF Escrow!PayOut, CreditedBalances
<1> QED
  BY <1>9, <1>11 DEF Escrow!PayOutAll

(* The ledger, whatever is granted, bought, reserved and settled, behaves  *)
(* as the escrow of module Escrow.                                         *)
THEOREM LedgerImplementsEscrow == LedgerSpec => ImplementsEscrow
<1>1. LedgerInit => Escrow!Init
  BY DEF LedgerInit, EmptyDict, ClosedJobs, JobRows, Escrow!Init
<1>2. LedgerTypeOK /\ LedgerTypeOK' /\ [LedgerNext]_ledgerVars => [Escrow!Next]_(Escrow!vars)
  <2> SUFFICES ASSUME LedgerTypeOK, LedgerTypeOK', [LedgerNext]_ledgerVars
               PROVE  [Escrow!Next]_(Escrow!vars)
    OBVIOUS
  <2> USE LedgerAssumption
  <2> Users \subseteq Accounts
    BY DEF Accounts
  <2>1. CASE \E user \in Users : RegisterUser(user)
    BY <2>1 DEF RegisterUser, ClosedJobs, JobRows, Escrow!vars
  <2>2. CASE \E user \in Users, amount \in Grants : Bootstrap(user, amount)
    <3>1. PICK user \in Users, amount \in Grants : Bootstrap(user, amount)
      BY <2>2
    <3>2. user \in Accounts /\ amount \in Int
      OBVIOUS
    <3>3. Escrow!Deposit(user)
      BY <3>1, <3>2, MintIsDeposit DEF Bootstrap
    <3> QED
      BY <3>2, <3>3 DEF Escrow!Next
  <2>3. CASE \E user \in Users, amount \in Grants : Purchase(user, amount)
    <3>1. PICK user \in Users, amount \in Grants : Purchase(user, amount)
      BY <2>3
    <3>2. user \in Accounts /\ amount \in Int
      OBVIOUS
    <3>3. Escrow!Deposit(user)
      BY <3>1, <3>2, MintIsDeposit DEF Purchase
    <3> QED
      BY <3>2, <3>3 DEF Escrow!Next
  <2>4. CASE \E account \in Accounts, amount \in Adjustments : AdminAdjust(account, amount)
    BY <2>4, MintIsDeposit DEF AdminAdjust, Escrow!Next
  <2>5. CASE \E job \in JobIds : LedgerReserve(job)
    <3>1. PICK job \in JobIds, user \in Users, amount \in Prices :
            FreshJob(job) /\ Reserve(user, job, amount)
      BY <2>5 DEF LedgerReserve
    <3>2. amount \in 1 .. available[user]
      <4>1. available[user] \in Nat /\ amount \in Nat /\ amount >= 1
        BY DEF LedgerTypeOK
      <4>2. available[user] >= amount
        BY <3>1 DEF Reserve
      <4> QED
        BY <4>1, <4>2
    <3>3. Escrow!PutAside(user, job, amount)
      BY <3>1, ReserveIsPutAside
    <3> QED
      BY <3>2, <3>3 DEF Escrow!Next
  <2>6. CASE \E job \in JobIds : LedgerRelease(job)
    BY <2>6, ReleaseIsGiveBack DEF LedgerRelease, Escrow!Next
  <2>7. CASE \E job \in JobIds : LedgerSettle(job)
    BY <2>7, SettleIsPayOut DEF LedgerSettle, Escrow!Next
  <2>8. CASE UNCHANGED ledgerVars
    BY <2>8 DEF ledgerVars, ClosedJobs, JobRows, Escrow!vars
  <2> QED
    BY <2>1, <2>2, <2>3, <2>4, <2>5, <2>6, <2>7, <2>8 DEF LedgerNext
<1> QED
  BY <1>1, <1>2, LedgerTypeCorrect, PTL DEF LedgerSpec, ImplementsEscrow, Escrow!Spec

-----------------------------------------------------------------------------
(* Sums.  SumFunction, the sum of the values of a function with a finite   *)
(* domain, is a fold: it is defined by recursion over the subsets of the   *)
(* domain.  The facts about it are its type and how it changes when one    *)
(* value changes or one element is added; the induction they need is       *)
(* stated over sets (SubsetInduction), from the smallest member of a set   *)
(* of naturals.                                                            *)

(* Induction over the subsets of a finite set *)

(* A nonempty set of natural numbers has a smallest member.                *)
LEMMA SmallestNat ==
    ASSUME NEW T, T \subseteq Nat, T # {}
    PROVE  \E n \in T : \A m \in T : n <= m
<1>1. PICK n \in T : \A m \in T : ~(<<m, n>> \in OpToRel(<, Nat))
  BY WFMin, NatLessThanWellFounded
<1>2. \A m \in T : ~(m < n)
  BY <1>1 DEF OpToRel
<1> QED
  BY <1>2

(* A family of subsets that has every subset whose one-smaller subsets it  *)
(* has (the empty set among them) has all of them.                         *)
LEMMA SubsetInduction ==
    ASSUME NEW S, IsFiniteSet(S), NEW Good,
           \A s \in SUBSET S : (\A x \in s : s \ {x} \in Good) => s \in Good
    PROVE  \A s \in SUBSET S : s \in Good
<1> DEFINE Bad == {s \in SUBSET S : s \notin Good}
           Sizes == {Cardinality(s) : s \in Bad}
<1>1. \A s \in SUBSET S : IsFiniteSet(s) /\ Cardinality(s) \in Nat
  BY FS_Subset, FS_CardinalityType
<1>2. SUFFICES ASSUME Bad # {} PROVE FALSE
  OBVIOUS
<1>3. Sizes \subseteq Nat /\ Sizes # {}
  BY <1>1, <1>2
<1> HIDE DEF Sizes
<1>4. PICK n \in Sizes : \A m \in Sizes : n <= m
  BY <1>3, SmallestNat
<1> USE DEF Sizes
<1>5. PICK s \in Bad : Cardinality(s) = n
  OBVIOUS
<1>6. \A x \in s : s \ {x} \in Good
  <2> TAKE x \in s
  <2>1. s \ {x} \in SUBSET S /\ Cardinality(s \ {x}) = n - 1
    BY <1>1, <1>5, FS_RemoveElement
  <2>2. n \in Nat
    BY <1>1, <1>5
  <2> SUFFICES ASSUME s \ {x} \in Bad PROVE FALSE
    BY <2>1
  <2>3. n - 1 \in Sizes
    BY <2>1
  <2> QED
    BY <1>4, <2>2, <2>3
<1> QED
  BY <1>5, <1>6

-----------------------------------------------------------------------------
(* The recursion behind SumFunction *)

Pick(s) == CHOOSE x \in s : TRUE

LEMMA PickIn ==
    ASSUME NEW s, s # {}
    PROVE  Pick(s) \in s
  BY DEF Pick

(* The sum over s of the values of f, from the sums g of smaller sets.     *)
SumStep(g, f, s) == IF s = {} THEN 0 ELSE f[Pick(s)] + g[s \ {Pick(s)}]

(* The sums of f over the subsets of D, as the fold defines them.          *)
PartialSums(f, D) ==
    CHOOSE g : g = [s \in SUBSET D |->
                      IF s = {} THEN 0 ELSE f[Pick(s)] + g[s \ {Pick(s)}]]

LEMMA SumFunctionUnfold ==
    ASSUME NEW f
    PROVE  SumFunction(f) = PartialSums(f, DOMAIN f)[DOMAIN f]
  BY DEF SumFunction, SumFunctionOnSet, FoldFunctionOnSet, MapThenFoldSet, PartialSums, Pick

(* g is right on the subsets of D with at most n members.                  *)
SumsUpTo(g, f, D, n) ==
    /\ g \in [SUBSET D -> Int]
    /\ \A s \in SUBSET D : Cardinality(s) <= n => g[s] = SumStep(g, f, s)

(* There are such sums for every size, by induction on it.                 *)
LEMMA SumsExist ==
    ASSUME NEW D, IsFiniteSet(D), NEW f \in [D -> Int], NEW n \in Nat
    PROVE  \E g : SumsUpTo(g, f, D, n)
<1> DEFINE Bad == {m \in Nat : ~\E g : SumsUpTo(g, f, D, m)}
<1>1. \A s \in SUBSET D : IsFiniteSet(s) /\ Cardinality(s) \in Nat
  BY FS_Subset, FS_CardinalityType
<1>2. SUFFICES ASSUME Bad # {} PROVE FALSE
  OBVIOUS
<1>3. PICK m \in Bad : \A k \in Bad : m <= k
  BY <1>2, SmallestNat
<1>4. m # 0
  <2>1. SUFFICES ASSUME m = 0 PROVE FALSE
    OBVIOUS
  <2> DEFINE g == [s \in SUBSET D |-> 0]
  <2>2. \A s \in SUBSET D : Cardinality(s) <= 0 => s = {}
    BY <1>1, FS_EmptySet
  <2>3. SumsUpTo(g, f, D, 0)
    BY <2>2 DEF SumsUpTo, SumStep
  <2> QED
    BY <2>1, <2>3
<1>5. m - 1 \in Nat /\ m - 1 \notin Bad
  BY <1>3, <1>4
<1>6. PICK g : SumsUpTo(g, f, D, m - 1)
  BY <1>5
<1> DEFINE h == [s \in SUBSET D |-> IF Cardinality(s) = m THEN SumStep(g, f, s) ELSE g[s]]
<1>7. \A s \in SUBSET D : s # {} => /\ Pick(s) \in s
                                    /\ s \ {Pick(s)} \in SUBSET D
                                    /\ Cardinality(s \ {Pick(s)}) = Cardinality(s) - 1
  <2> TAKE s \in SUBSET D
  <2> HAVE s # {}
  <2>1. Pick(s) \in s
    BY PickIn
  <2> QED
    BY <1>1, <2>1, FS_RemoveElement
<1>8. \A s \in SUBSET D : SumStep(g, f, s) \in Int
  BY <1>6, <1>7 DEF SumStep, SumsUpTo
<1>9. h \in [SUBSET D -> Int]
  BY <1>6, <1>8 DEF SumsUpTo
<1>10. ASSUME NEW s \in SUBSET D, Cardinality(s) <= m
       PROVE  h[s] = SumStep(h, f, s)
  <2>1. h[s] = SumStep(g, f, s)
    BY <1>1, <1>5, <1>6, <1>10 DEF SumsUpTo
  <2>2. SumStep(g, f, s) = SumStep(h, f, s)
    BY <1>1, <1>7, <1>10 DEF SumStep
  <2> QED
    BY <2>1, <2>2
<1> HIDE DEF h
<1>11. SumsUpTo(h, f, D, m)
  BY <1>9, <1>10 DEF SumsUpTo
<1> QED
  BY <1>11

(* So the recursion defines a function, and its values are integers.       *)
LEMMA PartialSumsDef ==
    ASSUME NEW D, IsFiniteSet(D), NEW f \in [D -> Int]
    PROVE  /\ PartialSums(f, D) \in [SUBSET D -> Int]
           /\ \A s \in SUBSET D : PartialSums(f, D)[s] = SumStep(PartialSums(f, D), f, s)
<1> DEFINE Def(g) == g = [s \in SUBSET D |->
                            IF s = {} THEN 0 ELSE f[Pick(s)] + g[s \ {Pick(s)}]]
<1>1. PICK g : SumsUpTo(g, f, D, Cardinality(D))
  BY SumsExist, FS_CardinalityType
<1>2. \A s \in SUBSET D : g[s] = SumStep(g, f, s)
  BY <1>1, FS_Subset DEF SumsUpTo
<1>3. Def(g)
  BY <1>1, <1>2 DEF SumsUpTo, SumStep
<1>4. Def(PartialSums(f, D))
  BY <1>3 DEF PartialSums
<1> DEFINE p == PartialSums(f, D)
<1>5. p = [s \in SUBSET D |-> SumStep(p, f, s)]
  BY <1>4 DEF SumStep
<1> HIDE DEF p
<1>6. \A s \in SUBSET D : p[s] = SumStep(p, f, s)
  BY <1>5
<1> DEFINE Whole == {s \in SUBSET D : p[s] \in Int}
<1>7. \A s \in SUBSET D : (\A x \in s : s \ {x} \in Whole) => s \in Whole
  <2> SUFFICES ASSUME NEW s \in SUBSET D, \A x \in s : s \ {x} \in Whole
               PROVE  p[s] \in Int
    OBVIOUS
  <2>1. CASE s = {}
    <3>1. p[s] = 0
      BY <1>6, <2>1 DEF SumStep
    <3> QED
      BY <3>1
  <2>2. CASE s # {}
    <3>1. Pick(s) \in s
      BY <2>2, PickIn
    <3>2. p[s] = f[Pick(s)] + p[s \ {Pick(s)}]
      BY <1>6, <2>2 DEF SumStep
    <3>3. f[Pick(s)] \in Int /\ p[s \ {Pick(s)}] \in Int
      BY <3>1
    <3> QED
      BY <3>2, <3>3
  <2> QED
    BY <2>1, <2>2
<1>8. \A s \in SUBSET D : s \in Whole
  BY <1>7, SubsetInduction
<1>9. p \in [SUBSET D -> Int]
  BY <1>5, <1>8
<1> QED
  BY <1>6, <1>9 DEF p

(* The element the fold picks does not matter: any may be taken first.     *)
LEMMA AnyOrder ==
    ASSUME NEW D, IsFiniteSet(D), NEW f \in [D -> Int]
    PROVE  \A s \in SUBSET D : \A x \in s :
             PartialSums(f, D)[s] = f[x] + PartialSums(f, D)[s \ {x}]
<1> DEFINE p == PartialSums(f, D)
           Good == {s \in SUBSET D : \A x \in s : p[s] = f[x] + p[s \ {x}]}
<1>1. p \in [SUBSET D -> Int] /\ \A s \in SUBSET D : p[s] = SumStep(p, f, s)
  BY PartialSumsDef
<1> HIDE DEF p
<1>2. ASSUME NEW s \in SUBSET D, \A x \in s : s \ {x} \in Good, NEW x \in s
      PROVE  p[s] = f[x] + p[s \ {x}]
  <2> DEFINE c == Pick(s)
  <2>1. c \in s
    BY PickIn
  <2>2. p[s] = f[c] + p[s \ {c}]
    BY <1>1 DEF SumStep
  <2> HIDE DEF c
  <2>3. CASE x = c
    BY <2>2, <2>3
  <2>4. CASE x # c
    <3>1. p[s \ {c}] = f[x] + p[(s \ {c}) \ {x}]
      BY <1>2, <2>1, <2>4
    <3>2. p[s \ {x}] = f[c] + p[(s \ {x}) \ {c}]
      BY <1>2, <2>1, <2>4
    <3>3. (s \ {c}) \ {x} = (s \ {x}) \ {c}
      OBVIOUS
    <3>4. f[x] \in Int /\ f[c] \in Int /\ p[(s \ {x}) \ {c}] \in Int
      BY <1>1, <2>1
    <3>5. f[c] + (f[x] + p[(s \ {x}) \ {c}]) = f[x] + (f[c] + p[(s \ {x}) \ {c}])
      BY <3>4
    <3> QED
      BY <2>2, <3>1, <3>2, <3>3, <3>5, Zenon
  <2> QED
    BY <2>3, <2>4
<1>3. \A s \in SUBSET D : (\A x \in s : s \ {x} \in Good) => s \in Good
  BY <1>2
<1> HIDE DEF Good
<1>4. \A s \in SUBSET D : s \in Good
  BY <1>3, SubsetInduction
<1> QED
  BY <1>4 DEF Good, p

(* Sums over subsets of D depend on the values on D only.                  *)
LEMMA SameSums ==
    ASSUME NEW D, IsFiniteSet(D), NEW f \in [D -> Int],
           NEW E, IsFiniteSet(E), NEW h \in [E -> Int],
           D \subseteq E, \A x \in D : h[x] = f[x]
    PROVE  \A s \in SUBSET D : PartialSums(h, E)[s] = PartialSums(f, D)[s]
<1> DEFINE p == PartialSums(f, D)
           q == PartialSums(h, E)
           Same == {s \in SUBSET D : q[s] = p[s]}
<1>1. \A s \in SUBSET D : p[s] = SumStep(p, f, s)
  BY PartialSumsDef
<1>2. \A s \in SUBSET D : q[s] = SumStep(q, h, s)
  BY PartialSumsDef
<1> HIDE DEF p, q
<1>3. \A s \in SUBSET D : (\A x \in s : s \ {x} \in Same) => s \in Same
  <2> SUFFICES ASSUME NEW s \in SUBSET D, \A x \in s : s \ {x} \in Same
               PROVE  q[s] = p[s]
    OBVIOUS
  <2>1. s # {} => Pick(s) \in s
    BY PickIn
  <2> QED
    BY <1>1, <1>2, <2>1 DEF SumStep
<1> HIDE DEF Same
<1>4. \A s \in SUBSET D : s \in Same
  BY <1>3, SubsetInduction
<1> QED
  BY <1>4 DEF Same, p, q

-----------------------------------------------------------------------------
(* Facts about sums *)

LEMMA SumFunctionType ==
    ASSUME NEW D, IsFiniteSet(D), NEW f \in [D -> Int]
    PROVE  SumFunction(f) \in Int
<1>1. PartialSums(f, D) \in [SUBSET D -> Int]
  BY PartialSumsDef
<1>2. SumFunction(f) = PartialSums(f, D)[D]
  BY SumFunctionUnfold
<1> QED
  BY <1>1, <1>2

(* A sum of zeros, in particular of nothing, is zero.                      *)
LEMMA SumFunctionZero ==
    ASSUME NEW D, IsFiniteSet(D), NEW f \in [D -> Int], \A x \in D : f[x] = 0
    PROVE  SumFunction(f) = 0
<1> DEFINE p == PartialSums(f, D)
           Zero == {s \in SUBSET D : p[s] = 0}
<1>1. \A s \in SUBSET D : p[s] = SumStep(p, f, s)
  BY PartialSumsDef
<1> HIDE DEF p
<1>2. \A s \in SUBSET D : (\A x \in s : s \ {x} \in Zero) => s \in Zero
  <2> SUFFICES ASSUME NEW s \in SUBSET D, \A x \in s : s \ {x} \in Zero
               PROVE  p[s] = 0
    OBVIOUS
  <2>1. CASE s = {}
    BY <1>1, <2>1 DEF SumStep
  <2>2. CASE s # {}
    <3>1. Pick(s) \in s
      BY <2>2, PickIn
    <3>2. p[s] = f[Pick(s)] + p[s \ {Pick(s)}]
      BY <1>1, <2>2 DEF SumStep
    <3>3. f[Pick(s)] = 0 /\ p[s \ {Pick(s)}] = 0
      BY <3>1
    <3> QED
      BY <3>2, <3>3
  <2> QED
    BY <2>1, <2>2
<1> HIDE DEF Zero
<1>3. \A s \in SUBSET D : s \in Zero
  BY <1>2, SubsetInduction
<1> QED
  BY <1>3, SumFunctionUnfold DEF Zero, p

LEMMA SumFunctionAdd ==
    ASSUME NEW D, IsFiniteSet(D), NEW f \in [D -> Int],
           NEW e, e \notin D, NEW h \in [D \cup {e} -> Int],
           \A x \in D : h[x] = f[x]
    PROVE  SumFunction(h) = SumFunction(f) + h[e]
<1> DEFINE E == D \cup {e}
<1>1. IsFiniteSet(E)
  BY FS_AddElement
<1>2. PartialSums(h, E)[E] = h[e] + PartialSums(h, E)[E \ {e}]
  BY <1>1, AnyOrder
<1>3. PartialSums(h, E)[D] = PartialSums(f, D)[D]
  BY <1>1, SameSums
<1>4. E \ {e} = D
  OBVIOUS
<1>5. SumFunction(h) = PartialSums(h, E)[E] /\ SumFunction(f) = PartialSums(f, D)[D]
  BY SumFunctionUnfold
<1>6. SumFunction(f) \in Int
  BY SumFunctionType
<1>7. h[e] \in Int
  OBVIOUS
<1> HIDE DEF E
<1>8. SumFunction(h) = h[e] + SumFunction(f)
  BY <1>2, <1>3, <1>4, <1>5, Zenon
<1> QED
  BY <1>6, <1>7, <1>8

LEMMA SumFunctionUpdate ==
    ASSUME NEW D, IsFiniteSet(D), NEW f \in [D -> Int], NEW h \in [D -> Int],
           NEW e \in D, \A x \in D \ {e} : h[x] = f[x]
    PROVE  SumFunction(h) = SumFunction(f) + h[e] - f[e]
<1> DEFINE C == D \ {e}
           g == [x \in C |-> f[x]]
<1>1. /\ IsFiniteSet(C) /\ C \cup {e} = D /\ e \notin C
      /\ g \in [C -> Int] /\ \A x \in C : f[x] = g[x] /\ h[x] = g[x]
  BY FS_RemoveElement
<1> HIDE DEF C, g
<1>2. f \in [C \cup {e} -> Int] /\ h \in [C \cup {e} -> Int]
  BY <1>1
<1>3. SumFunction(f) = SumFunction(g) + f[e]
  BY <1>1, <1>2, SumFunctionAdd
<1>4. SumFunction(h) = SumFunction(g) + h[e]
  BY <1>1, <1>2, SumFunctionAdd
<1>5. SumFunction(g) \in Int
  BY <1>1, SumFunctionType
<1> QED
  BY <1>3, <1>4, <1>5

-----------------------------------------------------------------------------
(* Sums over rows *)

(* What a row contributes to the total of the rows of a kind.              *)
AmountIn(kind, row) == IF row \in kind THEN row.amount ELSE 0

FiniteRows(rows) == IsFiniteSet(rows) /\ rows \subseteq CreditTransaction

LEMMA NoRowsNoAmount == SumOfAmounts({}) = 0
<1> DEFINE f == [t \in {} |-> t.amount]
<1>1. f \in [{} -> Int] /\ \A x \in {} : f[x] = 0
  OBVIOUS
<1> HIDE DEF f
<1>2. SumFunction(f) = 0
  BY <1>1, FS_EmptySet, SumFunctionZero
<1> QED
  BY <1>2 DEF SumOfAmounts, f

LEMMA AmountsFunction ==
    ASSUME NEW rows, FiniteRows(rows)
    PROVE  /\ [t \in rows |-> t.amount] \in [rows -> Int]
           /\ SumOfAmounts(rows) \in Int
<1>1. \A t \in rows : t.amount \in Int
  BY DEF FiniteRows, CreditTransaction
<1> DEFINE f == [t \in rows |-> t.amount]
<1>2. f \in [rows -> Int]
  BY <1>1
<1>3. SumFunction(f) \in Int
  BY <1>2, SumFunctionType DEF FiniteRows
<1> QED
  BY <1>2, <1>3 DEF SumOfAmounts

LEMMA OneMoreAmount ==
    ASSUME NEW rows, FiniteRows(rows), NEW row \in CreditTransaction, row \notin rows
    PROVE  /\ FiniteRows(rows \cup {row})
           /\ SumOfAmounts(rows \cup {row}) = SumOfAmounts(rows) + row.amount
<1> DEFINE more == rows \cup {row}
           f == [t \in rows |-> t.amount]
           h == [t \in more |-> t.amount]
<1>1. FiniteRows(more)
  BY FS_AddElement DEF FiniteRows
<1>2. f \in [rows -> Int] /\ h \in [more -> Int]
  BY <1>1, AmountsFunction
<1>3. (\A t \in rows : h[t] = f[t]) /\ h[row] = row.amount
  OBVIOUS
<1> HIDE DEF f, h
<1>4. SumFunction(h) = SumFunction(f) + row.amount
  BY <1>2, <1>3, SumFunctionAdd DEF FiniteRows
<1> QED
  BY <1>1, <1>4 DEF SumOfAmounts, f, h

LEMMA RowAdded ==
    ASSUME NEW rows, FiniteRows(rows), NEW row \in CreditTransaction, row \notin rows,
           NEW kind
    PROVE  /\ FiniteRows(rows \cup {row})
           /\ SumOfAmounts((rows \cup {row}) \cap kind)
                = SumOfAmounts(rows \cap kind) + AmountIn(kind, row)
<1>1. FiniteRows(rows \cap kind)
  BY FS_Subset DEF FiniteRows
<1>2. SumOfAmounts(rows \cap kind) \in Int
  BY <1>1, AmountsFunction
<1>3. CASE row \in kind
  <2>1. (rows \cup {row}) \cap kind = (rows \cap kind) \cup {row}
    BY <1>3
  <2> QED
    BY <1>1, <1>3, <2>1, OneMoreAmount DEF AmountIn
<1>4. CASE row \notin kind
  <2>1. (rows \cup {row}) \cap kind = rows \cap kind
    BY <1>4
  <2>2. AmountIn(kind, row) = 0
    BY <1>4 DEF AmountIn
  <2>3. SumOfAmounts(rows \cap kind) = SumOfAmounts(rows \cap kind) + 0
    BY <1>2
  <2>4. FiniteRows(rows \cup {row})
    BY OneMoreAmount
  <2> QED
    BY <2>1, <2>2, <2>3, <2>4, Zenon
<1> QED
  BY <1>3, <1>4

LEMMA RowDropped ==
    ASSUME NEW rows, FiniteRows(rows), NEW row \in rows, NEW kind
    PROVE  /\ FiniteRows(rows \ {row})
           /\ SumOfAmounts((rows \ {row}) \cap kind)
                = SumOfAmounts(rows \cap kind) - AmountIn(kind, row)
<1> DEFINE fewer == rows \ {row}
<1>1. /\ FiniteRows(fewer) /\ row \notin fewer /\ fewer \cup {row} = rows
      /\ row \in CreditTransaction
  BY FS_RemoveElement DEF FiniteRows
<1> HIDE DEF fewer
<1>2. SumOfAmounts(rows \cap kind) = SumOfAmounts(fewer \cap kind) + AmountIn(kind, row)
  BY <1>1, RowAdded
<1>3. FiniteRows(fewer \cap kind)
  BY <1>1, FS_Subset DEF FiniteRows
<1>4. SumOfAmounts(fewer \cap kind) \in Int
  BY <1>3, AmountsFunction
<1>5. AmountIn(kind, row) \in Int
  BY <1>1 DEF AmountIn, CreditTransaction
<1> QED
  BY <1>1, <1>2, <1>4, <1>5 DEF fewer

(* A row recorded only when its amount is not zero.                        *)
LEMMA RowAddedUnlessZero ==
    ASSUME NEW rows, FiniteRows(rows), NEW row \in CreditTransaction, row \notin rows,
           NEW kind
    PROVE  LET more == rows \cup {r \in {row} : r.amount # 0} IN
           /\ FiniteRows(more)
           /\ SumOfAmounts(more \cap kind) = SumOfAmounts(rows \cap kind) + AmountIn(kind, row)
<1>1. CASE row.amount # 0
  <2>1. {r \in {row} : r.amount # 0} = {row}
    BY <1>1
  <2> QED
    BY <2>1, RowAdded
<1>2. CASE row.amount = 0
  <2>1. rows \cup {r \in {row} : r.amount # 0} = rows
    BY <1>2
  <2>2. FiniteRows(rows \cap kind)
    BY FS_Subset DEF FiniteRows
  <2>3. SumOfAmounts(rows \cap kind) \in Int
    BY <2>2, AmountsFunction
  <2>4. AmountIn(kind, row) = 0
    BY <1>2 DEF AmountIn
  <2>5. SumOfAmounts(rows \cap kind) = SumOfAmounts(rows \cap kind) + 0
    BY <2>3
  <2> QED
    BY <2>1, <2>4, <2>5, Zenon
<1> QED
  BY <1>1, <1>2

(* What holds of the rows besides their type: there are finitely many, and *)
(* entry ids are fresh.                                                    *)
RowsAreFresh ==
    /\ IsFiniteSet(transactions)
    /\ \A t \in transactions : t.id < nextEntry

LedgerInv == LedgerTypeOK /\ PendingMatchesHolds /\ RowsAreFresh

LEMMA RowsAreFinite ==
    ASSUME LedgerInv
    PROVE  FiniteRows(transactions)
  BY DEF LedgerInv, LedgerTypeOK, RowsAreFresh, FiniteRows

(* The rows of a kind after a row is recorded.                             *)
LEMMA RecordTotals ==
    ASSUME LedgerInv, NEW row \in CreditTransaction, row.id = nextEntry, Record(row), NEW kind
    PROVE  /\ RowsAreFresh'
           /\ SumOfAmounts(transactions' \cap kind)
                = SumOfAmounts(transactions \cap kind) + AmountIn(kind, row)
<1>1. nextEntry \in Nat /\ \A t \in transactions : t.id \in Nat /\ t.id < nextEntry
  BY DEF LedgerInv, LedgerTypeOK, RowsAreFresh, CreditTransaction
<1>2. row \notin transactions
  BY <1>1
<1>3. transactions' = transactions \cup {row} /\ nextEntry' = nextEntry + 1
  BY DEF Record
<1>4. RowsAreFresh'
  BY <1>1, <1>3, FS_AddElement DEF LedgerInv, RowsAreFresh
<1> QED
  BY <1>2, <1>3, <1>4, RowAdded, RowsAreFinite

(* The reservation row of an open job is the only row that closing it      *)
(* drops.                                                                  *)
ReservationOf(job) == CHOOSE row \in transactions : row.job = job /\ row.pending

LEMMA ReservationRow ==
    ASSUME LedgerInv, NEW job \in DOMAIN holds
    PROVE  LET row == ReservationOf(job) IN
           /\ row \in transactions
           /\ row.job = job /\ row.user = holds[job].user /\ row.amount = -holds[job].amount
           /\ row.type = "spend" /\ row.pending
           /\ WithoutPending(job, holds[job].user) = transactions \ {row}
<1> DEFINE row == ReservationOf(job)
<1>1. row \in transactions /\ row.job = job /\ row.pending
  BY DEF LedgerInv, PendingMatchesHolds, ReservationOf
<1> HIDE DEF row
<1>2. /\ row.user = holds[job].user /\ row.amount = -holds[job].amount
      /\ row.type = "spend" /\ row.source = "job_reservation"
  BY <1>1 DEF LedgerInv, PendingMatchesHolds
<1>3. \A t \in transactions : IsPendingReservation(t, job, holds[job].user) <=> t = row
  BY <1>1, <1>2 DEF LedgerInv, PendingMatchesHolds, IsPendingReservation
<1>4. WithoutPending(job, holds[job].user) = transactions \ {row}
  BY <1>3 DEF WithoutPending
<1> QED
  BY <1>1, <1>2, <1>4 DEF row

(* The rows of a kind once the reservation row of a job is dropped.        *)
LEMMA DroppedTotals ==
    ASSUME LedgerInv, NEW job \in DOMAIN holds, NEW kind
    PROVE  LET rows == WithoutPending(job, holds[job].user) IN
           /\ FiniteRows(rows)
           /\ \A t \in rows : t.id < nextEntry
           /\ SumOfAmounts(rows \cap kind)
                = SumOfAmounts(transactions \cap kind) - AmountIn(kind, ReservationOf(job))
<1>1. /\ ReservationOf(job) \in transactions
      /\ WithoutPending(job, holds[job].user) = transactions \ {ReservationOf(job)}
  BY ReservationRow
<1>2. \A t \in transactions : t.id < nextEntry
  BY DEF LedgerInv, RowsAreFresh
<1> QED
  BY <1>1, <1>2, RowDropped, RowsAreFinite

RefundRow(job, source) == Row(0, holds[job].user, "refund", holds[job].amount, source, job)

(* The rows of a kind after a release.                                     *)
LEMMA ReleaseTotals ==
    ASSUME LedgerInv, NEW job \in JobIds, NEW source \in ReleaseSource, Release(job, source),
           NEW kind
    PROVE  /\ RowsAreFresh'
           /\ SumOfAmounts(transactions' \cap kind)
                = SumOfAmounts(transactions \cap kind) - AmountIn(kind, ReservationOf(job))
                    + AmountIn(kind, RefundRow(job, source))
<1> DEFINE rows == WithoutPending(job, holds[job].user)
           row == RefundRow(job, source)
<1>1. job \in DOMAIN holds /\ holds[job].user \in Accounts /\ holds[job].amount \in Int
  BY DEF Release, LedgerInv, LedgerTypeOK, CreditHold, Accounts
<1>2. row \in CreditTransaction
  BY <1>1, RowType DEF LedgerInv, EntryType, Source, ReleaseSource, RefundRow
<1>3. row.id = nextEntry /\ nextEntry \in Nat
  BY DEF RefundRow, Row, LedgerInv, LedgerTypeOK
<1>4. transactions' = rows \cup {row} /\ nextEntry' = nextEntry + 1
  BY DEF Release, RefundRow
<1> HIDE DEF rows, row
<1>5. /\ FiniteRows(rows) /\ \A t \in rows : t.id < nextEntry
      /\ SumOfAmounts(rows \cap kind)
           = SumOfAmounts(transactions \cap kind) - AmountIn(kind, ReservationOf(job))
  BY <1>1, DroppedTotals DEF rows
<1>6. \A t \in rows : t.id \in Nat
  BY <1>5 DEF FiniteRows, CreditTransaction
<1>7. row \notin rows
  BY <1>3, <1>5, <1>6
<1>8. FiniteRows(transactions')
      /\ SumOfAmounts(transactions' \cap kind) = SumOfAmounts(rows \cap kind) + AmountIn(kind, row)
  BY <1>2, <1>4, <1>5, <1>7, RowAdded
<1>9. RowsAreFresh'
  BY <1>3, <1>4, <1>5, <1>6, <1>8 DEF RowsAreFresh, FiniteRows
<1> QED
  BY <1>5, <1>8, <1>9 DEF row

(* The rows of a kind after a settlement within the hold.                  *)
LEMMA SettleTotals ==
    ASSUME LedgerInv, NEW job \in JobIds, NEW owner \in Users, NEW cost \in Nat,
           Settle(job, owner, cost), cost <= holds[job].amount, NEW kind
    PROVE  LET payer  == holds[job].user
               refund == holds[job].amount - cost
               share  == WorkerShare(cost)
           IN  /\ RowsAreFresh'
               /\ SumOfAmounts(transactions' \cap kind)
                    = SumOfAmounts(transactions \cap kind) - AmountIn(kind, ReservationOf(job))
                      + AmountIn(kind, Row(0, payer, "spend", -cost, "job_execution", job))
                      + AmountIn(kind, Row(1, payer, "refund", refund,
                                           "unused_reserved_credits", job))
                      + AmountIn(kind, Row(2, owner, "earn", share, "job_execution", job))
                      + AmountIn(kind, Row(3, Platform, "adjustment", cost - share,
                                           "platform_fee", job))
<1> DEFINE payer == holds[job].user
           refund == holds[job].amount - cost
           share == WorkerShare(cost)
           rows == WithoutPending(job, payer)
           r0 == Row(0, payer, "spend", -cost, "job_execution", job)
           r1 == Row(1, payer, "refund", refund, "unused_reserved_credits", job)
           r2 == Row(2, owner, "earn", share, "job_execution", job)
           r3 == Row(3, Platform, "adjustment", cost - share, "platform_fee", job)
<1>1. /\ job \in DOMAIN holds /\ payer \in Accounts /\ holds[job].amount \in Nat
      /\ owner \in Accounts /\ Platform \in Accounts
  BY DEF Settle, LedgerInv, LedgerTypeOK, CreditHold, Accounts
<1>2. refund \in Nat /\ share \in Nat /\ cost - share \in Nat
  BY <1>1, SettlementParts
<1>3. /\ transactions' = rows \cup {r0} \cup {r \in {r1, r2, r3} : r.amount # 0}
      /\ nextEntry' = nextEntry + 4
  BY <1>1, <1>2 DEF Settle, SettlementRows
<1>4. /\ r0.id = nextEntry /\ r1.id = nextEntry + 1 /\ r2.id = nextEntry + 2
      /\ r3.id = nextEntry + 3 /\ nextEntry \in Nat
  BY DEF Row, LedgerInv, LedgerTypeOK
<1>5. r0 \in CreditTransaction /\ r1 \in CreditTransaction /\ r2 \in CreditTransaction
      /\ r3 \in CreditTransaction
  <2> HIDE DEF refund, share, payer
  <2> USE <1>1, <1>2, RowType DEF LedgerInv, EntryType, Source
  <2>1. r0 \in CreditTransaction
    OBVIOUS
  <2>2. r1 \in CreditTransaction
    OBVIOUS
  <2>3. r2 \in CreditTransaction
    OBVIOUS
  <2>4. r3 \in CreditTransaction
    OBVIOUS
  <2> QED
    BY <2>1, <2>2, <2>3, <2>4
<1>6. /\ FiniteRows(rows) /\ \A t \in rows : t.id < nextEntry
      /\ SumOfAmounts(rows \cap kind)
           = SumOfAmounts(transactions \cap kind) - AmountIn(kind, ReservationOf(job))
  BY <1>1, DroppedTotals
<1>7. \A t \in rows : t.id \in Nat
  BY <1>6 DEF FiniteRows, CreditTransaction
<1> HIDE DEF rows, r0, r1, r2, r3
<1> DEFINE t0 == rows \cup {r0}
           t1 == t0 \cup {r \in {r1} : r.amount # 0}
           t2 == t1 \cup {r \in {r2} : r.amount # 0}
           t3 == t2 \cup {r \in {r3} : r.amount # 0}
<1>8. transactions' = t3
  BY <1>3
<1>9. r0 \notin rows /\ r1 \notin t0 /\ r2 \notin t1 /\ r3 \notin t2
  BY <1>4, <1>6, <1>7
<1>10. \A t \in t3 : t.id < nextEntry + 4
  BY <1>4, <1>6, <1>7
<1> HIDE DEF t0, t1, t2, t3
<1>11. FiniteRows(t0)
       /\ SumOfAmounts(t0 \cap kind) = SumOfAmounts(rows \cap kind) + AmountIn(kind, r0)
  BY <1>5, <1>6, <1>9, RowAdded DEF t0
<1>12. FiniteRows(t1)
       /\ SumOfAmounts(t1 \cap kind) = SumOfAmounts(t0 \cap kind) + AmountIn(kind, r1)
  BY <1>5, <1>9, <1>11, RowAddedUnlessZero DEF t1
<1>13. FiniteRows(t2)
       /\ SumOfAmounts(t2 \cap kind) = SumOfAmounts(t1 \cap kind) + AmountIn(kind, r2)
  BY <1>5, <1>9, <1>12, RowAddedUnlessZero DEF t2
<1>14. FiniteRows(t3)
       /\ SumOfAmounts(t3 \cap kind) = SumOfAmounts(t2 \cap kind) + AmountIn(kind, r3)
  BY <1>5, <1>9, <1>13, RowAddedUnlessZero DEF t3
<1>15. RowsAreFresh'
  BY <1>3, <1>8, <1>10, <1>14 DEF RowsAreFresh, FiniteRows
<1> QED
  BY <1>6, <1>8, <1>11, <1>12, <1>13, <1>14, <1>15 DEF r0, r1, r2, r3

-----------------------------------------------------------------------------
(* The books balance *)

(* The kinds of rows whose totals the invariants are about.                *)
BalanceRows(account) == {t \in CreditTransaction : t.user = account /\ t.type # "refund"}

MintRows == {t \in CreditTransaction : IsMint(t)}

ChargeRows(job) == {t \in CreditTransaction : t.job = job /\ t.type # "refund"}

TotalOf(kind) == SumOfAmounts(transactions \cap kind)

Held(job) == IF job \in DOMAIN holds THEN holds[job].amount ELSE 0

(* RowsExplainBalances, CreditsConserved and JobRowsBalance.               *)
BooksBalance ==
    /\ \A a \in Accounts : available[a] = TotalOf(BalanceRows(a))
    /\ SumFunction(available) + HeldCredits = TotalOf(MintRows)
    /\ \A j \in JobIds : TotalOf(ChargeRows(j)) = -Held(j)

LEMMA BooksBalanceMeaning ==
    ASSUME LedgerTypeOK
    PROVE  BooksBalance <=> RowsExplainBalances /\ CreditsConserved /\ JobRowsBalance
<1>1. transactions \subseteq CreditTransaction
  BY DEF LedgerTypeOK
<1>2. \A a : {t \in transactions : t.user = a /\ t.type # "refund"}
               = transactions \cap BalanceRows(a)
  BY <1>1 DEF BalanceRows
<1>3. {t \in transactions : IsMint(t)} = transactions \cap MintRows
  BY <1>1 DEF MintRows
<1>4. \A j : {t \in JobRows(j) : t.type # "refund"} = transactions \cap ChargeRows(j)
  BY <1>1 DEF ChargeRows, JobRows
<1>5. \A j \in JobIds : -Held(j) = IF j \in DOMAIN holds THEN -holds[j].amount ELSE 0
  BY DEF Held
<1> QED
  BY <1>2, <1>3, <1>4, <1>5, Zenon
  DEF BooksBalance, RowsExplainBalances, CreditsConserved, JobRowsBalance, TotalOf

(* Crediting an account, by a negative amount too, moves the sum of all.   *)
LEMMA AccountsFinite == IsFiniteSet(Accounts)
  BY LedgerAssumption, FS_AddElement DEF Accounts

LEMMA AccountCredited ==
    ASSUME NEW f \in [Accounts -> Int], NEW h \in [Accounts -> Int],
           NEW account \in Accounts, NEW amount \in Int,
           h[account] = f[account] + amount, \A x \in Accounts \ {account} : h[x] = f[x]
    PROVE  SumFunction(h) = SumFunction(f) + amount
<1>1. SumFunction(h) = SumFunction(f) + h[account] - f[account]
  BY AccountsFinite, SumFunctionUpdate
<1>2. SumFunction(f) \in Int /\ f[account] \in Int
  BY AccountsFinite, SumFunctionType
<1> QED
  BY <1>1, <1>2

LEMMA HeldFunction ==
    ASSUME LedgerTypeOK
    PROVE  /\ IsFiniteSet(DOMAIN holds)
           /\ [j \in DOMAIN holds |-> holds[j].amount] \in [DOMAIN holds -> Int]
           /\ HeldCredits \in Int
<1>1. IsFiniteSet(DOMAIN holds)
  BY LedgerAssumption, FS_Subset DEF LedgerTypeOK
<1> DEFINE f == [j \in DOMAIN holds |-> holds[j].amount]
<1>2. f \in [DOMAIN holds -> Int]
  BY DEF LedgerTypeOK, CreditHold
<1> HIDE DEF f
<1>3. SumFunction(f) \in Int
  BY <1>1, <1>2, SumFunctionType
<1> QED
  BY <1>1, <1>2, <1>3 DEF HeldCredits, f

LEMMA HoldAdded ==
    ASSUME LedgerTypeOK, NEW job, job \notin DOMAIN holds, NEW user, NEW amount \in Int,
           holds' = With(holds, job, [user |-> user, amount |-> amount])
    PROVE  HeldCredits' = HeldCredits + amount
<1> DEFINE D == DOMAIN holds
           f == [j \in D |-> holds[j].amount]
           h == [j \in DOMAIN holds' |-> holds'[j].amount]
<1>1. IsFiniteSet(D) /\ f \in [D -> Int]
  BY HeldFunction
<1>2. /\ DOMAIN holds' = D \cup {job}
      /\ holds'[job].amount = amount
      /\ \A j \in D : holds'[j] = holds[j]
  BY DEF With
<1>3. h \in [D \cup {job} -> Int] /\ \A j \in D : h[j] = f[j]
  BY <1>2 DEF LedgerTypeOK, CreditHold
<1>4. job \notin D
  OBVIOUS
<1>5. h[job] = amount
  BY <1>2
<1> HIDE DEF D, f, h
<1>6. SumFunction(h) = SumFunction(f) + h[job]
  BY <1>1, <1>3, <1>4, SumFunctionAdd
<1> QED
  BY <1>5, <1>6 DEF HeldCredits, D, f, h

LEMMA HoldDropped ==
    ASSUME LedgerTypeOK, NEW job \in DOMAIN holds, holds' = HoldsWithout(job)
    PROVE  HeldCredits' = HeldCredits - holds[job].amount
<1> DEFINE D == DOMAIN holds'
           f == [j \in DOMAIN holds |-> holds[j].amount]
           h == [j \in D |-> holds'[j].amount]
<1>1. IsFiniteSet(DOMAIN holds) /\ f \in [DOMAIN holds -> Int]
  BY HeldFunction
<1>2. D = DOMAIN holds \ {job} /\ \A j \in D : holds'[j] = holds[j]
  BY DEF HoldsWithout, Restrict
<1>3. /\ h \in [D -> Int] /\ \A j \in D : f[j] = h[j]
      /\ f \in [D \cup {job} -> Int] /\ job \notin D
      /\ f[job] = holds[job].amount
  BY <1>1, <1>2
<1>4. IsFiniteSet(D)
  BY <1>1, <1>2, FS_RemoveElement
<1>5. holds[job].amount \in Int
  BY DEF LedgerTypeOK, CreditHold
<1> HIDE DEF D, f, h
<1>6. SumFunction(f) = SumFunction(h) + holds[job].amount
  BY <1>3, <1>4, SumFunctionAdd
<1>7. SumFunction(h) \in Int
  BY <1>3, <1>4, SumFunctionType
<1>8. SumFunction(h) = SumFunction(f) - holds[job].amount
  BY <1>5, <1>6, <1>7
<1> QED
  BY <1>8 DEF HeldCredits, D, f, h

LEMMA TotalsAreWhole ==
    ASSUME LedgerInv, NEW kind
    PROVE  TotalOf(kind) \in Int
<1>1. FiniteRows(transactions \cap kind)
  BY RowsAreFinite, FS_Subset DEF FiniteRows
<1> QED
  BY <1>1, AmountsFunction DEF TotalOf

(* Granting, buying and adjusting credits: one account and one row.        *)
LEMMA MintKeepsBooks ==
    ASSUME LedgerInv, BooksBalance, NEW account \in Accounts, NEW amount \in Int,
           NEW type \in {"purchase", "adjustment"}, NEW source \in Source,
           available' = [available EXCEPT ![account] = @ + amount], holds' = holds,
           Record(Row(0, account, type, amount, source, NoJob))
    PROVE  RowsAreFresh' /\ BooksBalance'
<1> DEFINE row == Row(0, account, type, amount, source, NoJob)
<1>1. row \in CreditTransaction
  BY RowType DEF LedgerInv, EntryType
<1>2. /\ row.id = nextEntry /\ row.user = account /\ row.type = type /\ row.amount = amount
      /\ row.job = NoJob
  BY DEF Row, LedgerInv, LedgerTypeOK
<1> HIDE DEF row
<1>3. /\ RowsAreFresh'
      /\ \A kind : TotalOf(kind)' = TotalOf(kind) + AmountIn(kind, row)
  BY <1>1, <1>2, RecordTotals DEF TotalOf, row
<1>4. \A a \in Accounts : AmountIn(BalanceRows(a), row) = IF a = account THEN amount ELSE 0
  BY <1>1, <1>2 DEF AmountIn, BalanceRows
<1>5. AmountIn(MintRows, row) = amount
  BY <1>1, <1>2 DEF AmountIn, MintRows, IsMint
<1>6. \A j \in JobIds : AmountIn(ChargeRows(j), row) = 0
  BY <1>2, LedgerAssumption DEF AmountIn, ChargeRows
<1>7. available \in [Accounts -> Int]
  BY DEF LedgerInv, LedgerTypeOK
<1>8. \A a \in Accounts : available'[a] = TotalOf(BalanceRows(a))'
  BY <1>3, <1>4, <1>7 DEF BooksBalance
<1>9. SumFunction(available)' + HeldCredits' = TotalOf(MintRows)'
  <2>1. SumFunction(available)' = SumFunction(available) + amount
    <3> DEFINE h == available'
    <3>1. /\ h \in [Accounts -> Int] /\ h[account] = available[account] + amount
          /\ \A x \in Accounts \ {account} : h[x] = available[x]
      BY <1>7
    <3> HIDE DEF h
    <3>2. SumFunction(h) = SumFunction(available) + amount
      BY ONLY <1>7, <3>1, amount \in Int, account \in Accounts, AccountCredited
    <3> QED
      BY <3>2 DEF h
  <2>2. SumFunction(available) \in Int /\ HeldCredits \in Int
    BY <1>7, AccountsFinite, SumFunctionType, HeldFunction DEF LedgerInv
  <2>3. HeldCredits' = HeldCredits
    BY DEF HeldCredits
  <2>4. TotalOf(MintRows)' = TotalOf(MintRows) + amount
    BY <1>3, <1>5
  <2> QED
    BY <2>1, <2>2, <2>3, <2>4 DEF BooksBalance
<1>10. \A j \in JobIds : TotalOf(ChargeRows(j))' = -Held(j)'
  <2> TAKE j \in JobIds
  <2>1. TotalOf(ChargeRows(j))' = TotalOf(ChargeRows(j))
    BY <1>3, <1>6, TotalsAreWhole
  <2> QED
    BY <2>1 DEF BooksBalance, Held
<1> QED
  BY <1>3, <1>8, <1>9, <1>10 DEF BooksBalance

LEMMA ReserveKeepsBooks ==
    ASSUME LedgerInv, BooksBalance, NEW user \in Users, NEW job \in JobIds,
           NEW amount \in Nat \ {0}, FreshJob(job), Reserve(user, job, amount)
    PROVE  RowsAreFresh' /\ BooksBalance'
<1> DEFINE row == PendingRow(user, amount, job)
<1>1. row \in CreditTransaction /\ user \in Accounts
  BY PendingRowType DEF LedgerInv, Accounts
<1>2. /\ row.id = nextEntry /\ row.user = user /\ row.type = "spend" /\ row.amount = -amount
      /\ row.job = job
  BY DEF PendingRow
<1>3. Record(row) /\ available' = [available EXCEPT ![user] = @ - amount]
  BY DEF Reserve
<1> HIDE DEF row
<1>4. /\ RowsAreFresh'
      /\ \A kind : TotalOf(kind)' = TotalOf(kind) + AmountIn(kind, row)
  BY <1>1, <1>2, <1>3, RecordTotals DEF TotalOf
<1>5. \A a \in Accounts : AmountIn(BalanceRows(a), row) = IF a = user THEN -amount ELSE 0
  BY <1>1, <1>2 DEF AmountIn, BalanceRows
<1>6. AmountIn(MintRows, row) = 0
  BY <1>2 DEF AmountIn, MintRows, IsMint
<1>7. \A j \in JobIds : AmountIn(ChargeRows(j), row) = IF j = job THEN -amount ELSE 0
  BY <1>1, <1>2 DEF AmountIn, ChargeRows
<1>8. available \in [Accounts -> Int]
  BY DEF LedgerInv, LedgerTypeOK
<1>9. \A a \in Accounts : available'[a] = TotalOf(BalanceRows(a))'
  BY <1>3, <1>4, <1>5, <1>8 DEF BooksBalance
<1>10. SumFunction(available)' + HeldCredits' = TotalOf(MintRows)'
  <2>1. SumFunction(available)' = SumFunction(available) + (-amount)
    <3>1. /\ -amount \in Int /\ available' \in [Accounts -> Int]
          /\ available'[user] = available[user] + (-amount)
          /\ \A x \in Accounts \ {user} : available'[x] = available[x]
      BY <1>1, <1>3, <1>8
    <3> QED
      BY <1>1, <1>8, <3>1, AccountCredited
  <2>2. SumFunction(available) \in Int /\ HeldCredits \in Int /\ TotalOf(MintRows) \in Int
    BY <1>8, AccountsFinite, SumFunctionType, HeldFunction, TotalsAreWhole DEF LedgerInv
  <2>3. HeldCredits' = HeldCredits + amount
    BY HoldAdded DEF Reserve, FreshJob, LedgerInv
  <2>4. TotalOf(MintRows)' = TotalOf(MintRows)
    BY <1>4, <1>6, <2>2
  <2> QED
    BY <2>1, <2>2, <2>3, <2>4 DEF BooksBalance
<1>11. \A j \in JobIds : TotalOf(ChargeRows(j))' = -Held(j)'
  <2> TAKE j \in JobIds
  <2>1. TotalOf(ChargeRows(j)) = -Held(j) /\ TotalOf(ChargeRows(j)) \in Int
    BY TotalsAreWhole DEF BooksBalance
  <2>2. CASE j = job
    <3>1. Held(j) = 0
      BY <2>2 DEF Held, FreshJob
    <3>2. Held(j)' = amount
      BY <2>2 DEF Held, Reserve, With
    <3> QED
      BY <1>4, <1>7, <2>1, <2>2, <3>1, <3>2
  <2>3. CASE j # job
    <3>1. Held(j)' = Held(j)
      BY <2>3 DEF Held, Reserve, With
    <3> QED
      BY <1>4, <1>7, <2>1, <2>3, <3>1
  <2> QED
    BY <2>2, <2>3
<1> QED
  BY <1>4, <1>9, <1>10, <1>11 DEF BooksBalance

(* Closing a job empties its hold.                                         *)
LEMMA HeldAfterClose ==
    ASSUME NEW job \in JobIds, holds' = HoldsWithout(job), NEW j \in JobIds
    PROVE  Held(j)' = IF j = job THEN 0 ELSE Held(j)
<1>1. DOMAIN holds' = DOMAIN holds \ {job} /\ \A k \in DOMAIN holds' : holds'[k] = holds[k]
  BY DEF HoldsWithout, Restrict
<1> QED
  BY <1>1 DEF Held

(* A row of a job that is no refund counts for its account and its job; a *)
(* refund row counts for nothing.                                         *)
LEMMA JobRowAmounts ==
    ASSUME NEW row \in CreditTransaction, row.job \in JobIds, row.type # "refund"
    PROVE  /\ \A a \in Accounts : AmountIn(BalanceRows(a), row)
                                     = IF a = row.user THEN row.amount ELSE 0
           /\ AmountIn(MintRows, row) = 0
           /\ \A j \in JobIds : AmountIn(ChargeRows(j), row)
                                   = IF j = row.job THEN row.amount ELSE 0
<1>1. row.job # NoJob
  BY LedgerAssumption
<1> QED
  BY <1>1 DEF AmountIn, BalanceRows, MintRows, IsMint, ChargeRows

LEMMA RefundAmounts ==
    ASSUME NEW row, row.type = "refund"
    PROVE  /\ \A a \in Accounts : AmountIn(BalanceRows(a), row) = 0
           /\ AmountIn(MintRows, row) = 0
           /\ \A j \in JobIds : AmountIn(ChargeRows(j), row) = 0
  BY DEF AmountIn, BalanceRows, MintRows, IsMint, ChargeRows

LEMMA ReservationAmounts ==
    ASSUME LedgerInv, NEW job \in DOMAIN holds
    PROVE  LET row    == ReservationOf(job)
               amount == holds[job].amount
           IN  /\ amount \in Nat /\ job \in JobIds /\ holds[job].user \in Accounts
               /\ \A a \in Accounts : AmountIn(BalanceRows(a), row)
                                        = IF a = holds[job].user THEN -amount ELSE 0
               /\ AmountIn(MintRows, row) = 0
               /\ \A j \in JobIds : AmountIn(ChargeRows(j), row)
                                      = IF j = job THEN -amount ELSE 0
<1> DEFINE row == ReservationOf(job)
<1>1. /\ row \in transactions /\ row.job = job /\ row.user = holds[job].user
      /\ row.amount = -holds[job].amount /\ row.type = "spend"
  BY ReservationRow
<1>2. row \in CreditTransaction /\ job \in JobIds /\ holds[job] \in CreditHold
  BY <1>1 DEF LedgerInv, LedgerTypeOK
<1> HIDE DEF row
<1>3. holds[job].amount \in Nat /\ holds[job].user \in Accounts
  BY <1>2 DEF CreditHold, Accounts
<1> QED
  BY <1>1, <1>2, <1>3, JobRowAmounts DEF row

(* Giving a hold back: the reservation row makes room for a refund row,    *)
(* which counts for nothing.                                               *)
LEMMA ReleaseKeepsBooks ==
    ASSUME LedgerInv, BooksBalance, NEW job \in JobIds, NEW source \in ReleaseSource,
           Release(job, source)
    PROVE  RowsAreFresh' /\ BooksBalance'
<1> DEFINE amount == holds[job].amount
           payer == holds[job].user
           old == ReservationOf(job)
           row == RefundRow(job, source)
<1>1. job \in DOMAIN holds /\ holds' = HoldsWithout(job)
      /\ available' = [available EXCEPT ![payer] = @ + amount]
  BY DEF Release
<1>2. /\ amount \in Nat /\ payer \in Accounts
      /\ \A a \in Accounts : AmountIn(BalanceRows(a), old) = IF a = payer THEN -amount ELSE 0
      /\ AmountIn(MintRows, old) = 0
      /\ \A j \in JobIds : AmountIn(ChargeRows(j), old) = IF j = job THEN -amount ELSE 0
  BY <1>1, ReservationAmounts
<1>3. row.type = "refund" /\ row.job = job
  BY DEF RefundRow, Row
<1>4. /\ RowsAreFresh'
      /\ \A kind : TotalOf(kind)' = TotalOf(kind) - AmountIn(kind, old) + AmountIn(kind, row)
  BY ReleaseTotals DEF TotalOf
<1> HIDE DEF amount, payer, old, row
<1>5. /\ \A a \in Accounts : AmountIn(BalanceRows(a), row) = 0
      /\ AmountIn(MintRows, row) = 0
      /\ \A j \in JobIds : AmountIn(ChargeRows(j), row) = 0
  BY <1>3, RefundAmounts
<1>8. available \in [Accounts -> Int]
  BY DEF LedgerInv, LedgerTypeOK
<1>9. \A a \in Accounts : available'[a] = TotalOf(BalanceRows(a))'
  <2> TAKE a \in Accounts
  <2>1. TotalOf(BalanceRows(a)) = available[a] /\ available[a] \in Int
    BY <1>8 DEF BooksBalance
  <2>2. TotalOf(BalanceRows(a))' = available[a] - (IF a = payer THEN -amount ELSE 0) + 0
    BY <1>2, <1>4, <1>5, <2>1
  <2> QED
    BY <1>1, <1>2, <1>8, <2>1, <2>2
<1>10. SumFunction(available)' + HeldCredits' = TotalOf(MintRows)'
  <2>1. SumFunction(available)' = SumFunction(available) + amount
    <3>1. /\ amount \in Int /\ available' \in [Accounts -> Int]
          /\ available'[payer] = available[payer] + amount
          /\ \A x \in Accounts \ {payer} : available'[x] = available[x]
      BY <1>1, <1>2, <1>8
    <3> QED
      BY <1>2, <1>8, <3>1, AccountCredited
  <2>2. SumFunction(available) \in Int /\ HeldCredits \in Int /\ TotalOf(MintRows) \in Int
    BY <1>8, AccountsFinite, SumFunctionType, HeldFunction, TotalsAreWhole DEF LedgerInv
  <2>3. HeldCredits' = HeldCredits - amount
    BY <1>1, HoldDropped DEF LedgerInv, amount
  <2>4. TotalOf(MintRows)' = TotalOf(MintRows)
    BY <1>2, <1>4, <1>5, <2>2
  <2> QED
    BY <1>2, <2>1, <2>2, <2>3, <2>4 DEF BooksBalance
<1>11. \A j \in JobIds : TotalOf(ChargeRows(j))' = -Held(j)'
  <2> TAKE j \in JobIds
  <2>1. TotalOf(ChargeRows(j)) = -Held(j) /\ TotalOf(ChargeRows(j)) \in Int
    BY TotalsAreWhole DEF BooksBalance
  <2>2. Held(j)' = IF j = job THEN 0 ELSE Held(j)
    BY <1>1, HeldAfterClose
  <2>3. j = job => Held(j) = amount
    BY <1>1 DEF Held, amount
  <2>4. TotalOf(ChargeRows(j))' = TotalOf(ChargeRows(j)) - (IF j = job THEN -amount ELSE 0) + 0
    BY <1>2, <1>4, <1>5
  <2> QED
    BY <1>2, <2>1, <2>2, <2>3, <2>4
<1> QED
  BY <1>4, <1>9, <1>10, <1>11 DEF BooksBalance

(* Settling a job: its reservation row makes room for the charge, the     *)
(* refund of the rest, the owner's share and the platform's fee.           *)
LEMMA SettleKeepsBooks ==
    ASSUME LedgerInv, BooksBalance, NEW job \in JobIds, NEW owner \in Users, NEW cost \in Nat,
           Settle(job, owner, cost), cost <= holds[job].amount, owner # holds[job].user
    PROVE  RowsAreFresh' /\ BooksBalance'
<1> DEFINE amount == holds[job].amount
           payer == holds[job].user
           refund == amount - cost
           share == WorkerShare(cost)
           fee == cost - share
           old == ReservationOf(job)
           r0 == Row(0, payer, "spend", -cost, "job_execution", job)
           r1 == Row(1, payer, "refund", refund, "unused_reserved_credits", job)
           r2 == Row(2, owner, "earn", share, "job_execution", job)
           r3 == Row(3, Platform, "adjustment", fee, "platform_fee", job)
<1>1. job \in DOMAIN holds /\ holds' = HoldsWithout(job)
  BY DEF Settle
<1>2. /\ amount \in Nat /\ payer \in Accounts /\ owner \in Accounts /\ Platform \in Accounts
      /\ \A a \in Accounts : AmountIn(BalanceRows(a), old) = IF a = payer THEN -amount ELSE 0
      /\ AmountIn(MintRows, old) = 0
      /\ \A j \in JobIds : AmountIn(ChargeRows(j), old) = IF j = job THEN -amount ELSE 0
  BY <1>1, ReservationAmounts DEF Accounts
<1>3. /\ refund \in Nat /\ share \in Nat /\ fee \in Nat
      /\ refund + share + fee = amount /\ share + fee = cost /\ refund + cost = amount
  <2>1. cost \in Nat /\ amount \in Nat /\ cost <= amount
    BY <1>2
  <2>2. refund \in Nat /\ share \in Nat /\ fee \in Nat
    BY <2>1, SettlementParts
  <2> HIDE DEF share, amount
  <2> QED
    BY <2>1, <2>2
<1>4. /\ available' = CreditedBalances(payer, owner, refund, share, fee)
      /\ owner # payer /\ owner # Platform /\ payer # Platform
  BY <1>2, LedgerAssumption DEF Settle, LedgerInv, LedgerTypeOK, CreditHold
<1>5. /\ RowsAreFresh'
      /\ \A kind : TotalOf(kind)' = TotalOf(kind) - AmountIn(kind, old) + AmountIn(kind, r0)
                                      + AmountIn(kind, r1) + AmountIn(kind, r2)
                                      + AmountIn(kind, r3)
  BY SettleTotals DEF TotalOf
<1> HIDE DEF amount, payer, refund, share, fee, old
<1>6. /\ \A a \in Accounts :
           /\ AmountIn(BalanceRows(a), r0) = IF a = payer THEN -cost ELSE 0
           /\ AmountIn(BalanceRows(a), r1) = 0
           /\ AmountIn(BalanceRows(a), r2) = IF a = owner THEN share ELSE 0
           /\ AmountIn(BalanceRows(a), r3) = IF a = Platform THEN fee ELSE 0
      /\ AmountIn(MintRows, r0) = 0 /\ AmountIn(MintRows, r1) = 0
      /\ AmountIn(MintRows, r2) = 0 /\ AmountIn(MintRows, r3) = 0
      /\ \A j \in JobIds :
           /\ AmountIn(ChargeRows(j), r0) = IF j = job THEN -cost ELSE 0
           /\ AmountIn(ChargeRows(j), r1) = 0
           /\ AmountIn(ChargeRows(j), r2) = IF j = job THEN share ELSE 0
           /\ AmountIn(ChargeRows(j), r3) = IF j = job THEN fee ELSE 0
  <2>1. /\ r0.user = payer /\ r0.type = "spend" /\ r0.amount = -cost /\ r0.job = job
        /\ r1.type = "refund"
        /\ r2.user = owner /\ r2.type = "earn" /\ r2.amount = share /\ r2.job = job
        /\ r3.user = Platform /\ r3.type = "adjustment" /\ r3.amount = fee /\ r3.job = job
    BY DEF Row
  <2> USE <1>2, <1>3, RowType DEF LedgerInv, EntryType, Source
  <2>2. r0 \in CreditTransaction
    OBVIOUS
  <2>3. r2 \in CreditTransaction
    OBVIOUS
  <2>4. r3 \in CreditTransaction
    OBVIOUS
  <2> HIDE DEF r0, r1, r2, r3
  <2> HIDE <1>2, <1>3, RowType DEF LedgerInv
  <2>5. /\ \A a \in Accounts : AmountIn(BalanceRows(a), r0) = IF a = payer THEN -cost ELSE 0
        /\ AmountIn(MintRows, r0) = 0
        /\ \A j \in JobIds : AmountIn(ChargeRows(j), r0) = IF j = job THEN -cost ELSE 0
    BY <2>1, <2>2, JobRowAmounts
  <2>6. /\ \A a \in Accounts : AmountIn(BalanceRows(a), r2) = IF a = owner THEN share ELSE 0
        /\ AmountIn(MintRows, r2) = 0
        /\ \A j \in JobIds : AmountIn(ChargeRows(j), r2) = IF j = job THEN share ELSE 0
    BY <2>1, <2>3, JobRowAmounts
  <2>7. /\ \A a \in Accounts : AmountIn(BalanceRows(a), r3) = IF a = Platform THEN fee ELSE 0
        /\ AmountIn(MintRows, r3) = 0
        /\ \A j \in JobIds : AmountIn(ChargeRows(j), r3) = IF j = job THEN fee ELSE 0
    BY <2>1, <2>4, JobRowAmounts
  <2>8. /\ \A a \in Accounts : AmountIn(BalanceRows(a), r1) = 0
        /\ AmountIn(MintRows, r1) = 0
        /\ \A j \in JobIds : AmountIn(ChargeRows(j), r1) = 0
    BY <2>1, RefundAmounts
  <2> QED
    BY <2>5, <2>6, <2>7, <2>8
<1> HIDE DEF r0, r1, r2, r3
<1>7. available \in [Accounts -> Int]
  BY DEF LedgerInv, LedgerTypeOK
<1> DEFINE b1 == [available EXCEPT ![owner] = @ + share]
           b2 == [b1 EXCEPT ![Platform] = @ + fee]
<1>8. /\ b1 \in [Accounts -> Int] /\ b1[owner] = available[owner] + share
      /\ \A a \in Accounts \ {owner} : b1[a] = available[a]
      /\ b2 \in [Accounts -> Int] /\ b2[Platform] = b1[Platform] + fee
      /\ \A a \in Accounts \ {Platform} : b2[a] = b1[a]
  BY <1>2, <1>3, <1>7
<1> HIDE DEF b1, b2
<1>9. /\ available' \in [Accounts -> Int]
      /\ \A a \in Accounts :
           available'[a] = available[a] + (IF a = owner THEN share ELSE 0)
                             + (IF a = Platform THEN fee ELSE 0)
                             + (IF a = payer THEN refund ELSE 0)
  BY <1>2, <1>3, <1>4, <1>7 DEF CreditedBalances
<1>10. \A a \in Accounts : available'[a] = TotalOf(BalanceRows(a))'
  <2> TAKE a \in Accounts
  <2>1. TotalOf(BalanceRows(a)) = available[a] /\ available[a] \in Int
    BY <1>7 DEF BooksBalance
  <2>2. TotalOf(BalanceRows(a))' = available[a] - (IF a = payer THEN -amount ELSE 0)
                                     + (IF a = payer THEN -cost ELSE 0) + 0
                                     + (IF a = owner THEN share ELSE 0)
                                     + (IF a = Platform THEN fee ELSE 0)
    BY <1>2, <1>5, <1>6, <2>1
  <2> QED
    BY <1>2, <1>3, <1>9, <2>1, <2>2
<1>11. SumFunction(available)' + HeldCredits' = TotalOf(MintRows)'
  <2>1. refund \in Int /\ share \in Int /\ fee \in Int
    BY <1>3
  <2>2. SumFunction(b1) = SumFunction(available) + share
    BY <1>2, <1>7, <1>8, <2>1, AccountCredited
  <2>3. SumFunction(b2) = SumFunction(b1) + fee
    BY <1>2, <1>8, <2>1, AccountCredited
  <2>4. SumFunction(available)' = SumFunction(b2) + refund
    <3>1. available'[payer] = b2[payer] + refund
      BY <1>2, <1>3, <1>4, <1>7, <1>8, <1>9
    <3>2. \A a \in Accounts \ {payer} : available'[a] = b2[a]
      BY <1>2, <1>3, <1>4, <1>7, <1>8, <1>9
    <3> QED
      BY <1>2, <1>8, <1>9, <2>1, <3>1, <3>2, AccountCredited
  <2>5. SumFunction(available) \in Int /\ HeldCredits \in Int /\ TotalOf(MintRows) \in Int
    BY <1>7, AccountsFinite, SumFunctionType, HeldFunction, TotalsAreWhole DEF LedgerInv
  <2>6. HeldCredits' = HeldCredits - amount
    BY <1>1, HoldDropped DEF LedgerInv, amount
  <2>7. TotalOf(MintRows)' = TotalOf(MintRows)
    BY <1>2, <1>5, <1>6, <2>5
  <2>8. SumFunction(available)' = SumFunction(available) + share + fee + refund
    BY <2>2, <2>3, <2>4
  <2> QED
    BY <1>2, <1>3, <2>5, <2>6, <2>7, <2>8 DEF BooksBalance
<1>12. \A j \in JobIds : TotalOf(ChargeRows(j))' = -Held(j)'
  <2> TAKE j \in JobIds
  <2>1. TotalOf(ChargeRows(j)) = -Held(j) /\ TotalOf(ChargeRows(j)) \in Int
    BY TotalsAreWhole DEF BooksBalance
  <2>2. Held(j)' = IF j = job THEN 0 ELSE Held(j)
    BY <1>1, HeldAfterClose
  <2>3. j = job => Held(j) = amount
    BY <1>1 DEF Held, amount
  <2>4. TotalOf(ChargeRows(j))' = TotalOf(ChargeRows(j)) - (IF j = job THEN -amount ELSE 0)
                                    + (IF j = job THEN -cost ELSE 0) + 0
                                    + (IF j = job THEN share ELSE 0)
                                    + (IF j = job THEN fee ELSE 0)
    BY <1>2, <1>5, <1>6
  <2> QED
    BY <1>2, <1>3, <2>1, <2>2, <2>3, <2>4
<1> QED
  BY <1>5, <1>10, <1>11, <1>12 DEF BooksBalance

(* A step that touches no balance, hold or row leaves the books alone.     *)
LEMMA BooksUntouched ==
    ASSUME LedgerInv, BooksBalance, UNCHANGED <<available, holds, transactions, nextEntry>>
    PROVE  RowsAreFresh' /\ BooksBalance'
<1>1. RowsAreFresh'
  BY DEF LedgerInv, RowsAreFresh
<1>2. /\ \A kind : TotalOf(kind)' = TotalOf(kind)
      /\ HeldCredits' = HeldCredits
      /\ \A j \in JobIds : Held(j)' = Held(j)
  BY DEF TotalOf, HeldCredits, Held
<1> QED
  BY <1>1, <1>2 DEF BooksBalance

(* Every step of the ledger keeps the books.                               *)
LEMMA BooksStep ==
    ASSUME LedgerInv, BooksBalance, [LedgerNext]_ledgerVars
    PROVE  RowsAreFresh' /\ BooksBalance'
<1> USE LedgerAssumption
<1> Users \subseteq Accounts
  BY DEF Accounts
<1>1. CASE \E user \in Users : RegisterUser(user)
  <2>1. UNCHANGED <<available, holds, transactions, nextEntry>>
    BY <1>1 DEF RegisterUser
  <2> QED
    BY <2>1, BooksUntouched
<1>2. CASE \E user \in Users, amount \in Grants : Bootstrap(user, amount)
  <2>1. PICK user \in Users, amount \in Grants : Bootstrap(user, amount)
    BY <1>2
  <2>2. user \in Accounts /\ amount \in Int /\ "bootstrap_credits" \in Source
    BY DEF Source
  <2> QED
    BY <2>1, <2>2, MintKeepsBooks DEF Bootstrap
<1>3. CASE \E user \in Users, amount \in Grants : Purchase(user, amount)
  <2>1. PICK user \in Users, amount \in Grants : Purchase(user, amount)
    BY <1>3
  <2>2. user \in Accounts /\ amount \in Int /\ "usd_purchase" \in Source
    BY DEF Source
  <2> QED
    BY <2>1, <2>2, MintKeepsBooks DEF Purchase
<1>4. CASE \E account \in Accounts, amount \in Adjustments : AdminAdjust(account, amount)
  <2>1. PICK account \in Accounts, amount \in Adjustments : AdminAdjust(account, amount)
    BY <1>4
  <2>2. amount \in Int /\ "admin_adjustment" \in Source
    BY DEF Source
  <2> QED
    BY <2>1, <2>2, MintKeepsBooks DEF AdminAdjust
<1>5. CASE \E job \in JobIds : LedgerReserve(job)
  BY <1>5, ReserveKeepsBooks DEF LedgerReserve
<1>6. CASE \E job \in JobIds : LedgerRelease(job)
  BY <1>6, ReleaseKeepsBooks DEF LedgerRelease
<1>7. CASE \E job \in JobIds : LedgerSettle(job)
  BY <1>7, SettleKeepsBooks DEF LedgerSettle
<1>8. CASE UNCHANGED ledgerVars
  BY <1>8, BooksUntouched DEF ledgerVars
<1> QED
  BY <1>1, <1>2, <1>3, <1>4, <1>5, <1>6, <1>7, <1>8 DEF LedgerNext

(* Nothing is booked at first: every sum is of zeros or of nothing.        *)
LEMMA BooksInit ==
    ASSUME LedgerInit
    PROVE  LedgerInv /\ BooksBalance
<1>1. IsFiniteSet({}) /\ RowsAreFresh /\ PendingMatchesHolds /\ LedgerTypeOK
  BY FS_EmptySet, LedgerInitType DEF LedgerInit, RowsAreFresh, PendingMatchesHolds, EmptyDict
<1>2. transactions = {} /\ DOMAIN holds = {}
  BY DEF LedgerInit, EmptyDict
<1>3. \A kind : TotalOf(kind) = 0
  BY <1>2, NoRowsNoAmount DEF TotalOf
<1>4. HeldCredits = 0
  <2> DEFINE f == [j \in DOMAIN holds |-> holds[j].amount]
  <2>1. f \in [{} -> Int] /\ \A x \in {} : f[x] = 0
    BY <1>2
  <2> HIDE DEF f
  <2>2. SumFunction(f) = 0
    BY <1>1, <2>1, SumFunctionZero
  <2> QED
    BY <2>2 DEF HeldCredits, f
<1>5. SumFunction(available) = 0
  <2>1. available \in [Accounts -> Int] /\ \A a \in Accounts : available[a] = 0
    BY DEF LedgerInit
  <2> QED
    BY <2>1, AccountsFinite, SumFunctionZero
<1>6. \A a \in Accounts : available[a] = 0
  BY DEF LedgerInit
<1>7. \A j \in JobIds : Held(j) = 0
  BY <1>2 DEF Held
<1> QED
  BY <1>1, <1>3, <1>4, <1>5, <1>6, <1>7 DEF BooksBalance, LedgerInv

(* The invariant of the ledger and its books: of the conjuncts of          *)
(* LedgerInv the sums need the types, the freshness of the entry ids and   *)
(* that closing a job drops exactly its reservation row.                   *)
LEMMA BooksCorrect == LedgerSpec => [](LedgerInv /\ BooksBalance)
<1>1. LedgerInit => LedgerInv /\ BooksBalance
  BY BooksInit
<1>2. LedgerInv /\ BooksBalance /\ [LedgerNext]_ledgerVars => LedgerInv' /\ BooksBalance'
  BY BooksStep, LedgerTypeStep, PendingStep DEF LedgerInv
<1> QED
  BY <1>1, <1>2, PTL DEF LedgerSpec

(* What is available to an account is the sum of its rows, refunds aside   *)
(* (ledger.py: every method changes a wallet and records the row).         *)
THEOREM RowsExplainTheBalances == LedgerSpec => []RowsExplainBalances
<1>1. LedgerInv /\ BooksBalance => RowsExplainBalances
  BY BooksBalanceMeaning DEF LedgerInv
<1> QED
  BY <1>1, BooksCorrect, PTL

(* Credits are neither created nor destroyed by reserving, releasing and   *)
(* settling: available and held credits are what was minted.               *)
THEOREM CreditsAreConserved == LedgerSpec => []CreditsConserved
<1>1. LedgerInv /\ BooksBalance => CreditsConserved
  BY BooksBalanceMeaning DEF LedgerInv
<1> QED
  BY <1>1, BooksCorrect, PTL

(* The rows of a job say what its hold says while it is open, and cancel   *)
(* out once it is closed: the charge is paid out in full.                  *)
THEOREM JobRowsAlwaysBalance == LedgerSpec => []JobRowsBalance
<1>1. LedgerInv /\ BooksBalance => JobRowsBalance
  BY BooksBalanceMeaning DEF LedgerInv
<1> QED
  BY <1>1, BooksCorrect, PTL

=============================================================================
