------------------------------- MODULE Ledger -------------------------------
(***************************************************************************)
(* The credit ledger (ledger.py, class CreditLedger): wallets, the holds   *)
(* that reserve credits for open jobs, and the typed rows that explain the *)
(* balances.  Every public method runs under the service's lock, so each   *)
(* one is one action.  The wallet timestamps and the order of the rows are *)
(* left out; a row is identified by its entry_id, as in the code.          *)
(***************************************************************************)
EXTENDS Integers, FiniteSets, FiniteSetsExt

CONSTANTS
    Users,          \* user identifiers (wallets that requesters and owners use)
    Platform,       \* PLATFORM_WALLET_ID
    JobIds,         \* job identifiers coordinator.submit_job can draw
    NoJob,          \* the empty job_id of rows that belong to no job
    Grants,         \* bound: amounts of bootstrap grants and purchases
    Adjustments,    \* bound: amounts an administrator adds or removes
    Prices,         \* bound: amounts a job can reserve or cost
    MaxMints        \* bound: bootstrap, purchase and admin rows ever recorded

ASSUME LedgerAssumption ==
    /\ Platform \notin Users
    /\ NoJob \notin JobIds
    /\ IsFiniteSet(Users) /\ IsFiniteSet(JobIds)
    /\ Grants \subseteq Nat \ {0}
    /\ Adjustments \subseteq Int \ {0}
    /\ Prices \subseteq Nat \ {0}
    /\ MaxMints \in Nat

Accounts == Users \cup {Platform}

VARIABLES
    registered,     \* keys of _wallets; a missing wallet reads as all zeros
    available,      \* available_credits of every account
    spent,          \* spent_credits
    earned,         \* earned_credits
    holds,          \* _holds: open job -> [user, amount]
    transactions,   \* _transactions, as a set of rows
    nextEntry       \* source of fresh entry_ids (uuid4 in the code)

ledgerVars == <<registered, available, spent, earned, holds, transactions, nextEntry>>

-----------------------------------------------------------------------------
(* Rows and holds *)

EntryType == {"purchase", "spend", "earn", "refund", "adjustment"}

Source == {"bootstrap_credits", "usd_purchase", "admin_adjustment",
           "job_reservation", "job_execution", "unused_reserved_credits",
           "platform_fee", "job_failed_or_unverified", "self_served_refund",
           "admin_cancel"}

ReleaseSource == {"job_failed_or_unverified", "self_served_refund", "admin_cancel"}

CreditHold == [user : Users, amount : Nat \ {0}]

CreditTransaction ==
    [id : Nat, user : Accounts, type : EntryType, amount : Int, source : Source,
     job : JobIds \cup {NoJob}, pending : BOOLEAN]

(* The row _record_transaction appends, k places after the next entry id. *)
Row(k, user, type, amount, source, job) ==
    [id |-> nextEntry + k, user |-> user, type |-> type, amount |-> amount,
     source |-> source, job |-> job, pending |-> FALSE]

PendingRow(user, amount, job) ==
    [id |-> nextEntry, user |-> user, type |-> "spend", amount |-> -amount,
     source |-> "job_reservation", job |-> job, pending |-> TRUE]

(* Appends one row. *)
Record(row) ==
    /\ transactions' = transactions \cup {row}
    /\ nextEntry' = nextEntry + 1

(* The reservation row _drop_pending_reservation filters out. *)
IsPendingReservation(t, job, user) ==
    t.job = job /\ t.user = user /\ t.pending /\ t.type = "spend" /\ t.source = "job_reservation"

WithoutPending(job, user) ==
    {t \in transactions : ~IsPendingReservation(t, job, user)}

HoldsWithout(job) == Restrict(holds, DOMAIN holds \ {job})

EmptyDict == [k \in {} |-> k]

(* A dictionary with one key set. *)
With(f, key, value) == [k \in DOMAIN f \cup {key} |-> IF k = key THEN value ELSE f[k]]

(* int(cost * 0.70) on IEEE doubles: 0.70 is stored a little below seven    *)
(* tenths, and the product of a multiple of ten rounds back up to the exact *)
(* value only when a power of two lies between 4m and 7m, where cost = 10m. *)
SeventyPercent(cost) ==
    LET m == cost \div 10
        RoundsUp == \E k \in 0 .. 30 : 4 * m <= 2^k /\ 2^k <= 7 * m
    IN  (7 * cost) \div 10 - (IF cost % 10 = 0 /\ m > 0 /\ ~RoundsUp THEN 1 ELSE 0)

(* Variant with a bug: the share is not raised to one credit.              *)
ShareOfSmallCostLost(cost) == SeventyPercent(cost)

(* max(1, int(cost * 0.70)), at most the cost; nothing for nothing.         *)
WorkerShare(cost) ==
    LET share == IF cost = 0 THEN 0
                 ELSE IF SeventyPercent(cost) < 1 THEN 1 ELSE SeventyPercent(cost)
    IN  IF share < cost THEN share ELSE cost

(* Rows that create credits: bootstrap grants, purchases, adjustments. *)
IsMint(t) == t.type \in {"purchase", "adjustment"} /\ t.job = NoJob

MintAllowed == Cardinality({t \in transactions : IsMint(t)}) < MaxMints

(* A job id that no hold and no row mentions: submit_job draws a uuid4. *)
FreshJob(job) ==
    /\ job \notin DOMAIN holds
    /\ \A t \in transactions : t.job # job

-----------------------------------------------------------------------------
(* Variants of the methods, each with a plausible bug.  The specification  *)
(* uses none of them: put in place of the method they show which property  *)
(* would notice.                                                           *)

(* reserve without its balance check *)
ReserveOverdrawing(user, job, amount) ==
    /\ registered' = registered \cup {user}
    /\ available' = [available EXCEPT ![user] = @ - amount]
    /\ holds' = With(holds, job, [user |-> user, amount |-> amount])
    /\ Record(PendingRow(user, amount, job))
    /\ UNCHANGED <<spent, earned>>

(* release that forgets _drop_pending_reservation *)
ReleaseKeepingPending(job, source) ==
    /\ job \in DOMAIN holds
    /\ holds' = HoldsWithout(job)
    /\ available' = [available EXCEPT ![holds[job].user] = @ + holds[job].amount]
    /\ Record(Row(0, holds[job].user, "refund", holds[job].amount, source, job))
    /\ UNCHANGED <<registered, spent, earned>>

(* settle that records the reservation as spent, besides the refund *)
SettlementRowsOfReservation(job, payer, owner, cost, refund, share, fee) ==
    {Row(0, payer, "spend", -(cost + refund), "job_execution", job)}
      \cup {r \in {Row(1, payer, "refund", refund, "unused_reserved_credits", job),
                   Row(2, owner, "earn", share, "job_execution", job),
                   Row(3, Platform, "adjustment", fee, "platform_fee", job)} : r.amount # 0}

(* settle that records no row for the platform's fee *)
SettlementRowsWithoutFee(job, payer, owner, cost, refund, share, fee) ==
    {Row(0, payer, "spend", -cost, "job_execution", job)}
      \cup {r \in {Row(1, payer, "refund", refund, "unused_reserved_credits", job),
                   Row(2, owner, "earn", share, "job_execution", job)} : r.amount # 0}

(* settle that keeps the unused part of the reservation *)
CreditedWithoutRefund(payer, owner, refund, share, fee) ==
    [available EXCEPT ![owner] = @ + share, ![Platform] = @ + fee]

-----------------------------------------------------------------------------
(* Methods of CreditLedger *)

LedgerInit ==
    /\ registered = {}
    /\ available = [a \in Accounts |-> 0]
    /\ spent = [a \in Accounts |-> 0]
    /\ earned = [a \in Accounts |-> 0]
    /\ holds = EmptyDict
    /\ transactions = {}
    /\ nextEntry = 0

(* register_user without a grant: the wallet is created, nothing else. *)
RegisterUser(user) ==
    /\ registered' = registered \cup {user}
    /\ UNCHANGED <<available, spent, earned, holds, transactions, nextEntry>>

(* register_user with starting credits: granted to any wallet that has     *)
(* nothing available and has spent nothing, whoever asked for it before.   *)
Bootstrap(user, amount) ==
    /\ MintAllowed
    /\ available[user] = 0 /\ spent[user] = 0
    /\ registered' = registered \cup {user}
    /\ available' = [available EXCEPT ![user] = @ + amount]
    /\ Record(Row(0, user, "adjustment", amount, "bootstrap_credits", NoJob))
    /\ UNCHANGED <<spent, earned, holds>>

Purchase(user, amount) ==
    /\ MintAllowed
    /\ registered' = registered \cup {user}
    /\ available' = [available EXCEPT ![user] = @ + amount]
    /\ Record(Row(0, user, "purchase", amount, "usd_purchase", NoJob))
    /\ UNCHANGED <<spent, earned, holds>>

(* adjust, behind the checks of service.admin_adjust_credits. *)
AdminAdjust(account, amount) ==
    /\ MintAllowed
    /\ account \in registered
    /\ available[account] + amount >= 0
    /\ available' = [available EXCEPT ![account] = @ + amount]
    /\ Record(Row(0, account, "adjustment", amount, "admin_adjustment", NoJob))
    /\ UNCHANGED <<registered, spent, earned, holds>>

Reserve(user, job, amount) ==
    /\ available[user] >= amount
    /\ registered' = registered \cup {user}
    /\ available' = [available EXCEPT ![user] = @ - amount]
    /\ holds' = With(holds, job, [user |-> user, amount |-> amount])
    /\ Record(PendingRow(user, amount, job))
    /\ UNCHANGED <<spent, earned>>

Release(job, source) ==
    /\ job \in DOMAIN holds
    /\ LET hold == holds[job] IN
       /\ holds' = HoldsWithout(job)
       /\ available' = [available EXCEPT ![hold.user] = @ + hold.amount]
       /\ transactions' = WithoutPending(job, hold.user)
                            \cup {Row(0, hold.user, "refund", hold.amount, source, job)}
       /\ nextEntry' = nextEntry + 1
    /\ UNCHANGED <<registered, spent, earned>>

(* The rows settle records, each one only when its amount is not zero. *)
SettlementRows(job, payer, owner, cost, refund, share, fee) ==
    {Row(0, payer, "spend", -cost, "job_execution", job)}
      \cup {r \in {Row(1, payer, "refund", refund, "unused_reserved_credits", job),
                   Row(2, owner, "earn", share, "job_execution", job),
                   Row(3, Platform, "adjustment", fee, "platform_fee", job)} : r.amount # 0}

(* What settle does to the wallets, in its order: the payer is charged,    *)
(* the owner and the platform are credited, the unused part goes back.     *)
(* (The owner may be the payer or not; the platform is neither.)           *)
CreditedBalances(payer, owner, refund, share, fee) ==
    [available EXCEPT ![owner] = @ + share, ![Platform] = @ + fee, ![payer] = @ + refund]

CreditedEarnings(owner, share, fee) ==
    [earned EXCEPT ![owner] = @ + share, ![Platform] = @ + fee]

(* settle: the hold is popped before final_cost is validated, so a cost    *)
(* outside the hold would lose it; complete_job caps the cost at the hold. *)
Settle(job, owner, cost) ==
    /\ job \in DOMAIN holds
    /\ holds' = HoldsWithout(job)
    /\ LET hold   == holds[job]
           refund == hold.amount - cost
           share  == WorkerShare(cost)
           fee    == cost - share
       IN  IF cost < 0 \/ cost > hold.amount
           THEN UNCHANGED <<registered, available, spent, earned, transactions, nextEntry>>
           ELSE /\ registered' = registered \cup {hold.user, owner, Platform}
                /\ available' = CreditedBalances(hold.user, owner, refund, share, fee)
                /\ spent' = [spent EXCEPT ![hold.user] = @ + cost]
                /\ earned' = CreditedEarnings(owner, share, fee)
                /\ transactions' = WithoutPending(job, hold.user) \cup
                     SettlementRows(job, hold.user, owner, cost, refund, share, fee)
                /\ nextEntry' = nextEntry + 4

-----------------------------------------------------------------------------
(* The ledger on its own, called as the coordinator calls it: fresh job    *)
(* ids, costs within the hold, and a worker owner other than the payer.    *)

LedgerRelease(job) == \E source \in ReleaseSource : Release(job, source)

LedgerSettle(job) ==
    \E owner \in Users, cost \in Prices :
        /\ job \in DOMAIN holds
        /\ cost <= holds[job].amount
        /\ owner # holds[job].user
        /\ Settle(job, owner, cost)

LedgerReserve(job) ==
    /\ FreshJob(job)
    /\ \E user \in Users, amount \in Prices : Reserve(user, job, amount)

LedgerNext ==
    \/ \E user \in Users : RegisterUser(user)
    \/ \E user \in Users, amount \in Grants : Bootstrap(user, amount)
    \/ \E user \in Users, amount \in Grants : Purchase(user, amount)
    \/ \E account \in Accounts, amount \in Adjustments : AdminAdjust(account, amount)
    \/ \E job \in JobIds : LedgerReserve(job)
    \/ \E job \in JobIds : LedgerRelease(job)
    \/ \E job \in JobIds : LedgerSettle(job)

LedgerSpec == LedgerInit /\ [][LedgerNext]_ledgerVars

-----------------------------------------------------------------------------
(* Properties *)

(* Every wallet, hold and row has its type; balances are never negative    *)
(* (the guards of reserve, ledger.py:62, and of admin_adjust_credits).     *)
LedgerTypeOK ==
    /\ registered \subseteq Accounts
    /\ available \in [Accounts -> Nat]
    /\ spent \in [Accounts -> Nat]
    /\ earned \in [Accounts -> Nat]
    /\ DOMAIN holds \subseteq JobIds
    /\ \A j \in DOMAIN holds : holds[j] \in CreditHold
    /\ transactions \subseteq CreditTransaction
    /\ nextEntry \in Nat

(* The pending rows are exactly the open holds: one row per hold, for its  *)
(* user and amount, and no pending row without a hold.  Reserve creates    *)
(* both, release and settle drop both (_drop_pending_reservation).         *)
PendingMatchesHolds ==
    /\ \A t \in transactions :
         t.pending => /\ t.job \in DOMAIN holds
                      /\ t.user = holds[t.job].user
                      /\ t.amount = -holds[t.job].amount
                      /\ t.type = "spend" /\ t.source = "job_reservation"
    /\ \A j \in DOMAIN holds : \E t \in transactions : t.job = j /\ t.pending
    /\ \A t1, t2 \in transactions : t1.pending /\ t2.pending /\ t1.job = t2.job => t1 = t2

SumOfAmounts(rows) == SumFunction([t \in rows |-> t.amount])

(* The rows explain the balance: what is available to an account is the    *)
(* sum of its rows other than refunds.  A refund row gives back what its   *)
(* reservation row took, and that row is dropped when the job closes.      *)
RowsExplainBalances ==
    \A a \in Accounts :
        available[a] = SumOfAmounts({t \in transactions : t.user = a /\ t.type # "refund"})

HeldCredits == SumFunction([j \in DOMAIN holds |-> holds[j].amount])

(* No call creates or destroys credits: what is available and what is on   *)
(* hold is what was granted, bought or adjusted.                           *)
CreditsConserved ==
    SumFunction(available) + HeldCredits
        = SumOfAmounts({t \in transactions : IsMint(t)})

JobRows(job) == {t \in transactions : t.job = job}

(* The rows of one job tell its whole story: nothing but the reservation   *)
(* while it is on hold, and once it is closed the charge is paid out in    *)
(* full to the worker's owner and the platform.                            *)
JobRowsBalance ==
    \A j \in JobIds :
        SumOfAmounts({t \in JobRows(j) : t.type # "refund"})
            = IF j \in DOMAIN holds THEN -holds[j].amount ELSE 0

ClosedJobs == {j \in JobIds \ DOMAIN holds : JobRows(j) # {}}

Escrow == INSTANCE Escrow WITH balance <- available, escrow <- holds, closed <- ClosedJobs

(* The ledger implements the abstract escrow: a job is paid for once, its  *)
(* hold is closed once, and all of it is handed out (ledger.py:58-174).    *)
ImplementsEscrow == Escrow!Spec

=============================================================================
