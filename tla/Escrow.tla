------------------------------- MODULE Escrow -------------------------------
(***************************************************************************)
(* What the credit ledger promises, without wallets, rows or statuses:     *)
(* credits enter or leave an account only from outside, a job's price is   *)
(* put aside once, and what was put aside is paid out once, to the last    *)
(* credit, either back to the payer or split between the payer, the        *)
(* worker's owner and the platform.  Nobody goes below zero.               *)
(***************************************************************************)
EXTENDS Integers

CONSTANTS Accounts, Platform, JobIds

VARIABLES
    balance,    \* credits an account can use
    escrow,     \* open job -> [user, amount] put aside for it
    closed      \* jobs whose escrow was paid out

vars == <<balance, escrow, closed>>

Init ==
    /\ balance = [a \in Accounts |-> 0]
    /\ DOMAIN escrow = {}
    /\ closed = {}

(* Credits granted, bought, added or taken by the operator. *)
Deposit(account) ==
    /\ balance' \in [Accounts -> Nat]
    /\ \A other \in Accounts \ {account} : balance'[other] = balance[other]
    /\ UNCHANGED <<escrow, closed>>

PutAside(user, job, amount) ==
    /\ job \notin DOMAIN escrow \cup closed
    /\ balance' = [balance EXCEPT ![user] = @ - amount]
    /\ escrow' = [j \in DOMAIN escrow \cup {job} |->
                    IF j = job THEN [user |-> user, amount |-> amount] ELSE escrow[j]]
    /\ UNCHANGED closed

Close(job) ==
    /\ job \in DOMAIN escrow
    /\ escrow' = [j \in DOMAIN escrow \ {job} |-> escrow[j]]
    /\ closed' = closed \cup {job}

GiveBack(job) ==
    /\ Close(job)
    /\ balance' = [balance EXCEPT ![escrow[job].user] = @ + escrow[job].amount]

(* A served job always pays its worker: one credit at least. *)
PayOut(job, owner, refund, share, fee) ==
    /\ Close(job)
    /\ owner # escrow[job].user /\ owner # Platform
    /\ balance' = [balance EXCEPT ![owner] = @ + share,
                                  ![Platform] = @ + fee,
                                  ![escrow[job].user] = @ + refund]

(* Every split that pays out all that was put aside. *)
PayOutAll(job, owner) ==
    \E share \in 1 .. escrow[job].amount : \E fee \in 0 .. escrow[job].amount - share :
        PayOut(job, owner, escrow[job].amount - share - fee, share, fee)

Next ==
    \/ \E account \in Accounts : Deposit(account)
    \/ \E user \in Accounts, job \in JobIds :
         \E amount \in 1 .. balance[user] : PutAside(user, job, amount)
    \/ \E job \in JobIds : GiveBack(job)
    \/ \E job \in JobIds \cap DOMAIN escrow, owner \in Accounts : PayOutAll(job, owner)

Spec == Init /\ [][Next]_vars

=============================================================================
