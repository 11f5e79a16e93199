---------------------------- MODULE SharedStore ----------------------------
(***************************************************************************)
(* Several processes on one saved state (state_store.py): servers on one   *)
(* Firestore document, or a server and the token commands of the command *)
(* line (cli.py) on one file.  A process loads the document once, when its *)
(* NetworkService is constructed, and every saved call writes all of its   *)
(* memory over the document.                                            *)
(*                                                                         *)
(* Abstracted: the state is the set of facts that saved calls added to it: *)
(* [kind, id], where a revoked token has both its facts.  A call is one    *)
(* step: what starts between its change and its save loads the same as     *)
(* what started before the call.  Saves that fail are in Recovery.         *)
(***************************************************************************)
EXTENDS Naturals

CONSTANTS
    Servers,        \* processes that serve the API
    Commands,       \* runs of the command line's token commands
    Purchases,      \* bound: purchases of a behaviour
    Tokens          \* bound: worker tokens of a behaviour

Processes == Servers \cup Commands

VARIABLES
    saved,          \* the saved state
    memory,         \* process -> the state it holds
    stage,          \* process -> "new", "running", "ended"
    answered,       \* facts whose call has answered
    contested       \* of these, the ones answered while another process ran:
                    \* a history, which the code does not keep and no guard reads

storeVars == <<saved, memory, stage, answered, contested>>

SavedFacts == [kind : {"purchase"}, id : Purchases] \cup [kind : {"issued", "revoked"}, id : Tokens]

Fact(kind, id) == [kind |-> kind, id |-> id]

(* A worker token authenticate_worker_token accepts, given a state. *)
Accepts(state, token) ==
    /\ Fact("issued", token) \in state
    /\ Fact("revoked", token) \notin state

Running(p) == stage[p] = "running"

Alone(p) == \A other \in Processes : Running(other) => other = p

StoreInit ==
    /\ saved = {}
    /\ memory = [p \in Processes |-> {}]
    /\ stage = [p \in Processes |-> "new"]
    /\ answered = {}
    /\ contested = {}

(* NetworkService.__init__ and _load_state *)
Start(p) ==
    /\ stage[p] = "new"
    /\ stage' = [stage EXCEPT ![p] = "running"]
    /\ memory' = [memory EXCEPT ![p] = saved]
    /\ UNCHANGED <<saved, answered, contested>>

(* The process ends, or crashes; a server can be started again. *)
Stop(p) ==
    /\ Running(p)
    /\ stage' = [stage EXCEPT ![p] = IF p \in Servers THEN "new" ELSE "ended"]
    /\ memory' = [memory EXCEPT ![p] = {}]
    /\ UNCHANGED <<saved, answered, contested>>

(* The memory gains what the call adds, and is the whole new document.     *)
(* A command of the command line ends after its call.                      *)
SaveAll(p, added) ==
    /\ memory' = [memory EXCEPT ![p] = @ \cup added]
    /\ saved' = memory'[p]
    /\ answered' = answered \cup added
    /\ contested' = IF Alone(p) THEN contested \ added ELSE contested \cup added
    /\ stage' = [stage EXCEPT ![p] = IF p \in Commands THEN "ended" ELSE @]

PurchaseCredits(p, purchase) ==
    /\ Running(p) /\ p \in Servers
    /\ Fact("purchase", purchase) \notin answered
    /\ SaveAll(p, {Fact("purchase", purchase)})

(* service.issue_worker_token draws a fresh id. *)
IssueWorkerToken(p, token) ==
    /\ Running(p)
    /\ Fact("issued", token) \notin answered
    /\ SaveAll(p, {Fact("issued", token)})

RevokeWorkerToken(p, token) ==
    /\ Running(p)
    /\ Accepts(memory[p], token)
    /\ SaveAll(p, {Fact("revoked", token)})

(* A daemon's request: last_used_unix is set, and all is saved again. *)
AuthenticateWorkerToken(p, token) ==
    /\ Running(p) /\ p \in Servers
    /\ Accepts(memory[p], token)
    /\ SaveAll(p, {})

Call(p) ==
    \/ \E purchase \in Purchases : PurchaseCredits(p, purchase)
    \/ \E token \in Tokens :
         \/ IssueWorkerToken(p, token)
         \/ RevokeWorkerToken(p, token)
         \/ AuthenticateWorkerToken(p, token)

ServersNext == \E p \in Processes : Start(p) \/ Stop(p) \/ Call(p)

ServersSpec == StoreInit /\ [][ServersNext]_storeVars

-----------------------------------------------------------------------------
(* Properties *)

(* What a call answered while no other process ran is never lost to the    *)
(* saves of processes that start, overlap and overwrite each other later:  *)
(* it is in the document and in the memory of every process that runs      *)
(* (state_store.py:68, 77).                                                *)
UncontestedAnswersLast ==
    \A fact \in answered \ contested :
        /\ fact \in saved
        /\ \A p \in Processes : Running(p) => fact \in memory[p]

(* A token revoked while no other process ran is accepted by no process    *)
(* from then on, whatever older documents are still written.               *)
UncontestedRevocationsHold ==
    \A p \in Processes, token \in Tokens :
        /\ Running(p)
        /\ Fact("revoked", token) \in answered \ contested
        => ~Accepts(memory[p], token)

-----------------------------------------------------------------------------
(* What the README says and processes that overlap do not do *)

(* README.md:175: "To persist balances, conversations, account bindings,   *)
(* and history across multiple machines, configure the Firestore backend". *)
BalancesPersist ==
    \A purchase \in Purchases :
        Fact("purchase", purchase) \in answered => Fact("purchase", purchase) \in saved

(* README.md:217: "Issue a worker token on the coordinator host", then use *)
(* it with the server that runs there.                                     *)
IssuedTokensAccepted ==
    \A token \in Tokens :
        /\ Fact("issued", token) \in answered
        /\ Fact("revoked", token) \notin answered
        => \A p \in Servers : Running(p) => Accepts(memory[p], token)

=============================================================================
