--------------------------- MODULE OperationLedger ---------------------------
(***************************************************************************)
(* The durable write path of the Agent API: durable_mutation (api.py) over  *)
(* SqliteOperationLedger (storage.py).  An HTTP request is served by a      *)
(* thread; what it does between two lock or database operations is one step.*)
(* The database survives a crash, the service's memory does not.            *)
(*                                                                          *)
(* A slot is an (operation, key) pair, the primary key of operation_receipts;*)
(* an input is the fingerprint of an authenticated body.  The callback is   *)
(* an operation of the service without idempotency of its own, as           *)
(* create_intent and run_hero are; the versions of what it writes are one   *)
(* counter.  operation_ledger() builds the ledger on first use without a    *)
(* lock, so the threads may hold different ledgers, and locks, of one file. *)
(***************************************************************************)
EXTENDS Naturals, FiniteSets

CONSTANTS
    Request,    \* HTTP requests, retries included
    Slot,
    Input,
    Ledger,     \* SqliteOperationLedger objects of the file
    MaxCrash    \* bound: how often the process is killed

ASSUME CrashAssumption == MaxCrash \in Nat

VARIABLES
    receipts,   \* table operation_receipts
    audit,      \* table decision_audit: rows per slot
    holder,     \* each ledger's _lock: the request inside, or Nobody
    version,    \* the service's memory: operations committed since it started
    effects,    \* history: commits of each slot's operation, ever
    thread,     \* each request's thread
    crashes

vars == <<receipts, audit, holder, version, effects, thread, crashes>>

Nobody == "NOBODY"

Receipt ==
    [status : {"ABSENT", "PENDING", "COMMITTED"}, input : Input \cup {"NONE"},
     response : Nat]

NoReceipt == [status |-> "ABSENT", input |-> "NONE", response |-> 0]

\* made is the version that the request's own callback produced.
Phase == {"sent", "insert", "call", "view", "commit", "undo", "audit",
          "ok", "refused", "failed", "lost"}

Answered == {"ok", "refused", "failed", "lost"}

Thread ==
    [pc : Phase, slot : Slot, input : Input, ledger : Ledger,
     made : Nat, response : Nat, replayed : BOOLEAN]

Init ==
    /\ receipts = [s \in Slot |-> NoReceipt]
    /\ audit = [s \in Slot |-> 0]
    /\ holder = [l \in Ledger |-> Nobody]
    /\ version = 0
    /\ effects = [s \in Slot |-> 0]
    /\ thread \in [Request -> [pc : {"sent"}, slot : Slot, input : Input,
                              ledger : Ledger, made : {0}, response : {0},
                              replayed : {FALSE}]]
    /\ crashes = 0

-----------------------------------------------------------------------------
At(r, pc) == thread[r].pc = pc

\* The lock is re-entrant.
LockFree(r) == holder[thread[r].ledger] \in {Nobody, r}

Goto(r, pc) == thread' = [thread EXCEPT ![r].pc = pc]

\* Mutant: the lock is not given back.
Release_Keeps(r) == UNCHANGED holder

Release(r) == holder' = [holder EXCEPT ![thread[r].ledger] = Nobody]

\* Mutant: a row that is there is there for the taking.
Taken_CommittedOnly(receipt) == receipt.status = "COMMITTED"

\* The primary key refuses a second row.
Taken(receipt) == receipt.status # "ABSENT"

\* Mutant: the same key is enough.
SameInput_KeyOnly(r) == TRUE

\* The fingerprint of the body is the recorded one.
SameInput(r) == receipts[thread[r].slot].input = thread[r].input

\* execute, up to the look at the row: answer from it, or go on to insert one
\* with the lock held.
Look(r) ==
    LET receipt == receipts[thread[r].slot]
    IN  /\ At(r, "sent")
        /\ LockFree(r)
        /\ \/ /\ Taken(receipt)
              /\ SameInput(r)
              /\ receipt.status = "COMMITTED"
              /\ thread' = [thread EXCEPT ![r].pc = "ok",
                                          ![r].response = receipt.response,
                                          ![r].replayed = TRUE]
              /\ UNCHANGED holder
           \/ /\ Taken(receipt)
              /\ ~SameInput(r) \/ receipt.status = "PENDING"
              /\ Goto(r, "refused")
              /\ UNCHANGED holder
           \/ /\ ~Taken(receipt)
              /\ Goto(r, "insert")
              /\ holder' = [holder EXCEPT ![thread[r].ledger] = r]
        /\ UNCHANGED <<receipts, audit, version, effects, crashes>>

\* INSERT ... 'PENDING'.  Through another ledger the row may have come in
\* between; the primary key then raises, before the callback runs.
Insert(r) ==
    LET s == thread[r].slot
    IN  /\ At(r, "insert")
        /\ Release(r)
        /\ \/ /\ Taken(receipts[s])
              /\ Goto(r, "failed")
              /\ UNCHANGED receipts
           \/ /\ ~Taken(receipts[s])
              /\ receipts' = [receipts EXCEPT
                    ![s] = [status |-> "PENDING", input |-> thread[r].input,
                            response |-> 0]]
              /\ Goto(r, "call")
        /\ UNCHANGED <<audit, version, effects, crashes>>

\* callback(): the service commits the operation, or raises.
Call(r) ==
    /\ At(r, "call")
    /\ \/ /\ version' = version + 1
          /\ effects' = [effects EXCEPT ![thread[r].slot] = @ + 1]
          /\ thread' = [thread EXCEPT ![r].pc = "view", ![r].made = version + 1]
       \/ /\ Goto(r, "undo")
          /\ UNCHANGED <<version, effects>>
    /\ UNCHANGED <<receipts, audit, holder, crashes>>

\* Mutant: the view is taken before the operation.
View_Early(r) ==
    /\ At(r, "view")
    /\ thread' = [thread EXCEPT ![r].pc = "commit", ![r].response = thread[r].made - 1]
    /\ UNCHANGED <<receipts, audit, holder, version, effects, crashes>>

\* service.view, after the service's lock was given back.
View(r) ==
    /\ At(r, "view")
    /\ thread' = [thread EXCEPT ![r].pc = "commit", ![r].response = version]
    /\ UNCHANGED <<receipts, audit, holder, version, effects, crashes>>

\* UPDATE ... 'COMMITTED'
Commit(r) ==
    /\ At(r, "commit")
    /\ LockFree(r)
    /\ receipts' = [receipts EXCEPT
            ![thread[r].slot] = [status |-> "COMMITTED", input |-> @.input,
                                 response |-> thread[r].response]]
    /\ Goto(r, "audit")
    /\ UNCHANGED <<audit, holder, version, effects, crashes>>

\* Mutant: an operation that failed is audited as well.
Undo_Audits(r) ==
    /\ At(r, "undo")
    /\ LockFree(r)
    /\ receipts' = [receipts EXCEPT ![thread[r].slot] = NoReceipt]
    /\ Goto(r, "audit")
    /\ UNCHANGED <<audit, holder, version, effects, crashes>>

\* DELETE, when the callback raised.
Undo(r) ==
    /\ At(r, "undo")
    /\ LockFree(r)
    /\ receipts' = [receipts EXCEPT ![thread[r].slot] = NoReceipt]
    /\ Goto(r, "failed")
    /\ UNCHANGED <<audit, holder, version, effects, crashes>>

\* append_audit, of an operation that was not a replay.
AppendAudit(r) ==
    /\ At(r, "audit")
    /\ LockFree(r)
    /\ audit' = [audit EXCEPT ![thread[r].slot] = @ + 1]
    /\ Goto(r, "ok")
    /\ UNCHANGED <<receipts, holder, version, effects, crashes>>

\* The database stays busy for longer than the connection's timeout: the
\* statement raises and nothing is written.
Busy(r) ==
    /\ \/ At(r, "insert") /\ Release(r)
       \/ thread[r].pc \in {"sent", "commit", "undo", "audit"} /\ LockFree(r) /\ UNCHANGED holder
    /\ Goto(r, "failed")
    /\ UNCHANGED <<receipts, audit, version, effects, crashes>>

\* Mutant: a process that starts clears away the rows that it finds PENDING.
Crash_Clears ==
    /\ crashes < MaxCrash
    /\ crashes' = crashes + 1
    /\ version' = 0
    /\ holder' = [l \in Ledger |-> Nobody]
    /\ thread' = [r \in Request |->
            IF thread[r].pc \in Answered \cup {"sent"} THEN thread[r]
            ELSE [thread[r] EXCEPT !.pc = "lost"]]
    /\ receipts' = [s \in Slot |->
            IF receipts[s].status = "PENDING" THEN NoReceipt ELSE receipts[s]]
    /\ UNCHANGED <<audit, effects>>

\* The process is killed and starts again: its threads and memory are gone.
Crash ==
    /\ crashes < MaxCrash
    /\ crashes' = crashes + 1
    /\ version' = 0
    /\ holder' = [l \in Ledger |-> Nobody]
    /\ thread' = [r \in Request |->
            IF thread[r].pc \in Answered \cup {"sent"} THEN thread[r]
            ELSE [thread[r] EXCEPT !.pc = "lost"]]
    /\ UNCHANGED <<receipts, audit, effects>>

Step(r) ==
    \/ Look(r) \/ Insert(r) \/ Call(r) \/ View(r)
    \/ Commit(r) \/ Undo(r) \/ AppendAudit(r) \/ Busy(r)

Next == Crash \/ \E r \in Request : Step(r)

Spec == Init /\ [][Next]_vars

FairSpec == Spec /\ \A r \in Request : WF_vars(Step(r))

-----------------------------------------------------------------------------
(* Properties.                                                              *)

\* The tables, the locks and the threads keep their types; a response is the
\* number of operations it shows.
TypeOK ==
    /\ receipts \in [Slot -> Receipt]
    /\ audit \in [Slot -> Nat]
    /\ holder \in [Ledger -> Request \cup {Nobody}]
    /\ version \in Nat
    /\ effects \in [Slot -> Nat]
    /\ thread \in [Request -> Thread]
    /\ crashes \in Nat

\* The threads that inserted the row of slot s and have not finished with it.
Owners(s) ==
    {r \in Request : thread[r].slot = s
                     /\ thread[r].pc \in {"call", "view", "commit", "undo"}}

\* However often a request is retried, whichever ledgers the retries go through
\* and wherever a crash or a busy database strikes, its operation takes effect
\* at most once: the callback has no other protection than its receipt.
AtMostOnce == \A s \in Slot : effects[s] <= 1

\* The row of slot s and the threads agree: a row has one owner at most, an
\* operation runs only under its own PENDING row, and a row is only COMMITTED,
\* or gone, when the operation has taken effect, or has not.
RowOK(s) ==
    /\ \A q, r \in Owners(s) : q = r
    /\ Owners(s) # {} => receipts[s].status = "PENDING"
    /\ receipts[s].status = "PENDING" => effects[s] \in {0, 1}
    /\ receipts[s].status = "ABSENT" => effects[s] = 0
    /\ receipts[s].status = "COMMITTED" => effects[s] = 1
    /\ \A r \in Owners(s) :
         /\ receipts[s].input = thread[r].input
         /\ effects[s] = IF thread[r].pc \in {"view", "commit"} THEN 1 ELSE 0

\* Every row of operation_receipts agrees with the threads and the effects.
ReceiptsOK == \A s \in Slot : RowOK(s)

\* Every request that is answered gets the one recorded response of its slot,
\* and only a request with the recorded input gets it
\* (tests/test_storage.py: the receipt replays the exact response).
AnswersAgree ==
    \A r \in Request :
        thread[r].pc \in {"audit", "ok"} =>
            /\ receipts[thread[r].slot].status = "COMMITTED"
            /\ thread[r].response = receipts[thread[r].slot].response
            /\ thread[r].input = receipts[thread[r].slot].input

\* A view taken after the service's lock was given back may show a later
\* operation, never an earlier state than the request's own operation left.
ResponseShowsOwnEffect ==
    \A r \in Request :
        (thread[r].pc \in {"commit", "audit"} \/ (At(r, "ok") /\ ~thread[r].replayed))
        => thread[r].made > 0 /\ thread[r].response >= thread[r].made

\* The audit names each decision once, and only decisions that were committed:
\* no replay, no conflict and no failed operation is audited.
AuditIsHonest ==
    \A s \in Slot :
        audit[s] <= IF receipts[s].status = "COMMITTED" THEN 1 ELSE 0

\* A receipt whose thread died stays PENDING: it is refused for ever, and the
\* operation, of which nobody knows whether it took effect, is not run again.
OrphanStaysClosed ==
    [][\A s \in Slot :
        receipts[s].status = "PENDING" /\ Owners(s) = {}
        => receipts'[s] = receipts[s] /\ effects'[s] = effects[s]]_vars

\* What becomes of a receipt: one whose thread is gone is abandoned.
ClaimOf(s) ==
    [fate     |-> IF receipts[s].status = "PENDING" /\ Owners(s) = {} THEN "ABANDONED"
                                                                    ELSE receipts[s].status,
     input    |-> receipts[s].input,
     response |-> receipts[s].response]

Promise == INSTANCE OnceOnly WITH
    body    <- [r \in Request |-> [slot |-> thread[r].slot, input |-> thread[r].input]],
    claim   <- [s \in Slot |-> ClaimOf(s)],
    audited <- audit,
    answer  <- [r \in Request |-> IF At(r, "ok") THEN {thread[r].response} ELSE {}]

\* The write path implements OnceOnly: whatever threads, retries, ledgers, a busy
\* database and crashes do, a request sees an operation that is claimed, takes
\* effect and is on record once, and one answer (storage.py, execute).
ImplementsOnceOnly == Promise!Spec

\* Every request is answered, or lost in a crash: no lock is held for ever.
EveryRequestAnswered == \A r \in Request : <>(thread[r].pc \in Answered)

-----------------------------------------------------------------------------
(* A statement of the documentation that the code does not keep.            *)

\* "Approve/Reject/Start/Stop/Replan/Resume/Override decisions are recorded in
\* both the tamper-evident trace and SQLite audit ledger" (README.md): a
\* committed operation has its audit row, or its thread is about to write it.
DecisionsAreAudited ==
    \A s \in Slot :
        receipts[s].status = "COMMITTED" =>
            \/ audit[s] = 1
            \/ \E r \in Request : thread[r].slot = s /\ At(r, "audit")
=============================================================================
