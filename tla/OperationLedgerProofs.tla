------------------------ MODULE OperationLedgerProofs ------------------------
(***************************************************************************)
(* Proofs about OperationLedger, for any number of requests, slots, inputs, *)
(* ledgers and crashes.  No step of the argument uses a lock: the primary   *)
(* key of operation_receipts alone keeps an operation from running twice.   *)
(***************************************************************************)
EXTENDS OperationLedger, TLAPS

Inv == TypeOK /\ ReceiptsOK /\ AnswersAgree

Owning == {"call", "view", "commit", "undo"}

Holder == [Ledger -> Request \cup {Nobody}]

\* Request r's thread becomes t, which serves the same body.
Becomes(r, t) ==
    /\ t \in Thread
    /\ thread' = [thread EXCEPT ![r] = t]
    /\ t.slot = thread[r].slot
    /\ t.input = thread[r].input

\* Goto changes nothing but the place a thread is at.
LEMMA GotoFacts ==
    ASSUME TypeOK, NEW r \in Request, NEW pc \in Phase, Goto(r, pc)
    PROVE  LET t == [thread[r] EXCEPT !.pc = pc]
           IN  Becomes(r, t) /\ t.pc = pc /\ t.response = thread[r].response
<1>1. thread[r] \in Thread
  BY DEF TypeOK
<1>2. [thread[r] EXCEPT !.pc = pc] \in Thread
  BY <1>1 DEF Thread
<1>3. thread' = [thread EXCEPT ![r] = [thread[r] EXCEPT !.pc = pc]]
  BY DEF Goto
<1>4. QED
  BY <1>1, <1>2, <1>3 DEF Becomes, Thread

\* Taking and giving back a lock keeps its type.
LEMMA HolderFacts ==
    ASSUME TypeOK, NEW r \in Request
    PROVE  /\ Release(r) => holder' \in Holder
           /\ holder' = [holder EXCEPT ![thread[r].ledger] = r] => holder' \in Holder
           /\ UNCHANGED holder => holder' \in Holder
  BY DEF TypeOK, Release, Holder, Thread

\* A step of a thread that owns no row, before and after, leaves the rows and
\* the effects alone and, if it answers, answers what its row says.
LEMMA OutsideStep ==
    ASSUME Inv, NEW r \in Request, NEW t, Becomes(r, t), holder' \in Holder,
           audit' \in [Slot -> Nat], UNCHANGED <<receipts, version, effects, crashes>>,
           thread[r].pc \notin Owning, t.pc \notin Owning,
           t.pc \in {"audit", "ok"} =>
               /\ receipts[t.slot].status = "COMMITTED"
               /\ t.response = receipts[t.slot].response
               /\ t.input = receipts[t.slot].input
    PROVE  Inv'
<1> USE DEF Inv
<1>1. TypeOK'
  BY DEF TypeOK, Becomes, Holder
<1>2. \A s \in Slot : Owners(s)' = Owners(s)
  BY DEF TypeOK, Becomes, Owners, Owning
<1>3. \A s \in Slot : \A q \in Owners(s) : thread'[q] = thread[q]
  BY DEF TypeOK, Becomes, Owners, Owning
<1>4. ReceiptsOK'
  BY <1>2, <1>3 DEF ReceiptsOK, RowOK
<1>5. AnswersAgree'
  BY DEF TypeOK, Becomes, AnswersAgree
<1>6. QED
  BY <1>1, <1>4, <1>5

\* A step of a thread r that writes at most the row and the effect of its own
\* slot preserves the invariant if the row is right afterwards, and nobody was
\* answered from it before.
LEMMA OwnSlotStep ==
    ASSUME Inv, NEW r \in Request, NEW t, Becomes(r, t),
           NEW s \in Slot, s = thread[r].slot,
           NEW row \in Receipt, receipts' = [receipts EXCEPT ![s] = row],
           NEW n \in Nat, effects' = [effects EXCEPT ![s] = n],
           holder' \in Holder, version' \in Nat, UNCHANGED <<audit, crashes>>,
           receipts[s].status # "COMMITTED", RowOK(s)',
           t.pc # "ok",
           t.pc = "audit" => row = [status |-> "COMMITTED", input |-> t.input,
                                    response |-> t.response]
    PROVE  Inv'
<1>1. TypeOK /\ receipts'[s] = row
  BY DEF Inv, TypeOK
<1>2. TypeOK'
  BY DEF Inv, TypeOK, Becomes, Holder
<1>3. ASSUME NEW u \in Slot, u # s
      PROVE  RowOK(u)'
  <2>1. /\ Owners(u)' = Owners(u) /\ receipts'[u] = receipts[u] /\ effects'[u] = effects[u]
        /\ \A q \in Owners(u) : thread'[q] = thread[q]
    BY <1>1, <1>3 DEF Becomes, Owners, TypeOK
  <2>2. RowOK(u)
    BY DEF Inv, ReceiptsOK
  <2>3. QED
    BY <2>1, <2>2 DEF RowOK
<1>4. ReceiptsOK'
  BY <1>3 DEF ReceiptsOK
<1>5. AnswersAgree'
  BY <1>1 DEF Inv, AnswersAgree, Becomes, TypeOK
<1>6. QED
  BY <1>2, <1>4, <1>5 DEF Inv

\* What an owner knows of its slot.
LEMMA OwnerFacts ==
    ASSUME Inv, NEW r \in Request, thread[r].pc \in Owning
    PROVE  LET s == thread[r].slot
           IN  /\ TypeOK /\ thread[r] \in Thread /\ s \in Slot /\ receipts[s] \in Receipt
               /\ Owners(s) = {r}
               /\ receipts[s].status = "PENDING"
               /\ receipts[s].input = thread[r].input
               /\ effects[s] = IF thread[r].pc \in {"view", "commit"} THEN 1 ELSE 0
<1> DEFINE s == thread[r].slot
<1>1. TypeOK /\ thread[r] \in Thread /\ s \in Slot /\ receipts[s] \in Receipt
  BY DEF Inv, TypeOK, Thread
<1>2. r \in Owners(s) /\ RowOK(s)
  BY <1>1 DEF Owners, Owning, Inv, ReceiptsOK
<1>3. QED
  BY <1>1, <1>2 DEF RowOK

\* The look at the row preserves the invariant.
LEMMA LookStep ==
    ASSUME Inv, NEW r \in Request, Look(r)
    PROVE  Inv'
<1> DEFINE s == thread[r].slot
           t == [thread[r] EXCEPT !.pc = "ok", !.response = receipts[s].response,
                                  !.replayed = TRUE]
<1>1. TypeOK /\ thread[r] \in Thread /\ s \in Slot /\ receipts[s] \in Receipt
  BY DEF Inv, TypeOK, Thread
<1>2. /\ thread[r].pc = "sent" /\ UNCHANGED <<receipts, audit, version, effects, crashes>>
      /\ audit' \in [Slot -> Nat]
  BY <1>1 DEF Look, At, TypeOK
<1>3. CASE /\ receipts[s].status = "COMMITTED" /\ SameInput(r) /\ UNCHANGED holder
           /\ thread' = [thread EXCEPT ![r] = t]
  <2>1. /\ t \in Thread /\ t.slot = s /\ t.input = thread[r].input /\ t.pc = "ok"
        /\ t.response = receipts[s].response
    BY <1>1 DEF Thread, Phase, Receipt
  <2> HIDE DEF t
  <2>2. Becomes(r, t) /\ holder' \in Holder
    BY <1>1, <1>3, <2>1, HolderFacts DEF Becomes
  <2>3. QED
    BY <1>2, <1>3, <2>1, <2>2, OutsideStep DEF Owning, SameInput
<1>4. ASSUME NEW pc \in {"refused", "insert"}, Goto(r, pc), holder' \in Holder
      PROVE  Inv'
  <2>1. pc \in Phase
    BY DEF Phase
  <2>2. QED
    BY <1>1, <1>2, <1>4, <2>1, GotoFacts, OutsideStep DEF Owning
<1>5. \/ /\ receipts[s].status = "COMMITTED" /\ SameInput(r) /\ UNCHANGED holder
         /\ thread' = [thread EXCEPT ![r] = t]
      \/ Goto(r, "refused") /\ UNCHANGED holder
      \/ Goto(r, "insert") /\ holder' = [holder EXCEPT ![thread[r].ledger] = r]
  BY DEF Look
<1>6. QED
  BY <1>1, <1>3, <1>4, <1>5, HolderFacts

\* The insertion preserves the invariant: the row it inserts was absent, so the
\* slot had no owner and its operation had no effect.
LEMMA InsertStep ==
    ASSUME Inv, NEW r \in Request, Insert(r)
    PROVE  Inv'
<1> PICK s \in Slot : s = thread[r].slot
  BY DEF Inv, TypeOK, Thread
<1> DEFINE row == [status |-> "PENDING", input |-> thread[r].input, response |-> 0]
<1>1. TypeOK /\ thread[r] \in Thread /\ s \in Slot /\ receipts[s] \in Receipt
  BY DEF Inv, TypeOK, Thread
<1>2. /\ thread[r].pc = "insert" /\ UNCHANGED <<audit, version, effects, crashes>>
      /\ audit' \in [Slot -> Nat] /\ holder' \in Holder
  BY <1>1, HolderFacts DEF Insert, At, TypeOK
<1>3. CASE Goto(r, "failed") /\ UNCHANGED receipts
  BY <1>1, <1>2, <1>3, GotoFacts, OutsideStep DEF Owning, Phase
<1>4. CASE /\ receipts[s].status = "ABSENT" /\ Goto(r, "call")
           /\ receipts' = [receipts EXCEPT ![s] = row]
  <2> DEFINE t == [thread[r] EXCEPT !.pc = "call"]
  <2>1. Becomes(r, t) /\ t.pc = "call"
    BY <1>1, <1>4, GotoFacts DEF Phase
  <2> HIDE DEF t
  <2>2. row \in Receipt
    BY <1>1 DEF Receipt, Thread
  <2>3. Owners(s) = {} /\ effects[s] = 0
    BY <1>1, <1>4 DEF Inv, ReceiptsOK, RowOK
  <2>4. Owners(s)' = {r} /\ thread'[r] = t
    BY <1>1, <2>1, <2>3 DEF Becomes, Owners, TypeOK
  <2>5. receipts'[s] = row /\ row.status = "PENDING" /\ t.input = row.input
    BY <1>1, <1>4, <2>1 DEF TypeOK, Becomes
  <2> HIDE DEF row
  <2>6. RowOK(s)'
    BY <1>2, <2>1, <2>3, <2>4, <2>5 DEF RowOK
  <2>7. effects' = [effects EXCEPT ![s] = 0] /\ version' \in Nat
    BY <1>1, <1>2, <2>3 DEF TypeOK
  <2>8. QED
    BY <1>1, <1>2, <1>4, <2>1, <2>2, <2>6, <2>7, OwnSlotStep
<1>5. QED
  BY <1>1, <1>3, <1>4 DEF Insert, Taken, Receipt

\* The callback preserves the invariant: its thread owns the row, so the slot's
\* operation had no effect before.
LEMMA CallStep ==
    ASSUME Inv, NEW r \in Request, Call(r)
    PROVE  Inv'
<1> PICK s \in Slot : s = thread[r].slot
  BY DEF Inv, TypeOK, Thread
<1>1. thread[r].pc = "call" /\ UNCHANGED <<receipts, audit, holder, crashes>>
  BY DEF Call, At
<1>2. /\ TypeOK /\ thread[r] \in Thread /\ s \in Slot /\ receipts[s] \in Receipt
      /\ Owners(s) = {r} /\ receipts[s].status = "PENDING"
      /\ receipts[s].input = thread[r].input /\ effects[s] = 0
  BY <1>1, OwnerFacts DEF Owning
<1>3. holder' \in Holder /\ receipts' = [receipts EXCEPT ![s] = receipts[s]]
  BY <1>1, <1>2, HolderFacts DEF TypeOK
<1>4. ASSUME NEW t, Becomes(r, t), NEW n \in Nat, t.pc \in {"view", "undo"},
             n = IF t.pc = "view" THEN 1 ELSE 0,
             effects' = [effects EXCEPT ![s] = n], version' \in Nat
      PROVE  Inv'
  <2>1. Owners(s)' = {r} /\ thread'[r] = t /\ effects'[s] = n
    BY <1>2, <1>4 DEF Becomes, Owners, TypeOK
  <2>2. RowOK(s)'
    BY <1>1, <1>2, <1>4, <2>1 DEF RowOK, Becomes
  <2>3. n \in Nat /\ t.pc # "ok" /\ t.pc # "audit" /\ UNCHANGED <<audit, crashes>>
    BY <1>1, <1>4
  <2>4. QED
    BY <1>2, <1>3, <1>4, <2>2, <2>3, OwnSlotStep
<1>5. CASE /\ version' = version + 1
           /\ effects' = [effects EXCEPT ![thread[r].slot] = @ + 1]
           /\ thread' = [thread EXCEPT ![r].pc = "view", ![r].made = version + 1]
  <2> DEFINE t == [thread[r] EXCEPT !.pc = "view", !.made = version + 1]
  <2>1. version + 1 \in Nat
    BY <1>2 DEF TypeOK
  <2>2. t \in Thread /\ t.slot = s /\ t.input = thread[r].input /\ t.pc = "view"
    BY <1>2, <2>1 DEF Thread, Phase
  <2>3. thread' = [thread EXCEPT ![r] = t]
    BY <1>5
  <2> HIDE DEF t
  <2>4. Becomes(r, t)
    BY <2>2, <2>3 DEF Becomes
  <2>5. effects' = [effects EXCEPT ![s] = 1]
    <3>1. effects[s] + 1 = 1
      BY <1>2
    <3>2. QED
      BY <1>5, <3>1
  <2>6. QED
    <3>1. 1 = IF t.pc = "view" THEN 1 ELSE 0
      BY <2>2
    <3>2. version' \in Nat
      BY <1>5, <2>1
    <3>3. QED
      BY <1>4, <2>2, <2>4, <2>5, <3>1, <3>2
<1>6. CASE Goto(r, "undo") /\ UNCHANGED <<version, effects>>
  <2> DEFINE t == [thread[r] EXCEPT !.pc = "undo"]
  <2>1. Becomes(r, t) /\ t.pc = "undo"
    BY <1>2, <1>6, GotoFacts DEF Phase
  <2> HIDE DEF t
  <2>2. effects' = [effects EXCEPT ![s] = 0] /\ version' \in Nat
    BY <1>2, <1>6 DEF TypeOK
  <2>3. QED
    <3>1. 0 = IF t.pc = "view" THEN 1 ELSE 0
      BY <2>1
    <3>2. QED
      BY <1>4, <2>1, <2>2, <3>1
<1>7. QED
  BY <1>5, <1>6 DEF Call

\* A thread that leaves its row with the effect that the row says preserves the
\* invariant; after it nobody owns the row.
LEMMA LeaveStep ==
    ASSUME Inv, NEW r \in Request, thread[r].pc \in Owning,
           NEW t, Becomes(r, t), t.pc \in {"audit", "failed"},
           NEW s \in Slot, s = thread[r].slot,
           NEW row \in Receipt, receipts' = [receipts EXCEPT ![s] = row],
           row.status = "COMMITTED" => effects[s] = 1,
           row.status = "ABSENT" => effects[s] = 0,
           holder' \in Holder, UNCHANGED <<audit, version, effects, crashes>>,
           t.pc = "audit" => row = [status |-> "COMMITTED", input |-> t.input,
                                    response |-> t.response]
    PROVE  Inv'
<1>1. /\ TypeOK /\ Owners(s) = {r} /\ receipts[s].status = "PENDING"
      /\ effects[s] \in {0, 1}
  BY OwnerFacts
<1>2. Owners(s)' = {} /\ receipts'[s] = row /\ effects'[s] = effects[s]
  BY <1>1 DEF Becomes, Owners, TypeOK
<1>3. RowOK(s)'
  BY <1>1, <1>2 DEF RowOK
<1>4. /\ effects[s] \in Nat /\ effects' = [effects EXCEPT ![s] = effects[s]]
      /\ version' \in Nat
  BY <1>1 DEF TypeOK
<1>5. UNCHANGED <<audit, crashes>> /\ t.pc # "ok" /\ receipts[s].status # "COMMITTED"
  BY <1>1
<1>6. QED
  BY <1>3, <1>4, <1>5, OwnSlotStep

\* The view preserves the invariant.
LEMMA ViewStep ==
    ASSUME Inv, NEW r \in Request, View(r)
    PROVE  Inv'
<1> PICK s \in Slot : s = thread[r].slot
  BY DEF Inv, TypeOK, Thread
<1> DEFINE t == [thread[r] EXCEPT !.pc = "commit", !.response = version]
<1>1. thread[r].pc = "view" /\ UNCHANGED <<receipts, audit, holder, version, effects, crashes>>
  BY DEF View, At
<1>2. /\ TypeOK /\ thread[r] \in Thread /\ receipts[s] \in Receipt
      /\ Owners(s) = {r} /\ receipts[s].status = "PENDING"
      /\ receipts[s].input = thread[r].input /\ effects[s] = 1
  BY <1>1, OwnerFacts DEF Owning
<1>3. t \in Thread /\ t.slot = s /\ t.input = thread[r].input /\ t.pc = "commit"
  <2>1. version \in Nat
    BY <1>2 DEF TypeOK
  <2>2. QED
    BY <1>2, <2>1 DEF Thread, Phase
<1>4. thread' = [thread EXCEPT ![r] = t]
  BY DEF View
<1> HIDE DEF t
<1>5. Becomes(r, t)
  BY <1>3, <1>4 DEF Becomes
<1>6. Owners(s)' = {r} /\ thread'[r] = t /\ effects'[s] = 1
  BY <1>1, <1>2, <1>3, <1>5 DEF Becomes, Owners, TypeOK
<1>7. RowOK(s)'
  BY <1>1, <1>2, <1>3, <1>6 DEF RowOK
<1>8. /\ 1 \in Nat /\ receipts' = [receipts EXCEPT ![s] = receipts[s]]
      /\ effects' = [effects EXCEPT ![s] = 1] /\ holder' \in Holder /\ version' \in Nat
  BY <1>1, <1>2 DEF TypeOK, Holder
<1>9. UNCHANGED <<audit, crashes>>
  BY <1>1
<1>10. QED
  BY <1>2, <1>3, <1>5, <1>7, <1>8, <1>9, OwnSlotStep

\* The update of the row preserves the invariant: its operation took effect.
LEMMA CommitStep ==
    ASSUME Inv, NEW r \in Request, Commit(r)
    PROVE  Inv'
<1> PICK s \in Slot : s = thread[r].slot
  BY DEF Inv, TypeOK, Thread
<1> DEFINE t == [thread[r] EXCEPT !.pc = "audit"]
           row == [status |-> "COMMITTED", input |-> receipts[s].input,
                   response |-> thread[r].response]
<1>1. thread[r].pc = "commit" /\ UNCHANGED <<audit, holder, version, effects, crashes>>
      /\ Goto(r, "audit") /\ receipts' = [receipts EXCEPT ![s] = row]
  BY DEF Commit, At
<1>2. /\ TypeOK /\ thread[r] \in Thread /\ receipts[s] \in Receipt
      /\ receipts[s].input = thread[r].input /\ effects[s] = 1
  BY <1>1, OwnerFacts DEF Owning
<1>3. Becomes(r, t) /\ t.pc = "audit" /\ t.response = thread[r].response
  BY <1>1, <1>2, GotoFacts DEF Phase
<1> HIDE DEF t
<1>4. /\ row \in Receipt /\ row.status = "COMMITTED"
      /\ row = [status |-> "COMMITTED", input |-> t.input, response |-> t.response]
  <2>1. /\ t.input = thread[r].input /\ t.response = thread[r].response
        /\ thread[r].response \in Nat
    BY <1>2, <1>3 DEF Becomes, Thread
  <2>2. receipts[s].input \in Input \cup {"NONE"}
    BY <1>2 DEF Receipt
  <2>3. QED
    BY <1>2, <2>1, <2>2 DEF Receipt
<1> HIDE DEF row
<1>5. holder' \in Holder
  BY <1>1, <1>2, HolderFacts
<1>6. QED
  BY <1>1, <1>2, <1>3, <1>4, <1>5, LeaveStep DEF Owning

\* The deletion of the row preserves the invariant: its operation raised.
LEMMA UndoStep ==
    ASSUME Inv, NEW r \in Request, Undo(r)
    PROVE  Inv'
<1> PICK s \in Slot : s = thread[r].slot
  BY DEF Inv, TypeOK, Thread
<1> DEFINE t == [thread[r] EXCEPT !.pc = "failed"]
<1>1. thread[r].pc = "undo" /\ UNCHANGED <<audit, holder, version, effects, crashes>>
      /\ Goto(r, "failed") /\ receipts' = [receipts EXCEPT ![s] = NoReceipt]
  BY DEF Undo, At
<1>2. TypeOK /\ effects[s] = 0
  BY <1>1, OwnerFacts DEF Owning
<1>3. Becomes(r, t) /\ t.pc = "failed"
  BY <1>1, <1>2, GotoFacts DEF Phase
<1> HIDE DEF t
<1>4. NoReceipt \in Receipt /\ NoReceipt.status = "ABSENT"
  BY DEF NoReceipt, Receipt
<1>5. holder' \in Holder
  BY <1>1, <1>2, HolderFacts
<1>6. QED
  BY <1>1, <1>2, <1>3, <1>4, <1>5, LeaveStep DEF Owning

\* The audit row preserves the invariant.
LEMMA AppendAuditStep ==
    ASSUME Inv, NEW r \in Request, AppendAudit(r)
    PROVE  Inv'
<1> DEFINE t == [thread[r] EXCEPT !.pc = "ok"]
<1>1. /\ TypeOK /\ thread[r].pc = "audit" /\ Goto(r, "ok")
      /\ UNCHANGED <<receipts, holder, version, effects, crashes>>
  BY DEF Inv, AppendAudit, At
<1>2. Becomes(r, t) /\ t.pc = "ok" /\ t.response = thread[r].response
  BY <1>1, GotoFacts DEF Phase
<1> HIDE DEF t
<1>3. audit' \in [Slot -> Nat] /\ holder' \in Holder
  BY <1>1, HolderFacts DEF AppendAudit, TypeOK, Thread
<1>4. /\ receipts[t.slot].status = "COMMITTED"
      /\ t.response = receipts[t.slot].response /\ t.input = receipts[t.slot].input
  BY <1>1, <1>2 DEF Inv, AnswersAgree, Becomes
<1>5. QED
  BY <1>1, <1>2, <1>3, <1>4, OutsideStep DEF Owning

\* A busy database preserves the invariant: a row it leaves PENDING has no owner.
LEMMA BusyStep ==
    ASSUME Inv, NEW r \in Request, Busy(r)
    PROVE  Inv'
<1> PICK s \in Slot : s = thread[r].slot
  BY DEF Inv, TypeOK, Thread
<1> DEFINE t == [thread[r] EXCEPT !.pc = "failed"]
<1>1. /\ TypeOK /\ Goto(r, "failed") /\ UNCHANGED <<receipts, audit, version, effects, crashes>>
      /\ thread[r].pc \in {"insert", "sent", "commit", "undo", "audit"}
  BY DEF Inv, Busy, At
<1>2. Becomes(r, t) /\ t.pc = "failed"
  BY <1>1, GotoFacts DEF Phase
<1> HIDE DEF t
<1>3. audit' \in [Slot -> Nat] /\ holder' \in Holder
  BY <1>1, HolderFacts DEF Busy, TypeOK
<1>4. CASE thread[r].pc \in Owning
  <2>1. receipts[s] \in Receipt /\ receipts[s].status = "PENDING"
        /\ receipts' = [receipts EXCEPT ![s] = receipts[s]]
    BY <1>1, <1>4, OwnerFacts DEF TypeOK
  <2>2. t.pc \in {"audit", "failed"} /\ t.pc # "audit"
    BY <1>2
  <2>3. /\ receipts[s].status = "COMMITTED" => effects[s] = 1
        /\ receipts[s].status = "ABSENT" => effects[s] = 0
    BY <2>1
  <2>4. UNCHANGED <<audit, version, effects, crashes>> /\ holder' \in Holder
    BY <1>1, <1>3
  <2>5. QED
    BY <1>2, <1>4, <2>1, <2>2, <2>3, <2>4, LeaveStep
<1>5. CASE thread[r].pc \notin Owning
  BY <1>1, <1>2, <1>3, <1>5, OutsideStep DEF Owning
<1>6. QED
  BY <1>4, <1>5

\* A crash preserves the invariant: it only takes owners away.
LEMMA CrashStep ==
    ASSUME Inv, Crash
    PROVE  Inv'
<1> DEFINE kept == Answered \cup {"sent"}
<1>1. UNCHANGED <<receipts, audit, effects>> /\ version' = 0 /\ crashes' = crashes + 1
      /\ holder' = [l \in Ledger |-> Nobody]
  BY DEF Crash
<1>2. ASSUME NEW q \in Request
      PROVE  thread'[q] = IF thread[q].pc \in kept THEN thread[q]
                                                  ELSE [thread[q] EXCEPT !.pc = "lost"]
  BY DEF Crash
<1>3. TypeOK'
  <2>1. ASSUME NEW q \in Request PROVE thread'[q] \in Thread
    BY <1>2, <2>1 DEF Inv, TypeOK, Thread, Phase
  <2>2. thread' = [q \in Request |-> thread'[q]]
    BY DEF Crash
  <2>3. thread' \in [Request -> Thread]
    BY <2>1, <2>2
  <2>4. QED
    BY <1>1, <2>3 DEF Inv, TypeOK
<1>4. ASSUME NEW q \in Request
      PROVE  /\ thread'[q].pc \notin Owning
             /\ thread'[q].pc \in {"audit", "ok"} => thread'[q] = thread[q]
  BY <1>2 DEF Inv, TypeOK, Thread, Answered, Owning
<1>5. \A s \in Slot : Owners(s)' = {}
  BY <1>4 DEF Owners, Owning
<1>6. ReceiptsOK'
  BY <1>1, <1>5 DEF Inv, ReceiptsOK, RowOK
<1>7. AnswersAgree'
  BY <1>1, <1>4 DEF Inv, AnswersAgree
<1>8. QED
  BY <1>3, <1>6, <1>7 DEF Inv

-----------------------------------------------------------------------------
(* The responses, the audit and the orphans.                                *)

\* What request r has made of its slot: the operation it committed itself is in
\* the state that its response shows.
MadeOK(r) ==
    LET t == thread[r]
        shown == t.pc \in {"commit", "audit"} \/ (t.pc = "ok" /\ ~t.replayed)
    IN  /\ t.pc = "view" \/ shown => t.made > 0
        /\ t.pc = "view" => t.made <= version
        /\ shown => t.made <= t.response

\* The threads that have committed slot s and have not audited it.
Auditors(s) == {r \in Request : thread[r].slot = s /\ thread[r].pc = "audit"}

\* A slot has one auditor at most, who has not written yet, and a row of the
\* audit is about a COMMITTED receipt.
AuditOK(s) ==
    /\ \A q, r \in Auditors(s) : q = r
    /\ Auditors(s) # {} => audit[s] = 0
    /\ audit[s] \in {0, 1}
    /\ audit[s] = 1 => receipts[s].status = "COMMITTED"

Books ==
    /\ \A r \in Request : MadeOK(r)
    /\ \A s \in Slot : AuditOK(s)

\* A step of request r leaves the other threads and the rows of other slots alone,
\* and the version never goes back.
LEMMA OneThread ==
    ASSUME Inv, NEW r \in Request, Step(r)
    PROVE  /\ \A q \in Request : q # r => thread'[q] = thread[q]
           /\ thread'[r].slot = thread[r].slot
           /\ \A s \in Slot : s # thread[r].slot =>
                /\ receipts'[s] = receipts[s] /\ effects'[s] = effects[s]
                /\ audit'[s] = audit[s]
           /\ version \in Nat /\ version' \in Nat /\ version <= version'
<1>1. TypeOK /\ thread[r] \in Thread
  BY DEF Inv, TypeOK
<1>2. ASSUME NEW t, thread' = [thread EXCEPT ![r] = t], t.slot = thread[r].slot
      PROVE  /\ \A q \in Request : q # r => thread'[q] = thread[q]
             /\ thread'[r].slot = thread[r].slot
  BY <1>1, <1>2 DEF TypeOK
<1>3. ASSUME NEW pc, Goto(r, pc)
      PROVE  /\ \A q \in Request : q # r => thread'[q] = thread[q]
             /\ thread'[r].slot = thread[r].slot
  BY <1>1, <1>3 DEF Goto, TypeOK, Thread
<1>4. CASE Look(r)
  <2>1. CASE \E pc : Goto(r, pc)
    BY <1>1, <1>3, <1>4, <2>1 DEF Look, TypeOK
  <2>2. CASE thread' = [thread EXCEPT ![r].pc = "ok",
                            ![r].response = receipts[thread[r].slot].response,
                            ![r].replayed = TRUE]
    BY <1>1, <1>4, <2>2 DEF Look, TypeOK, Thread
  <2>3. QED
    BY <1>4, <2>1, <2>2 DEF Look
<1>5. CASE Insert(r)
  BY <1>1, <1>3, <1>5 DEF Insert, TypeOK
<1>6. CASE Call(r)
  <2>1. CASE Goto(r, "undo") /\ UNCHANGED <<version, effects>>
    BY <1>1, <1>3, <1>6, <2>1 DEF Call, TypeOK
  <2>2. CASE /\ version' = version + 1
             /\ effects' = [effects EXCEPT ![thread[r].slot] = @ + 1]
             /\ thread' = [thread EXCEPT ![r].pc = "view", ![r].made = version + 1]
    BY <1>1, <1>6, <2>2 DEF Call, TypeOK, Thread
  <2>3. QED
    BY <1>6, <2>1, <2>2 DEF Call
<1>7. CASE View(r)
  BY <1>1, <1>7 DEF View, TypeOK, Thread
<1>8. CASE Commit(r)
  BY <1>1, <1>3, <1>8 DEF Commit, TypeOK
<1>9. CASE Undo(r)
  BY <1>1, <1>3, <1>9 DEF Undo, TypeOK
<1>10. CASE AppendAudit(r)
  BY <1>1, <1>3, <1>10 DEF AppendAudit, TypeOK
<1>11. CASE Busy(r)
  BY <1>1, <1>3, <1>11 DEF Busy, TypeOK
<1>12. QED
  BY <1>4, <1>5, <1>6, <1>7, <1>8, <1>9, <1>10, <1>11 DEF Step

\* What request r has made stays true of it when it steps.
LEMMA MadeStep ==
    ASSUME Inv, NEW r \in Request, MadeOK(r), Step(r)
    PROVE  MadeOK(r)'
<1>1. TypeOK /\ thread[r] \in Thread /\ version \in Nat
  BY DEF Inv, TypeOK
<1>2. ASSUME NEW pc \in Phase, Goto(r, pc),
             pc = "audit" => thread[r].pc = "commit",
             pc = "ok" => thread[r].pc = "audit",
             pc \notin {"view", "commit"}
      PROVE  MadeOK(r)'
  <2>1. thread'[r] = [thread[r] EXCEPT !.pc = pc]
    BY <1>1, <1>2 DEF Goto, TypeOK
  <2>2. /\ thread'[r].pc = pc /\ thread'[r].made = thread[r].made
        /\ thread'[r].response = thread[r].response
        /\ thread'[r].replayed = thread[r].replayed
    BY <1>1, <2>1 DEF Thread
  <2>3. QED
    BY <1>2, <2>2 DEF MadeOK
<1>3. CASE Look(r)
  <2>1. CASE thread' = [thread EXCEPT ![r].pc = "ok",
                            ![r].response = receipts[thread[r].slot].response,
                            ![r].replayed = TRUE]
    <3>1. thread'[r].pc = "ok" /\ thread'[r].replayed = TRUE
      BY <1>1, <2>1 DEF TypeOK, Thread
    <3>2. QED
      BY <3>1 DEF MadeOK
  <2>2. QED
    BY <1>2, <1>3, <2>1 DEF Look, Phase
<1>4. CASE Insert(r)
  BY <1>2, <1>4 DEF Insert, Phase
<1>5. CASE Call(r)
  <2>1. CASE /\ version' = version + 1
             /\ thread' = [thread EXCEPT ![r].pc = "view", ![r].made = version + 1]
    <3>1. thread'[r].pc = "view" /\ thread'[r].made = version + 1
      BY <1>1, <2>1 DEF TypeOK, Thread
    <3>2. QED
      BY <1>1, <2>1, <3>1 DEF MadeOK
  <2>2. QED
    BY <1>2, <1>5, <2>1 DEF Call, Phase
<1>6. CASE View(r)
  <2>1. /\ thread'[r].pc = "commit" /\ thread'[r].response = version
        /\ thread'[r].made = thread[r].made /\ thread[r].pc = "view"
    BY <1>1, <1>6 DEF View, At, TypeOK, Thread
  <2>2. QED
    BY <2>1 DEF MadeOK
<1>7. CASE Commit(r)
  BY <1>2, <1>7 DEF Commit, At, Phase
<1>8. CASE Undo(r)
  BY <1>2, <1>8 DEF Undo, Phase
<1>9. CASE AppendAudit(r)
  BY <1>2, <1>9 DEF AppendAudit, At, Phase
<1>10. CASE Busy(r)
  BY <1>2, <1>10 DEF Busy, Phase
<1>11. QED
  BY <1>3, <1>4, <1>5, <1>6, <1>7, <1>8, <1>9, <1>10 DEF Step

\* The books of a slot stay right when a request of it steps: it is committed
\* once, by the only one who then audits it.
LEMMA AuditStep ==
    ASSUME Inv, NEW r \in Request, Step(r), NEW s \in Slot, s = thread[r].slot, AuditOK(s)
    PROVE  AuditOK(s)'
<1>1. TypeOK /\ thread[r] \in Thread /\ receipts[s] \in Receipt /\ audit[s] \in Nat
  BY DEF Inv, TypeOK
<1>2. \A q \in Request : q # r => thread'[q] = thread[q]
  BY OneThread
<1>3. thread'[r].slot = s
  BY OneThread
<1>4. ASSUME thread'[r].pc # "audit", audit'[s] = audit[s], receipts'[s] = receipts[s]
      PROVE  AuditOK(s)'
  <2>1. Auditors(s)' \subseteq Auditors(s)
    BY <1>2, <1>4 DEF Auditors
  <2>2. QED
    BY <1>4, <2>1 DEF AuditOK
<1>5. \A pc \in Phase : Goto(r, pc) => thread'[r].pc = pc
  BY <1>1 DEF Goto, TypeOK, Thread
<1>6. receipts[s].status # "COMMITTED" => Auditors(s) = {} /\ audit[s] = 0
  BY DEF Inv, AnswersAgree, Auditors, AuditOK
<1>7. CASE Look(r)
  <2>1. CASE thread' = [thread EXCEPT ![r].pc = "ok", ![r].response = receipts[s].response,
                                      ![r].replayed = TRUE]
    <3>1. thread'[r].pc # "audit"
      BY <1>1, <2>1 DEF TypeOK, Thread
    <3>2. QED
      BY <1>4, <1>7, <3>1 DEF Look
  <2>2. QED
    BY <1>4, <1>5, <1>7, <2>1 DEF Look, Phase
<1>8. CASE Insert(r)
  <2>1. thread'[r].pc # "audit" /\ audit' = audit
    BY <1>5, <1>8 DEF Insert, Phase
  <2>2. CASE UNCHANGED receipts
    BY <1>4, <2>1, <2>2
  <2>3. CASE receipts[s].status = "ABSENT"
    <3>1. Auditors(s)' = {} /\ audit'[s] = 0
      BY <1>2, <1>6, <2>1, <2>3 DEF Auditors
    <3>2. QED
      BY <3>1 DEF AuditOK
  <2>4. QED
    BY <1>8, <2>2, <2>3 DEF Insert, Taken
<1>9. CASE Call(r)
  <2>1. thread'[r].pc # "audit"
    <3>1. CASE Goto(r, "undo")
      BY <1>5, <3>1 DEF Phase
    <3>2. CASE thread' = [thread EXCEPT ![r].pc = "view", ![r].made = version + 1]
      BY <1>1, <3>2 DEF TypeOK, Thread
    <3>3. QED
      BY <1>9, <3>1, <3>2 DEF Call
  <2>2. QED
    BY <1>4, <1>9, <2>1 DEF Call
<1>10. CASE View(r)
  <2>1. thread'[r].pc # "audit"
    BY <1>1, <1>10 DEF View, TypeOK, Thread
  <2>2. QED
    BY <1>4, <1>10, <2>1 DEF View
<1>11. CASE Commit(r) \/ Undo(r)
  <2>1. thread[r].pc \in Owning
    BY <1>11 DEF Commit, Undo, At, Owning
  <2>2. receipts[s].status = "PENDING" /\ Auditors(s) = {} /\ audit[s] = 0
    BY <1>6, <2>1, OwnerFacts
  <2>3. audit'[s] = 0 /\ Auditors(s)' \subseteq {r}
    BY <1>2, <1>11, <2>2 DEF Commit, Undo, Auditors
  <2>4. QED
    BY <2>3 DEF AuditOK
<1>12. CASE AppendAudit(r)
  <2>1. /\ r \in Auditors(s) /\ audit' = [audit EXCEPT ![s] = @ + 1]
        /\ thread'[r].pc = "ok" /\ receipts' = receipts
    BY <1>5, <1>12 DEF AppendAudit, At, Auditors, Phase
  <2>2. audit[s] = 0 /\ Auditors(s) = {r} /\ receipts[s].status = "COMMITTED"
    BY <2>1 DEF AuditOK, Inv, AnswersAgree, Auditors
  <2>3. audit'[s] = 1 /\ Auditors(s)' = {}
    BY <1>1, <1>2, <2>1, <2>2 DEF TypeOK, Auditors
  <2>4. QED
    BY <2>1, <2>2, <2>3 DEF AuditOK
<1>13. CASE Busy(r)
  <2>1. thread'[r].pc # "audit"
    BY <1>5, <1>13 DEF Busy, Phase
  <2>2. QED
    BY <1>4, <1>13, <2>1 DEF Busy
<1>14. QED
  BY <1>7, <1>8, <1>9, <1>10, <1>11, <1>12, <1>13 DEF Step

\* Every step keeps the books.
LEMMA BooksStep ==
    ASSUME Inv, Books, [Next]_vars
    PROVE  Books'
<1>1. CASE UNCHANGED vars
  BY <1>1 DEF vars, Books, MadeOK, AuditOK, Auditors
<1>2. CASE Crash
  <2>1. /\ UNCHANGED <<receipts, audit, effects>>
        /\ \A q \in Request : \/ thread'[q] = thread[q] /\ thread[q].pc # "view"
                             \/ thread'[q].pc = "lost"
    BY <1>2 DEF Crash, Answered, Inv, TypeOK, Thread
  <2>2. ASSUME NEW q \in Request PROVE MadeOK(q)'
    BY <2>1 DEF Books, MadeOK
  <2>3. ASSUME NEW s \in Slot PROVE AuditOK(s)'
    <3>1. Auditors(s)' \subseteq Auditors(s)
      BY <2>1 DEF Auditors
    <3>2. QED
      BY <2>1, <3>1 DEF Books, AuditOK
  <2>4. QED
    BY <2>2, <2>3 DEF Books
<1>3. ASSUME NEW r \in Request, Step(r)
      PROVE  Books'
  <2>1. thread[r].slot \in Slot
    BY DEF Inv, TypeOK, Thread
  <2>2. ASSUME NEW q \in Request PROVE MadeOK(q)'
    <3>1. CASE q = r
      BY <1>3, <3>1, MadeStep DEF Books
    <3>2. CASE q # r
      <4>1. thread'[q] = thread[q] /\ version \in Nat /\ version' \in Nat /\ version <= version'
        BY <1>3, <3>2, OneThread
      <4>2. thread[q].made \in Nat
        BY DEF Inv, TypeOK, Thread
      <4>3. QED
        BY <4>1, <4>2 DEF Books, MadeOK
    <3>3. QED
      BY <3>1, <3>2
  <2>3. ASSUME NEW s \in Slot PROVE AuditOK(s)'
    <3>1. CASE s = thread[r].slot
      BY <1>3, <3>1, AuditStep DEF Books
    <3>2. CASE s # thread[r].slot
      <4>1. Auditors(s)' = Auditors(s)
        BY <1>3, <3>2, OneThread DEF Auditors
      <4>2. receipts'[s] = receipts[s] /\ audit'[s] = audit[s]
        BY <1>3, <3>2, OneThread
      <4>3. QED
        BY <4>1, <4>2 DEF Books, AuditOK
    <3>3. QED
      BY <3>1, <3>2
  <2>4. QED
    BY <2>2, <2>3 DEF Books
<1>4. QED
  BY <1>1, <1>2, <1>3 DEF Next

\* The books are right at first.
LEMMA InitBooks == Init => Books
<1> SUFFICES ASSUME Init PROVE Books
  OBVIOUS
<1>1. \A r \in Request : thread[r].pc = "sent"
  BY DEF Init
<1>2. QED
  BY <1>1 DEF Init, Books, MadeOK, AuditOK, Auditors

\* A row that nobody owns and that stays PENDING is left alone by every step.
LEMMA OrphanStep ==
    ASSUME Inv, [Next]_vars, NEW s \in Slot, receipts[s].status = "PENDING", Owners(s) = {}
    PROVE  receipts'[s] = receipts[s] /\ effects'[s] = effects[s]
<1>1. CASE UNCHANGED vars \/ Crash
  BY <1>1 DEF vars, Crash
<1>2. ASSUME NEW r \in Request, Step(r)
      PROVE  receipts'[s] = receipts[s] /\ effects'[s] = effects[s]
  <2>1. CASE s # thread[r].slot
    BY <1>2, <2>1, OneThread
  <2>2. CASE s = thread[r].slot
    <3>1. thread[r].pc \notin Owning
      BY <2>2 DEF Owners, Owning
    <3>2. ~Call(r) /\ ~View(r) /\ ~Commit(r) /\ ~Undo(r)
      BY <3>1 DEF Call, View, Commit, Undo, At, Owning
    <3>3. UNCHANGED effects
      BY <1>2, <3>2 DEF Step, Look, Insert, AppendAudit, Busy
    <3>4. UNCHANGED receipts
      BY <1>2, <2>2, <3>2 DEF Step, Look, Insert, AppendAudit, Busy, Taken
    <3>5. QED
      BY <3>3, <3>4
  <2>3. QED
    BY <2>1, <2>2
<1>3. QED
  BY <1>1, <1>2 DEF Next

-----------------------------------------------------------------------------
(* Steps, from the invariant and the books: the write path implements       *)
(* OnceOnly.                                                                *)

\* A step of request r takes r out of the owners of its slot, or puts it among
\* them, or neither; it changes neither what a request asks for nor an answer.
LEMMA RequestStep ==
    ASSUME Inv, NEW r \in Request, Step(r), NEW s \in Slot, s = thread[r].slot
    PROVE  /\ thread[r].pc # "ok"
           /\ thread'[r].input = thread[r].input
           /\ \A u \in Slot : u # s => Owners(u)' = Owners(u)
           /\ Owners(s)' = IF thread'[r].pc \in Owning THEN Owners(s) \cup {r}
                                                       ELSE Owners(s) \ {r}
<1>1. TypeOK /\ thread[r] \in Thread
  BY DEF Inv, TypeOK
<1>2. thread'[r].slot = thread[r].slot /\ \A q \in Request : q # r => thread'[q] = thread[q]
  BY OneThread
<1>3. thread[r].pc # "ok"
  BY DEF Step, Look, Insert, Call, View, Commit, Undo, AppendAudit, Busy, At
<1>4. ASSUME NEW pc, Goto(r, pc)
      PROVE  thread'[r].input = thread[r].input
  BY <1>1, <1>4 DEF Goto, TypeOK, Thread
<1>5. ASSUME thread' = [thread EXCEPT ![r].pc = "ok",
                            ![r].response = receipts[thread[r].slot].response,
                            ![r].replayed = TRUE]
      PROVE  thread'[r].input = thread[r].input
  BY <1>1, <1>5 DEF TypeOK, Thread
<1>6. ASSUME thread' = [thread EXCEPT ![r].pc = "view", ![r].made = version + 1]
      PROVE  thread'[r].input = thread[r].input
  BY <1>1, <1>6 DEF TypeOK, Thread
<1>7. ASSUME thread' = [thread EXCEPT ![r].pc = "commit", ![r].response = version]
      PROVE  thread'[r].input = thread[r].input
  BY <1>1, <1>7 DEF TypeOK, Thread
<1>8. thread'[r].input = thread[r].input
  BY <1>4, <1>5, <1>6, <1>7
     DEF Step, Look, Insert, Call, View, Commit, Undo, AppendAudit, Busy
<1>9. ASSUME NEW u \in Slot, u # s
      PROVE  Owners(u)' = Owners(u)
  BY <1>2, <1>9 DEF Owners
<1>10. Owners(s)' = IF thread'[r].pc \in Owning THEN Owners(s) \cup {r} ELSE Owners(s) \ {r}
  BY <1>2 DEF Owners, Owning
<1>11. QED
  BY <1>3, <1>8, <1>9, <1>10

\* What OnceOnly sees of the threads and the tables.
Bodies == [r \in Request |-> [slot |-> thread[r].slot, input |-> thread[r].input]]
Claims == [s \in Slot |-> ClaimOf(s)]
Answers == [r \in Request |-> IF At(r, "ok") THEN {thread[r].response} ELSE {}]

\* What it sees of a step of request r: r's answer, and r's slot.
LEMMA SeenStep ==
    ASSUME Inv, NEW r \in Request, Step(r), NEW s \in Slot, s = thread[r].slot
    PROVE  /\ Bodies' = Bodies
           /\ Bodies[r].slot = s /\ Bodies[r].input = thread[r].input
           /\ Claims' = [Claims EXCEPT ![s] = ClaimOf(s)']
           /\ Claims[s] = ClaimOf(s)
           /\ Answers[r] = {}
           /\ Answers' = [Answers EXCEPT
                ![r] = IF thread'[r].pc = "ok" THEN {thread'[r].response} ELSE {}]
<1>1. Bodies' = Bodies
  BY OneThread, RequestStep DEF Bodies
<1>2. \A u \in Slot : u # s => ClaimOf(u)' = ClaimOf(u)
  BY OneThread, RequestStep DEF ClaimOf
<1>3. Claims' = [Claims EXCEPT ![s] = ClaimOf(s)'] /\ Claims[s] = ClaimOf(s)
  <2>1. Claims' = [u \in Slot |-> IF u = s THEN ClaimOf(s)' ELSE ClaimOf(u)]
    BY <1>2 DEF Claims
  <2>2. QED
    BY <2>1 DEF Claims
<1>4. Answers[r] = {}
  BY RequestStep DEF Answers, At
<1>5. Answers' = [Answers EXCEPT
           ![r] = IF thread'[r].pc = "ok" THEN {thread'[r].response} ELSE {}]
  BY OneThread DEF Answers, At
<1>6. QED
  BY <1>1, <1>3, <1>4, <1>5 DEF Bodies

\* A step that OnceOnly does not see, and steps that it sees as one of its own.
LEMMA SeenAs ==
    ASSUME Inv, NEW r \in Request, Step(r), NEW s \in Slot, s = thread[r].slot
    PROVE  /\ /\ ClaimOf(s)' = ClaimOf(s) /\ thread'[r].pc # "ok"
              /\ UNCHANGED <<effects, audit>>
              => UNCHANGED Promise!vars
           /\ /\ ClaimOf(s).fate = "ABSENT"
              /\ ClaimOf(s)' = [fate |-> "PENDING", input |-> thread[r].input, response |-> 0]
              /\ thread'[r].pc # "ok" /\ UNCHANGED <<effects, audit>>
              => Promise!Claim(r)
           /\ /\ ClaimOf(s).fate = "PENDING" /\ ClaimOf(s)' = ClaimOf(s)
              /\ effects[s] = 0 /\ effects' = [effects EXCEPT ![s] = 1]
              /\ thread'[r].pc # "ok" /\ UNCHANGED audit
              => Promise!TakeEffect(s)
           /\ /\ ClaimOf(s).fate = "PENDING" /\ effects[s] = 0
              /\ ClaimOf(s)' = Promise!Unclaimed
              /\ thread'[r].pc # "ok" /\ UNCHANGED <<effects, audit>>
              => Promise!GiveBack(s)
           /\ /\ ClaimOf(s).fate = "PENDING" /\ effects[s] = 1
              /\ \E n \in Nat :
                   ClaimOf(s)' = [fate |-> "COMMITTED", input |-> ClaimOf(s).input, response |-> n]
              /\ thread'[r].pc # "ok" /\ UNCHANGED <<effects, audit>>
              => Promise!PutOnRecord(s)
           /\ /\ ClaimOf(s).fate = "PENDING"
              /\ ClaimOf(s)' = [ClaimOf(s) EXCEPT !.fate = "ABANDONED"]
              /\ thread'[r].pc # "ok" /\ UNCHANGED <<effects, audit>>
              => Promise!Abandon
           /\ /\ ClaimOf(s).fate = "COMMITTED" /\ ClaimOf(s).input = thread[r].input
              /\ ClaimOf(s)' = ClaimOf(s) /\ UNCHANGED effects
              /\ thread'[r].pc = "ok" /\ thread'[r].response = ClaimOf(s).response
              /\ \/ UNCHANGED audit
                 \/ audit[s] = 0 /\ audit' = [audit EXCEPT ![s] = 1]
              => Promise!Reply(r)
<1>1. /\ Bodies' = Bodies /\ Bodies[r].slot = s /\ Bodies[r].input = thread[r].input
      /\ Claims' = [Claims EXCEPT ![s] = ClaimOf(s)'] /\ Claims[s] = ClaimOf(s)
      /\ Answers[r] = {}
      /\ Answers' = [Answers EXCEPT
            ![r] = IF thread'[r].pc = "ok" THEN {thread'[r].response} ELSE {}]
  BY SeenStep
<1>2. Claims = [Claims EXCEPT ![s] = Claims[s]] /\ Answers = [Answers EXCEPT ![r] = {}]
  BY <1>1 DEF Claims, Answers
<1>3. ASSUME ClaimOf(s)' = ClaimOf(s), thread'[r].pc # "ok", UNCHANGED <<effects, audit>>
      PROVE  UNCHANGED Promise!vars
  <2>1. Claims' = Claims /\ Answers' = Answers
    BY <1>1, <1>2, <1>3
  <2>2. QED
    BY <1>1, <1>3, <2>1 DEF Promise!vars, Bodies, Claims, Answers
<1>4. ASSUME ClaimOf(s).fate = "ABSENT",
             ClaimOf(s)' = [fate |-> "PENDING", input |-> thread[r].input, response |-> 0],
             thread'[r].pc # "ok", UNCHANGED <<effects, audit>>
      PROVE  Promise!Claim(r)
  <2>1. Answers' = Answers
    BY <1>1, <1>2, <1>4
  <2>2. QED
    BY <1>1, <1>4, <2>1 DEF Promise!Claim, Bodies, Claims, Answers
<1>5. ASSUME ClaimOf(s).fate = "PENDING", ClaimOf(s)' = ClaimOf(s),
             effects[s] = 0, effects' = [effects EXCEPT ![s] = 1],
             thread'[r].pc # "ok", UNCHANGED audit
      PROVE  Promise!TakeEffect(s)
  <2>1. Claims' = Claims /\ Answers' = Answers
    BY <1>1, <1>2, <1>5
  <2>2. QED
    BY <1>1, <1>5, <2>1 DEF Promise!TakeEffect, Bodies, Claims, Answers
<1>6. ASSUME ClaimOf(s).fate = "PENDING", effects[s] = 0, ClaimOf(s)' = Promise!Unclaimed,
             thread'[r].pc # "ok", UNCHANGED <<effects, audit>>
      PROVE  Promise!GiveBack(s)
  <2>1. Answers' = Answers
    BY <1>1, <1>2, <1>6
  <2>2. QED
    BY <1>1, <1>6, <2>1 DEF Promise!GiveBack, Bodies, Claims, Answers
<1>7. ASSUME ClaimOf(s).fate = "PENDING", effects[s] = 1,
             NEW n \in Nat,
             ClaimOf(s)' = [fate |-> "COMMITTED", input |-> ClaimOf(s).input, response |-> n],
             thread'[r].pc # "ok", UNCHANGED <<effects, audit>>
      PROVE  Promise!PutOnRecord(s)
  <2>1. Answers' = Answers
    BY <1>1, <1>2, <1>7
  <2>2. Claims'[s].response = n
    BY <1>1, <1>7 DEF Claims
  <2>3. Claims' = [Claims EXCEPT ![s] = [fate |-> "COMMITTED", input |-> Claims[s].input,
                                         response |-> Claims'[s].response]]
    BY <1>1, <1>7, <2>2
  <2>4. QED
    BY <1>1, <1>7, <2>1, <2>2, <2>3 DEF Promise!PutOnRecord, Bodies, Claims, Answers
<1>8. ASSUME ClaimOf(s).fate = "PENDING",
             ClaimOf(s)' = [ClaimOf(s) EXCEPT !.fate = "ABANDONED"],
             thread'[r].pc # "ok", UNCHANGED <<effects, audit>>
      PROVE  Promise!Abandon
  <2>1. Answers' = Answers
    BY <1>1, <1>2, <1>8
  <2>2. Claims' = [u \in Slot |-> IF u \in {s} THEN [Claims[u] EXCEPT !.fate = "ABANDONED"]
                                              ELSE Claims[u]]
    BY <1>1, <1>8 DEF Claims
  <2>3. {s} \in SUBSET {u \in Slot : Claims[u].fate = "PENDING"}
    BY <1>1, <1>8
  <2>4. QED
    BY <1>1, <1>8, <2>1, <2>2, <2>3 DEF Promise!Abandon, Bodies, Claims, Answers
<1>9. ASSUME ClaimOf(s).fate = "COMMITTED", ClaimOf(s).input = thread[r].input,
             ClaimOf(s)' = ClaimOf(s), UNCHANGED effects,
             thread'[r].pc = "ok", thread'[r].response = ClaimOf(s).response,
             UNCHANGED audit \/ (audit[s] = 0 /\ audit' = [audit EXCEPT ![s] = 1])
      PROVE  Promise!Reply(r)
  <2>1. Claims' = Claims /\ Answers' = [Answers EXCEPT ![r] = {Claims[s].response}]
    BY <1>1, <1>2, <1>9
  <2>2. QED
    BY <1>1, <1>9, <2>1 DEF Promise!Reply, Bodies, Claims, Answers
<1>10. QED
  BY <1>3, <1>4, <1>5, <1>6, <1>7, <1>8, <1>9

\* Every step of a request is one of OnceOnly, or is not seen.
LEMMA PromiseStep ==
    ASSUME Inv, Books, NEW r \in Request, Step(r)
    PROVE  [Promise!Next]_Promise!vars
<1> PICK s \in Slot : s = thread[r].slot
  BY DEF Inv, TypeOK, Thread
<1>1. TypeOK /\ thread[r] \in Thread /\ receipts[s] \in Receipt
  BY DEF Inv, TypeOK
<1>2. r \in Owners(s) <=> thread[r].pc \in Owning
  BY DEF Owners, Owning
<1>3. Owners(s)' = IF thread'[r].pc \in Owning THEN Owners(s) \cup {r} ELSE Owners(s) \ {r}
  BY RequestStep
<1>4. thread[r].pc \in Owning =>
        /\ Owners(s) = {r} /\ receipts[s].status = "PENDING"
        /\ receipts[s].input = thread[r].input
        /\ effects[s] = IF thread[r].pc \in {"view", "commit"} THEN 1 ELSE 0
  BY OwnerFacts
<1>5. ASSUME NEW pc \in Phase, Goto(r, pc)
      PROVE  thread'[r].pc = pc /\ thread'[r].response = thread[r].response
  BY <1>1, <1>5 DEF Goto, TypeOK, Thread
<1>6. ASSUME UNCHANGED <<receipts, audit, effects>>, thread'[r].pc # "ok",
             thread[r].pc \in Owning <=> thread'[r].pc \in Owning
      PROVE  UNCHANGED Promise!vars
  <2>1. Owners(s)' = Owners(s)
    BY <1>2, <1>3, <1>6
  <2>2. ClaimOf(s)' = ClaimOf(s)
    BY <1>6, <2>1 DEF ClaimOf
  <2>3. QED
    BY <1>6, <2>2, SeenAs
<1>7. ASSUME UNCHANGED <<receipts, effects>>, thread[r].pc \notin Owning, thread'[r].pc = "ok",
             receipts[s].status = "COMMITTED", receipts[s].input = thread[r].input,
             thread'[r].response = receipts[s].response,
             UNCHANGED audit \/ (audit[s] = 0 /\ audit' = [audit EXCEPT ![s] = 1])
      PROVE  Promise!Reply(r)
  <2>1. Owners(s)' = Owners(s)
    BY <1>2, <1>3, <1>7 DEF Owning
  <2>2. /\ ClaimOf(s)' = ClaimOf(s) /\ ClaimOf(s).fate = "COMMITTED"
        /\ ClaimOf(s).input = thread[r].input /\ ClaimOf(s).response = thread'[r].response
    BY <1>7, <2>1 DEF ClaimOf
  <2>3. QED
    BY <1>7, <2>2, SeenAs
<1>8. CASE Look(r)
  <2>1. CASE /\ receipts[s].status = "COMMITTED" /\ SameInput(r)
             /\ thread' = [thread EXCEPT ![r].pc = "ok", ![r].response = receipts[s].response,
                                         ![r].replayed = TRUE]
    <3>1. thread'[r].pc = "ok" /\ thread'[r].response = receipts[s].response
      BY <1>1, <2>1 DEF TypeOK, Thread
    <3>2. Promise!Reply(r)
      BY <1>7, <1>8, <2>1, <3>1 DEF Look, At, Owning, SameInput
    <3>3. QED
      BY <3>2 DEF Promise!Next
  <2>2. CASE Goto(r, "refused") \/ Goto(r, "insert")
    BY <1>5, <1>6, <1>8, <2>2 DEF Look, At, Owning, Phase
  <2>3. QED
    BY <1>8, <2>1, <2>2 DEF Look
<1>9. CASE Insert(r)
  <2>1. CASE Goto(r, "failed") /\ UNCHANGED receipts
    BY <1>5, <1>6, <1>9, <2>1 DEF Insert, At, Owning, Phase
  <2>2. CASE /\ receipts[s].status = "ABSENT" /\ Goto(r, "call")
             /\ receipts' = [receipts EXCEPT ![s] = [status |-> "PENDING",
                                                     input |-> thread[r].input, response |-> 0]]
    <3>1. thread'[r].pc = "call" /\ r \in Owners(s)'
      BY <1>3, <1>5, <2>2 DEF Owning, Phase
    <3>2. receipts'[s] = [status |-> "PENDING", input |-> thread[r].input, response |-> 0]
      BY <1>1, <2>2 DEF TypeOK
    <3>3. ClaimOf(s)' = [fate |-> "PENDING", input |-> thread[r].input, response |-> 0]
      BY <3>1, <3>2 DEF ClaimOf
    <3>4. ClaimOf(s).fate = "ABSENT"
      BY <2>2 DEF ClaimOf
    <3>5. Promise!Claim(r)
      BY <1>9, <3>1, <3>3, <3>4, SeenAs DEF Insert
    <3>6. QED
      BY <3>5 DEF Promise!Next
  <2>3. QED
    BY <1>1, <1>9, <2>1, <2>2 DEF Insert, Taken, Receipt
<1>10. CASE Call(r)
  <2>1. CASE Goto(r, "undo") /\ UNCHANGED <<version, effects>>
    BY <1>5, <1>6, <1>10, <2>1 DEF Call, At, Owning, Phase
  <2>2. CASE /\ effects' = [effects EXCEPT ![thread[r].slot] = @ + 1]
             /\ thread' = [thread EXCEPT ![r].pc = "view", ![r].made = version + 1]
    <3>1. thread'[r].pc = "view" /\ thread[r].pc = "call"
      BY <1>1, <1>10, <2>2 DEF Call, At, TypeOK, Thread
    <3>2. Owners(s) = {r} /\ Owners(s)' = {r} /\ receipts[s].status = "PENDING" /\ effects[s] = 0
      BY <1>3, <1>4, <3>1 DEF Owning
    <3>3. ClaimOf(s)' = ClaimOf(s) /\ ClaimOf(s).fate = "PENDING"
      BY <1>10, <3>2 DEF Call, ClaimOf
    <3>4. effects' = [effects EXCEPT ![s] = 1]
      BY <2>2, <3>2
    <3>5. Promise!TakeEffect(s)
      BY <1>10, <3>1, <3>2, <3>3, <3>4, SeenAs DEF Call
    <3>6. QED
      BY <3>5 DEF Promise!Next
  <2>3. QED
    BY <1>10, <2>1, <2>2 DEF Call
<1>11. CASE View(r)
  <2>1. thread'[r].pc = "commit"
    BY <1>1, <1>11 DEF View, TypeOK, Thread
  <2>2. QED
    BY <1>6, <1>11, <2>1 DEF View, At, Owning
<1>12. CASE Commit(r)
  <2>1. thread'[r].pc = "audit" /\ thread[r].pc = "commit"
    BY <1>5, <1>12 DEF Commit, At, Phase
  <2>2. Owners(s) = {r} /\ receipts[s].status = "PENDING" /\ effects[s] = 1
    BY <1>4, <2>1 DEF Owning
  <2>3. receipts'[s] = [status |-> "COMMITTED", input |-> receipts[s].input,
                        response |-> thread[r].response]
    BY <1>1, <1>12 DEF Commit, TypeOK
  <2>4. /\ ClaimOf(s).fate = "PENDING" /\ thread[r].response \in Nat
        /\ ClaimOf(s)' = [fate |-> "COMMITTED", input |-> ClaimOf(s).input,
                          response |-> thread[r].response]
    BY <1>1, <2>2, <2>3 DEF ClaimOf, Thread
  <2>5. Promise!PutOnRecord(s)
    BY <1>12, <2>1, <2>2, <2>4, SeenAs DEF Commit
  <2>6. QED
    BY <2>5 DEF Promise!Next
<1>13. CASE Undo(r)
  <2>1. thread'[r].pc = "failed" /\ thread[r].pc = "undo"
    BY <1>5, <1>13 DEF Undo, At, Phase
  <2>2. Owners(s) = {r} /\ receipts[s].status = "PENDING" /\ effects[s] = 0
    BY <1>4, <2>1 DEF Owning
  <2>3. receipts'[s] = NoReceipt
    BY <1>1, <1>13 DEF Undo, TypeOK
  <2>4. ClaimOf(s).fate = "PENDING" /\ ClaimOf(s)' = Promise!Unclaimed
    BY <2>2, <2>3 DEF ClaimOf, NoReceipt, Promise!Unclaimed
  <2>5. Promise!GiveBack(s)
    BY <1>13, <2>1, <2>2, <2>4, SeenAs DEF Undo
  <2>6. QED
    BY <2>5 DEF Promise!Next
<1>14. CASE AppendAudit(r)
  <2>1. thread'[r].pc = "ok" /\ thread'[r].response = thread[r].response
    BY <1>5, <1>14 DEF AppendAudit, Phase
  <2>2. /\ thread[r].pc = "audit" /\ receipts[s].status = "COMMITTED"
        /\ thread[r].response = receipts[s].response /\ receipts[s].input = thread[r].input
    BY <1>14 DEF AppendAudit, At, Inv, AnswersAgree
  <2>3. audit[s] = 0
    BY <2>2 DEF Books, AuditOK, Auditors
  <2>4. audit' = [audit EXCEPT ![s] = 1]
    BY <1>14, <2>3 DEF AppendAudit
  <2>5. Promise!Reply(r)
    BY <1>7, <1>14, <2>1, <2>2, <2>3, <2>4 DEF AppendAudit, Owning
  <2>6. QED
    BY <2>5 DEF Promise!Next
<1>15. CASE Busy(r)
  <2>1. thread'[r].pc = "failed" /\ UNCHANGED <<receipts, audit, effects>>
    BY <1>5, <1>15 DEF Busy, Phase
  <2>2. CASE thread[r].pc \notin Owning
    BY <1>6, <2>1, <2>2 DEF Owning
  <2>3. CASE thread[r].pc \in Owning
    <3>1. Owners(s) = {r} /\ Owners(s)' = {} /\ receipts[s].status = "PENDING"
      BY <1>3, <1>4, <2>1, <2>3 DEF Owning
    <3>2. ClaimOf(s) = [fate |-> "PENDING", input |-> receipts[s].input,
                        response |-> receipts[s].response]
      BY <3>1 DEF ClaimOf
    <3>3. ClaimOf(s)' = [fate |-> "ABANDONED", input |-> receipts[s].input,
                         response |-> receipts[s].response]
      BY <2>1, <3>1 DEF ClaimOf
    <3>4. ClaimOf(s).fate = "PENDING" /\ ClaimOf(s)' = [ClaimOf(s) EXCEPT !.fate = "ABANDONED"]
      BY <3>2, <3>3
    <3>5. Promise!Abandon
      BY <2>1, <3>4, SeenAs
    <3>6. QED
      BY <3>5 DEF Promise!Next
  <2>4. QED
    BY <2>2, <2>3
<1>16. QED
  BY <1>8, <1>9, <1>10, <1>11, <1>12, <1>13, <1>14, <1>15 DEF Step

\* A crash abandons every claim that some thread was working on.
LEMMA PromiseCrash ==
    ASSUME Inv, Crash
    PROVE  [Promise!Next]_Promise!vars
<1> DEFINE lost == {s \in Slot : Owners(s) # {}}
<1>1. UNCHANGED <<receipts, audit, effects>>
  BY DEF Crash
<1>2. ASSUME NEW q \in Request
      PROVE  /\ thread'[q].slot = thread[q].slot /\ thread'[q].input = thread[q].input
             /\ thread'[q].response = thread[q].response
             /\ thread'[q].pc = "ok" <=> thread[q].pc = "ok"
             /\ thread'[q].pc \notin Owning
  BY DEF Crash, Inv, TypeOK, Thread, Answered, Owning
<1>3. Bodies' = Bodies /\ Answers' = Answers
  BY <1>2 DEF Bodies, Answers, At
<1>4. ASSUME NEW s \in Slot
      PROVE  /\ s \in lost => ClaimOf(s).fate = "PENDING"
             /\ ClaimOf(s)' = IF s \in lost THEN [ClaimOf(s) EXCEPT !.fate = "ABANDONED"]
                                            ELSE ClaimOf(s)
  <2>1. Owners(s)' = {}
    BY <1>2 DEF Owners, Owning
  <2>2. Owners(s) # {} => receipts[s].status = "PENDING"
    BY DEF Inv, ReceiptsOK, RowOK
  <2>3. QED
    BY <1>1, <2>1, <2>2 DEF ClaimOf
<1>5. Claims' = [s \in Slot |-> IF s \in lost THEN [Claims[s] EXCEPT !.fate = "ABANDONED"]
                                              ELSE Claims[s]]
  BY <1>4 DEF Claims
<1>6. lost \in SUBSET {s \in Slot : Claims[s].fate = "PENDING"}
  BY <1>4 DEF Claims
<1>7. Promise!Abandon
  BY <1>1, <1>3, <1>5, <1>6 DEF Promise!Abandon, Bodies, Claims, Answers
<1>8. QED
  BY <1>7 DEF Promise!Next

\* Every step of the write path is one of OnceOnly, or is not seen.
LEMMA PromiseKept == Inv /\ Books /\ [Next]_vars => [Promise!Next]_Promise!vars
<1> SUFFICES ASSUME Inv, Books, [Next]_vars PROVE [Promise!Next]_Promise!vars
  OBVIOUS
<1>1. CASE UNCHANGED vars
  BY <1>1 DEF vars, Promise!vars, ClaimOf, Owners, At
<1>2. QED
  BY <1>1, PromiseStep, PromiseCrash DEF Next

\* At first nothing is claimed and nobody is answered.
LEMMA PromiseInit == Init => Promise!Init
<1> SUFFICES ASSUME Init PROVE Promise!Init
  OBVIOUS
<1>1. \A r \in Request : thread[r].pc = "sent" /\ thread[r].slot \in Slot /\ thread[r].input \in Input
  BY DEF Init
<1>2. Bodies \in [Request -> [slot : Slot, input : Input]]
  BY <1>1 DEF Bodies
<1>3. Claims = [s \in Slot |-> Promise!Unclaimed]
  BY DEF Init, Claims, ClaimOf, NoReceipt, Promise!Unclaimed
<1>4. Answers = [r \in Request |-> {}]
  BY <1>1 DEF Answers, At
<1>5. QED
  BY <1>2, <1>3, <1>4 DEF Init, Promise!Init, Bodies, Claims, Answers

-----------------------------------------------------------------------------
(* The theorems.                                                            *)

\* Every step preserves the invariant.
LEMMA StepInvariant == Inv /\ [Next]_vars => Inv'
<1> SUFFICES ASSUME Inv, [Next]_vars PROVE Inv'
  OBVIOUS
<1>1. CASE UNCHANGED vars
  BY <1>1 DEF vars, Inv, TypeOK, ReceiptsOK, RowOK, Owners, AnswersAgree
<1>2. CASE Crash
  BY <1>2, CrashStep
<1>3. ASSUME NEW r \in Request, Step(r)
      PROVE  Inv'
  BY <1>3, LookStep, InsertStep, CallStep, ViewStep, CommitStep, UndoStep,
     AppendAuditStep, BusyStep DEF Step
<1>4. QED
  BY <1>1, <1>2, <1>3 DEF Next

\* The initial state satisfies the invariant.
LEMMA InitInvariant == Init => Inv
<1> SUFFICES ASSUME Init PROVE Inv
  OBVIOUS
<1>1. TypeOK
  <2>1. ASSUME NEW r \in Request PROVE thread[r] \in Thread
    <3> DEFINE t == thread[r]
    <3>1. t \in [pc : {"sent"}, slot : Slot, input : Input, ledger : Ledger,
                 made : {0}, response : {0}, replayed : {FALSE}]
      BY DEF Init
    <3> HIDE DEF t
    <3>2. t = [pc |-> t.pc, slot |-> t.slot, input |-> t.input, ledger |-> t.ledger,
               made |-> t.made, response |-> t.response, replayed |-> t.replayed]
      BY <3>1
    <3>3. /\ t.pc = "sent" /\ t.slot \in Slot /\ t.input \in Input /\ t.ledger \in Ledger
          /\ t.made = 0 /\ t.response = 0
      BY <3>1
    <3>4. t.replayed \in BOOLEAN
      BY <3>1, Zenon
    <3>5. t \in Thread
      BY <3>2, <3>3, <3>4 DEF Thread, Phase
    <3>6. QED
      BY <3>5 DEF t
  <2>2. thread \in [Request -> Thread]
    BY <2>1 DEF Init
  <2>3. NoReceipt \in Receipt
    BY DEF NoReceipt, Receipt
  <2>4. QED
    BY <2>2, <2>3 DEF Init, TypeOK
<1>2. \A r \in Request : thread[r].pc = "sent"
  BY DEF Init
<1>3. \A s \in Slot : Owners(s) = {}
  BY <1>2 DEF Owners
<1>4. ReceiptsOK
  BY <1>3 DEF Init, ReceiptsOK, RowOK, NoReceipt
<1>5. QED
  BY <1>1, <1>2, <1>4 DEF Inv, AnswersAgree

\* The invariant holds in every reachable state.
THEOREM Invariant == Spec => []Inv
  BY InitInvariant, StepInvariant, PTL DEF Spec

\* However a request is retried and wherever the process dies, its operation
\* takes effect at most once.
THEOREM EffectsAtMostOnce == Spec => []AtMostOnce
<1>1. Inv => AtMostOnce
  BY DEF Inv, TypeOK, Receipt, ReceiptsOK, RowOK, AtMostOnce
<1>2. QED
  BY <1>1, Invariant, PTL

\* Every answered request gets the recorded response of its own body.
THEOREM AnswersAlwaysAgree == Spec => []AnswersAgree
<1>1. Inv => AnswersAgree
  BY DEF Inv
<1>2. QED
  BY <1>1, Invariant, PTL

\* The invariant and the books hold in every reachable state.
THEOREM BooksInvariant == Spec => [](Inv /\ Books)
<1>1. Inv /\ Books /\ [Next]_vars => (Inv /\ Books)'
  BY StepInvariant, BooksStep
<1>2. QED
  BY <1>1, InitInvariant, InitBooks, PTL DEF Spec

\* The response to an operation that was not a replay shows the operation's own
\* effect, whatever other requests do between the callback and the view.
THEOREM ResponsesShowOwnEffect == Spec => []ResponseShowsOwnEffect
<1>1. Inv /\ Books => ResponseShowsOwnEffect
  BY DEF Inv, TypeOK, Thread, Books, MadeOK, ResponseShowsOwnEffect, At
<1>2. QED
  BY <1>1, BooksInvariant, PTL

\* The audit names a decision at most once, and only if its receipt says it was
\* committed, wherever the process dies.
THEOREM AuditStaysHonest == Spec => []AuditIsHonest
<1>1. Inv /\ Books => AuditIsHonest
  BY DEF Books, AuditOK, AuditIsHonest
<1>2. QED
  BY <1>1, BooksInvariant, PTL

\* A receipt whose thread died is never answered, taken over or run again.
THEOREM OrphansStayClosed == Spec => OrphanStaysClosed
<1>1. Inv /\ [Next]_vars =>
        [\A s \in Slot :
            receipts[s].status = "PENDING" /\ Owners(s) = {}
            => receipts'[s] = receipts[s] /\ effects'[s] = effects[s]]_vars
  BY OrphanStep
<1>2. QED
  BY <1>1, Invariant, PTL DEF Spec, OrphanStaysClosed

\* The write path implements OnceOnly, for any number of requests, receipts,
\* ledger objects and crashes: every step is one that OnceOnly allows, or is not
\* seen by whoever sends requests.
THEOREM Implements == Spec => ImplementsOnceOnly
<1>1. Spec => Promise!Init /\ [][Promise!Next]_Promise!vars
  BY PromiseInit, PromiseKept, BooksInvariant, PTL DEF Spec
<1>2. QED
  BY <1>1 DEF ImplementsOnceOnly, Promise!Spec
=============================================================================
