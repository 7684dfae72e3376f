-------------------------- MODULE MCOperationLedger --------------------------
(* Small instances of OperationLedger for TLC.                              *)
EXTENDS OperationLedger

CONSTANTS r1, a, i, l1

\* Slots, inputs and ledgers are interchangeable: the first request fixes their names.
\* (Liveness is not checked under a symmetry set.)
NamedInit ==
    /\ Init
    /\ thread[r1].slot = a /\ thread[r1].input = i /\ thread[r1].ledger = l1

NamedSpec == NamedInit /\ [][Next]_vars /\ \A r \in Request : WF_vars(Step(r))
=============================================================================
