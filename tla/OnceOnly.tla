------------------------------- MODULE OnceOnly -------------------------------
(***************************************************************************)
(* What the durable write path promises to whoever sends a request, with no *)
(* threads, no locks and no database in it: an operation is claimed for one *)
(* body, takes effect once while it is claimed, and is then on record for   *)
(* good; what is on record is the one answer that requests with this body   *)
(* get, and is audited once at most.  A claim that loses its thread is      *)
(* abandoned: nobody learns what became of it and nobody tries again.       *)
(***************************************************************************)
EXTENDS Naturals

CONSTANTS Request, Slot, Input

VARIABLES
    body,       \* the slot that each request names and the input it sends
    claim,      \* of each slot: its fate, the input and, on record, the response
    effects,    \* how often each slot's operation has taken effect
    audited,    \* the rows of the audit about each slot
    answer      \* the responses that each request has got

vars == <<body, claim, effects, audited, answer>>

Unclaimed == [fate |-> "ABSENT", input |-> "NONE", response |-> 0]

Init ==
    /\ body \in [Request -> [slot : Slot, input : Input]]
    /\ claim = [s \in Slot |-> Unclaimed]
    /\ effects = [s \in Slot |-> 0]
    /\ audited = [s \in Slot |-> 0]
    /\ answer = [r \in Request |-> {}]

-----------------------------------------------------------------------------
Claim(r) ==
    LET s == body[r].slot
    IN  /\ claim[s].fate = "ABSENT"
        /\ claim' = [claim EXCEPT
                ![s] = [fate |-> "PENDING", input |-> body[r].input, response |-> 0]]
        /\ UNCHANGED <<body, effects, audited, answer>>

TakeEffect(s) ==
    /\ claim[s].fate = "PENDING"
    /\ effects[s] = 0
    /\ effects' = [effects EXCEPT ![s] = 1]
    /\ UNCHANGED <<body, claim, audited, answer>>

\* The operation has failed, without an effect: a retry may claim it anew.
GiveBack(s) ==
    /\ claim[s].fate = "PENDING"
    /\ effects[s] = 0
    /\ claim' = [claim EXCEPT ![s] = Unclaimed]
    /\ UNCHANGED <<body, effects, audited, answer>>

PutOnRecord(s) ==
    /\ claim[s].fate = "PENDING"
    /\ effects[s] = 1
    /\ claim' = [claim EXCEPT ![s] = [fate |-> "COMMITTED", input |-> claim[s].input,
                                      response |-> claim'[s].response]]
    /\ claim'[s].response \in Nat
    /\ UNCHANGED <<body, effects, audited, answer>>

\* One thread is lost, or all of them.
Abandon ==
    /\ \E lost \in SUBSET {s \in Slot : claim[s].fate = "PENDING"} :
         claim' = [s \in Slot |-> IF s \in lost THEN [claim[s] EXCEPT !.fate = "ABANDONED"]
                                                ELSE claim[s]]
    /\ UNCHANGED <<body, effects, audited, answer>>

\* The first answer goes with the audit's row; a replay does not.
Reply(r) ==
    LET s == body[r].slot
    IN  /\ claim[s].fate = "COMMITTED"
        /\ claim[s].input = body[r].input
        /\ answer[r] = {}
        /\ answer' = [answer EXCEPT ![r] = {claim[s].response}]
        /\ \/ UNCHANGED audited
           \/ audited[s] = 0 /\ audited' = [audited EXCEPT ![s] = 1]
        /\ UNCHANGED <<body, claim, effects>>

Next ==
    \/ \E r \in Request : Claim(r) \/ Reply(r)
    \/ \E s \in Slot : TakeEffect(s) \/ GiveBack(s) \/ PutOnRecord(s)
    \/ Abandon

Spec == Init /\ [][Next]_vars
=============================================================================
