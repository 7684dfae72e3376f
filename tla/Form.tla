--------------------------------- MODULE Form ---------------------------------
(***************************************************************************)
(* The error text of a form field of the web UI kit (field.tsx).  Several   *)
(* validators may report, more than once or in vain: an error is its        *)
(* message, which may be empty; Missing stands for undefined and for an     *)
(* error without a message, which the code does not tell apart.             *)
(***************************************************************************)
EXTENDS InOrder, Sequences, SequencesExt

CONSTANTS Messages, MaxErrors

Missing == "undefined"

\* What validators report in vain.
Vain == {"", Missing}

ASSUME FormAssumption == MaxErrors \in Nat /\ Messages \intersect Vain = {}

VARIABLES
    errors,         \* what the validators report, in their order
    children        \* the application writes the text itself

form == <<errors, children>>

\* A slip: only a message like the one before it is dropped.
firsts_Neighbours == {i \in DOMAIN errors : i = 1 \/ errors[i - 1] # errors[i]}

\* Where a message comes first: the entries of the Map, which keeps an empty and a missing
\* message apart.
firsts == {i \in DOMAIN errors : \A j \in 1..(i - 1) : errors[j] # errors[i]}

uniqueErrors == MembersAt(errors, firsts)

\* The entries that are written.
listed == MembersAt(errors, {i \in firsts : errors[i] \notin Vain})

\* Nothing, the application's text, the one message, or a list, which may be an empty one.
FieldError ==
    CASE children -> [alert |-> TRUE, messages |-> <<>>]
      [] ~children /\ errors = <<>> -> [alert |-> FALSE, messages |-> <<>>]
      [] ~children /\ Len(uniqueErrors) = 1 ->
            [alert |-> uniqueErrors[1] \notin Vain, messages |-> listed]
      [] OTHER -> [alert |-> TRUE, messages |-> listed]

FormInit == errors = <<>> /\ children \in BOOLEAN

\* The field is validated again.
Validate ==
    /\ errors' \in BoundedSeq(Messages \cup Vain, MaxErrors)
    /\ UNCHANGED children

-----------------------------------------------------------------------------
\* The field announces an alert when a validator has something to say, and then every
\* message once, in the order in which they were first reported.  It announces one with
\* nothing in it when validators reported an empty and a missing message, and only then.
EveryErrorOnce ==
    LET shownAt(m) == CHOOSE n \in DOMAIN FieldError.messages : FieldError.messages[n] = m
        firstAt(m) == CHOOSE i \in DOMAIN errors :
                        errors[i] = m /\ \A j \in 1..(i - 1) : errors[j] # m
        said == ToSet(errors) \ Vain
    IN  ~children =>
        /\ FieldError.alert <=> said # {} \/ Vain \subseteq ToSet(errors)
        /\ ToSet(FieldError.messages) = said
        /\ Len(FieldError.messages) = Cardinality(said)
        /\ \A m, n \in said : firstAt(m) < firstAt(n) => shownAt(m) < shownAt(n)
=============================================================================
