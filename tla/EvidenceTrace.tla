---------------------------- MODULE EvidenceTrace ----------------------------
(***************************************************************************)
(* EvidenceRecorder (evidence.py): one session's JSONL trace, whose spans   *)
(* are numbered and chained by hash, and the threads of the Agent API that  *)
(* record in it.  The recorder has no lock of its own, so a record is four  *)
(* steps: number, build, append, link.  An operation of the mission service *)
(* records under the service's lock; GET status (MissionService.status)     *)
(* records without it.                                                      *)
(*                                                                          *)
(* CPython does not switch threads inside `self._sequence += 1`.  A hash is *)
(* the triple of what it covers, which makes it injective; what the span    *)
(* says (kind, payload, time) is stood for by the thread that recorded it,  *)
(* the only part in which two spans of one number can differ.  A crash ends *)
(* the trace, for the recorder is not rebuilt from the file: what holds in  *)
(* every state holds of the file that a crash leaves.                       *)
(***************************************************************************)
EXTENDS Naturals, Sequences

CONSTANTS
    Writer,     \* threads that serve mutations
    Reader,     \* threads that serve GET status
    MaxSpan     \* bound: records attempted

ASSUME ThreadAssumption == Writer \cap Reader = {}
ASSUME SpanAssumption == MaxSpan \in Nat
ASSUME NobodyAssumption == "NOBODY" \notin Writer

VARIABLES
    sequence,   \* _sequence
    previous,   \* _previous_hash
    file,       \* the lines of hero-run.jsonl
    holder,     \* the service's _lock: the writer inside, or Nobody
    pc,         \* each thread's place
    span,       \* the span it records
    open,       \* whether the file's last line has no newline
    references, \* the evidence references returned so far
    gaps,       \* history: the file's length after each append that failed
    asked       \* history: whether a status request has come in

vars == <<sequence, previous, file, holder, pc, span, open, references, gaps, asked>>

Nobody == "NOBODY"

Thread == Writer \cup Reader

Places == {"idle", "ready", "numbered", "built", "written"}

Genesis == << >>        \* previous_hash of the first span

Torn == <<0>>           \* no hash of any span

\* A line of which stored is Torn cannot be read.  Its other fields are those of
\* the span that was written to it last.
Hash(line) == <<line.sequence, line.previous, line.content>>

Span(n, h, c) ==
    [sequence |-> n, previous |-> h, content |-> c, stored |-> <<n, h, c>>]

NoSpan == [sequence |-> 0, previous |-> Torn, content |-> Nobody, stored |-> Torn]

\* verify
Verify(lines) ==
    /\ lines # << >>
    /\ \A i \in 1..Len(lines) :
         /\ lines[i].sequence = i
         /\ lines[i].previous = IF i = 1 THEN Genesis ELSE lines[i - 1].stored
         /\ Hash(lines[i]) = lines[i].stored

Init ==
    /\ sequence = 0
    /\ previous = Genesis
    /\ file = << >>
    /\ holder = Nobody
    /\ pc = [t \in Thread |-> "idle"]
    /\ span = [t \in Thread |-> NoSpan]
    /\ open = FALSE
    /\ references = {}
    /\ gaps = {}
    /\ asked = FALSE

-----------------------------------------------------------------------------
At(t, place) == pc[t] = place

\* Mutant: an operation does not wait for the lock.
Enter_NoLock(w) ==
    /\ At(w, "idle")
    /\ holder' = w
    /\ pc' = [pc EXCEPT ![w] = "ready"]
    /\ UNCHANGED <<sequence, previous, file, open, references, gaps, asked, span>>

\* An operation begins: `with self._lock`.
Enter(w) ==
    /\ At(w, "idle")
    /\ holder = Nobody
    /\ holder' = w
    /\ pc' = [pc EXCEPT ![w] = "ready"]
    /\ UNCHANGED <<sequence, previous, file, open, references, gaps, asked, span>>

\* The operation ends, after any number of records.
Leave(w) ==
    /\ At(w, "ready")
    /\ holder' = Nobody
    /\ pc' = [pc EXCEPT ![w] = "idle"]
    /\ UNCHANGED <<sequence, previous, file, open, references, gaps, asked, span>>

\* A status request: no lock.  It names a mission, so approve has recorded.
Ask(r) ==
    /\ At(r, "idle")
    /\ references # {}
    /\ pc' = [pc EXCEPT ![r] = "ready"]
    /\ asked' = TRUE
    /\ UNCHANGED <<sequence, previous, file, open, holder, references, gaps, span>>

\* self._sequence += 1
Number(t) ==
    /\ At(t, "ready")
    /\ sequence < MaxSpan
    /\ sequence' = sequence + 1
    /\ pc' = [pc EXCEPT ![t] = "numbered"]
    /\ UNCHANGED <<previous, file, open, holder, references, gaps, asked, span>>

\* The span is put together from the recorder's fields, and hashed.
Build(t) ==
    /\ At(t, "numbered")
    /\ span' = [span EXCEPT ![t] = Span(sequence, previous, t)]
    /\ pc' = [pc EXCEPT ![t] = "built"]
    /\ UNCHANGED <<sequence, previous, file, open, holder, references, gaps, asked>>

\* A record that raises ends its operation, which gives the lock back.
Abort(t) ==
    /\ pc' = [pc EXCEPT ![t] = "idle"]
    /\ holder' = IF t \in Writer THEN Nobody ELSE holder

\* Mutant: the file is opened anew for each span.
Written_Anew(line) == <<line>>

\* The file with line written at its end.  After a line without a newline it
\* goes on in that line, of which nothing can be read then.
Written(line) ==
    IF open THEN [file EXCEPT ![Len(file)] = [line EXCEPT !.stored = Torn]]
            ELSE Append(file, line)

\* Mutant: a failed append gives its number back.
AppendSpan_Renumbers(t) ==
    /\ At(t, "built")
    /\ \/ /\ file' = Written(span[t])
          /\ pc' = [pc EXCEPT ![t] = "written"]
          /\ UNCHANGED <<sequence, holder, gaps>>
       \/ /\ Abort(t)
          /\ gaps' = gaps \cup {Len(file)}
          /\ sequence' = sequence - 1
          /\ UNCHANGED file
    /\ UNCHANGED <<previous, open, references, asked, span>>

\* The line is written; or the write or the close fails, and has left nothing, a
\* part of the line, or all of it with or without its newline.
AppendSpan(t) ==
    /\ At(t, "built")
    /\ \/ /\ file' = Written(span[t])
          /\ open' = FALSE
          /\ pc' = [pc EXCEPT ![t] = "written"]
          /\ UNCHANGED <<holder, gaps>>
       \/ /\ Abort(t)
          /\ \/ UNCHANGED <<file, open>>
             \/ file' = Written([span[t] EXCEPT !.stored = Torn]) /\ open' = TRUE
             \/ file' = Written(span[t]) /\ open' \in BOOLEAN
          /\ gaps' = gaps \cup {Len(file')}
    /\ UNCHANGED <<sequence, previous, references, asked, span>>

\* Mutant: the reference is made from the recorder's hash, before it moves on.
Link_OldHash(t) ==
    /\ At(t, "written")
    /\ previous' = span[t].stored
    /\ references' = references \cup {[sequence |-> sequence, hash |-> previous]}
    /\ pc' = [pc EXCEPT ![t] = IF t \in Writer THEN "ready" ELSE "idle"]
    /\ UNCHANGED <<sequence, file, open, holder, gaps, asked, span>>

\* The recorder moves on to the span's hash, and its reference is returned.
Link(t) ==
    /\ At(t, "written")
    /\ previous' = span[t].stored
    /\ references' = references
            \cup {[sequence |-> sequence, hash |-> span[t].stored]}
    /\ pc' = [pc EXCEPT ![t] = IF t \in Writer THEN "ready" ELSE "idle"]
    /\ UNCHANGED <<sequence, file, open, holder, gaps, asked, span>>

Next ==
    \/ \E w \in Writer : Enter(w) \/ Leave(w)
    \/ \E r \in Reader : Ask(r)
    \/ \E t \in Thread : Number(t) \/ Build(t) \/ AppendSpan(t) \/ Link(t)

Spec == Init /\ [][Next]_vars

-----------------------------------------------------------------------------
(* Properties.                                                              *)

\* The recorder and its threads keep their types; only the writer that holds
\* the service's lock is inside an operation.
TypeOK ==
    /\ sequence \in 0..MaxSpan
    /\ holder \in Writer \cup {Nobody}
    /\ \A t \in Thread : pc[t] \in Places
    /\ \A w \in Writer : At(w, "idle") <=> holder # w
    /\ Len(file) <= sequence
    /\ open => file # << >>
    /\ gaps \subseteq 0..MaxSpan
    /\ asked \in BOOLEAN

\* While no status request records beside the operations, a trace without a failed
\* write verifies, after each step and so also after a crash between two.
TraceVerifies == ~asked /\ gaps = {} /\ file # << >> => Verify(file)

\* While no status request does, a failed write is missed, or breaks the chain: if
\* the trace verifies, nothing was recorded after it.
LossShows == ~asked /\ Verify(file) => \A g \in gaps : g = Len(file)

\* While no status request does, an evidence reference names a span of the file, by
\* number and hash (proposals carry these references: mission_service.py,
\* prepare_proposal).  A torn line takes the one span that is recorded next with
\* it: its reference dangles, and the trace does not verify.
ReferencesResolve ==
    ~asked =>
        \A reference \in references :
            \E i \in 1..Len(file) :
                /\ file[i].sequence = reference.sequence
                /\ file[i].stored \in {reference.hash, Torn}

\* A line is the span of that hash, or an unreadable one that it was written to last.
Holds(line, h) ==
    \/ line.stored = h
    \/ line.stored = Torn /\ Hash(line) = h

\* Whoever records beside whom, a span of which somebody has the reference is in
\* the file, readable unless a failed write left the line it was added to torn: a
\* fork of the chain loses no evidence.
SpansAreKept ==
    \A reference \in references :
        \E i \in 1..Len(file) :
            /\ Holds(file[i], reference.hash)
            /\ gaps = {} => file[i].stored = reference.hash

-----------------------------------------------------------------------------
(* A statement of the code's own documentation that it does not keep.       *)

\* "Append-only JSONL trace with a tamper-evident hash chain" (EvidenceRecorder):
\* a trace that lost nothing verifies, whoever has recorded in it.
ChainHolds == gaps = {} /\ file # << >> => Verify(file)
=============================================================================
