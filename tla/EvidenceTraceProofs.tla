------------------------- MODULE EvidenceTraceProofs -------------------------
(***************************************************************************)
(* Proofs about EvidenceTrace, for any number of threads and spans: what    *)
(* holds whoever records beside whom, and what holds while nobody records   *)
(* without the service's lock (no status request has come in).              *)
(***************************************************************************)
EXTENDS EvidenceTrace, FiniteSetTheorems, SequenceTheorems, TLAPS

\* f is a sequence, of whatever its lines are.
Log(f) == f \in Seq({f[i] : i \in 1..Len(f)})

Recording == {"numbered", "built"}

\* The type of the state, and the lock: a writer that is not idle holds it.
TypeInv ==
    /\ sequence \in Nat
    /\ pc \in [Thread -> Places]
    /\ span = [t \in Thread |-> span[t]]
    /\ holder \in Writer \cup {Nobody}
    /\ \A w \in Writer : pc[w] = "idle" <=> holder # w
    /\ Log(file)
    /\ open \in BOOLEAN
    /\ open => file # << >>
    /\ asked \in BOOLEAN

\* How many lines of the file nothing will be added to.
Closed == IF open THEN Len(file) - 1 ELSE Len(file)

-----------------------------------------------------------------------------
(* Lemmas about the file.                                                   *)

\* What Append does to a file.
LEMMA AppendLine ==
    ASSUME NEW f, Log(f), NEW x
    PROVE  LET g == Append(f, x)
           IN  /\ Log(g) /\ g # << >>
               /\ Len(f) \in Nat /\ Len(g) = Len(f) + 1
               /\ g[Len(g)] = x
               /\ \A i \in 1..Len(f) : g[i] = f[i]
<1> DEFINE g == Append(f, x)
           S == {f[i] : i \in 1..Len(f)} \cup {x}
           T == {g[i] : i \in 1..Len(g)}
<1>1. f \in Seq(S) /\ x \in S
  BY SeqMonotonic DEF Log
<1> HIDE DEF S
<1>2. /\ g \in Seq(S) /\ Len(g) = Len(f) + 1 /\ Len(f) \in Nat
      /\ \A i \in 1..Len(f) : g[i] = f[i]
      /\ g[Len(f) + 1] = x
  BY <1>1
<1>3. g # << >>
  BY <1>2
<1> HIDE DEF g
<1>4. g \in [1..Len(g) -> S] /\ Len(g) \in Nat
  BY <1>2, LenProperties
<1>5. g \in [1..Len(g) -> T]
  BY <1>4
<1> HIDE DEF T
<1>6. g \in Seq(T)
  BY <1>4, <1>5, SeqDef
<1>7. QED
  BY <1>2, <1>3, <1>6 DEF Log, T, g

\* What a write does to the file: it adds a line, or spoils the open one.
LEMMA WrittenLine ==
    ASSUME Log(file), open \in BOOLEAN, open => file # << >>, NEW x, NEW g, g = Written(x)
    PROVE  /\ Log(g) /\ g # << >> /\ Len(file) \in Nat /\ Closed \in Nat
           /\ Len(g) = Closed + 1 /\ Closed <= Len(file)
           /\ g[Len(g)] = IF open THEN [x EXCEPT !.stored = Torn] ELSE x
           /\ \A i \in 1..Closed : g[i] = file[i]
<1>1. CASE ~open
  BY <1>1, AppendLine DEF Written, Closed
<1>2. CASE open
  <2> DEFINE n == Len(file)
             y == [x EXCEPT !.stored = Torn]
             S == {file[i] : i \in 1..n} \cup {y}
             T == {g[i] : i \in 1..Len(g)}
  <2>1. file \in Seq(S) /\ y \in S
    BY SeqMonotonic DEF Log
  <2>2. g = [file EXCEPT ![n] = y]
    BY <1>2 DEF Written
  <2> HIDE DEF S, y
  <2>3. n \in Nat /\ n # 0 /\ file \in [1..n -> S]
    BY <1>2, <2>1, LenProperties, EmptySeq
  <2> HIDE DEF n
  <2>4. g \in [1..n -> S] /\ g[n] = y /\ \A i \in 1..(n - 1) : g[i] = file[i]
    BY <2>1, <2>2, <2>3
  <2>5. g \in Seq(S) /\ Len(g) = n
    BY <2>3, <2>4, SeqDef, LenProperties
  <2>6. g \in [1..Len(g) -> T]
    BY <2>4, <2>5
  <2> HIDE DEF T
  <2>7. g \in Seq(T)
    BY <2>3, <2>5, <2>6, SeqDef
  <2>8. g # << >>
    BY <2>3, <2>5
  <2>9. Log(g)
    BY <2>7 DEF Log, T
  <2>10. QED
    BY <1>2, <2>3, <2>4, <2>5, <2>8, <2>9 DEF Closed, n, y
<1>3. QED
  BY <1>1, <1>2

\* The length of the file is a number.
LEMMA FileLength ==
    ASSUME TypeInv
    PROVE  Len(file) \in Nat /\ Closed \in Nat /\ Closed <= Len(file)
<1>1. Len(file) \in Nat
  BY LenProperties DEF Log, TypeInv
<1>2. open => Len(file) # 0
  BY <1>1, EmptySeq DEF Log, TypeInv
<1>3. QED
  BY <1>1, <1>2 DEF Closed, TypeInv

-----------------------------------------------------------------------------
(* What holds whoever records beside whom.                                  *)

\* The threads that have taken a number and not yet used it or lost it.
Numbered == {t \in Thread : pc[t] \in Recording}

\* Every line of the file took a number, and so did every thread that is going
\* to append one.
NumbersSuffice ==
    /\ IsFiniteSet(Numbered)
    /\ Len(file) + Cardinality(Numbered) <= sequence

\* The span with that hash is in the first n lines, and readable if no write failed.
HeldIn(n, h) ==
    \E i \in 1..n : Holds(file[i], h) /\ (gaps = {} => file[i].stored = h)

\* The last line of a thread, and every span somebody has the reference of, is in
\* the lines that nothing will be added to.
KeptInv ==
    /\ TypeInv
    /\ sequence <= MaxSpan
    /\ gaps \subseteq 0..MaxSpan
    /\ gaps = {} => ~open
    /\ NumbersSuffice
    /\ \A t \in Thread : pc[t] \in {"built", "written"} => \E n, h : span[t] = Span(n, h, t)
    /\ \A t \in Thread : pc[t] = "written" => HeldIn(Closed, span[t].stored)
    /\ \A reference \in references : HeldIn(Closed, reference.hash)

\* Thread t goes to a place p; nobody else moves.
Moves(t, p) == p \in Places /\ pc' = [pc EXCEPT ![t] = p]

\* The type invariant after a move: the lock goes with the writer that moves.
LEMMA MoveType ==
    ASSUME TypeInv, NEW t \in Thread, NEW p \in Places, Moves(t, p),
           sequence' \in Nat, Log(file'), span' = [q \in Thread |-> span'[q]],
           open' \in BOOLEAN, open' => file' # << >>, asked' \in BOOLEAN,
           \/ holder' = holder /\ (p = "idle" <=> pc[t] = "idle")
           \/ holder' = holder /\ t \notin Writer
           \/ t \in Writer /\ holder = Nobody /\ holder' = t /\ p # "idle"
           \/ t \in Writer /\ pc[t] # "idle" /\ holder' = Nobody /\ p = "idle"
    PROVE  TypeInv'
<1>1. \A q \in Thread : pc'[q] = IF q = t THEN p ELSE pc[q]
  BY DEF Moves, TypeInv
<1>2. pc' \in [Thread -> Places]
  BY DEF Moves, TypeInv
<1>3. Writer \subseteq Thread
  BY DEF Thread
<1>4. holder' \in Writer \cup {Nobody} /\ \A w \in Writer : pc'[w] = "idle" <=> holder' # w
  BY <1>1, <1>3, NobodyAssumption DEF TypeInv, Nobody
<1>5. QED
  BY <1>2, <1>4 DEF TypeInv

\* How a move changes the set of those who have a number to use.
LEMMA MoveNumbered ==
    ASSUME TypeInv, NumbersSuffice, NEW t \in Thread, NEW p \in Places, Moves(t, p)
    PROVE  /\ IsFiniteSet(Numbered) /\ IsFiniteSet(Numbered') /\ Cardinality(Numbered) \in Nat
           /\ Cardinality(Numbered') =
                Cardinality(Numbered)
                    + (IF p \in Recording THEN 1 ELSE 0)
                    - (IF pc[t] \in Recording THEN 1 ELSE 0)
<1>1. IsFiniteSet(Numbered) /\ Cardinality(Numbered) \in Nat
  BY FS_CardinalityType DEF NumbersSuffice
<1>2. \A q \in Thread : pc'[q] = IF q = t THEN p ELSE pc[q]
  BY DEF Moves, TypeInv
<1>3. Numbered' = IF p \in Recording THEN Numbered \cup {t} ELSE Numbered \ {t}
  BY <1>2 DEF Numbered
<1>4. t \in Numbered <=> pc[t] \in Recording
  BY DEF Numbered
<1>5. CASE p \in Recording
  <2>1. /\ IsFiniteSet(Numbered \cup {t})
        /\ Cardinality(Numbered \cup {t}) =
                IF t \in Numbered THEN Cardinality(Numbered) ELSE Cardinality(Numbered) + 1
    BY <1>1, FS_AddElement
  <2>2. QED
    BY <1>1, <1>3, <1>4, <1>5, <2>1
<1>6. CASE p \notin Recording
  <2>1. /\ IsFiniteSet(Numbered \ {t})
        /\ Cardinality(Numbered \ {t}) =
                IF t \in Numbered THEN Cardinality(Numbered) - 1 ELSE Cardinality(Numbered)
    BY <1>1, FS_RemoveElement
  <2>2. QED
    BY <1>1, <1>3, <1>4, <1>6, <2>1
<1>7. QED
  BY <1>5, <1>6

\* A step that leaves the file and the numbers alone and moves a thread between
\* places without a number to use, or on to the use of it.
LEMMA KeptQuietStep ==
    ASSUME KeptInv, NEW t \in Thread, NEW p \in Places, Moves(t, p), TypeInv',
           UNCHANGED <<sequence, file, open, references, gaps>>,
           p \in Recording <=> pc[t] \in Recording, p # "written",
           p = "built" => \E n, h : span'[t] = Span(n, h, t),
           \A q \in Thread : q # t => span'[q] = span[q]
    PROVE  KeptInv'
<1>1. TypeInv /\ NumbersSuffice
  BY DEF KeptInv
<1>2. NumbersSuffice'
  BY <1>1, MoveNumbered DEF NumbersSuffice
<1>3. \A q \in Thread : pc'[q] = IF q = t THEN p ELSE pc[q]
  BY <1>1 DEF Moves, TypeInv
<1>4. ASSUME NEW q \in Thread, pc'[q] = "written"
      PROVE  HeldIn(Closed, span[q].stored)'
  <2>1. q # t /\ pc[q] = "written" /\ span'[q] = span[q]
    BY <1>3, <1>4
  <2>2. HeldIn(Closed, span[q].stored)
    BY <2>1 DEF KeptInv
  <2>3. QED
    BY <2>1, <2>2 DEF HeldIn, Closed
<1>5. \A reference \in references' : HeldIn(Closed, reference.hash)'
  BY DEF KeptInv, HeldIn, Closed
<1>6. /\ sequence' <= MaxSpan /\ gaps' \subseteq 0..MaxSpan
      /\ gaps' = {} => ~open'
  BY DEF KeptInv
<1>7. \A q \in Thread : pc'[q] \in {"built", "written"} => \E n, h : span'[q] = Span(n, h, q)
  BY <1>3 DEF KeptInv
<1>8. QED
  BY <1>2, <1>4, <1>5, <1>6, <1>7 DEF KeptInv

LEMMA KeptEnterStep ==
    ASSUME KeptInv, NEW w \in Writer, Enter(w)
    PROVE  KeptInv'
<1>1. /\ pc[w] = "idle" /\ holder = Nobody /\ holder' = w /\ Moves(w, "ready")
      /\ "ready" \in Places /\ w \in Thread
      /\ UNCHANGED <<sequence, previous, file, open, references, gaps, asked, span>>
  BY DEF Enter, At, Moves, Places, Thread
<1>2. TypeInv'
  BY <1>1, MoveType DEF KeptInv, TypeInv
<1>3. QED
  BY <1>1, <1>2, KeptQuietStep DEF Recording

LEMMA KeptLeaveStep ==
    ASSUME KeptInv, NEW w \in Writer, Leave(w)
    PROVE  KeptInv'
<1>1. /\ pc[w] = "ready" /\ holder' = Nobody /\ Moves(w, "idle")
      /\ "idle" \in Places /\ w \in Thread
      /\ UNCHANGED <<sequence, previous, file, open, references, gaps, asked, span>>
  BY DEF Leave, At, Moves, Places, Thread
<1>2. TypeInv'
  BY <1>1, MoveType DEF KeptInv, TypeInv
<1>3. QED
  BY <1>1, <1>2, KeptQuietStep DEF Recording

LEMMA KeptAskStep ==
    ASSUME KeptInv, NEW r \in Reader, Ask(r)
    PROVE  KeptInv'
<1>1. /\ pc[r] = "idle" /\ Moves(r, "ready") /\ "ready" \in Places
      /\ r \in Thread /\ r \notin Writer /\ asked' \in BOOLEAN
      /\ UNCHANGED <<sequence, previous, file, open, holder, references, gaps, span>>
  BY ThreadAssumption DEF Ask, At, Moves, Places, Thread
<1>2. TypeInv'
  BY <1>1, MoveType DEF KeptInv, TypeInv
<1>3. QED
  BY <1>1, <1>2, KeptQuietStep DEF Recording

LEMMA KeptNumberStep ==
    ASSUME KeptInv, NEW t \in Thread, Number(t)
    PROVE  KeptInv'
<1>1. /\ pc[t] = "ready" /\ sequence < MaxSpan /\ sequence' = sequence + 1
      /\ Moves(t, "numbered") /\ "numbered" \in Places
      /\ UNCHANGED <<previous, file, open, holder, references, gaps, asked, span>>
  BY DEF Number, At, Moves, Places
<1>2. TypeInv /\ NumbersSuffice /\ sequence \in Nat /\ Len(file) \in Nat
  BY FileLength DEF KeptInv, TypeInv
<1>3. TypeInv'
  BY <1>1, <1>2, MoveType DEF TypeInv
<1>4. NumbersSuffice'
  BY <1>1, <1>2, MoveNumbered DEF NumbersSuffice, Recording
<1>5. \A q \in Thread : /\ pc'[q] = "written" => pc[q] = "written"
                        /\ pc'[q] = "built" => pc[q] = "built"
  BY <1>1, <1>2 DEF Moves, TypeInv
<1>6. sequence' <= MaxSpan
  BY <1>1, <1>2, SpanAssumption
<1>7. QED
  BY <1>1, <1>3, <1>4, <1>5, <1>6 DEF KeptInv, HeldIn, Closed

LEMMA KeptBuildStep ==
    ASSUME KeptInv, NEW t \in Thread, Build(t)
    PROVE  KeptInv'
<1>1. /\ pc[t] = "numbered" /\ span' = [span EXCEPT ![t] = Span(sequence, previous, t)]
      /\ Moves(t, "built") /\ "built" \in Places
      /\ UNCHANGED <<sequence, previous, file, open, holder, references, gaps, asked>>
  BY DEF Build, At, Moves, Places
<1>2. TypeInv
  BY DEF KeptInv
<1>3. /\ span' = [q \in Thread |-> span'[q]]
      /\ \A q \in Thread : q # t => span'[q] = span[q]
      /\ \E n, h : span'[t] = Span(n, h, t)
  BY <1>1, <1>2 DEF TypeInv
<1>4. TypeInv'
  BY <1>1, <1>2, <1>3, MoveType DEF TypeInv
<1>5. QED
  BY <1>1, <1>3, <1>4, KeptQuietStep DEF Recording

\* The line a thread writes is in the file from then on; what was there stays,
\* but for a line that a failed write left open.
LEMMA KeptWrite ==
    ASSUME KeptInv, NEW t \in Thread, pc[t] = "built", NEW x, file' = Written(x),
           NEW p \in Places \ Recording, Moves(t, p), TypeInv',
           UNCHANGED <<sequence, references, span>>,
           gaps' = {} => gaps = {} /\ ~open',
           gaps' \subseteq 0..MaxSpan,
           p = "written" => x = span[t] /\ ~open' /\ gaps' = gaps
    PROVE  KeptInv'
<1>1. TypeInv /\ NumbersSuffice /\ sequence \in Nat /\ Len(file) \in Nat /\ Closed \in Nat
  BY FileLength DEF KeptInv, TypeInv
<1>2. /\ Log(file') /\ Len(file') = Closed + 1 /\ Closed <= Len(file)
      /\ file'[Len(file')] = IF open THEN [x EXCEPT !.stored = Torn] ELSE x
      /\ \A i \in 1..Closed : file'[i] = file[i]
  BY <1>1, WrittenLine DEF TypeInv
<1>3. Closed' \in {Closed, Closed + 1} /\ (~open' => Closed' = Closed + 1)
  BY <1>1, <1>2 DEF Closed, TypeInv
<1>4. \A i \in 1..Closed : i \in 1..Closed'
  BY <1>1, <1>3
<1>5. ASSUME NEW h, HeldIn(Closed, h)
      PROVE  HeldIn(Closed, h)'
  <2>1. PICK i \in 1..Closed : Holds(file[i], h) /\ (gaps = {} => file[i].stored = h)
    BY <1>5 DEF HeldIn
  <2>2. i \in 1..Closed' /\ file'[i] = file[i]
    BY <1>2, <1>4
  <2>4. \E j \in 1..Closed' : Holds(file'[j], h) /\ (gaps' = {} => file'[j].stored = h)
    BY <2>1, <2>2
  <2>5. QED
    BY <2>4 DEF HeldIn, Holds, Closed
<1>6. NumbersSuffice'
  <2>1. /\ IsFiniteSet(Numbered') /\ Cardinality(Numbered) \in Nat
        /\ Cardinality(Numbered') = Cardinality(Numbered) - 1
    BY <1>1, MoveNumbered DEF Recording
  <2>2. QED
    BY <1>1, <1>2, <2>1 DEF NumbersSuffice
<1>7. \A q \in Thread : pc'[q] = IF q = t THEN p ELSE pc[q]
  BY <1>1 DEF Moves, TypeInv
<1>8. ASSUME NEW q \in Thread, pc'[q] = "written"
      PROVE  HeldIn(Closed, span[q].stored)'
  <2>1. CASE q # t
    <3>1. PICK h : h = span[q].stored
      OBVIOUS
    <3>2. HeldIn(Closed, h)
      BY <1>7, <1>8, <2>1, <3>1 DEF KeptInv
    <3>3. HeldIn(Closed, h)'
      BY <1>5, <3>2
    <3>4. span'[q].stored = h
      BY <3>1
    <3>5. QED
      BY <3>3, <3>4 DEF HeldIn, Holds, Closed
  <2>2. CASE q = t
    <3>1. x = span[t] /\ ~open' /\ gaps' = gaps
      BY <1>7, <1>8, <2>2
    <3>2. PICK n, h : x = Span(n, h, t)
      BY <3>1 DEF KeptInv
    <3>3. /\ Hash(x) = x.stored /\ Hash([x EXCEPT !.stored = Torn]) = x.stored
          /\ [x EXCEPT !.stored = Torn].stored = Torn
      BY <3>2 DEF Span, Hash
    <3>4. Holds(file'[Closed'], x.stored) /\ (gaps' = {} => file'[Closed'].stored = x.stored)
      BY <1>2, <1>3, <3>1, <3>3 DEF Holds, KeptInv
    <3>5. Closed' \in 1..Closed'
      BY <1>1, <1>3, <3>1
    <3>6. QED
      BY <2>2, <3>1, <3>4, <3>5 DEF HeldIn, Holds
  <2>3. QED
    BY <2>1, <2>2
<1>9. \A reference \in references' : HeldIn(Closed, reference.hash)'
  <2> SUFFICES ASSUME NEW reference \in references
               PROVE  HeldIn(Closed, reference.hash)'
    OBVIOUS
  <2>1. PICK h : h = reference.hash
    OBVIOUS
  <2>2. HeldIn(Closed, h)'
    BY <1>5, <2>1 DEF KeptInv
  <2>3. QED
    BY <2>1, <2>2 DEF HeldIn, Holds, Closed
<1>10. \A q \in Thread : pc'[q] \in {"built", "written"} => \E n, h : span'[q] = Span(n, h, q)
  BY <1>7 DEF KeptInv, Recording
<1>11. QED
  BY <1>6, <1>8, <1>9, <1>10 DEF KeptInv


\* A failed write is a loss at the end of the file it leaves.
LEMMA LostAt ==
    ASSUME KeptInv, NEW n \in Nat, n <= sequence
    PROVE  gaps \cup {n} \subseteq 0..MaxSpan
<1>1. sequence \in Nat /\ sequence <= MaxSpan
  BY DEF KeptInv, TypeInv
<1>2. n \in 0..MaxSpan
  BY <1>1, SpanAssumption
<1>3. QED
  BY <1>2 DEF KeptInv

LEMMA KeptAppendStep ==
    ASSUME KeptInv, NEW t \in Thread, AppendSpan(t)
    PROVE  KeptInv'
<1>1. pc[t] = "built" /\ UNCHANGED <<sequence, previous, references, asked, span>>
  BY DEF AppendSpan, At
<1>2. /\ TypeInv /\ NumbersSuffice /\ Log(file) /\ sequence \in Nat /\ sequence' \in Nat
      /\ Len(file) \in Nat /\ Closed \in Nat /\ Closed <= Len(file)
      /\ open \in BOOLEAN /\ (open => file # << >>) /\ asked' \in BOOLEAN
      /\ span' = [q \in Thread |-> span'[q]]
  BY <1>1, FileLength DEF KeptInv, TypeInv
<1>3. Len(file) + 1 <= sequence
  <2>1. t \in Numbered
    BY <1>1 DEF Numbered, Recording
  <2>2. Cardinality(Numbered) \in Nat /\ Cardinality(Numbered) # 0
    BY <1>2, <2>1, FS_CardinalityType, FS_EmptySet DEF NumbersSuffice
  <2>3. QED
    BY <1>2, <2>2 DEF NumbersSuffice
<1>4. ASSUME NEW x, file' = Written(x)
      PROVE  Log(file') /\ file' # << >> /\ Len(file') \in Nat /\ Len(file') <= sequence
  <2>1. Log(file') /\ file' # << >> /\ Len(file') = Closed + 1
    BY <1>2, <1>4, WrittenLine
  <2>2. QED
    BY <1>2, <1>3, <2>1
<1>5. CASE /\ file' = Written(span[t]) /\ open' = FALSE
           /\ pc' = [pc EXCEPT ![t] = "written"] /\ UNCHANGED <<holder, gaps>>
  <2>1. Moves(t, "written") /\ "written" \in Places \ Recording
    BY <1>5 DEF Moves, Places, Recording
  <2>2. TypeInv'
    BY <1>1, <1>2, <1>4, <1>5, <2>1, MoveType
  <2>3. QED
    BY <1>1, <1>5, <2>1, <2>2, KeptWrite DEF KeptInv
<1>6. ASSUME Abort(t), gaps' = gaps \cup {Len(file')}
      PROVE  /\ Moves(t, "idle") /\ "idle" \in Places \ Recording
             /\ holder' = IF t \in Writer THEN Nobody ELSE holder
             /\ gaps' # {}
  BY <1>6 DEF Abort, Moves, Places, Recording
<1>7. CASE /\ Abort(t) /\ gaps' = gaps \cup {Len(file')} /\ UNCHANGED <<file, open>>
  <2>1. /\ Moves(t, "idle") /\ "idle" \in Places \ Recording
        /\ holder' = IF t \in Writer THEN Nobody ELSE holder
        /\ gaps' # {}
    BY <1>6, <1>7
  <2>2. TypeInv'
    BY <1>1, <1>2, <1>7, <2>1, MoveType
  <2>3. gaps' \subseteq 0..MaxSpan
    BY <1>2, <1>3, <1>7, LostAt
  <2>4. NumbersSuffice'
    <3>1. /\ IsFiniteSet(Numbered') /\ Cardinality(Numbered) \in Nat
          /\ Cardinality(Numbered') = Cardinality(Numbered) - 1
      BY <1>1, <1>2, <2>1, MoveNumbered DEF Recording
    <3>2. QED
      BY <1>1, <1>2, <1>7, <3>1 DEF NumbersSuffice
  <2>5. \A q \in Thread : pc'[q] \in {"built", "written"} => pc'[q] = pc[q]
    BY <1>2, <2>1 DEF Moves, TypeInv
  <2>6. ASSUME NEW h, HeldIn(Closed, h)
        PROVE  HeldIn(Closed, h)'
    BY <1>7, <2>1, <2>6 DEF HeldIn, Holds, Closed
  <2>7. ASSUME NEW q \in Thread, pc'[q] = "written"
        PROVE  HeldIn(Closed, span[q].stored)'
    <3>1. PICK h : h = span[q].stored
      OBVIOUS
    <3>2. HeldIn(Closed, h)'
      BY <2>5, <2>6, <2>7, <3>1 DEF KeptInv
    <3>3. span'[q].stored = h
      BY <1>1, <3>1
    <3>4. QED
      BY <3>2, <3>3 DEF HeldIn, Holds, Closed
  <2>8. ASSUME NEW reference \in references
        PROVE  HeldIn(Closed, reference.hash)'
    <3>1. PICK h : h = reference.hash
      OBVIOUS
    <3>2. HeldIn(Closed, h)'
      BY <2>6, <3>1 DEF KeptInv
    <3>3. QED
      BY <3>1, <3>2 DEF HeldIn, Holds, Closed
  <2>9. QED
    BY <1>1, <2>1, <2>2, <2>3, <2>4, <2>5, <2>7, <2>8 DEF KeptInv
<1>8. ASSUME Abort(t), gaps' = gaps \cup {Len(file')}, open' \in BOOLEAN,
             NEW x, file' = Written(x)
      PROVE  KeptInv'
  <2>1. /\ Moves(t, "idle") /\ "idle" \in Places \ Recording
        /\ holder' = IF t \in Writer THEN Nobody ELSE holder
        /\ gaps' # {}
    BY <1>6, <1>8
  <2>2. TypeInv'
    BY <1>1, <1>2, <1>4, <1>8, <2>1, MoveType
  <2>3. gaps' \subseteq 0..MaxSpan
    BY <1>4, <1>8, LostAt
  <2>4. QED
    BY <1>1, <1>8, <2>1, <2>2, <2>3, KeptWrite
<1>9. CASE /\ Abort(t) /\ gaps' = gaps \cup {Len(file')}
           /\ \/ file' = Written([span[t] EXCEPT !.stored = Torn]) /\ open' = TRUE
              \/ file' = Written(span[t]) /\ open' \in BOOLEAN
  BY <1>8, <1>9
<1>10. QED
  BY <1>5, <1>7, <1>9 DEF AppendSpan

LEMMA KeptLinkStep ==
    ASSUME KeptInv, NEW t \in Thread, Link(t)
    PROVE  KeptInv'
<1> DEFINE p == IF t \in Writer THEN "ready" ELSE "idle"
<1>1. /\ pc[t] = "written" /\ Moves(t, p) /\ p \in Places /\ p \in {"ready", "idle"}
      /\ references' = references \cup {[sequence |-> sequence, hash |-> span[t].stored]}
      /\ UNCHANGED <<sequence, file, open, holder, gaps, asked, span>>
  BY DEF Link, At, Moves, Places
<1>2. TypeInv /\ NumbersSuffice
  BY DEF KeptInv
<1>3. TypeInv'
  BY <1>1, <1>2, MoveType DEF TypeInv
<1>4. NumbersSuffice'
  BY <1>1, <1>2, MoveNumbered DEF NumbersSuffice, Recording
<1>5. \A q \in Thread : pc'[q] \in {"built", "written"} => pc'[q] = pc[q]
  BY <1>1, <1>2 DEF Moves, TypeInv
<1>6. ASSUME NEW reference \in references'
      PROVE  HeldIn(Closed, reference.hash)'
  <2>1. PICK h : h = reference.hash
    OBVIOUS
  <2>2. HeldIn(Closed, h)
    <3>1. CASE reference \in references
      BY <2>1, <3>1 DEF KeptInv
    <3>2. CASE reference = [sequence |-> sequence, hash |-> span[t].stored]
      BY <1>1, <2>1, <3>2 DEF KeptInv
    <3>3. QED
      BY <1>1, <1>6, <3>1, <3>2
  <2>3. QED
    BY <1>1, <2>1, <2>2 DEF HeldIn, Holds, Closed
<1>7. ASSUME NEW q \in Thread, pc'[q] = "written"
      PROVE  HeldIn(Closed, span[q].stored)'
  BY <1>1, <1>5, <1>7 DEF KeptInv, HeldIn, Holds, Closed
<1>8. QED
  BY <1>1, <1>3, <1>4, <1>5, <1>6, <1>7 DEF KeptInv

\* Every step preserves it, whoever records beside whom.
LEMMA StepKeptInv ==
    ASSUME KeptInv, [Next]_vars
    PROVE  KeptInv'
<1>1. CASE UNCHANGED vars
  BY <1>1 DEF vars, KeptInv, TypeInv, NumbersSuffice, Numbered, HeldIn, Holds, Closed
<1>2. CASE Next
  BY <1>2, KeptEnterStep, KeptLeaveStep, KeptAskStep, KeptNumberStep, KeptBuildStep,
     KeptAppendStep, KeptLinkStep DEF Next
<1>3. QED
  BY <1>1, <1>2

\* The initial state satisfies it.
LEMMA InitKeptInv ==
    ASSUME Init
    PROVE  KeptInv
<1>1. Len(file) = 0 /\ Log(file)
  BY EmptySeq DEF Init, Log
<1>2. \A w \in Writer : w # Nobody
  BY NobodyAssumption DEF Nobody
<1>3. TypeInv
  BY <1>1, <1>2 DEF Init, TypeInv, Thread, Places
<1>4. Numbered = {}
  BY DEF Init, Numbered, Recording
<1>5. NumbersSuffice
  BY <1>1, <1>4, FS_EmptySet DEF NumbersSuffice, Init
<1>6. QED
  BY <1>3, <1>5, SpanAssumption DEF Init, KeptInv

-----------------------------------------------------------------------------
(* What holds while nobody records without the lock.                        *)

\* Line i is the span that verify expects there.
Sound(lines, i) ==
    /\ lines[i].sequence = i
    /\ lines[i].previous = IF i = 1 THEN Genesis ELSE lines[i - 1].stored
    /\ Hash(lines[i]) = lines[i].stored

Chained(lines) == \A i \in 1..Len(lines) : Sound(lines, i)

LastHash(lines) == IF lines = << >> THEN Genesis ELSE lines[Len(lines)].stored

\* What the writer inside the lock has under way.
WriterInv ==
    \A t \in Thread :
        /\ pc[t] \in Recording => Len(file) < sequence
        /\ pc[t] = "built" => span[t] = Span(sequence, span[t].previous, t)
        /\ pc[t] = "written" => /\ file # << >> /\ ~open
                                /\ file[Len(file)].sequence = sequence
                                /\ file[Len(file)].stored \in {span[t].stored, Torn}

\* While nothing was lost, the recorder is where the file ends, or a step ahead.
WholeInv ==
    gaps = {} =>
        /\ Chained(file)
        /\ (\A t \in Thread : pc[t] \notin Recording) => sequence = Len(file)
        /\ \A t \in Thread :
             /\ pc[t] \in Recording => sequence = Len(file) + 1
             /\ pc[t] = "built" => span[t].previous = LastHash(file)
             /\ pc[t] = "written" => span[t].stored = LastHash(file)
        /\ (\A t \in Thread : pc[t] # "written") => previous = LastHash(file)

\* The next span does not fit the file: its number is too high, or it does not
\* follow the last line.
NextIsUnfit ==
    \/ /\ Len(file) < sequence
       /\ \A t \in Thread : pc[t] \in Recording => Len(file) + 1 < sequence
    \/ /\ previous # LastHash(file)
       /\ \A t \in Thread : pc[t] = "built" => span[t].previous # LastHash(file)

\* After a loss the trace is broken, or it ended with the loss and what comes
\* next breaks it.
LossInv ==
    gaps # {} /\ Chained(file) =>
        /\ gaps = {Len(file)}
        /\ \A t \in Thread : pc[t] # "written"
        /\ NextIsUnfit

\* References name lines that nothing will be added to.
ResolvedInv ==
    \A reference \in references :
        \E i \in 1..Closed :
            /\ file[i].sequence = reference.sequence
            /\ file[i].stored \in {reference.hash, Torn}

SoloInv == \A r \in Reader : pc[r] = "idle"

LockedInv == SoloInv /\ WriterInv /\ WholeInv /\ LossInv /\ ResolvedInv

TraceInv == KeptInv /\ (~asked => LockedInv)

\* A file with one more line is chained if it was, and the line fits.
LEMMA ChainedAppend ==
    ASSUME NEW f, Log(f), NEW x
    PROVE  Chained(Append(f, x)) <=> /\ Chained(f)
                                     /\ x.sequence = Len(f) + 1
                                     /\ x.previous = LastHash(f)
                                     /\ Hash(x) = x.stored
<1> DEFINE g == Append(f, x)
<1>1. /\ Len(f) \in Nat /\ Len(g) = Len(f) + 1 /\ g[Len(f) + 1] = x
      /\ \A i \in 1..Len(f) : g[i] = f[i]
  BY AppendLine
<1>2. f = << >> <=> Len(f) = 0
  BY DEF Log
<1> HIDE DEF g
<1>3. \A i \in 1..Len(f) : Sound(g, i) <=> Sound(f, i)
  BY <1>1 DEF Sound
<1>4. Sound(g, Len(f) + 1) <=> /\ x.sequence = Len(f) + 1
                               /\ x.previous = LastHash(f)
                               /\ Hash(x) = x.stored
  <2>1. CASE Len(f) = 0
    BY <1>1, <1>2, <2>1 DEF Sound, LastHash
  <2>2. CASE Len(f) # 0
    <3>1. Len(f) \in 1..Len(f) /\ Len(f) + 1 # 1 /\ (Len(f) + 1) - 1 = Len(f)
      BY <1>1, <2>2
    <3>2. QED
      BY <1>1, <1>2, <2>2, <3>1 DEF Sound, LastHash
  <2>3. QED
    BY <2>1, <2>2
<1>5. 1..Len(g) = 1..Len(f) \cup {Len(f) + 1}
  BY <1>1
<1>6. QED
  BY <1>3, <1>4, <1>5 DEF Chained, g

\* A torn line is never the line that verify expects.
LEMMA TornIsNotSound ==
    ASSUME NEW x, x.stored = Torn
    PROVE  Hash(x) # x.stored
  BY DEF Torn, Hash

\* The chain after a write: a line that was open, or that does not fit, breaks it.
LEMMA WrittenChain ==
    ASSUME TypeInv, NEW x, NEW g, g = Written(x), [x EXCEPT !.stored = Torn].stored = Torn
    PROVE  Chained(g) <=> /\ ~open /\ Chained(file)
                          /\ x.sequence = Len(file) + 1
                          /\ x.previous = LastHash(file)
                          /\ Hash(x) = x.stored
<1>1. Log(file)
  BY DEF TypeInv
<1>2. CASE ~open
  BY <1>1, <1>2, ChainedAppend DEF Written
<1>3. CASE open
  <2> DEFINE y == [x EXCEPT !.stored = Torn]
  <2>1. Len(g) = Closed + 1 /\ Closed \in Nat /\ g[Len(g)] = y
    BY <1>1, <1>3, WrittenLine DEF TypeInv
  <2>2. Hash(y) # y.stored
    BY TornIsNotSound
  <2> HIDE DEF y
  <2>3. Len(g) \in 1..Len(g)
    BY <2>1
  <2>4. QED
    BY <1>3, <2>1, <2>2, <2>3 DEF Chained, Sound
<1>4. QED
  BY <1>2, <1>3

\* While nobody records without the lock, whoever is inside an operation is alone.
LEMMA Alone ==
    ASSUME TypeInv, SoloInv, NEW t \in Thread, pc[t] # "idle"
    PROVE  t \in Writer /\ holder = t /\ \A q \in Thread \ {t} : pc[q] = "idle"
  BY DEF TypeInv, SoloInv, Thread

-----------------------------------------------------------------------------
(* One lemma per action.                                                    *)

\* A step that only moves threads between "idle" and "ready" preserves LockedInv.
LEMMA QuietStep ==
    ASSUME LockedInv, SoloInv',
           UNCHANGED <<sequence, previous, file, open, references, gaps, span>>,
           \A q \in Thread : pc'[q] # pc[q] => {pc[q], pc'[q]} \subseteq {"idle", "ready"}
    PROVE  LockedInv'
<1>1. \A q \in Thread : \A p \in {"numbered", "built", "written"} : pc'[q] = p <=> pc[q] = p
  OBVIOUS
<1>2. WriterInv'
  BY <1>1 DEF LockedInv, WriterInv, Recording
<1>3. WholeInv'
  BY <1>1 DEF LockedInv, WholeInv, Recording
<1>4. LossInv'
  BY <1>1 DEF LockedInv, LossInv, NextIsUnfit, Recording
<1>5. ResolvedInv'
  BY DEF LockedInv, ResolvedInv, Closed
<1>6. QED
  BY <1>2, <1>3, <1>4, <1>5 DEF LockedInv

LEMMA EnterStep ==
    ASSUME TypeInv, LockedInv, NEW w \in Writer, Enter(w)
    PROVE  LockedInv'
<1>1. /\ pc[w] = "idle" /\ pc' = [pc EXCEPT ![w] = "ready"] /\ w \in Thread /\ w \notin Reader
      /\ UNCHANGED <<sequence, previous, file, open, references, gaps, span>>
  BY ThreadAssumption DEF Enter, At, Thread
<1>2. \A q \in Thread : pc'[q] = IF q = w THEN "ready" ELSE pc[q]
  BY <1>1 DEF TypeInv
<1>3. SoloInv'
  BY <1>1, <1>2 DEF LockedInv, SoloInv, Thread
<1>4. QED
  BY <1>1, <1>2, <1>3, QuietStep

LEMMA LeaveStep ==
    ASSUME TypeInv, LockedInv, NEW w \in Writer, Leave(w)
    PROVE  LockedInv'
<1>1. /\ pc[w] = "ready" /\ pc' = [pc EXCEPT ![w] = "idle"]
      /\ UNCHANGED <<sequence, previous, file, open, references, gaps, span>>
  BY DEF Leave, At
<1>2. \A q \in Thread : pc'[q] = IF q = w THEN "idle" ELSE pc[q]
  BY <1>1 DEF TypeInv
<1>3. SoloInv'
  BY <1>2 DEF LockedInv, SoloInv, Thread
<1>4. QED
  BY <1>1, <1>2, <1>3, QuietStep

\* Where the threads are after a step of the one that is inside an operation.
LEMMA Inside ==
    ASSUME TypeInv, SoloInv, NEW t \in Thread, pc[t] # "idle",
           NEW p \in Places, Moves(t, p)
    PROVE  /\ t \in Writer /\ SoloInv'
           /\ \A q \in Thread \ {t} : pc[q] = "idle"
           /\ \A q \in Thread : pc'[q] = IF q = t THEN p ELSE "idle"
<1>1. t \in Writer /\ t \notin Reader /\ \A q \in Thread \ {t} : pc[q] = "idle"
  BY Alone, ThreadAssumption
<1>2. \A q \in Thread : pc'[q] = IF q = t THEN p ELSE "idle"
  BY <1>1 DEF Moves, TypeInv
<1>3. QED
  BY <1>1, <1>2 DEF SoloInv, Thread

\* The number is one more than the file's last, if nothing was lost.
LEMMA NumberStep ==
    ASSUME KeptInv, LockedInv, NEW t \in Thread, Number(t)
    PROVE  LockedInv'
<1>1. /\ pc[t] = "ready" /\ sequence' = sequence + 1
      /\ pc[t] # "idle" /\ "numbered" \in Places /\ Moves(t, "numbered")
      /\ UNCHANGED <<previous, file, open, holder, references, gaps, asked, span>>
  BY DEF Number, At, Moves, Places
<1>2. TypeInv /\ SoloInv /\ sequence \in Nat /\ Len(file) \in Nat
  BY FileLength DEF KeptInv, LockedInv, TypeInv
<1>3. /\ SoloInv' /\ \A q \in Thread \ {t} : pc[q] = "idle"
      /\ \A q \in Thread : pc'[q] = IF q = t THEN "numbered" ELSE "idle"
  BY <1>1, <1>2, Inside
<1>4. \A q \in Thread : pc[q] \notin Recording /\ pc[q] # "written"
  BY <1>1, <1>3 DEF Recording
<1>5. Len(file) <= sequence
  <2>1. Cardinality(Numbered) \in Nat
    BY FS_CardinalityType DEF KeptInv, NumbersSuffice
  <2>2. QED
    BY <1>2, <2>1 DEF KeptInv, NumbersSuffice
<1>6. WriterInv'
  BY <1>1, <1>2, <1>3, <1>5 DEF WriterInv, Recording
<1>7. WholeInv'
  BY <1>1, <1>2, <1>3, <1>4 DEF LockedInv, WholeInv, Recording
<1>8. LossInv'
  <2> SUFFICES ASSUME gaps # {}, Chained(file)
               PROVE  gaps = {Len(file)} /\ NextIsUnfit'
    BY <1>1, <1>3 DEF LossInv
  <2>1. gaps = {Len(file)} /\ (Len(file) < sequence \/ previous # LastHash(file))
    BY <1>4 DEF LockedInv, LossInv, NextIsUnfit
  <2>2. CASE Len(file) < sequence
    BY <1>1, <1>2, <1>3, <2>1, <2>2 DEF NextIsUnfit
  <2>3. CASE previous # LastHash(file)
    BY <1>1, <1>3, <2>1, <2>3 DEF NextIsUnfit
  <2>4. QED
    BY <2>1, <2>2, <2>3
<1>9. ResolvedInv'
  BY <1>1 DEF LockedInv, ResolvedInv, Closed
<1>10. QED
  BY <1>3, <1>6, <1>7, <1>8, <1>9 DEF LockedInv

\* The span that is built carries the recorder's number and hash.
LEMMA BuildStep ==
    ASSUME KeptInv, LockedInv, NEW t \in Thread, Build(t)
    PROVE  LockedInv'
<1>1. /\ pc[t] = "numbered" /\ span' = [span EXCEPT ![t] = Span(sequence, previous, t)]
      /\ pc[t] # "idle" /\ "built" \in Places /\ Moves(t, "built")
      /\ UNCHANGED <<sequence, previous, file, open, holder, references, gaps, asked>>
  BY DEF Build, At, Moves, Places
<1>2. TypeInv /\ SoloInv
  BY DEF KeptInv, LockedInv
<1>3. /\ SoloInv' /\ \A q \in Thread \ {t} : pc[q] = "idle"
      /\ \A q \in Thread : pc'[q] = IF q = t THEN "built" ELSE "idle"
  BY <1>1, <1>2, Inside
<1>4. span'[t] = Span(sequence, previous, t) /\ span'[t].previous = previous
  BY <1>1, <1>2 DEF TypeInv, Span
<1>5. pc[t] \in Recording /\ \A q \in Thread : pc[q] # "written"
  BY <1>1, <1>3 DEF Recording
<1>6. WriterInv'
  BY <1>1, <1>3, <1>4, <1>5 DEF LockedInv, WriterInv, Recording
<1>7. WholeInv'
  BY <1>1, <1>3, <1>4, <1>5 DEF LockedInv, WholeInv, Recording
<1>8. LossInv'
  <2> SUFFICES ASSUME gaps # {}, Chained(file)
               PROVE  gaps = {Len(file)} /\ NextIsUnfit'
    BY <1>1, <1>3 DEF LossInv
  <2>1. gaps = {Len(file)} /\ NextIsUnfit
    BY DEF LockedInv, LossInv
  <2>2. QED
    BY <1>1, <1>3, <1>4, <1>5, <2>1 DEF NextIsUnfit
<1>9. ResolvedInv'
  BY <1>1 DEF LockedInv, ResolvedInv, Closed
<1>10. QED
  BY <1>3, <1>6, <1>7, <1>8, <1>9 DEF LockedInv

\* A write leaves the closed lines as they are, and what they resolve.
LEMMA ResolvedWrite ==
    ASSUME TypeInv, ResolvedInv, NEW x, file' = Written(x), open' \in BOOLEAN,
           UNCHANGED references
    PROVE  ResolvedInv'
<1>1. /\ Closed \in Nat /\ Len(file') = Closed + 1
      /\ \A i \in 1..Closed : file'[i] = file[i]
  <2>1. Log(file) /\ open \in BOOLEAN /\ (open => file # << >>)
    BY DEF TypeInv
  <2>2. QED
    BY <2>1, WrittenLine
<1>2. Closed' \in {Closed, Closed + 1}
  BY <1>1 DEF Closed
<1>3. \A i \in 1..Closed : i \in 1..Closed'
  BY <1>1, <1>2
<1>4. ASSUME NEW reference \in references
      PROVE  \E i \in 1..Closed' : /\ file'[i].sequence = reference.sequence
                                   /\ file'[i].stored \in {reference.hash, Torn}
  BY <1>1, <1>3 DEF ResolvedInv
<1>5. QED
  BY <1>4 DEF ResolvedInv, Closed

\* A span that is written fits the file if nothing was lost, and does not fit
\* it otherwise; a failed write is a loss at the end of the file it leaves.
LEMMA AppendSpanStep ==
    ASSUME KeptInv, LockedInv, NEW t \in Thread, AppendSpan(t)
    PROVE  LockedInv'
<1> DEFINE s == span[t]
           torn == [s EXCEPT !.stored = Torn]
<1>1. /\ pc[t] = "built" /\ pc[t] # "idle" /\ pc[t] \in Recording
      /\ UNCHANGED <<sequence, previous, references, asked, span>>
  BY DEF AppendSpan, At, Recording
<1>2. /\ TypeInv /\ SoloInv /\ Log(file) /\ sequence \in Nat /\ Len(file) \in Nat
      /\ Closed \in Nat /\ Closed <= Len(file) /\ Len(file) < sequence
      /\ open \in BOOLEAN /\ (open => file # << >>) /\ (gaps = {} => ~open)
  BY <1>1, FileLength DEF KeptInv, LockedInv, WriterInv, TypeInv
<1>3. \A q \in Thread \ {t} : pc[q] = "idle"
  BY <1>1, <1>2, Alone
<1>4. /\ s.sequence = sequence /\ Hash(s) = s.stored /\ s.stored = <<sequence, s.previous, t>>
      /\ torn.sequence = sequence /\ torn.stored = Torn /\ Hash(torn) # torn.stored
      /\ [torn EXCEPT !.stored = Torn] = torn
  <2>1. PICK h : s = Span(sequence, h, t)
    BY <1>1 DEF LockedInv, WriterInv
  <2> HIDE DEF s
  <2>2. /\ s.sequence = sequence /\ s.previous = h /\ s.stored = <<sequence, h, t>>
        /\ Hash(s) = s.stored
    BY <2>1 DEF Span, Hash
  <2>3. /\ torn.sequence = sequence /\ torn.stored = Torn /\ Hash(torn) # torn.stored
        /\ [torn EXCEPT !.stored = Torn] = torn
    BY <2>1, TornIsNotSound DEF torn, Span
  <2>4. QED
    BY <2>2, <2>3
<1> HIDE DEF s, torn
<1>5. ASSUME gaps = {}
      PROVE  /\ Chained(file) /\ sequence = Len(file) + 1
             /\ s.previous = LastHash(file) /\ previous = LastHash(file)
  <2>1. \A q \in Thread : pc[q] # "written"
    BY <1>1, <1>3
  <2>2. QED
    BY <1>1, <1>5, <2>1 DEF LockedInv, WholeInv, s
<1>6. ASSUME NEW g, g = Written(s), Chained(g)
      PROVE  gaps = {} /\ Len(g) = Len(file) + 1 /\ LastHash(g) = s.stored
  <2>1. [s EXCEPT !.stored = Torn].stored = Torn
    BY <1>4 DEF torn
  <2>2. /\ ~open /\ Chained(file) /\ sequence = Len(file) + 1 /\ s.previous = LastHash(file)
    BY <1>2, <1>4, <1>6, <2>1, WrittenChain
  <2>3. gaps = {}
    <3>1. ASSUME gaps # {} PROVE FALSE
      <4>1. NextIsUnfit
        BY <2>2, <3>1 DEF LockedInv, LossInv
      <4>2. QED
        BY <1>1, <1>2, <2>2, <4>1 DEF NextIsUnfit, s
    <3>2. QED
      BY <3>1
  <2>4. Len(g) = Closed + 1 /\ g # << >> /\ g[Len(g)] = s
    BY <1>2, <1>6, <2>2, WrittenLine
  <2>5. QED
    BY <2>2, <2>3, <2>4 DEF LastHash, Closed
<1>7. CASE /\ file' = Written(s) /\ open' = FALSE
           /\ pc' = [pc EXCEPT ![t] = "written"] /\ UNCHANGED <<holder, gaps>>
  <2>1. /\ SoloInv' /\ \A q \in Thread : pc'[q] = IF q = t THEN "written" ELSE "idle"
    BY <1>1, <1>2, <1>7, Inside DEF Moves, Places
  <2>2. /\ file' # << >> /\ Len(file') = Closed + 1
        /\ file'[Len(file')] = IF open THEN torn ELSE s
    BY <1>2, <1>7, WrittenLine DEF torn
  <2>3. WriterInv'
    BY <1>1, <1>4, <1>7, <2>1, <2>2 DEF WriterInv, Recording, s
  <2>4. WholeInv'
    <3> SUFFICES ASSUME gaps = {}
                 PROVE  /\ Chained(file') /\ sequence = Len(file')
                        /\ s.stored = LastHash(file')
      BY <1>1, <1>7, <2>1 DEF WholeInv, Recording, s
    <3>1. [s EXCEPT !.stored = Torn].stored = Torn
      BY <1>4 DEF torn
    <3>2. Chained(file')
      BY <1>2, <1>4, <1>5, <1>7, <3>1, WrittenChain
    <3>3. QED
      BY <1>5, <1>6, <1>7, <3>2
  <2>5. LossInv'
    BY <1>6, <1>7 DEF LossInv
  <2>6. ResolvedInv'
    BY <1>1, <1>2, <1>7, ResolvedWrite DEF LockedInv
  <2>7. QED
    BY <2>1, <2>3, <2>4, <2>5, <2>6 DEF LockedInv
\* What a failed write leaves: nobody is inside, and the loss is at the end.
<1>8. ASSUME Abort(t), gaps' = gaps \cup {Len(file')}, ResolvedInv',
             Chained(file') => /\ gaps' = {Len(file')}
                               /\ Len(file') < sequence \/ previous # LastHash(file')
      PROVE  LockedInv'
  <2>1. /\ SoloInv' /\ \A q \in Thread : pc'[q] = "idle"
    <3>1. Moves(t, "idle") /\ "idle" \in Places
      BY <1>8 DEF Abort, Moves, Places
    <3>2. QED
      BY <1>1, <1>2, <3>1, Inside
  <2>2. gaps' # {}
    BY <1>8
  <2>3. WriterInv' /\ WholeInv'
    BY <2>1, <2>2 DEF WriterInv, WholeInv, Recording
  <2>4. LossInv'
    BY <1>1, <1>8, <2>1 DEF LossInv, NextIsUnfit, Recording
  <2>5. QED
    BY <1>8, <2>1, <2>3, <2>4 DEF LockedInv
<1>9. CASE /\ Abort(t) /\ gaps' = gaps \cup {Len(file')} /\ UNCHANGED <<file, open>>
  <2>1. ResolvedInv'
    BY <1>1, <1>9 DEF LockedInv, ResolvedInv, Closed
  <2>2. Chained(file) => gaps = {} \/ gaps = {Len(file)}
    BY DEF LockedInv, LossInv
  <2>3. QED
    BY <1>2, <1>8, <1>9, <2>1, <2>2
<1>10. CASE /\ Abort(t) /\ gaps' = gaps \cup {Len(file')}
            /\ file' = Written(torn) /\ open' = TRUE
  <2>1. ~Chained(file')
    BY <1>2, <1>4, <1>10, WrittenChain
  <2>2. ResolvedInv'
    BY <1>1, <1>2, <1>10, ResolvedWrite DEF LockedInv
  <2>3. QED
    BY <1>8, <1>10, <2>1, <2>2
<1>11. CASE /\ Abort(t) /\ gaps' = gaps \cup {Len(file')}
            /\ file' = Written(s) /\ open' \in BOOLEAN
  <2>1. ASSUME Chained(file')
        PROVE  gaps' = {Len(file')} /\ previous # LastHash(file')
    <3>1. gaps = {} /\ LastHash(file') = <<sequence, s.previous, t>>
      BY <1>4, <1>6, <1>11, <2>1
    <3>2. Chained(file) /\ sequence = Len(file) + 1 /\ previous = LastHash(file)
      BY <1>5, <3>1
    <3>3. previous # <<sequence, s.previous, t>>
      <4>1. CASE file = << >>
        BY <3>2, <4>1 DEF LastHash, Genesis
      <4>2. CASE file # << >>
        <5>1. Len(file) \in 1..Len(file)
          BY <1>2, <4>2, EmptySeq DEF Log
        <5>2. previous = Hash(file[Len(file)]) /\ file[Len(file)].sequence = Len(file)
          BY <3>2, <4>2, <5>1 DEF LastHash, Chained, Sound
        <5>3. QED
          BY <1>2, <3>2, <5>2 DEF Hash
      <4>3. QED
        BY <4>1, <4>2
    <3>4. QED
      BY <1>11, <3>1, <3>3
  <2>2. ResolvedInv'
    BY <1>1, <1>2, <1>11, ResolvedWrite DEF LockedInv
  <2>3. QED
    BY <1>8, <1>11, <2>1, <2>2
<1>12. QED
  BY <1>7, <1>9, <1>10, <1>11 DEF AppendSpan, s, torn

\* The reference names the line just written, and the recorder catches up.
LEMMA LinkStep ==
    ASSUME KeptInv, LockedInv, NEW t \in Thread, Link(t)
    PROVE  LockedInv'
<1>1. /\ pc[t] = "written" /\ pc[t] # "idle" /\ previous' = span[t].stored
      /\ references' = references \cup {[sequence |-> sequence, hash |-> span[t].stored]}
      /\ pc' = [pc EXCEPT ![t] = IF t \in Writer THEN "ready" ELSE "idle"]
      /\ UNCHANGED <<sequence, file, open, holder, gaps, asked, span>>
  BY DEF Link, At
<1>2. TypeInv /\ SoloInv /\ Len(file) \in Nat /\ Closed \in Nat /\ Log(file)
  BY FileLength DEF KeptInv, LockedInv, TypeInv
<1>3. t \in Writer /\ \A q \in Thread \ {t} : pc[q] = "idle"
  BY <1>1, <1>2, Alone
<1>4. SoloInv' /\ \A q \in Thread : pc'[q] = IF q = t THEN "ready" ELSE "idle"
  BY <1>1, <1>2, <1>3, Inside DEF Moves, Places
<1>5. /\ file # << >> /\ ~open /\ file[Len(file)].sequence = sequence
      /\ file[Len(file)].stored \in {span[t].stored, Torn}
  BY <1>1 DEF LockedInv, WriterInv
<1>6. WriterInv'
  BY <1>4 DEF WriterInv, Recording
<1>7. WholeInv'
  <2> SUFFICES ASSUME gaps = {}
               PROVE  Chained(file) /\ sequence = Len(file) /\ previous' = LastHash(file)
    BY <1>1, <1>4 DEF WholeInv, Recording
  <2>1. \A q \in Thread : pc[q] \notin Recording
    BY <1>1, <1>3 DEF Recording
  <2>2. QED
    BY <1>1, <2>1 DEF LockedInv, WholeInv
<1>8. LossInv'
  BY <1>1 DEF LockedInv, LossInv
<1>9. ResolvedInv'
  <2>1. Len(file) \in 1..Closed /\ Closed = Len(file)
    BY <1>2, <1>5, EmptySeq DEF Closed, Log
  <2>2. QED
    BY <1>1, <1>5, <2>1 DEF LockedInv, ResolvedInv, Closed
<1>10. QED
  BY <1>4, <1>6, <1>7, <1>8, <1>9 DEF LockedInv

\* A status request ends what is known of records under the lock.
LEMMA AskedFrom ==
    ASSUME Next
    PROVE  \/ asked'
           \/ asked' = asked /\ (\A r \in Reader : ~Ask(r))
<1>1. \A r \in Reader : Ask(r) => asked'
  BY DEF Ask
<1>2. CASE \E w \in Writer : Enter(w) \/ Leave(w)
  BY <1>1, <1>2 DEF Enter, Leave
<1>3. CASE \E r \in Reader : Ask(r)
  BY <1>1, <1>3
<1>4. CASE \E t \in Thread : Number(t) \/ Build(t) \/ AppendSpan(t) \/ Link(t)
  <2>1. PICK t \in Thread : Number(t) \/ Build(t) \/ AppendSpan(t) \/ Link(t)
    BY <1>4
  <2>2. asked' = asked
    BY <2>1 DEF Number, Build, AppendSpan, Link
  <2>3. QED
    BY <1>1, <2>2
<1>5. QED
  BY <1>2, <1>3, <1>4 DEF Next

\* Every step preserves the invariant.
LEMMA StepTraceInv ==
    ASSUME TraceInv, [Next]_vars
    PROVE  TraceInv'
<1>1. KeptInv /\ KeptInv' /\ TypeInv
  BY StepKeptInv DEF TraceInv, KeptInv
<1>2. CASE UNCHANGED vars
  BY <1>1, <1>2 DEF vars, TraceInv, LockedInv, SoloInv, WriterInv, WholeInv, LossInv,
     NextIsUnfit, ResolvedInv, Closed
<1>3. ASSUME Next, ~asked'
      PROVE  LockedInv'
  <2>1. ~asked /\ LockedInv /\ \A r \in Reader : ~Ask(r)
    BY <1>3, AskedFrom DEF TraceInv
  <2>2. QED
    BY <1>1, <1>3, <2>1, EnterStep, LeaveStep, NumberStep, BuildStep, AppendSpanStep,
       LinkStep DEF Next
<1>4. QED
  BY <1>1, <1>2, <1>3 DEF TraceInv

\* The initial state satisfies the invariant.
LEMMA InitTraceInv ==
    ASSUME Init
    PROVE  TraceInv
<1>1. KeptInv /\ Len(file) = 0
  BY InitKeptInv DEF Init
<1>2. \A t \in Thread : pc[t] = "idle"
  BY DEF Init
<1>3. Chained(file) /\ LastHash(file) = previous
  BY <1>1 DEF Init, Chained, LastHash
<1>4. SoloInv
  BY <1>2 DEF SoloInv, Thread
<1>5. QED
  BY <1>1, <1>2, <1>3, <1>4
     DEF Init, TraceInv, LockedInv, WriterInv, WholeInv, LossInv, ResolvedInv, Recording

-----------------------------------------------------------------------------
(* The theorems.                                                            *)

\* The invariant holds in every reachable state.
THEOREM TraceInvariant == Spec => []TraceInv
<1>1. Init => TraceInv
  BY InitTraceInv
<1>2. TraceInv /\ [Next]_vars => TraceInv'
  BY StepTraceInv
<1>3. QED
  BY <1>1, <1>2, PTL DEF Spec

\* Whoever records beside whom, the recorder and the threads keep their types, and the
\* file never has more lines than numbers were taken.
THEOREM TypeCorrect == Spec => []TypeOK
<1>1. TraceInv => TypeOK
  <2> SUFFICES ASSUME KeptInv PROVE TypeOK
    BY DEF TraceInv
  <2>1. Len(file) \in Nat /\ sequence \in Nat /\ Cardinality(Numbered) \in Nat
    BY FileLength, FS_CardinalityType DEF KeptInv, TypeInv, NumbersSuffice
  <2>2. Len(file) <= sequence /\ sequence \in 0..MaxSpan
    BY <2>1, SpanAssumption DEF KeptInv, NumbersSuffice
  <2>3. QED
    BY <2>2 DEF KeptInv, TypeInv, TypeOK, At
<1>2. QED
  BY <1>1, TraceInvariant, PTL

\* Whoever records beside whom, a span that somebody has the reference of is in the
\* file, readable unless a failed write left its line torn.
THEOREM ReferencedSpansAreKept == Spec => []SpansAreKept
<1>1. TraceInv => SpansAreKept
  <2> SUFFICES ASSUME KeptInv, NEW reference \in references
               PROVE  \E i \in 1..Len(file) :
                          /\ Holds(file[i], reference.hash)
                          /\ gaps = {} => file[i].stored = reference.hash
    BY DEF TraceInv, SpansAreKept
  <2>1. PICK i \in 1..Closed : /\ Holds(file[i], reference.hash)
                               /\ gaps = {} => file[i].stored = reference.hash
    BY DEF KeptInv, HeldIn
  <2>2. i \in 1..Len(file)
    BY FileLength DEF KeptInv
  <2>3. QED
    BY <2>1, <2>2
<1>2. QED
  BY <1>1, TraceInvariant, PTL

\* While every record is made under the service's lock, a trace without a failed
\* write verifies, between any two steps.
THEOREM LockedTraceVerifies == Spec => []TraceVerifies
<1>1. TraceInv => TraceVerifies
  BY DEF TraceInv, LockedInv, WholeInv, TraceVerifies, Verify, Chained, Sound
<1>2. QED
  BY <1>1, TraceInvariant, PTL

\* While every record is made under the service's lock, no verified trace has
\* missed a failed write before its end.
THEOREM LockedLossShows == Spec => []LossShows
<1>1. TraceInv => LossShows
  BY DEF TraceInv, LockedInv, LossInv, LossShows, Verify, Chained, Sound
<1>2. QED
  BY <1>1, TraceInvariant, PTL

\* While every record is made under the service's lock, every evidence reference
\* names the line of its number, which reads as its span or is torn.
THEOREM LockedReferencesResolve == Spec => []ReferencesResolve
<1>1. TraceInv => ReferencesResolve
  <2> SUFFICES ASSUME KeptInv, LockedInv, NEW reference \in references
               PROVE  \E i \in 1..Len(file) :
                          /\ file[i].sequence = reference.sequence
                          /\ file[i].stored \in {reference.hash, Torn}
    BY DEF TraceInv, ReferencesResolve
  <2>1. PICK i \in 1..Closed : /\ file[i].sequence = reference.sequence
                               /\ file[i].stored \in {reference.hash, Torn}
    BY DEF LockedInv, ResolvedInv
  <2>2. i \in 1..Len(file)
    BY FileLength DEF KeptInv
  <2>3. QED
    BY <2>1, <2>2
<1>2. QED
  BY <1>1, TraceInvariant, PTL
=============================================================================
