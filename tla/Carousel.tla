------------------------------- MODULE Carousel -------------------------------
(***************************************************************************)
(* The carousel of the web UI kit (carousel.tsx) round the embla engine,     *)
(* which owns the slides and the place.  The component keeps a copy of what   *)
(* the engine allows, taken in an effect and again on the events it           *)
(* subscribes to, and disables its buttons by that copy.                      *)
(***************************************************************************)
EXTENDS Naturals

CONSTANTS MaxSlides, MaxChanges     \* slides; changes of the slides or of the viewport

ASSUME CarouselAssumption == MaxSlides \in Nat \ {0} /\ MaxChanges \in Nat

VARIABLES
    api,            \* the engine is there
    loop, slides, place,    \* the engine's own state
    changes,
    on,             \* the events onSelect is subscribed to
    queuedFlags,    \* what onSelect has set
    flags           \* canScrollPrev and canScrollNext as rendered

carousel == <<api, loop, slides, place, changes, on, queuedFlags, flags>>

\* What the engine allows at a place of so many slides: it goes in a circle
\* when it loops.
AllowedAt(p, n) == [prev |-> loop \/ p > 1, next |-> loop \/ p < n]
Allowed == AllowedAt(place, slides)

Before == CASE ~Allowed.prev -> place [] Allowed.prev /\ place > 1 -> place - 1 [] OTHER -> slides
After == CASE ~Allowed.next -> place [] Allowed.next /\ place < slides -> place + 1 [] OTHER -> 1

CarouselInit ==
    /\ api = FALSE
    /\ loop \in BOOLEAN
    /\ slides \in 1..MaxSlides
    /\ place = 1
    /\ changes = 0
    /\ on = {}
    /\ queuedFlags = [prev |-> FALSE, next |-> FALSE]
    /\ flags = queuedFlags

\* What the engine's event leaves queued: its answer, when onSelect hears it.
onSelect(event, p, n) ==
    queuedFlags' = (IF event \in on THEN AllowedAt(p, n) ELSE queuedFlags)

\* The engine goes to a place, and tells when it is another.
scrollTo(p) ==
    /\ place' = p
    /\ IF p # place THEN onSelect("select", p, slides) ELSE UNCHANGED queuedFlags

scrollPrev == scrollTo(Before)
scrollNext == scrollTo(After)

\* The viewport is on the page: the engine starts at the first slide.
Connect ==
    /\ ~api
    /\ api' = TRUE
    /\ place' = 1
    /\ UNCHANGED <<loop, slides, changes, on, queuedFlags, flags>>

\* A slip: the effect subscribes to the selection alone.
Subscribe_SelectOnly ==
    /\ api
    /\ on = {}
    /\ on' = {"select"}
    /\ queuedFlags' = Allowed
    /\ UNCHANGED <<api, loop, slides, place, changes, flags>>

Subscribe ==
    /\ api
    /\ on = {}
    /\ on' = {"reInit", "select"}
    /\ queuedFlags' = Allowed
    /\ UNCHANGED <<api, loop, slides, place, changes, flags>>

\* The viewport goes: the cleanup takes back "select", the engine is destroyed
\* with whatever still listens to it, and the flags stay as they are.
Disconnect ==
    /\ api
    /\ changes < MaxChanges
    /\ changes' = changes + 1
    /\ api' = FALSE
    /\ on' = {}
    /\ UNCHANGED <<loop, slides, place, queuedFlags, flags>>

\* A button, if it is not disabled, or an arrow key, which looks at no flag;
\* the render follows at once.
CarouselPrevious ==
    /\ flags.prev
    /\ IF api THEN scrollPrev ELSE UNCHANGED <<place, queuedFlags>>
    /\ flags' = queuedFlags'
    /\ UNCHANGED <<api, loop, slides, changes, on>>

CarouselNext ==
    /\ flags.next
    /\ IF api THEN scrollNext ELSE UNCHANGED <<place, queuedFlags>>
    /\ flags' = queuedFlags'
    /\ UNCHANGED <<api, loop, slides, changes, on>>

handleKeyDown ==
    /\ api
    /\ scrollPrev \/ scrollNext
    /\ flags' = queuedFlags'
    /\ UNCHANGED <<api, loop, slides, changes, on>>

\* The application changes the slides, or a plugin's timer moves on: the
\* engine tells, and the render comes later.
SetSlides(n) ==
    /\ api
    /\ changes < MaxChanges
    /\ n # slides
    /\ changes' = changes + 1
    /\ slides' = n
    /\ place' = (IF place < n THEN place ELSE n)
    /\ onSelect("reInit", place', n)
    /\ UNCHANGED <<api, loop, on, flags>>

Autoplay ==
    /\ api
    /\ scrollNext
    /\ UNCHANGED <<api, loop, slides, changes, on, flags>>

RenderCarousel ==
    /\ flags # queuedFlags
    /\ flags' = queuedFlags
    /\ UNCHANGED <<api, loop, slides, place, changes, on, queuedFlags>>

CarouselSteps ==
    \/ Connect
    \/ Subscribe
    \/ Disconnect
    \/ CarouselPrevious
    \/ CarouselNext
    \/ handleKeyDown
    \/ \E n \in 1..MaxSlides : SetSlides(n)
    \/ Autoplay
    \/ RenderCarousel

\* Effects and renders come by themselves.
CarouselFairness == WF_carousel(Subscribe) /\ WF_carousel(RenderCarousel)

-----------------------------------------------------------------------------
\* While the engine is there, the buttons come to say what it allows, however
\* the slides change and whoever moves them.
ButtonsCatchUp == api ~> (flags = Allowed \/ ~api)
=============================================================================
