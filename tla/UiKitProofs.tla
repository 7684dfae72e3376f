----------------------------- MODULE UiKitProofs -----------------------------
(***************************************************************************)
(* Proofs about the UI kit, for any configuration of a chart, any messages, *)
(* any slides and any number of resizes.                                    *)
(***************************************************************************)
EXTENDS UiKit, FiniteSetTheorems, SequenceTheorems, WellFoundedInduction, TLAPS

SidebarTypeOK ==
    /\ use \in Uses
    /\ narrow \in BOOLEAN /\ matches \in BOOLEAN /\ effects \in BOOLEAN
    /\ isMobile \in BOOLEAN /\ queuedMobile \in BOOLEAN
    /\ open \in BOOLEAN /\ openMobile \in BOOLEAN
    /\ resizes \in 0 .. MaxResizes
    /\ cookie \in SUBSET BOOLEAN
    /\ listener \in SUBSET [isMobile : BOOLEAN, open : BOOLEAN]

Flags == [prev : BOOLEAN, next : BOOLEAN]

\* The engine is always at one of its slides.
CarouselTypeOK ==
    /\ api \in BOOLEAN /\ loop \in BOOLEAN
    /\ slides \in 1 .. MaxSlides
    /\ place \in 1 .. slides
    /\ changes \in 0 .. MaxChanges
    /\ on \in SUBSET {"reInit", "select"}
    /\ queuedFlags \in Flags
    /\ flags \in Flags

ChartTypeOK ==
    /\ config \in Configs
    /\ series \in Series
    /\ props \in Props
    /\ hovered \in Data \cup {NoDatum}

FormTypeOK ==
    /\ errors \in Seq(Messages \cup Vain)
    /\ children \in BOOLEAN

KitTypeOK == SidebarTypeOK /\ CarouselTypeOK /\ ChartTypeOK /\ FormTypeOK

-----------------------------------------------------------------------------
(* Types.                                                                   *)

LEMMA InitTypes == UiInit => KitTypeOK
<1> SUFFICES ASSUME UiInit PROVE KitTypeOK
  OBVIOUS
<1>1. SidebarTypeOK
  <2>1. SidebarInit \/ IdleSidebar
    BY DEF UiInit
  <2>2. resizes \in 0 .. MaxResizes
    BY <2>1, SidebarAssumption DEF SidebarInit, IdleSidebar
  <2>3. use \in Uses
    BY <2>1 DEF SidebarInit, IdleSidebar, Uses
  <2>4. /\ narrow \in BOOLEAN /\ matches \in BOOLEAN /\ effects \in BOOLEAN
        /\ isMobile \in BOOLEAN /\ queuedMobile \in BOOLEAN
        /\ open \in BOOLEAN /\ openMobile \in BOOLEAN
    BY <2>1, Zenon DEF SidebarInit, IdleSidebar
  <2>5. cookie = {} /\ (listener = {} \/ listener = {Closure})
    BY <2>1, Zenon DEF SidebarInit, IdleSidebar
  <2>6. QED
    BY <2>2, <2>3, <2>4, <2>5 DEF SidebarTypeOK, Closure
<1>2. CarouselTypeOK
  <2>1. CarouselInit
    BY DEF UiInit, IdleCarousel
  <2>2. slides \in 1 .. MaxSlides /\ place \in 1 .. slides /\ changes \in 0 .. MaxChanges
    BY <2>1, CarouselAssumption DEF CarouselInit
  <2>3. queuedFlags \in Flags /\ flags \in Flags
    BY <2>1 DEF CarouselInit, Flags
  <2>4. QED
    BY <2>1, <2>2, <2>3 DEF CarouselInit, CarouselTypeOK
<1>3. ChartTypeOK
  BY DEF UiInit, IdleChart, ChartInit, ChartTypeOK
<1>4. FormTypeOK
  <2>1. FormInit
    BY DEF UiInit, IdleForm
  <2>2. QED
    BY <2>1 DEF FormInit, FormTypeOK
<1>5. QED
  BY <1>1, <1>2, <1>3, <1>4 DEF KitTypeOK

Requests == [open : BOOLEAN, sheet : BOOLEAN, cookie : SUBSET BOOLEAN]

\* What a handler asks for can be rendered.
LEMMA ToggleType ==
    ASSUME NEW s \in Requests, NEW closure \in [isMobile : BOOLEAN, open : BOOLEAN]
    PROVE  /\ \A value \in BOOLEAN : setOpen(s, value) \subseteq Requests
           /\ toggleSidebar(s, closure) \subseteq Requests
<1>1. ASSUME NEW value \in BOOLEAN
      PROVE  setOpen(s, value) \subseteq Requests
  <2> SUFFICES ASSUME NEW t \in setOpen(s, value) PROVE t \in Requests
    OBVIOUS
  <2>1. PICK o \in {value, s.open} : t = [s EXCEPT !.open = o, !.cookie = {value}]
    BY DEF setOpen
  <2>2. o \in BOOLEAN /\ {value} \in SUBSET BOOLEAN
    BY <2>1 DEF Requests
  <2>3. QED
    BY <2>1, <2>2 DEF Requests
<1>2. [s EXCEPT !.sheet = ~@] \in Requests
  BY DEF Requests
<1>3. (~closure.open) \in BOOLEAN
  <2>1. closure.open \in BOOLEAN
    OBVIOUS
  <2>2. QED
    BY <2>1, Zenon
<1>4. QED
  BY <1>1, <1>2, <1>3 DEF toggleSidebar

LEMMA EndsType ==
    ASSUME SidebarTypeOK, NEW s \in Requests, Ends(s)
    PROVE  SidebarTypeOK'
<1>1. open' \in BOOLEAN /\ openMobile' \in BOOLEAN /\ cookie' \in SUBSET BOOLEAN
  BY DEF Ends, Requests
<1>2. UNCHANGED <<use, narrow, resizes>>
  BY DEF Ends
<1>3. CASE s.open = open /\ s.sheet = openMobile
  BY <1>1, <1>2, <1>3 DEF Ends, SidebarTypeOK
<1>4. CASE ~(s.open = open /\ s.sheet = openMobile)
  <2>1. /\ effects' = TRUE /\ matches' \in BOOLEAN /\ queuedMobile' \in BOOLEAN
        /\ isMobile' = queuedMobile'
        /\ listener' = {[isMobile |-> isMobile', open |-> open']}
    BY <1>4 DEF Ends, SidebarTypeOK
  <2>2. listener' \in SUBSET [isMobile : BOOLEAN, open : BOOLEAN]
    BY <1>1, <2>1
  <2>3. QED
    BY <1>1, <1>2, <2>1, <2>2 DEF SidebarTypeOK
<1>5. QED
  BY <1>3, <1>4

LEMMA SidebarStepType ==
    ASSUME SidebarTypeOK, SidebarNext
    PROVE  SidebarTypeOK'
<1>1. Now \in Requests /\ Closure \in [isMobile : BOOLEAN, open : BOOLEAN]
  BY DEF Now, Closure, Requests, SidebarTypeOK
<1>2. ASSUME NEW onClick \in {"nothing", "close", "toggle"}, Trigger(onClick)
      PROVE  SidebarTypeOK'
  <2>1. PICK s \in CASE onClick = "nothing" -> {Now}
                     [] onClick = "close" -> setOpen(Now, FALSE)
                     [] onClick = "toggle" -> toggleSidebar(Now, Closure) :
            \E t \in toggleSidebar(s, Closure) : Ends(t)
    BY <1>2 DEF Trigger
  <2>2. s \in Requests
    <3>1. setOpen(Now, FALSE) \subseteq Requests /\ toggleSidebar(Now, Closure) \subseteq Requests
      BY <1>1, ToggleType
    <3>2. s = Now \/ s \in setOpen(Now, FALSE) \/ s \in toggleSidebar(Now, Closure)
      BY <1>2, <2>1
    <3>3. QED
      BY <1>1, <3>1, <3>2
  <2>3. PICK t \in toggleSidebar(s, Closure) : Ends(t)
    BY <2>1
  <2>4. t \in Requests
    BY <1>1, <2>2, ToggleType
  <2>5. QED
    BY <2>3, <2>4, EndsType
<1>3. CASE Rail
  <2>1. PICK t \in toggleSidebar(Now, Closure) : Ends(t)
    BY <1>3 DEF Rail
  <2>2. QED
    BY <1>1, <2>1, ToggleType, EndsType
<1>4. CASE Shortcut
  <2>1. PICK closure \in listener : \E t \in toggleSidebar(Now, closure) : Ends(t)
    BY <1>4 DEF Shortcut
  <2>2. closure \in [isMobile : BOOLEAN, open : BOOLEAN]
    BY DEF SidebarTypeOK
  <2>3. QED
    BY <1>1, <2>1, <2>2, ToggleType, EndsType
<1>5. CASE Dismiss
  <2>1. [Now EXCEPT !.sheet = FALSE] \in Requests
    BY <1>1 DEF Requests
  <2>2. QED
    BY <1>5, <2>1, EndsType DEF Dismiss
<1>6. CASE Resize
  BY <1>6, SidebarAssumption DEF Resize, SidebarTypeOK
<1>7. CASE FirstEffects
  BY <1>1, <1>7 DEF FirstEffects, SidebarTypeOK
<1>8. CASE RenderSidebar
  BY <1>8 DEF RenderSidebar, SidebarTypeOK
<1>9. CASE Effects
  BY <1>1, <1>9 DEF Effects, SidebarTypeOK
<1>10. CASE Change
  BY <1>10 DEF Change, SidebarTypeOK
<1>11. QED
  BY <1>2, <1>3, <1>4, <1>5, <1>6, <1>7, <1>8, <1>9, <1>10 DEF SidebarNext

\* Wherever the engine is sent, there is a slide.
LEMMA ScrollType ==
    ASSUME CarouselTypeOK, scrollPrev \/ scrollNext
    PROVE  place' \in 1 .. slides /\ queuedFlags' \in Flags
<1>1. slides \in Nat /\ place \in Nat
  BY CarouselAssumption DEF CarouselTypeOK
<1>2. Before \in 1 .. slides /\ After \in 1 .. slides
  BY <1>1 DEF Before, After, CarouselTypeOK, Allowed, AllowedAt
<1>3. ASSUME NEW p, NEW n PROVE AllowedAt(p, n) \in Flags
  BY DEF AllowedAt, Flags, CarouselTypeOK
<1>4. QED
  BY <1>2, <1>3 DEF scrollPrev, scrollNext, scrollTo, onSelect, CarouselTypeOK

LEMMA CarouselStepType ==
    ASSUME CarouselTypeOK, CarouselSteps
    PROVE  CarouselTypeOK'
<1>1. slides \in Nat /\ place \in Nat /\ changes \in Nat /\ MaxSlides \in Nat /\ MaxChanges \in Nat
  BY CarouselAssumption DEF CarouselTypeOK
<1>2. \A p, n : AllowedAt(p, n) \in Flags
  BY DEF AllowedAt, Flags, CarouselTypeOK
<1>3. CASE Connect
  BY <1>1, <1>3 DEF Connect, CarouselTypeOK
<1>4. CASE Subscribe
  BY <1>2, <1>4 DEF Subscribe, CarouselTypeOK, Allowed
<1>5. CASE Disconnect
  <2>1. changes' \in 0 .. MaxChanges
    BY <1>1, <1>5 DEF Disconnect
  <2>2. QED
    BY <1>5, <2>1 DEF Disconnect, CarouselTypeOK
<1>6. CASE CarouselPrevious \/ CarouselNext \/ handleKeyDown \/ Autoplay
  <2>1. place' \in 1 .. slides /\ queuedFlags' \in Flags
    BY <1>6, ScrollType DEF CarouselPrevious, CarouselNext, handleKeyDown, Autoplay, CarouselTypeOK
  <2>2. flags' \in Flags
    BY <1>6, <2>1 DEF CarouselPrevious, CarouselNext, handleKeyDown, Autoplay, CarouselTypeOK
  <2>3. UNCHANGED <<api, loop, slides, changes, on>>
    BY <1>6 DEF CarouselPrevious, CarouselNext, handleKeyDown, Autoplay
  <2>4. QED
    BY <2>1, <2>2, <2>3 DEF CarouselTypeOK
<1>7. ASSUME NEW n \in 1 .. MaxSlides, SetSlides(n)
      PROVE  CarouselTypeOK'
  <2>1. place' \in 1 .. n
    BY <1>1, <1>7 DEF SetSlides, CarouselTypeOK
  <2>2. queuedFlags' \in Flags
    BY <1>2, <1>7 DEF SetSlides, onSelect, CarouselTypeOK
  <2>3. changes' \in 0 .. MaxChanges
    BY <1>1, <1>7 DEF SetSlides, CarouselTypeOK
  <2>4. QED
    BY <1>7, <2>1, <2>2, <2>3 DEF SetSlides, CarouselTypeOK
<1>8. CASE RenderCarousel
  BY <1>8 DEF RenderCarousel, CarouselTypeOK
<1>9. QED
  BY <1>3, <1>4, <1>5, <1>6, <1>7, <1>8 DEF CarouselSteps

LEMMA ValidateType ==
    ASSUME FormTypeOK, Validate
    PROVE  FormTypeOK'
<1> DEFINE S == Messages \cup Vain
<1>1. errors' \in BoundedSeq(S, MaxErrors)
  BY DEF Validate
<1> HIDE DEF S
<1>2. PICK m \in 0 .. MaxErrors : errors' \in [1 .. m -> S]
  BY <1>1 DEF BoundedSeq, SeqOf
<1>3. m \in Nat
  BY FormAssumption
<1>4. errors' \in Seq(S)
  BY <1>2, <1>3
<1>5. QED
  BY <1>4 DEF S, Validate, FormTypeOK

LEMMA StepTypes == KitTypeOK /\ [UiNext]_kit => KitTypeOK'
<1> SUFFICES ASSUME KitTypeOK, [UiNext]_kit PROVE KitTypeOK'
  OBVIOUS
<1>1. UNCHANGED sidebar => SidebarTypeOK'
  BY DEF KitTypeOK, sidebar, SidebarTypeOK
<1>2. UNCHANGED carousel => CarouselTypeOK'
  BY DEF KitTypeOK, carousel, CarouselTypeOK
<1>3. UNCHANGED chart \/ Hover(Data) => ChartTypeOK'
  BY DEF KitTypeOK, chart, ChartTypeOK, Hover
<1>4. UNCHANGED form => FormTypeOK'
  BY DEF KitTypeOK, form, FormTypeOK
<1>5. QED
  BY <1>1, <1>2, <1>3, <1>4, SidebarStepType, CarouselStepType, ValidateType
     DEF KitTypeOK, UiNext, kit

\* Nothing the components of the page hold leaves the values their code knows; the engine of a
\* carousel is at a slide it has, whatever slides come and go.
THEOREM TypeCorrect == Spec => []KitTypeOK
BY InitTypes, StepTypes, PTL DEF Spec

-----------------------------------------------------------------------------
(* The sidebar.                                                             *)

\* A toggle by the latest render in a settled sidebar.
LEMMA SettledToggle ==
    ASSUME SidebarTypeOK, Settled, use.collapsible # "none", use.owner = "self",
           NEW t \in toggleSidebar(Now, Closure), Ends(t)
    PROVE  /\ shown' # shown
           /\ shown' = "rail" => ~tooltipHidden'
           /\ open' # open <=> ~narrow
<1>1. /\ effects = TRUE /\ queuedMobile = narrow /\ isMobile = narrow
      /\ narrow \in BOOLEAN /\ open \in BOOLEAN /\ openMobile \in BOOLEAN
      /\ use' = use /\ narrow' = narrow
  BY DEF Settled, SidebarTypeOK, Ends
<1>2. isMobile' = narrow
  BY <1>1 DEF Ends
<1>3. CASE narrow
  <2>1. t = [Now EXCEPT !.sheet = ~openMobile]
    BY <1>1, <1>3 DEF toggleSidebar, Closure, Now
  <2>2. openMobile' = ~openMobile /\ open' = open
    BY <2>1 DEF Ends, Now
  <2>3. shown = (IF openMobile THEN "sheet" ELSE "nothing")
    BY <1>1, <1>3 DEF shown
  <2>4. shown' = (IF openMobile' THEN "sheet" ELSE "nothing")
    BY <1>1, <1>2, <1>3 DEF shown
  <2>5. QED
    BY <1>1, <1>3, <2>2, <2>3, <2>4
<1>4. CASE ~narrow
  <2> DEFINE folded == IF use.collapsible = "icon" THEN "rail" ELSE "nothing"
  <2>1. t = [Now EXCEPT !.open = ~open, !.cookie = {~open}]
    BY <1>1, <1>4 DEF toggleSidebar, setOpen, Closure
  <2>2. open' = ~open
    BY <2>1 DEF Ends, Now
  <2>3. shown = (IF open THEN "column" ELSE folded)
    BY <1>1, <1>4 DEF shown
  <2>4. shown' = (IF open' THEN "column" ELSE folded)
    BY <1>1, <1>2, <1>4 DEF shown
  <2>5. folded # "column" /\ (shown' = "rail" => ~tooltipHidden')
    BY <1>1, <1>2, <1>4, <2>2, <2>4 DEF tooltipHidden
  <2>6. QED
    BY <1>1, <1>4, <2>2, <2>3, <2>4, <2>5
<1>5. QED
  BY <1>1, <1>3, <1>4

\* The shortcut may have closed over an earlier layout, never over an earlier open.
FreshOpen == \A closure \in listener : closure.open = open

LEMMA EndsFresh ==
    ASSUME FreshOpen, NEW s, Ends(s)
    PROVE  FreshOpen'
<1>1. CASE s.open = open /\ s.sheet = openMobile
  BY <1>1 DEF Ends, FreshOpen
<1>2. CASE ~(s.open = open /\ s.sheet = openMobile)
  <2>1. listener' = {[isMobile |-> isMobile', open |-> open']}
    BY <1>2 DEF Ends
  <2>2. QED
    BY <2>1 DEF FreshOpen
<1>3. QED
  BY <1>1, <1>2

LEMMA SidebarFresh == FreshOpen /\ [UiNext]_kit => FreshOpen'
<1> SUFFICES ASSUME FreshOpen, [UiNext]_kit PROVE FreshOpen'
  OBVIOUS
<1>1. CASE UNCHANGED sidebar
  BY <1>1 DEF sidebar, FreshOpen
<1>2. CASE \E s : Ends(s)
  BY <1>2, EndsFresh
<1>3. CASE Resize
  BY <1>3 DEF Resize, FreshOpen
<1>4. CASE FirstEffects \/ Effects
  BY <1>4 DEF FirstEffects, Effects, Closure, FreshOpen
<1>5. CASE RenderSidebar
  BY <1>5 DEF RenderSidebar, FreshOpen
<1>6. CASE Change
  BY <1>6 DEF Change, FreshOpen
<1>7. SidebarNext => \/ \E s : Ends(s)
                    \/ Resize \/ FirstEffects \/ Effects \/ RenderSidebar \/ Change
  BY DEF SidebarNext, Trigger, Rail, Shortcut, Dismiss
<1>8. SidebarNext \/ UNCHANGED sidebar
  BY DEF UiNext, kit
<1>9. QED
  BY <1>1, <1>2, <1>3, <1>4, <1>5, <1>6, <1>7, <1>8

LEMMA AlwaysFresh == Spec => []FreshOpen
<1>1. UiInit => FreshOpen
  <2>1. UiInit => listener = {} \/ listener = {Closure}
    BY DEF UiInit, SidebarInit, IdleSidebar
  <2>2. QED
    BY <2>1 DEF FreshOpen, Closure
<1>2. QED
  BY <1>1, SidebarFresh, PTL DEF Spec

\* A toggle by whatever layout it closed over turns over one state.
LEMMA OneTurned ==
    ASSUME SidebarTypeOK, use.owner = "self", NEW closure, closure.open = open,
           NEW t \in toggleSidebar(Now, closure), Ends(t)
    PROVE  /\ openMobile' = IF open' = open THEN ~openMobile ELSE openMobile
           /\ cookie' = IF open' = open THEN cookie ELSE {open'}
<1>1. open \in BOOLEAN /\ openMobile \in BOOLEAN
  BY DEF SidebarTypeOK
<1>2. CASE closure.isMobile
  <2>1. t = [Now EXCEPT !.sheet = ~openMobile]
    BY <1>2 DEF toggleSidebar, Now
  <2>2. open' = open /\ openMobile' = ~openMobile /\ cookie' = cookie
    BY <2>1 DEF Ends, Now
  <2>3. QED
    BY <2>2
<1>3. CASE ~closure.isMobile
  <2>1. t = [Now EXCEPT !.open = ~open, !.cookie = {~open}]
    BY <1>3 DEF toggleSidebar, setOpen
  <2>2. open' = ~open /\ openMobile' = openMobile /\ cookie' = {~open}
    BY <2>1 DEF Ends, Now
  <2>3. QED
    BY <1>1, <2>2
<1>4. QED
  BY <1>2, <1>3

\* What a toggle acts on: a click on the latest render, the shortcut on its listener's.
LEMMA TogglesBy ==
    ASSUME FreshOpen, Toggled
    PROVE  \E closure \in listener \cup {Closure} :
                closure.open = open /\ \E t \in toggleSidebar(Now, closure) : Ends(t)
<1>1. Closure.open = open
  BY DEF Closure
<1>2. CASE Trigger("nothing") \/ Rail
  <2>1. \E t \in toggleSidebar(Now, Closure) : Ends(t)
    BY <1>2 DEF Trigger, Rail
  <2>2. QED
    BY <1>1, <2>1
<1>3. CASE Shortcut
  BY <1>3 DEF Shortcut, FreshOpen
<1>4. QED
  BY <1>2, <1>3 DEF Toggled

\* However often the window is resized and the sidebar used, a toggle turns over one state
\* from its present value, and in a settled sidebar it shows or hides something.
THEOREM TogglesAreSeen == Spec => ToggleIsVisible
<1> DEFINE turned ==
               /\ openMobile' = IF open' = open THEN ~openMobile ELSE openMobile
               /\ cookie' = IF open' = open THEN cookie ELSE {open'}
           visible ==
               /\ shown' # shown
               /\ shown' = "rail" => ~tooltipHidden'
               /\ open' # open <=> ~narrow
<1>1. ASSUME KitTypeOK, FreshOpen, use.owner = "self", Toggled
      PROVE  turned /\ (Settled /\ use.collapsible # "none" => visible)
  <2>1. PICK closure \in listener \cup {Closure} :
            closure.open = open /\ \E t \in toggleSidebar(Now, closure) : Ends(t)
    BY <1>1, TogglesBy
  <2>2. PICK t \in toggleSidebar(Now, closure) : Ends(t)
    BY <2>1
  <2>3. turned
    BY <1>1, <2>1, <2>2, OneTurned DEF KitTypeOK
  <2>4. ASSUME Settled, use.collapsible # "none"
        PROVE  visible
    <3>1. closure = Closure
      BY <2>1, <2>4 DEF Settled
    <3>2. QED
      BY <1>1, <2>2, <2>4, <3>1, SettledToggle DEF KitTypeOK
  <2>5. QED
    BY <2>3, <2>4
<1>2. KitTypeOK /\ FreshOpen =>
        [ (use.owner = "self" /\ Toggled) =>
            /\ openMobile' = IF open' = open THEN ~openMobile ELSE openMobile
            /\ cookie' = IF open' = open THEN cookie ELSE {open'}
            /\ (Settled /\ use.collapsible # "none") =>
                /\ shown' # shown
                /\ shown' = "rail" => ~tooltipHidden'
                /\ open' # open <=> ~narrow ]_sidebar
  BY <1>1
<1>3. QED
  BY <1>2, TypeCorrect, AlwaysFresh, PTL DEF ToggleIsVisible
-----------------------------------------------------------------------------
(* Lists in order.                                                          *)

\* What holds of 0, and of a number's successor if of the number, holds of all.
LEMMA Induct ==
    ASSUME NEW S, 0 \in S, \A n \in Nat : n \in S => n + 1 \in S
    PROVE  Nat \subseteq S
<1> SUFFICES ASSUME Nat \ S # {} PROVE FALSE
  OBVIOUS
<1> DEFINE R == OpToRel(<, Nat)
<1>1. IsWellFoundedOn(R, Nat)
  BY NatLessThanWellFounded
<1> HIDE DEF R
<1>2. PICK m \in Nat \ S : \A n \in Nat \ S : <<n, m>> \notin R
  BY <1>1, WFMin
<1>3. m - 1 \in Nat /\ m - 1 < m /\ (m - 1) + 1 = m
  BY <1>2
<1>4. <<m - 1, m>> \in R
  BY <1>3 DEF R, OpToRel
<1>5. QED
  BY <1>2, <1>3, <1>4

\* A set of natural numbers has a first one.
LEMMA FirstExists ==
    ASSUME NEW S, S \subseteq Nat, S # {}
    PROVE  \E m \in S : \A n \in S : m <= n
<1> DEFINE R == OpToRel(<, Nat)
<1>1. IsWellFoundedOn(R, Nat)
  BY NatLessThanWellFounded
<1> HIDE DEF R
<1>2. PICK m \in S : \A n \in S : <<n, m>> \notin R
  BY <1>1, WFMin
<1>3. ASSUME NEW n \in S, n < m
      PROVE  <<n, m>> \in R
  BY <1>3 DEF R, OpToRel
<1>4. \A n \in S : n \in Nat /\ m \in Nat /\ ~ (n < m)
  BY <1>2, <1>3
<1>5. QED
  BY <1>4

\* A finite set of positions can be put in order.
LEMMA InOrderExists ==
    ASSUME NEW S \in SUBSET Nat, IsFiniteSet(S)
    PROVE  \E f \in [1 .. Cardinality(S) -> S] : \A i, j \in DOMAIN f : i < j => f[i] < f[j]
<1> DEFINE Ordered(T) ==
             \E f \in [1 .. Cardinality(T) -> T] : \A i, j \in DOMAIN f : i < j => f[i] < f[j]
           G == {n \in Nat : \A T \in SUBSET Nat : IsFiniteSet(T) /\ Cardinality(T) = n => Ordered(T)}
<1>1. 0 \in G
  <2> SUFFICES ASSUME NEW T \in SUBSET Nat, IsFiniteSet(T), Cardinality(T) = 0
               PROVE  Ordered(T)
    OBVIOUS
  <2>1. <<>> \in [1 .. 0 -> T] /\ DOMAIN <<>> = {}
    OBVIOUS
  <2>2. QED
    BY <2>1
<1>2. ASSUME NEW n \in Nat, n \in G
      PROVE  n + 1 \in G
  <2> SUFFICES ASSUME NEW T \in SUBSET Nat, IsFiniteSet(T), Cardinality(T) = n + 1
               PROVE  Ordered(T)
    OBVIOUS
  <2>1. T # {}
    BY FS_EmptySet
  <2>2. PICK m \in T : \A k \in T : m <= k
    BY <2>1, FirstExists
  <2> DEFINE U == T \ {m}
  <2>3. U \in SUBSET Nat /\ IsFiniteSet(U) /\ Cardinality(U) = n
    <3>1. IsFiniteSet(U) /\ Cardinality(U) = Cardinality(T) - 1
      BY FS_RemoveElement
    <3>2. QED
      BY <3>1
  <2>4. Ordered(U)
    BY <1>2, <2>3
  <2>5. PICK g \in [1 .. n -> U] : \A i, j \in 1 .. n : i < j => g[i] < g[j]
    BY <2>3, <2>4
  <2> DEFINE f == [i \in 1 .. n + 1 |-> IF i = 1 THEN m ELSE g[i - 1]]
  <2>6. ASSUME NEW i \in 1 .. n + 1
        PROVE  i = 1 \/ i - 1 \in 1 .. n
    OBVIOUS
  <2>7. f \in [1 .. n + 1 -> T]
    BY <2>5, <2>6
  <2>8. ASSUME NEW i \in 1 .. n + 1, NEW j \in 1 .. n + 1, i < j
        PROVE  f[i] < f[j]
    <3>1. j # 1 /\ j - 1 \in 1 .. n
      BY <2>8
    <3>2. f[j] = g[j - 1] /\ g[j - 1] \in U
      BY <2>5, <3>1
    <3>3. CASE i = 1
      <4>1. f[i] = m /\ g[j - 1] \in Nat /\ m \in Nat /\ m <= g[j - 1] /\ g[j - 1] # m
        BY <2>2, <3>2, <3>3
      <4>2. QED
        BY <3>2, <4>1
    <3>4. CASE i # 1
      <4>1. i - 1 \in 1 .. n /\ i - 1 < j - 1
        BY <2>6, <2>8, <3>4
      <4>2. g[i - 1] < g[j - 1]
        BY <2>5, <3>1, <4>1
      <4>3. QED
        BY <3>2, <3>4, <4>2
    <3>5. QED
      BY <3>3, <3>4
  <2>9. f \in [1 .. Cardinality(T) -> T] /\ DOMAIN f = 1 .. n + 1
    BY <2>7
  <2> HIDE DEF f
  <2>10. QED
    BY <2>8, <2>9
<1>3. Nat \subseteq G
  <2> HIDE DEF G
  <2>1. QED
    BY <1>1, <1>2, Induct
<1>4. Cardinality(S) \in Nat
  BY FS_CardinalityType
<1>5. QED
  BY <1>3, <1>4

\* InOrder lists each position once, the earlier ones first.
LEMMA InOrderFacts ==
    ASSUME NEW S \in SUBSET Nat, IsFiniteSet(S)
    PROVE  /\ Cardinality(S) \in Nat
           /\ InOrder(S) \in [1 .. Cardinality(S) -> S]
           /\ \A i, j \in 1 .. Cardinality(S) : i < j <=> InOrder(S)[i] < InOrder(S)[j]
           /\ \A p \in S : \E i \in 1 .. Cardinality(S) : InOrder(S)[i] = p
<1> DEFINE f == InOrder(S)
           n == Cardinality(S)
<1>1. n \in Nat
  BY FS_CardinalityType
<1>2. f \in [1 .. n -> S] /\ \A i, j \in DOMAIN f : i < j => f[i] < f[j]
  BY InOrderExists DEF InOrder
<1>3. \A i \in 1 .. n : f[i] \in Nat
  BY <1>2
<1>4. \A i, j \in 1 .. n : i < j => f[i] < f[j]
  BY <1>2
<1> HIDE DEF f, n
<1>5. ASSUME NEW i \in 1 .. n, NEW j \in 1 .. n
      PROVE  i < j <=> f[i] < f[j]
  <2>1. i \in Nat /\ j \in Nat /\ f[i] \in Nat /\ f[j] \in Nat
    BY <1>1, <1>3
  <2>2. CASE i < j
    BY <1>4, <2>2
  <2>3. CASE i = j
    BY <2>1, <2>3
  <2>4. CASE j < i
    <3>1. f[j] < f[i]
      BY <1>4, <2>4
    <3>2. QED
      BY <2>1, <2>4, <3>1
  <2>5. QED
    BY <2>1, <2>2, <2>3, <2>4
<1>6. \A p \in S : \E i \in 1 .. n : f[i] = p
  <2>1. ASSUME NEW i \in 1 .. n, NEW j \in 1 .. n, f[i] = f[j]
        PROVE  i = j
    <3>1. i \in Nat /\ j \in Nat /\ f[i] \in Nat /\ f[j] \in Nat
      BY <1>1, <1>3
    <3>2. ~ (i < j) /\ ~ (j < i)
      BY <1>5, <2>1, <3>1
    <3>3. QED
      BY <3>1, <3>2
  <2>2. f \in Injection(1 .. n, S)
    BY <1>2, <2>1 DEF Injection, IsInjective
  <2>3. Cardinality(1 .. n) = n
    <3>1. Cardinality(1 .. n) = IF 1 > n THEN 0 ELSE n - 1 + 1
      BY <1>1, FS_Interval
    <3>2. QED
      BY <1>1, <3>1
  <2>4. f \in Surjection(1 .. n, S)
    BY <2>2, <2>3, FS_Injection DEF n
  <2>5. QED
    BY <2>4 DEF Surjection
<1>7. QED
  BY <1>1, <1>2, <1>5, <1>6 DEF f, n

\* The positions of a list are a finite set of numbers.
LEMMA PositionsFinite ==
    ASSUME NEW list, NEW n \in Nat, DOMAIN list = 1 .. n, NEW S \in SUBSET DOMAIN list
    PROVE  S \in SUBSET Nat /\ IsFiniteSet(S)
<1>1. IsFiniteSet(1 .. n)
  BY FS_Interval
<1>2. IsFiniteSet(S)
  BY <1>1, FS_Subset
<1>3. QED
  BY <1>2

-----------------------------------------------------------------------------
(* The field's errors.                                                      *)

\* What the validators have said, and where each of it comes first.
Said == ToSet(errors) \ Vain
Entries == {i \in firsts : errors[i] \notin Vain}
FirstAt(m) == CHOOSE i \in DOMAIN errors : errors[i] = m /\ \A j \in 1..(i - 1) : errors[j] # m
ShownAt(m) == CHOOSE n \in DOMAIN listed : listed[n] = m

LEMMA ErrorPositions ==
    ASSUME FormTypeOK
    PROVE  /\ Len(errors) \in Nat /\ DOMAIN errors = 1 .. Len(errors)
           /\ firsts \subseteq DOMAIN errors /\ Entries \subseteq firsts
           /\ firsts \in SUBSET Nat /\ IsFiniteSet(firsts)
           /\ Entries \in SUBSET Nat /\ IsFiniteSet(Entries)
<1> DEFINE T == Messages \cup Vain
<1>1. errors \in Seq(T)
  BY DEF FormTypeOK
<1> HIDE DEF T
<1>2. Len(errors) \in Nat /\ DOMAIN errors = 1 .. Len(errors)
  BY <1>1
<1>3. firsts \subseteq DOMAIN errors /\ Entries \subseteq firsts
  BY DEF firsts, Entries
<1>4. QED
  BY <1>2, <1>3, PositionsFinite

\* Every message has a first position.
LEMMA FirstOfMessage ==
    ASSUME FormTypeOK, NEW p \in DOMAIN errors
    PROVE  \E i \in firsts : errors[i] = errors[p]
<1> DEFINE S == {i \in DOMAIN errors : errors[i] = errors[p]}
<1>1. Len(errors) \in Nat /\ DOMAIN errors = 1 .. Len(errors)
  BY ErrorPositions
<1>2. S \subseteq Nat /\ S # {}
  BY <1>1
<1>3. PICK m \in S : \A n \in S : m <= n
  BY <1>2, FirstExists
<1>4. ASSUME NEW j \in 1 .. (m - 1)
      PROVE  errors[j] # errors[m]
  <2>1. m \in 1 .. Len(errors) /\ errors[m] = errors[p]
    BY <1>1, <1>3
  <2>2. j \in DOMAIN errors /\ j < m /\ j \in Nat /\ m \in Nat
    BY <1>1, <2>1
  <2>3. j \notin S
    BY <1>3, <2>2
  <2>4. QED
    BY <2>1, <2>2, <2>3
<1>5. QED
  BY <1>3, <1>4 DEF firsts

\* And only one.
LEMMA FirstIsUnique ==
    ASSUME FormTypeOK, NEW i \in firsts, NEW j \in firsts, errors[i] = errors[j]
    PROVE  i = j
<1>1. i \in 1 .. Len(errors) /\ j \in 1 .. Len(errors) /\ Len(errors) \in Nat
  BY ErrorPositions
<1>2. CASE i < j
  <2>1. i \in 1 .. (j - 1)
    BY <1>1, <1>2
  <2>2. QED
    BY <2>1 DEF firsts
<1>3. CASE j < i
  <2>1. j \in 1 .. (i - 1)
    BY <1>1, <1>3
  <2>2. QED
    BY <2>1 DEF firsts
<1>4. QED
  BY <1>1, <1>2, <1>3

\* Everything said has one entry, and every entry says something.
LEMMA EntriesSay ==
    ASSUME FormTypeOK
    PROVE  /\ \A i \in Entries : errors[i] \in Said
           /\ \A m \in Said : FirstAt(m) \in Entries /\ errors[FirstAt(m)] = m
           /\ IsFiniteSet(Said) /\ Cardinality(Said) = Cardinality(Entries)
<1>1. \A i \in Entries : errors[i] \in Said
  BY ErrorPositions DEF Entries, Said, ToSet
<1>2. ASSUME NEW m \in Said
      PROVE  FirstAt(m) \in Entries /\ errors[FirstAt(m)] = m
  <2>1. m \notin Vain /\ \E p \in DOMAIN errors : m = errors[p]
    BY DEF Said, ToSet
  <2>2. PICK i \in firsts : errors[i] = m
    BY <2>1, FirstOfMessage
  <2>3. i \in DOMAIN errors /\ errors[i] = m /\ \A j \in 1 .. (i - 1) : errors[j] # m
    BY <2>2 DEF firsts
  <2>4. /\ FirstAt(m) \in DOMAIN errors /\ errors[FirstAt(m)] = m
        /\ \A j \in 1 .. (FirstAt(m) - 1) : errors[j] # m
    BY <2>3 DEF FirstAt
  <2>5. QED
    BY <2>1, <2>4 DEF firsts, Entries
<1>3. IsFiniteSet(Said) /\ Cardinality(Said) = Cardinality(Entries)
  <2> DEFINE g == [i \in Entries |-> errors[i]]
  <2>1. g \in [Entries -> Said]
    BY <1>1
  <2>2. \A i, j \in Entries : g[i] = g[j] => i = j
    BY FirstIsUnique DEF Entries
  <2>3. \A m \in Said : \E i \in Entries : g[i] = m
    BY <1>2
  <2> HIDE DEF g
  <2>4. g \in Bijection(Entries, Said)
    BY <2>1, <2>2, <2>3 DEF Bijection, Injection, Surjection, IsInjective
  <2>5. IsFiniteSet(Entries)
    BY ErrorPositions
  <2>6. IsFiniteSet(Said) /\ Cardinality(Entries) = Cardinality(Said)
    BY <2>4, <2>5, FS_Bijection DEF ExistsBijection
  <2>7. QED
    BY <2>6
<1>4. QED
  BY <1>1, <1>2, <1>3

\* The list shows the entries in their order.
LEMMA ListedInOrder ==
    ASSUME FormTypeOK
    PROVE  /\ ToSet(listed) = Said
           /\ Len(listed) = Cardinality(Said)
           /\ \A m, n \in Said : FirstAt(m) < FirstAt(n) => ShownAt(m) < ShownAt(n)
<1> DEFINE f == InOrder(Entries)
           k == Cardinality(Entries)
<1>1. /\ k \in Nat /\ f \in [1 .. k -> Entries]
      /\ \A i, j \in 1 .. k : i < j <=> f[i] < f[j]
      /\ \A p \in Entries : \E i \in 1 .. k : f[i] = p
  BY ErrorPositions, InOrderFacts
<1>2. listed = [n \in 1 .. k |-> errors[f[n]]]
  BY DEF listed, MembersAt, Entries
<1>3. k = Cardinality(Said)
  BY EntriesSay
<1> HIDE DEF f, k
<1>4. DOMAIN listed = 1 .. k /\ Len(listed) = k /\ \A n \in 1 .. k : listed[n] = errors[f[n]]
  BY <1>1, <1>2
<1>5. \A n \in 1 .. k : listed[n] \in Said
  BY <1>1, <1>4, EntriesSay
<1>6. ASSUME NEW m \in Said
      PROVE  /\ ShownAt(m) \in 1 .. k /\ listed[ShownAt(m)] = m
             /\ f[ShownAt(m)] = FirstAt(m)
  <2>1. FirstAt(m) \in Entries /\ errors[FirstAt(m)] = m
    BY EntriesSay
  <2>2. PICK n \in 1 .. k : f[n] = FirstAt(m)
    BY <1>1, <2>1
  <2>3. n \in DOMAIN listed /\ listed[n] = m
    BY <1>4, <2>1, <2>2
  <2>4. ShownAt(m) \in 1 .. k /\ listed[ShownAt(m)] = m
    BY <1>4, <2>3 DEF ShownAt
  <2>5. f[ShownAt(m)] \in Entries /\ errors[f[ShownAt(m)]] = m
    BY <1>1, <1>4, <2>4
  <2>6. f[ShownAt(m)] = FirstAt(m)
    BY <2>1, <2>5, FirstIsUnique DEF Entries
  <2>7. QED
    BY <2>4, <2>6
<1>7. ToSet(listed) = Said
  BY <1>4, <1>5, <1>6 DEF ToSet
<1>8. ASSUME NEW m \in Said, NEW n \in Said, FirstAt(m) < FirstAt(n)
      PROVE  ShownAt(m) < ShownAt(n)
  BY <1>1, <1>6, <1>8
<1>9. QED
  BY <1>3, <1>4, <1>7, <1>8

\* The alert is there when something is said, or when two things are reported in vain.
LEMMA AlertIsRight ==
    ASSUME FormTypeOK, ~children
    PROVE  /\ FieldError.alert <=> Said # {} \/ Vain \subseteq ToSet(errors)
           /\ FieldError.messages = listed
<1>1. Len(uniqueErrors) = Cardinality(firsts) /\ Cardinality(firsts) \in Nat
  <2> DEFINE k == Cardinality(firsts)
  <2>1. k \in Nat
    BY ErrorPositions, FS_CardinalityType
  <2>2. uniqueErrors = [n \in 1 .. k |-> errors[InOrder(firsts)[n]]]
    BY DEF uniqueErrors, MembersAt
  <2> HIDE DEF k
  <2>3. Len(uniqueErrors) = k
    BY <2>1, <2>2
  <2>4. QED
    BY <2>1, <2>3 DEF k
<1>2. CASE errors = <<>>
  <2>1. DOMAIN errors = {}
    BY <1>2
  <2>2. Said = {} /\ Entries = {} /\ firsts = {}
    BY <2>1, ErrorPositions DEF Said, ToSet
  <2>3. Cardinality(Entries) = 0
    BY <2>2, FS_EmptySet
  <2>4. listed = [n \in 1 .. 0 |-> errors[InOrder(Entries)[n]]]
    BY <2>3 DEF listed, MembersAt, Entries
  <2>5. listed = <<>>
    BY <2>4
  <2>6. FieldError = [alert |-> FALSE, messages |-> <<>>]
    <3>1. Len(uniqueErrors) # 1
      BY <1>1, <2>2, FS_EmptySet
    <3>2. QED
      BY <1>2, <3>1, Zenon DEF FieldError
  <2>7. ~(Vain \subseteq ToSet(errors))
    BY <2>1 DEF ToSet, Vain
  <2>8. QED
    BY <2>2, <2>5, <2>6, <2>7
<1>3. CASE errors # <<>> /\ Len(uniqueErrors) = 1
  <2>1. FieldError = [alert |-> uniqueErrors[1] \notin Vain, messages |-> listed]
    BY <1>3 DEF FieldError
  <2>2. PICK p : firsts = {p}
    BY <1>1, <1>3, ErrorPositions, FS_Singleton
  <2>3. uniqueErrors[1] = errors[p]
    <3>1. Cardinality(firsts) = 1
      BY <1>1, <1>3
    <3>2. InOrder(firsts) \in [1 .. 1 -> firsts]
      BY <3>1, ErrorPositions, InOrderFacts
    <3>3. InOrder(firsts)[1] = p
      BY <2>2, <3>2
    <3>4. uniqueErrors = [n \in 1 .. 1 |-> errors[InOrder(firsts)[n]]]
      BY <3>1 DEF uniqueErrors, MembersAt
    <3>5. QED
      BY <3>3, <3>4
  <2>4. errors[p] \notin Vain <=> Said # {}
    <3>1. ASSUME errors[p] \notin Vain
          PROVE  Said # {}
      BY <2>2, <3>1, EntriesSay DEF Entries
    <3>2. ASSUME NEW m \in Said
          PROVE  errors[p] \notin Vain
      BY <2>2, EntriesSay DEF Entries
    <3>3. QED
      BY <3>1, <3>2
  <2>5. ~(Vain \subseteq ToSet(errors))
    <3>1. SUFFICES ASSUME "" \in ToSet(errors), Missing \in ToSet(errors) PROVE FALSE
      BY DEF Vain
    <3>2. PICK i \in DOMAIN errors, j \in DOMAIN errors : errors[i] = "" /\ errors[j] = Missing
      BY <3>1 DEF ToSet
    <3>3. PICK k \in firsts, l \in firsts : errors[k] = errors[i] /\ errors[l] = errors[j]
      BY FirstOfMessage
    <3>4. errors[p] = "" /\ errors[p] = Missing
      BY <2>2, <3>2, <3>3
    <3>5. QED
      BY <3>4 DEF Missing
  <2>6. QED
    BY <2>1, <2>3, <2>4, <2>5
<1>4. CASE errors # <<>> /\ Len(uniqueErrors) # 1
  <2>1. FieldError = [alert |-> TRUE, messages |-> listed]
    BY <1>4 DEF FieldError
  <2>2. 1 \in firsts
    <3>1. 1 \in DOMAIN errors
      <4> DEFINE T == Messages \cup Vain
      <4>1. errors \in Seq(T)
        BY DEF FormTypeOK
      <4> HIDE DEF T
      <4>2. Len(errors) # 0
        BY <1>4, <4>1, EmptySeq
      <4>3. QED
        BY <4>2, ErrorPositions
    <3>2. QED
      BY <3>1 DEF firsts
  <2>3. firsts # {1}
    BY <1>1, <1>4, FS_Singleton
  <2>4. PICK i \in firsts : i # 1
    BY <2>2, <2>3
  <2>5. errors[i] # errors[1]
    BY <2>2, <2>4, FirstIsUnique
  <2>6. CASE i \in Entries \/ 1 \in Entries
    BY <2>1, <2>6, EntriesSay
  <2>7. CASE i \notin Entries /\ 1 \notin Entries
    <3>1. errors[i] \in Vain /\ errors[1] \in Vain
      BY <2>2, <2>4, <2>7 DEF Entries
    <3>2. Vain = {errors[i], errors[1]}
      BY <2>5, <3>1 DEF Vain
    <3>3. Vain \subseteq ToSet(errors)
      BY <2>2, <3>2, ErrorPositions DEF ToSet
    <3>4. QED
      BY <2>1, <3>3
  <2>8. QED
    BY <2>6, <2>7
<1>5. QED
  BY <1>2, <1>3, <1>4

\* For any messages and any number of validators, a field lists every error once, in the order
\* in which they were reported; it is an alert if there is one, or if an empty and a missing
\* message were reported, and then with nothing in it.
THEOREM ErrorsAlwaysOnce == Spec => []EveryErrorOnce
<1>1. ASSUME FormTypeOK
      PROVE  EveryErrorOnce
  <2> SUFFICES ASSUME ~children
               PROVE  /\ FieldError.alert <=> Said # {} \/ Vain \subseteq ToSet(errors)
                      /\ ToSet(FieldError.messages) = Said
                      /\ Len(FieldError.messages) = Cardinality(Said)
                      /\ \A m, n \in Said :
                            FirstAt(m) < FirstAt(n) =>
                                (CHOOSE l \in DOMAIN FieldError.messages :
                                    FieldError.messages[l] = m)
                                  < (CHOOSE l \in DOMAIN FieldError.messages :
                                        FieldError.messages[l] = n)
    BY DEF EveryErrorOnce, Said, FirstAt
  <2>1. /\ FieldError.messages = listed
        /\ FieldError.alert <=> Said # {} \/ Vain \subseteq ToSet(errors)
    BY <1>1, AlertIsRight
  <2>2. ASSUME NEW m
        PROVE  (CHOOSE l \in DOMAIN FieldError.messages : FieldError.messages[l] = m) = ShownAt(m)
    BY <2>1 DEF ShownAt
  <2> DEFINE Place(m) ==
               CHOOSE l \in DOMAIN FieldError.messages : FieldError.messages[l] = m
  <2>3. \A m : Place(m) = ShownAt(m)
    BY <2>2
  <2> HIDE DEF Place
  <2>4. \A m, n \in Said : FirstAt(m) < FirstAt(n) => Place(m) < Place(n)
    BY <1>1, <2>3, ListedInOrder
  <2>5. /\ ToSet(FieldError.messages) = Said
        /\ Len(FieldError.messages) = Cardinality(Said)
    BY <1>1, <2>1, ListedInOrder
  <2>6. QED
    BY <2>1, <2>4, <2>5 DEF Place
<1>2. KitTypeOK => EveryErrorOnce
  BY <1>1 DEF KitTypeOK
<1>3. QED
  BY <1>2, TypeCorrect, PTL
-----------------------------------------------------------------------------
(* The chart.                                                               *)

\* Where the n-th row's and the n-th entry's series stand.
rowOf == InOrder(DrawnAt(payload))
entryOf == InOrder(DrawnAt(legendPayload))

LEMMA SeriesType ==
    ASSUME ChartTypeOK
    PROVE  Len(series) \in Nat /\ DOMAIN series = 1 .. Len(series)
<1> DEFINE T == [dataKey : STRING, name : STRING, tooltipType : STRING, legendType : STRING]
<1>1. series \in Seq(T)
  BY ChartAssumption DEF ChartTypeOK
<1> HIDE DEF T
<1>2. QED
  BY <1>1

\* Items that are listed for the series are drawn in the order of the series.
LEMMA DrawnInOrder ==
    ASSUME ChartTypeOK, NEW items, DOMAIN items = DOMAIN series
    PROVE  /\ Cardinality(DrawnAt(items)) \in Nat
           /\ DrawnAt(items) \subseteq DOMAIN series
           /\ \A n \in 1 .. Cardinality(DrawnAt(items)) : InOrder(DrawnAt(items))[n] \in DrawnAt(items)
           /\ Drawn(items) = [n \in 1 .. Cardinality(DrawnAt(items)) |-> items[InOrder(DrawnAt(items))[n]]]
<1>1. DrawnAt(items) \subseteq DOMAIN series
  BY DEF DrawnAt
<1>2. DrawnAt(items) \in SUBSET Nat /\ IsFiniteSet(DrawnAt(items))
  BY <1>1, SeriesType, PositionsFinite
<1>3. /\ Cardinality(DrawnAt(items)) \in Nat
      /\ \A n \in 1 .. Cardinality(DrawnAt(items)) : InOrder(DrawnAt(items))[n] \in DrawnAt(items)
  BY <1>2, InOrderFacts
<1>4. Drawn(items) = [n \in 1 .. Cardinality(DrawnAt(items)) |-> items[InOrder(DrawnAt(items))[n]]]
  BY Zenon DEF Drawn, MembersAt
<1>5. QED
  BY <1>1, <1>3, <1>4

\* The rows of the tooltip, and its top.
LEMMA TooltipRows ==
    ASSUME ChartTypeOK, active, payload # <<>>
    PROVE  /\ ChartTooltipContent.top = IF nestLabel THEN None ELSE tooltipLabel
           /\ DOMAIN ChartTooltipContent.rows = 1 .. Cardinality(DrawnAt(payload))
           /\ \A n \in DOMAIN ChartTooltipContent.rows :
                /\ rowOf[n] \in DOMAIN series
                /\ ChartTooltipContent.rows[n] = tooltipRow(tooltipItem(series[rowOf[n]]))
<1> DEFINE k == Cardinality(DrawnAt(payload))
           rows == [i \in DOMAIN Drawn(payload) |-> tooltipRow(Drawn(payload)[i])]
<1>1. payload = [i \in DOMAIN series |-> tooltipItem(series[i])]
  BY DEF payload
<1>2. DOMAIN payload = DOMAIN series
  BY <1>1
<1>3. /\ \A n \in 1 .. k : rowOf[n] \in DOMAIN series
      /\ Drawn(payload) = [n \in 1 .. k |-> payload[rowOf[n]]]
  BY <1>2, DrawnInOrder DEF rowOf
<1>4. DOMAIN rows = 1 .. k /\ \A n \in 1 .. k : rows[n] = tooltipRow(payload[rowOf[n]])
  BY <1>3
<1>5. \A n \in 1 .. k : payload[rowOf[n]] = tooltipItem(series[rowOf[n]])
  BY <1>1, <1>3
<1>6. ChartTooltipContent = [top |-> IF nestLabel THEN None ELSE tooltipLabel, rows |-> rows]
  BY DEF ChartTooltipContent
<1> HIDE DEF rows, k
<1>7. /\ ChartTooltipContent.top = IF nestLabel THEN None ELSE tooltipLabel
      /\ ChartTooltipContent.rows = rows
  BY <1>6
<1>8. QED
  BY <1>3, <1>4, <1>5, <1>7 DEF k

\* Without items there is nothing.
LEMMA NoRows ==
    ASSUME payload = <<>>
    PROVE  /\ RowsOf(ChartTooltipContent) = {} /\ ChartTooltipContent.top = None
           /\ tooltipLabel = None
<1>1. ChartTooltipContent.rows = <<>> /\ ChartTooltipContent.top = None
  BY DEF ChartTooltipContent
<1>2. tooltipLabel = None
  BY DEF tooltipLabel
<1>3. QED
  BY <1>1, <1>2 DEF RowsOf

\* The entries of the legend.
LEMMA LegendEntries ==
    ASSUME ChartTypeOK, NEW e \in DOMAIN ChartLegendContent
    PROVE  entryOf[e] \in DOMAIN series
           /\ ChartLegendContent[e] = legendEntry(legendItem(series[entryOf[e]]))
<1> DEFINE k == Cardinality(DrawnAt(legendPayload))
           drawn == Drawn(legendPayload)
<1>1. DOMAIN legendPayload = DOMAIN series
  BY DEF legendPayload
<1>2. /\ \A n \in 1 .. k : entryOf[n] \in DOMAIN series
      /\ drawn = [n \in 1 .. k |-> legendPayload[entryOf[n]]]
  BY <1>1, DrawnInOrder DEF entryOf
<1> HIDE DEF k, drawn
<1>3. ChartLegendContent = [i \in DOMAIN drawn |-> legendEntry(drawn[i])]
  BY Zenon DEF ChartLegendContent, drawn
<1>4. e \in 1 .. k /\ ChartLegendContent[e] = legendEntry(legendPayload[entryOf[e]])
  BY <1>2, <1>3
<1>5. QED
  BY <1>2, <1>4 DEF legendPayload

\* A series without a name of its own is looked up by its key in both, whatever the key is.
LEMMA SameConfig ==
    ASSUME ChartTypeOK, active, NEW i \in DOMAIN series, NEW s, s = series[i], Unnamed(s)
    PROVE  getPayloadConfigFromPayload(tooltipItem(s), s.dataKey)
             = getPayloadConfigFromPayload(legendItem(s), s.dataKey)
<1> DEFINE key == s.dataKey
           own == [name |-> key, dataKey |-> key]
           own2 == [value |-> key, dataKey |-> key]
<1>1. hovered \in Data
  BY DEF ChartTypeOK, active, NoDatum
<1>2. key \notin DOMAIN hovered.texts
  BY <1>1, DataAssumption DEF ChartTypeOK
<1>3. tooltipItem(s).own = own /\ tooltipItem(s).datum = hovered.texts
  BY DEF tooltipItem, Unnamed
<1>4. legendItem(s).own = own2 /\ legendItem(s).datum = <<>>
  BY DEF legendItem, Unnamed
<1>5. key \in DOMAIN own => own[key] = key
  OBVIOUS
<1>6. key \in DOMAIN own2 => own2[key] = key
  OBVIOUS
<1>7. key \notin DOMAIN <<>>
  OBVIOUS
<1> HIDE DEF key, own, own2
<1> DEFINE found == CASE key \in DOMAIN config -> config[key]
                      [] key \notin DOMAIN config /\ key \in DOMAIN config -> config[key]
                      [] OTHER -> [label |-> None, icon |-> FALSE]
<1>8. getPayloadConfigFromPayload(tooltipItem(s), key) = found
  BY <1>2, <1>3, <1>5 DEF getPayloadConfigFromPayload
<1>9. getPayloadConfigFromPayload(legendItem(s), key) = found
  BY <1>4, <1>6, <1>7 DEF getPayloadConfigFromPayload
<1>10. QED
  BY <1>8, <1>9 DEF key

\* A row and the legend's entry of a series without a name of its own say the same.
LEMMA RowSaysTheSame ==
    ASSUME ChartTypeOK, active, NEW r \in RowsOf(ChartTooltipContent), NEW e \in DOMAIN ChartLegendContent,
           rowOf[r] = entryOf[e], Unnamed(series[rowOf[r]]),
           props.nameKey = None, props.legendNameKey = None
    PROVE  /\ ChartTooltipContent.rows[r].name = Or(ChartLegendContent[e].name, series[rowOf[r]].dataKey)
           /\ ChartLegendContent[e].marker = "icon"
                <=> ChartTooltipContent.rows[r].marker = "icon" /\ ~props.hideIcon
<1>1. payload # <<>> /\ r \in DOMAIN ChartTooltipContent.rows /\ ChartTooltipContent.rows[r].drawn = "row"
  BY NoRows DEF RowsOf
<1>2. PICK s : s = series[rowOf[r]]
  OBVIOUS
<1>3. /\ rowOf[r] \in DOMAIN series /\ Unnamed(s)
      /\ ChartTooltipContent.rows[r] = tooltipRow(tooltipItem(s))
      /\ ChartLegendContent[e] = legendEntry(legendItem(s))
  BY <1>1, <1>2, TooltipRows, LegendEntries
<1>4. PICK found : found = getPayloadConfigFromPayload(legendItem(s), s.dataKey)
  OBVIOUS
<1>5. found = getPayloadConfigFromPayload(tooltipItem(s), s.dataKey)
  BY <1>2, <1>3, <1>4, SameConfig
<1>6. legendEntry(legendItem(s)) = [marker |-> IF found.icon /\ ~props.hideIcon THEN "icon" ELSE "colour",
                                    name |-> found.label]
  <2>1. legendItem(s).dataKey = s.dataKey
    BY DEF legendItem
  <2>2. Or(props.legendNameKey, legendItem(s).dataKey) = s.dataKey
    BY <2>1 DEF Or
  <2>3. QED
    BY <1>4, <2>2 DEF legendEntry
<1>7. tooltipItem(s).name = s.dataKey /\ tooltipItem(s).dataKey = s.dataKey
  BY <1>3 DEF tooltipItem, Unnamed
<1>8. Or(props.nameKey, Or(tooltipItem(s).name, tooltipItem(s).dataKey)) = s.dataKey
  BY <1>7 DEF Or
<1>9. /\ tooltipRow(tooltipItem(s)).name = Or(found.label, s.dataKey)
      /\ tooltipRow(tooltipItem(s)).marker =
            IF found.icon THEN "icon" ELSE IF props.hideIndicator THEN None ELSE props.indicator
  <2>1. ~(props.formatter /\ tooltipItem(s).value /\ tooltipItem(s).name # "")
    <3>1. tooltipRow(tooltipItem(s)).drawn = "row"
      BY <1>1, <1>3
    <3>2. ASSUME NEW item, props.formatter /\ item.value /\ item.name # ""
          PROVE  tooltipRow(item).drawn = "formatter"
      BY <3>2 DEF tooltipRow
    <3>3. QED
      BY <3>1, <3>2
  <2>2. QED
    BY <1>5, <1>7, <1>8, <2>1 DEF tooltipRow
<1>10. props.indicator # "icon"
  BY ChartAssumption DEF ChartTypeOK
<1>11. QED
  BY <1>2, <1>3, <1>6, <1>9, <1>10 DEF None

\* The label is written once, unless there is none or it is lost with the only row.
LEMMA LabelOnce ==
    ASSUME ChartTypeOK, active
    PROVE  Times(ChartTooltipContent.top # None)
             + Cardinality({r \in RowsOf(ChartTooltipContent) :
                              ChartTooltipContent.rows[r].above # None})
           = Times(tooltipLabel # None /\ ~(nestLabel /\ RowsOf(ChartTooltipContent) = {}))
<1> DEFINE above == {r \in RowsOf(ChartTooltipContent) : ChartTooltipContent.rows[r].above # None}
<1>1. CASE payload = <<>>
  <2>1. /\ above = {} /\ ~(ChartTooltipContent.top # None)
        /\ ~(tooltipLabel # None /\ ~(nestLabel /\ RowsOf(ChartTooltipContent) = {}))
    BY <1>1, NoRows
  <2>2. Cardinality(above) = 0
    BY <2>1, FS_EmptySet
  <2> HIDE DEF above
  <2>3. QED
    BY <2>1, <2>2 DEF Times, above
<1>2. CASE payload # <<>>
  <2>1. \A r \in RowsOf(ChartTooltipContent) :
            ChartTooltipContent.rows[r].above = IF nestLabel THEN tooltipLabel ELSE None
    <3>1. ASSUME NEW item, tooltipRow(item).drawn = "row"
          PROVE  tooltipRow(item).above = IF nestLabel THEN tooltipLabel ELSE None
      <4>1. ~(props.formatter /\ item.value /\ item.name # "")
        BY <3>1 DEF tooltipRow
      <4>2. QED
        BY <4>1 DEF tooltipRow
    <3>2. QED
      BY <1>2, <3>1, TooltipRows DEF RowsOf
  <2>2. ChartTooltipContent.top = IF nestLabel THEN None ELSE tooltipLabel
    BY <1>2, TooltipRows
  <2>3. CASE ~nestLabel
    <3>1. above = {} /\ ChartTooltipContent.top = tooltipLabel
      BY <2>1, <2>2, <2>3
    <3>2. Cardinality(above) = 0
      BY <3>1, FS_EmptySet
    <3> HIDE DEF above
    <3>3. QED
      BY <2>3, <3>1, <3>2 DEF Times, above
  <2>4. CASE nestLabel
    <3>1. RowsOf(ChartTooltipContent) \subseteq {1}
      <4>1. DOMAIN payload = DOMAIN series /\ payload = [i \in DOMAIN series |-> tooltipItem(series[i])]
        BY DEF payload
      <4>2. Len(payload) = 1
        BY <2>4 DEF nestLabel
      <4>3. DOMAIN series = {1}
        BY <4>1, <4>2, SeriesType
      <4>4. DrawnAt(payload) \subseteq {1} /\ Cardinality(DrawnAt(payload)) \in Nat
        BY <4>1, <4>3, DrawnInOrder
      <4>5. Cardinality(DrawnAt(payload)) <= 1
        <5>1. DrawnAt(payload) = {} \/ DrawnAt(payload) = {1}
          BY <4>4
        <5>2. QED
          BY <5>1, FS_EmptySet, FS_Singleton
      <4>6. 1 .. Cardinality(DrawnAt(payload)) \subseteq {1}
        BY <4>4, <4>5
      <4>7. QED
        BY <1>2, <4>6, TooltipRows DEF RowsOf
    <3>2. ~(ChartTooltipContent.top # None)
      BY <2>2, <2>4
    <3>3. CASE RowsOf(ChartTooltipContent) = {} \/ tooltipLabel = None
      <4>1. above = {}
        BY <2>1, <2>4, <3>3
      <4>2. Cardinality(above) = 0
        BY <4>1, FS_EmptySet
      <4>3. ~(tooltipLabel # None /\ ~(nestLabel /\ RowsOf(ChartTooltipContent) = {}))
        BY <2>4, <3>3
      <4> HIDE DEF above
      <4>4. QED
        BY <3>2, <4>2, <4>3 DEF Times, above
    <3>4. CASE RowsOf(ChartTooltipContent) # {} /\ tooltipLabel # None
      <4>1. above = {1}
        BY <2>1, <2>4, <3>1, <3>4
      <4>2. Cardinality(above) = 1
        BY <4>1, FS_Singleton
      <4>3. tooltipLabel # None /\ ~(nestLabel /\ RowsOf(ChartTooltipContent) = {})
        BY <3>4
      <4> HIDE DEF above
      <4>4. QED
        BY <3>2, <4>2, <4>3 DEF Times, above
    <3>5. QED
      BY <3>3, <3>4
  <2>5. QED
    BY <2>3, <2>4
<1>3. QED
  BY <1>1, <1>2

\* However a chart is configured, whatever keys its series have and whatever the legend
\* hides, its tooltip and its legend give an unnamed series one name and one icon, and the
\* label is there once, or not at all with the only row it goes into.
THEOREM ChartsReadAsConfigured == Spec => []ChartReadsAsConfigured
<1>1. ASSUME ChartTypeOK, active
      PROVE  ChartReadsAsConfigured
  <2>1. ASSUME NEW r \in RowsOf(ChartTooltipContent), NEW e \in DOMAIN ChartLegendContent,
               props.nameKey = None, props.legendNameKey = None,
               rowOf[r] = entryOf[e], Unnamed(series[rowOf[r]])
        PROVE  /\ ChartTooltipContent.rows[r].name
                    = Or(ChartLegendContent[e].name, series[rowOf[r]].dataKey)
               /\ ChartLegendContent[e].marker = "icon"
                    <=> ChartTooltipContent.rows[r].marker = "icon" /\ ~props.hideIcon
    BY <1>1, <2>1, RowSaysTheSame
  <2>2. QED
    BY <1>1, <2>1, LabelOnce, Zenon DEF ChartReadsAsConfigured, rowOf, entryOf
<1>2. KitTypeOK => ChartReadsAsConfigured
  <2>1. ~active => ChartReadsAsConfigured
    BY DEF ChartReadsAsConfigured
  <2>2. QED
    BY <1>1, <2>1 DEF KitTypeOK
<1>3. QED
  BY <1>2, TypeCorrect, PTL
=============================================================================
