-------------------------------- MODULE UiKit --------------------------------
(***************************************************************************)
(* A page with one of the kit's components that decide what to show: the     *)
(* sidebar, the carousel, the chart or a form field.                         *)
(***************************************************************************)
EXTENDS Sidebar, Carousel, Chart, Form

CONSTANT Data       \* what the chart's pointer can come over: [label, texts]

\* A chart draws numbers: under a series' key a datum has no text.
ASSUME DataAssumption ==
    \A datum \in Data, drawn \in Series : \A i \in DOMAIN drawn :
        drawn[i].dataKey \notin DOMAIN datum.texts

VARIABLE page

kit == <<page, sidebar, carousel, chart, form>>

-----------------------------------------------------------------------------
\* A sidebar and a carousel that nobody uses.
IdleSidebar ==
    /\ use = [collapsible |-> "none", owner |-> "self"]
    /\ narrow = FALSE /\ matches = FALSE /\ isMobile = FALSE /\ queuedMobile = FALSE
    /\ open = TRUE /\ openMobile = FALSE
    /\ effects = TRUE
    /\ resizes = 0
    /\ cookie = {}
    /\ listener = {Closure}

IdleCarousel == CarouselInit /\ ~loop /\ slides = 1

AnyOf(S) == CHOOSE e \in S : TRUE

IdleChart ==
    /\ ChartInit
    /\ config = AnyOf(Configs)
    /\ series = AnyOf(Series)
    /\ props = AnyOf(Props)

IdleForm == FormInit /\ ~children

UiInit ==
    \/ page = "sidebar" /\ SidebarInit /\ IdleCarousel /\ IdleChart /\ IdleForm
    \/ page = "carousel" /\ IdleSidebar /\ CarouselInit /\ IdleChart /\ IdleForm
    \/ page = "chart" /\ IdleSidebar /\ IdleCarousel /\ ChartInit /\ IdleForm
    \/ page = "form" /\ IdleSidebar /\ IdleCarousel /\ IdleChart /\ FormInit

UiNext ==
    \/ page = "sidebar" /\ SidebarNext /\ UNCHANGED <<page, carousel, chart, form>>
    \/ page = "carousel" /\ CarouselSteps /\ UNCHANGED <<page, sidebar, chart, form>>
    \/ page = "chart" /\ Hover(Data) /\ UNCHANGED <<page, sidebar, carousel, form>>
    \/ page = "form" /\ Validate /\ UNCHANGED <<page, sidebar, carousel, chart>>

Spec == UiInit /\ [][UiNext]_kit
FairSpec == Spec /\ SidebarFairness /\ CarouselFairness
=============================================================================
