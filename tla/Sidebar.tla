------------------------------- MODULE Sidebar -------------------------------
(***************************************************************************)
(* The sidebar of the web UI kit (sidebar.tsx, use-mobile.ts): one toggle    *)
(* that opens a sheet on a narrow window and folds a column on a wide one,   *)
(* reached by a button, a rail and a keyboard shortcut.                      *)
(*                                                                          *)
(* A handler acts on what it closed over: a button on the last render, the   *)
(* shortcut's listener on the render its effect ran after.  A click, a key    *)
(* or the media query's event is followed by the render and the effects at   *)
(* once; what the first effects set is rendered later, and its effects run    *)
(* later still.  Widths are whole pixels: the media query and innerWidth      *)
(* then agree on what is narrow.                                             *)
(***************************************************************************)
EXTENDS Naturals

CONSTANT MaxResizes     \* the window crosses the breakpoint at most so often

ASSUME SidebarAssumption == MaxResizes \in Nat

VARIABLES
    use,            \* how the application uses it: its kind, and who keeps "open"
    narrow,         \* window.innerWidth < MOBILE_BREAKPOINT
    resizes,
    matches,        \* what the media query last reported
    effects,        \* the first render's effects have run
    isMobile, open, openMobile,     \* as rendered
    queuedMobile,   \* what useIsMobile has set
    cookie,         \* the values "sidebar_state" has: none or one
    listener        \* what the shortcut's listener, if there is one, closed over

sidebar == <<use, narrow, resizes, matches, effects, isMobile, open,
             openMobile, queuedMobile, cookie, listener>>

Uses == [collapsible: {"offcanvas", "icon", "none"}, owner: {"self", "parent"}]

Closure == [isMobile |-> isMobile, open |-> open]

\* What the user sees of it: nothing, the folded rail, the column or the sheet.
\* The column's element is hidden by its style on a narrow window.
shown ==
    CASE use.collapsible = "none" -> "column"
      [] use.collapsible # "none" /\ isMobile -> IF openMobile THEN "sheet" ELSE "nothing"
      [] use.collapsible # "none" /\ ~isMobile /\ narrow -> "nothing"
      [] OTHER -> IF open THEN "column"
                  ELSE IF use.collapsible = "icon" THEN "rail" ELSE "nothing"

\* A menu button's tooltip stands for the name that the rail has no room for.
tooltipHidden == open \/ isMobile

SidebarInit ==
    /\ use \in Uses
    /\ narrow \in BOOLEAN
    /\ open \in BOOLEAN
    /\ matches = FALSE
    /\ effects = FALSE
    /\ isMobile = FALSE
    /\ queuedMobile = FALSE
    /\ openMobile = FALSE
    /\ resizes = 0
    /\ cookie = {}
    /\ listener = {}

-----------------------------------------------------------------------------
(* What a handler may ask for: the state it leaves, from the state s that    *)
(* those before it in the same event left.                                   *)

Now == [open |-> open, sheet |-> openMobile, cookie |-> cookie]

\* A parent that keeps "open" may refuse the change; the cookie is set anyway.
setOpen(s, value) ==
    {[s EXCEPT !.open = o, !.cookie = {value}] :
        o \in IF use.owner = "self" THEN {value} ELSE {value, s.open}}

\* A slip: the toggle does not ask how wide the window is.
toggleSidebar_Wide(s, closure) == setOpen(s, ~closure.open)

\* The sheet's state is toggled from its latest value, open from the closure's.
toggleSidebar(s, closure) ==
    IF closure.isMobile THEN {[s EXCEPT !.sheet = ~@]} ELSE setOpen(s, ~closure.open)

\* The event ends: what was set is rendered and the effects run, those of the
\* first render included.  When nothing was set there is no render.
Ends(s) ==
    /\ open' = s.open
    /\ openMobile' = s.sheet
    /\ cookie' = s.cookie
    /\ IF s.open = open /\ s.sheet = openMobile
       THEN UNCHANGED <<matches, effects, isMobile, queuedMobile, listener>>
       ELSE /\ effects' = TRUE
            /\ matches' = (IF effects THEN matches ELSE narrow)
            /\ queuedMobile' = (IF effects THEN queuedMobile ELSE narrow)
            /\ isMobile' = queuedMobile'
            /\ listener' = {[isMobile |-> isMobile', open |-> open']}
    /\ UNCHANGED <<use, narrow, resizes>>

\* The trigger: the application's own onClick, then the toggle.
Trigger(onClick) ==
    \E s \in CASE onClick = "nothing" -> {Now}
               [] onClick = "close" -> setOpen(Now, FALSE)
               [] onClick = "toggle" -> toggleSidebar(Now, Closure) :
        \E t \in toggleSidebar(s, Closure) : Ends(t)

\* The rail is drawn in the sidebar, beside the folded column too.
Rail ==
    /\ use.collapsible = "none" \/ (IF isMobile THEN openMobile ELSE ~narrow)
    /\ \E s \in toggleSidebar(Now, Closure) : Ends(s)

Shortcut ==
    \E closure \in listener :
        \E s \in toggleSidebar(Now, closure) : Ends(s)

\* The sheet is dismissed from outside or with its own button.
Dismiss ==
    /\ shown = "sheet"
    /\ Ends([Now EXCEPT !.sheet = FALSE])

-----------------------------------------------------------------------------
(* The window, and the effects that follow it.                               *)

Resize ==
    /\ resizes < MaxResizes
    /\ resizes' = resizes + 1
    /\ narrow' = ~narrow
    /\ UNCHANGED <<use, matches, effects, isMobile, open, openMobile, queuedMobile, cookie, listener>>

\* A slip: useIsMobile waits for the first change to look at the width.
FirstEffects_NoRead ==
    /\ ~effects
    /\ effects' = TRUE
    /\ matches' = narrow
    /\ listener' = {Closure}
    /\ UNCHANGED <<use, narrow, resizes, isMobile, open, openMobile, queuedMobile, cookie>>

FirstEffects ==
    /\ ~effects
    /\ effects' = TRUE
    /\ matches' = narrow
    /\ queuedMobile' = narrow
    /\ listener' = {Closure}
    /\ UNCHANGED <<use, narrow, resizes, isMobile, open, openMobile, cookie>>

RenderSidebar ==
    /\ isMobile # queuedMobile
    /\ isMobile' = queuedMobile
    /\ UNCHANGED <<use, narrow, resizes, matches, effects, open, openMobile, queuedMobile, cookie, listener>>

\* The listener is replaced when the toggle it closes over is another.
Effects ==
    /\ effects
    /\ listener # {Closure}
    /\ listener' = {Closure}
    /\ UNCHANGED <<use, narrow, resizes, matches, effects, isMobile, open, openMobile, queuedMobile, cookie>>

Change ==
    /\ effects
    /\ matches # narrow
    /\ matches' = narrow
    /\ queuedMobile' = narrow
    /\ isMobile' = narrow
    /\ listener' = {[isMobile |-> narrow, open |-> open]}
    /\ UNCHANGED <<use, narrow, resizes, effects, open, openMobile, cookie>>

Toggled == Trigger("nothing") \/ Rail \/ Shortcut

SidebarNext ==
    \/ \E onClick \in {"nothing", "close", "toggle"} : Trigger(onClick)
    \/ Rail
    \/ Shortcut
    \/ Dismiss
    \/ Resize
    \/ FirstEffects
    \/ RenderSidebar
    \/ Effects
    \/ Change

\* Effects, renders and the media query's event come by themselves; the user
\* and the window may stop.
SidebarFairness ==
    /\ WF_sidebar(FirstEffects)
    /\ WF_sidebar(RenderSidebar)
    /\ WF_sidebar(Effects)
    /\ WF_sidebar(Change)

-----------------------------------------------------------------------------
Settled ==
    effects /\ queuedMobile = narrow /\ isMobile = narrow /\ listener = {Closure}

\* However stale what a toggle closed over, it turns over exactly one of the two layouts'
\* states, from its present value, and the cookie follows the wide one: a shortcut may act
\* on an earlier layout, never on an earlier value.  Once the width is known to the sidebar
\* and to the shortcut, whichever of the three toggles is used shows or hides something,
\* and the folded rail has its tooltips.
ToggleIsVisible ==
    [][ (use.owner = "self" /\ Toggled) =>
            /\ openMobile' = IF open' = open THEN ~openMobile ELSE openMobile
            /\ cookie' = IF open' = open THEN cookie ELSE {open'}
            /\ (Settled /\ use.collapsible # "none") =>
                /\ shown' # shown
                /\ shown' = "rail" => ~tooltipHidden'
                /\ open' # open <=> ~narrow ]_sidebar

\* When the window stops changing, the sidebar takes the layout of its width
\* and the shortcut the toggle of that layout, and both stay so.
SidebarSettles == <>[]Settled
=============================================================================
