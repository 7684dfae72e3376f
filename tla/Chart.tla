-------------------------------- MODULE Chart --------------------------------
(***************************************************************************)
(* The chart of the web UI kit (chart.tsx): what its tooltip and its legend   *)
(* show of the items the charting library hands them, by the configuration   *)
(* of the series.                                                             *)
(*                                                                          *)
(* Of an item's own fields and of its datum only the string-valued ones       *)
(* count; they are functions from field to string.                            *)
(***************************************************************************)
EXTENDS InOrder, Sequences

CONSTANTS
    Configs,        \* series key -> [label, icon]
    Series,         \* what is drawn: sequences of [dataKey, name, tooltipType, legendType]
    Props           \* what the application asks of the tooltip and of the legend

None == "none"
Numeric == "numeric"    \* an axis label that is not a string

ASSUME ChartAssumption ==
    /\ Series \subseteq
        Seq([dataKey : STRING, name : STRING, tooltipType : STRING, legendType : STRING])
    /\ \A p \in Props : p.indicator \in {"line", "dot", "dashed"}

NoDatum == [label |-> None, texts |-> <<>>, values |-> {}]

VARIABLES config, series, props, hovered    \* hovered: the datum under the pointer, or NoDatum

chart == <<config, series, props, hovered>>

Or(a, b) == IF a # None THEN a ELSE b

\* The series' configuration an item stands for; one with nothing in it for undefined.
getPayloadConfigFromPayload(item, key) ==
    LET configLabelKey ==
            CASE key \in DOMAIN item.own -> item.own[key]
              [] key \notin DOMAIN item.own /\ key \in DOMAIN item.datum -> item.datum[key]
              [] OTHER -> key
    IN  CASE configLabelKey \in DOMAIN config -> config[configLabelKey]
          [] configLabelKey \notin DOMAIN config /\ key \in DOMAIN config -> config[key]
          [] OTHER -> [label |-> None, icon |-> FALSE]

\* The library: one item a series, unnamed series under their key; a datum may have no
\* value for it.
tooltipItem(s) ==
    [name |-> Or(s.name, s.dataKey), dataKey |-> s.dataKey, type |-> s.tooltipType,
     value |-> s.dataKey \in hovered.values,
     own |-> [name |-> Or(s.name, s.dataKey), dataKey |-> s.dataKey], datum |-> hovered.texts]
legendItem(s) ==
    [dataKey |-> s.dataKey, type |-> s.legendType,
     own |-> [value |-> Or(s.name, s.dataKey), dataKey |-> s.dataKey], datum |-> <<>>]

active == hovered.label # None
payload == IF active THEN [i \in DOMAIN series |-> tooltipItem(series[i])] ELSE <<>>
legendPayload == [i \in DOMAIN series |-> legendItem(series[i])]

\* The items that are not of the type "none".
DrawnAt(items) == {i \in DOMAIN items : items[i].type # "none"}
Drawn(items) == MembersAt(items, DrawnAt(items))

-----------------------------------------------------------------------------
\* What the label would say: a string under the configuration of that name, if there is
\* one; anything else, or with a labelKey, what the first item's configuration says.
labelValue ==
    LET item == payload[1]
    IN  IF props.labelKey = None /\ hovered.label # Numeric
        THEN IF hovered.label \in DOMAIN config
             THEN Or(config[hovered.label].label, hovered.label) ELSE hovered.label
        ELSE getPayloadConfigFromPayload(item, Or(props.labelKey, item.dataKey)).label

\* The formatter of the label is asked whatever it would say; without one an empty label
\* is none.
tooltipLabel ==
    IF props.hideLabel \/ payload = <<>> THEN None
    ELSE IF props.labelFormatter THEN "formatted"
    ELSE IF labelValue = "" THEN None ELSE labelValue

\* A single row takes the label beside its line.
nestLabel == Len(payload) = 1 /\ props.indicator # "dot"

\* The formatter draws the rows that have a value and a name.
tooltipRow(item) ==
    LET itemConfig ==
            getPayloadConfigFromPayload(item, Or(props.nameKey, Or(item.name, item.dataKey)))
    IN  IF props.formatter /\ item.value /\ item.name # ""
        THEN [drawn |-> "formatter"]
        ELSE [drawn |-> "row",
              marker |-> IF itemConfig.icon THEN "icon"
                         ELSE IF props.hideIndicator THEN None ELSE props.indicator,
              above |-> IF nestLabel THEN tooltipLabel ELSE None,
              name |-> Or(itemConfig.label, item.name)]

\* A slip: the label over the rows does not make way for the nested one.
ChartTooltipContent_Twice ==
    IF payload = <<>>
    THEN [top |-> None, rows |-> <<>>]
    ELSE [top |-> tooltipLabel,
          rows |-> LET drawn == Drawn(payload)
                   IN  [i \in DOMAIN drawn |-> tooltipRow(drawn[i])]]

ChartTooltipContent ==
    IF payload = <<>>
    THEN [top |-> None, rows |-> <<>>]
    ELSE [top |-> IF nestLabel THEN None ELSE tooltipLabel,
          rows |-> LET drawn == Drawn(payload)
                   IN  [i \in DOMAIN drawn |-> tooltipRow(drawn[i])]]

\* The legend has a nameKey of its own.
legendEntry(item) ==
    LET itemConfig ==
            getPayloadConfigFromPayload(item, Or(props.legendNameKey, item.dataKey))
    IN  [marker |-> IF itemConfig.icon /\ ~props.hideIcon THEN "icon" ELSE "colour",
         name |-> itemConfig.label]

ChartLegendContent ==
    LET drawn == Drawn(legendPayload)
    IN  [i \in DOMAIN drawn |-> legendEntry(drawn[i])]

ChartInit ==
    /\ config \in Configs
    /\ series \in Series
    /\ props \in Props
    /\ hovered = NoDatum

\* The pointer comes over a datum, over another, or leaves.
Hover(data) == hovered' \in data \cup {NoDatum} /\ UNCHANGED <<config, series, props>>
-----------------------------------------------------------------------------
Times(b) == IF b THEN 1 ELSE 0
RowsOf(tooltip) == {i \in DOMAIN tooltip.rows : tooltip.rows[i].drawn = "row"}
Unnamed(s) == Or(s.name, s.dataKey) = s.dataKey

\* Tooltip and legend say the same of a series that has no name of its own and that both
\* look up by its key: the name is the legend's, or the key where the legend has none, and
\* the icon is the same unless the legend hides its icons.  The tooltip's label is written
\* once; it is lost only with the single row that it goes into, when that row is not drawn
\* or drawn by a formatter.
ChartReadsAsConfigured ==
    LET tooltip == ChartTooltipContent
        legend == ChartLegendContent
        rowOf == InOrder(DrawnAt(payload))
        entryOf == InOrder(DrawnAt(legendPayload))
        above == {r \in RowsOf(tooltip) : tooltip.rows[r].above # None}
        lost == nestLabel /\ RowsOf(tooltip) = {}
    IN  active =>
        /\ (props.nameKey = None /\ props.legendNameKey = None) =>
            \A r \in RowsOf(tooltip), e \in DOMAIN legend :
                (rowOf[r] = entryOf[e] /\ Unnamed(series[rowOf[r]])) =>
                    /\ tooltip.rows[r].name = Or(legend[e].name, series[rowOf[r]].dataKey)
                    /\ legend[e].marker = "icon"
                        <=> tooltip.rows[r].marker = "icon" /\ ~props.hideIcon
        /\ Times(tooltip.top # None) + Cardinality(above)
            = Times(tooltipLabel # None /\ ~lost)
=============================================================================
