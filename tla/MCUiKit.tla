------------------------------- MODULE MCUiKit -------------------------------
(* Small instances of UiKit for TLC.                                         *)
EXTENDS UiKit

Entry(label, icon) == [label |-> label, icon |-> icon]
Visits == Entry("Visits", FALSE)
Desktop == Entry("Desktop", TRUE)
Value == Entry("Value", FALSE)
Chrome == Entry("Chrome", FALSE)
Unlabelled == Entry(None, FALSE)

\* "value" is a field's name too; "chrome" is a text of the data.
SomeConfigs ==
    {[desktop |-> Desktop, value |-> Value, visits |-> Visits],
     [desktop |-> Desktop, value |-> Unlabelled],
     [desktop |-> Desktop, chrome |-> Chrome],
     [value |-> Value]}

One(dataKey, name, tooltipType, legendType) ==
    [dataKey |-> dataKey, name |-> name, tooltipType |-> tooltipType, legendType |-> legendType]
SomeSeries ==
    LET Some == {One("desktop", None, "bar", "bar"), One("value", None, "bar", "bar"),
                 One("value", "visits", "bar", "bar"), One("desktop", "", "bar", "bar"),
                 One("desktop", None, "none", "bar"), One("value", None, "bar", "none")}
    IN  {<<s>> : s \in Some} \cup {<<s, t>> : s \in Some, t \in Some}

SomeProps ==
    [hideLabel : {FALSE}, hideIndicator : {FALSE}, indicator : {"dot", "line"},
     formatter : BOOLEAN, labelFormatter : BOOLEAN, nameKey : {None, "browser"},
     legendNameKey : {None, "browser"}, labelKey : {None, "visits"}, hideIcon : BOOLEAN]

SomeData ==
    {[label |-> "visits", texts |-> [browser |-> "chrome"], values |-> {"desktop", "value"}],
     [label |-> "January", texts |-> [browser |-> "safari"], values |-> {"value"}],
     [label |-> Numeric, texts |-> <<>>, values |-> {"desktop"}]}
=============================================================================
