\* Each component alone on the page.
SPECIFICATION FairSpec
CONSTANTS
    MaxResizes = 2
    MaxSlides = 3
    MaxChanges = 2
    Configs <- SomeConfigs
    Series <- SomeSeries
    Props <- SomeProps
    Data <- SomeData
    Messages = {"Too short", "Not a number"}
    MaxErrors = 4
INVARIANTS
    EveryErrorOnce
    ChartReadsAsConfigured
PROPERTIES
    ToggleIsVisible
    SidebarSettles
    ButtonsCatchUp
