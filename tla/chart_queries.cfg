\* Two repositories, three charts, integers of five bits.
CONSTANTS
    MaxInt = 15
    NoNumber = NoNumber
    Requests <- SomeRequests
    FirstPages <- SomePages
    Catalogs <- Indexes
    MaxCharts = 2
    Scenes <- SomeScenes
    MaxChanges = 2
SPECIFICATION Spec
INVARIANTS TypeOK PagesCover AdditionsHideNothing AnswerCurrent OnlyWrapPanics
CHECK_DEADLOCK FALSE
