SPECIFICATION FairSpec
CONSTANTS
    Tasks <- FourTasks
    Graphs <- GraphsOfFour
    Modes <- ErrorModes
INVARIANTS TypeOK OrderKept AggregateComplete NothingLeftOpen
PROPERTIES NoStartAfterError RunSpec Terminates
