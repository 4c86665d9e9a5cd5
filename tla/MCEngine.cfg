SPECIFICATION EngineSpec
CONSTANTS
    Tasks <- MCTasks
    Values <- MCValues
    MaxEval = 2
    SplitCount = 2
    Regressors = {"r1", "r2"}
    PipeSize = 4
    Names = {"t1", "t2"}
    NewName = "t3"
    Iterations <- MCIterations
    AskedFor <- MCAskedFor
    FilePage = 2
    CsvPage = 2
    CsvLines = {0, 1, 2, 3}
    Shipped <- MCShipped
    Trainings <- MCTrainings
    MaxJobs = 2
    Types <- MCTypes
    Apps <- MCApps
    SampleCounts = {2, 3}
INVARIANTS CoversSpace BestOfAll DescentIsBest RankInputsExact RankSound FileReaderExact AnswerFounded
PROPERTIES SearchEnds
CHECK_DEADLOCK FALSE
