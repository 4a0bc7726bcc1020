SPECIFICATION FairSpec
CONSTANTS
    Processes = {p1, p2}
    Calendar = calendar
    NoProcess = NoProcess
    Modes = {close}
    Jobs = {daily, dividend}
    Required = {daily}
    ExpectRows = {daily}
    Answers = {"rows", "error"}
    CalendarAnswers = {"rows", "error"}
    MaxForced = 1
    MaxFailures = 1
INVARIANTS OneRunAtATime ReleasesAreSound CompletedIsReleased RepublicationHasACause
PROPERTY UndisturbedRunCompletes
CHECK_DEADLOCK FALSE
