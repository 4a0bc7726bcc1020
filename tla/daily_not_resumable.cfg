SPECIFICATION RerunSpec
CONSTANTS
    Processes = {p1, p2}
    Calendar = calendar
    NoProcess = NoProcess
    Modes = {close}
    Jobs = {daily}
    Required = {daily}
    ExpectRows = {daily}
    Answers = {"rows", "error"}
    CalendarAnswers = {"rows", "empty", "error"}
    MaxForced = 0
    MaxFailures = 0
PROPERTY FailedIsResumable
CHECK_DEADLOCK FALSE
