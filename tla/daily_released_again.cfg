SPECIFICATION Spec
CONSTANTS
    Processes = {p1, p2}
    Calendar = calendar
    NoProcess = NoProcess
    Modes = {close}
    Jobs = {daily}
    Required = {daily}
    ExpectRows = {daily}
    Answers = {"rows", "empty", "wrong", "error"}
    CalendarAnswers = {"rows", "error"}
    MaxForced = 0
    MaxFailures = 0
PROPERTY CompletedIsNotReleasedAgain
CHECK_DEADLOCK FALSE
