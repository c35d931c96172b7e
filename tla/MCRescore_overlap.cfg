CONSTANTS
    Plays = {1, 2}
    Courses = {1}
    CourseOf <- MCOneCourse
    Passes = {w1, w2}
    TxMax = 1
    Delay = 2
    Overlap = 2
    PageMax = 2
    Budget = 2
    MaxClock = 4
    MaxFaults = 0
SPECIFICATION Spec
INVARIANTS AllRescored
