CONSTANTS
    Plays = {1, 2, 3}
    Courses = {1}
    CourseOf <- MCOneCourse
    Passes = {w1}
    TxMax = 1
    Delay = 2
    Overlap = 2
    PageMax = 2
    Budget = 2
    MaxClock = 4
    MaxFaults = 1
SPECIFICATION Spec
INVARIANTS TypeOK AllRescored NothingSkipped
PROPERTIES EveryCourseCloses
