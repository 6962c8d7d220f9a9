SPECIFICATION ScheduleSpec
CONSTANTS
    c1 = c1
    c2 = c2
    MaxTime = 3
    Callers <- MCCallers
    Courses <- MCCourses
INVARIANT ScheduleAgrees
PROPERTIES StopStands DueIsTaken
CHECK_DEADLOCK FALSE
