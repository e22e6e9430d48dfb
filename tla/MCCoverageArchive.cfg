CONSTANTS
    NumCommits = 2
    NumFiles = 2
    WorkDirs = {"home"}
    MaxRuns = 1
SPECIFICATION Spec
INVARIANT ArchiveIsFound
CHECK_DEADLOCK FALSE
