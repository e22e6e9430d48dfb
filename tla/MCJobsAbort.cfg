SPECIFICATION Spec
CONSTANTS
    j1 = j1
    j2 = j2
    b1 = b1
    NoJob = NoJob
    Jobs = {j1, j2}
    Builds = {b1}
    BuildOf <- MCBuildOf
    NucleusJobs = {j1}
    Aborts = {b1}
CHECK_DEADLOCK FALSE
PROPERTIES
    AbortKillsContainer
