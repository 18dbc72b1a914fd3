CONSTANTS
    NumJobs = 4
    MaxFiles = 3
    Pill = Pill
    NoJob = NoJob
    SpaceNodes = 6
    RootKinds = {"unit"}
    CallNodes = 5
    Names = {1, 2}
    MaxRow = 2
    MaxTokens = 5
    Langs = {"cpp", "java", "javascript", "python", "rust", "typescript"}
    MaxNodes = 4
    MemoryNodes = 6
    ConditionNodes = 7
    ClassNodes = 5
    MaxDefinitions = 2
    Signatures = {1, 2}
SPECIFICATION MetricsSpec
INVARIANTS EachFileOnce PillsComeLast OkIsComplete OpenEnclosesCurrent MetricsAddUp ReportIsComplete OnlySureRecursion RowsAreSorted EachStructureCharged BusiestStatement EachConditionOnce MembersAreOwn
PROPERTIES RunnerTerminates
CHECK_DEADLOCK FALSE
