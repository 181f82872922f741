\* Two pull requests, timelines of one event a page, and what may happen while
\* they are read.  It stops when the run of pages.yml has deployed.
CHECK_DEADLOCK FALSE
SPECIFICATION Spec
CONSTANTS
    Never = Never
    PRs = {1, 2}
    UsedLabels = {"ci-failed", "awaiting-author", "awaiting-review"}
    PageSize = 1
    EPOCH = 0
    WINDOW = 1
    BASELINE = 1
    MIN_COMPLETIONS = 1
    GROWTH_HOURS = 20
    FALLBACKS = 0
    MaxTime = 2
    MaxMoves = 4
    MaxDisturbances = 2
INVARIANTS
    AnswersAgree
    DepthIsExplained
    FetchNeverAccuses
    StatsDescribeCharts
    FallIsReal
