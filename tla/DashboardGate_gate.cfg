SPECIFICATION Spec
CONSTANTS
    PRs = {a, b, c}
    RENDERS <- TwoDashboards
    RowCount <- Counts
    Heights = {1, 2}
    FirstHeight = 1
    Encoded <- EncodedAs
    MaxEdits = 1
SYMMETRY PullRequests
INVARIANTS TypeOK OneRendering MainInStep
CHECK_DEADLOCK FALSE
