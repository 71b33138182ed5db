SPECIFICATION Spec
CONSTANTS
    Rows <- MCRows
    Dashboards <- MCDashboards
INVARIANTS
    NoOverlap
    UniqueIds
    HeightsExact
\* compose() ends after the last row.
CHECK_DEADLOCK FALSE
