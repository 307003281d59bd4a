\* Two Missions, two changes that may overlap, a page of one row, one switch by
\* the user, one break or failed request.
CONSTANTS
    Mission = {1, 2}
    PageSize = 1
    MaxOpen = 2
    MaxChanges = 2
    MaxSwitches = 1
    MaxFaults = 1
SPECIFICATION FairSpec
INVARIANTS
    NoChangeIsSkipped
    QuietViewIsCurrent
PROPERTIES
    ViewNeverGoesBack
    RefreshCatchesUp
\* Everything may be over.
CHECK_DEADLOCK FALSE
