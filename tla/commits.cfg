\* Two concurrent calls, every kind, every combination of surprises.
CONSTANTS
    Caller = {c1, c2}
    Kinds = {"update", "create", "insert", "source", "asset"}
    Surprises = {"slow", "refuse", "delete"}
    MaxAttempts = 3
    MaxEdits = 2
SPECIFICATION Spec
INVARIANTS
    OneWrite
    ApplyingIsAccepted
    CommittedIsWritten
PROPERTIES
    WithdrawnIsNotWritten
    UserEditSurvives
    ImplementsMaterialization
\* A settled item leaves nothing to do.
CHECK_DEADLOCK FALSE
