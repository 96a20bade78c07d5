SPECIFICATION Spec
CONSTANT Changes <- MCChanges
INVARIANT AlarmAtChange
CHECK_DEADLOCK FALSE
