CONSTANT NRetries = 30
SPECIFICATION Spec
INVARIANT SleepsBetweenFailedAttempts
