SPECIFICATION Spec
CONSTANT Calls <- LongDurations
INVARIANT DurationHasUnit
