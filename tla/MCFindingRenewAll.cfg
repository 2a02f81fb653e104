SPECIFICATION Spec
CONSTANT Calls <- FullNames
INVARIANT EveryNameShown
