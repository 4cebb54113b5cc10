SPECIFICATION Spec
CONSTANT Environments <- Silence
PROPERTY AbortIsFinal
CHECK_DEADLOCK FALSE
