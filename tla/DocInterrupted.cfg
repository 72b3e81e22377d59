SPECIFICATION Spec
CONSTANT Waits <- BuildWaits
PROPERTY DocInterrupted
CHECK_DEADLOCK FALSE
