\* The two signals main waits for.
SPECIFICATION Spec
CONSTANT Signals = {"SIGINT", "SIGTERM"}
CHECK_DEADLOCK FALSE
INVARIANT SignalFinalizes
