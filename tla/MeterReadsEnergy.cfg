SPECIFICATION Spec
CONSTANTS
    Model = {"smw110", "smart_tcc"}
    Ring = 6
    MaxNow = 3
    MaxDark = 1
    MaxCuts = 2
    MaxWindow = 1
INVARIANT EnergyIsNormalized
CHECK_DEADLOCK FALSE
