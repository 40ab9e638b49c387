SPECIFICATION Spec
CONSTANTS
    Gauges <- McGauges
    MaxReruns = 2
INVARIANTS RefusedOnlyWhenExplained Handover OneSystem
PROPERTY DeploymentCompletes
CHECK_DEADLOCK FALSE
