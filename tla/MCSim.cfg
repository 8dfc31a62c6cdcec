SPECIFICATION Spec
CONSTANTS
  MAX_PROCESSES = 4
  MAX_CPUS = 2
  MAX_BURSTS = 25
  INT_MAX = 127
  Inputs <- MCInputs
INVARIANTS OnePlace WorkConserving BoostReachesAll MetricsMatchTimeline TurnaroundAccounted
PROPERTIES AgingBoundsOvertaking
