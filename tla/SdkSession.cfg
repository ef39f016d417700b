SPECIFICATION Spec
CONSTANTS
  Credentials = {"key", "password"}
  Moved = {FALSE, TRUE}
  MaxFaults = 1
  MaxExpiries = 1
  Sampler = {1, 2}
  Channels = {{"nvml"}, {"nvidia-smi"}, {}}
  MaxSamples = 2
  MaxEnergy = 1
  MaxLate = 1
INVARIANTS
  CallEffectAtMostOnce
  DeniedForCause
  CounterHonest
  ReportIsTheRuns
