CONSTANTS
  Quantum = 2
  StepLimit = 2
  Lifetime = 2
  JobKeys = {"k1"}
  ChoiceLimit = 2
  JobLimit = 1
  Planned = 2
  SamplePolicies <- MCSamplePolicies
  SampleClock = {0, 1, 2, 3}
  SampleDay = 2
  Setups <- MCSetups
SPECIFICATION ContentSpec
INVARIANTS SavedStateReadable PublishedReadable SampledForGood
PROPERTIES ReadsPrecharged ConsentLive LimitsKept
