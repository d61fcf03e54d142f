CONSTANTS
  Projects = {1, 2}
  SpecsOf <- MCSpecs
  Weights <- MCWeights
  UnitWeight = 2
  Batch = 2
  NoSpec = NoSpec
  Passes = {1, 2}
  MaxTrouble = 2
SPECIFICATION QueueFairSpec
INVARIANTS
  CarouselSound
PROPERTIES
  DoneKept
  AutoDrains
