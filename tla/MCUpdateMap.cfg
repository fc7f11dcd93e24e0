SPECIFICATION Spec
CONSTANTS
  Period = "."
  Trees <- MCTrees
  Manifests <- MCManifests
INVARIANTS FoundOnce FoundBySegments CapturesFit OutputsAreTheRules OutputGroupsFit CyclesNeedSharedPath
