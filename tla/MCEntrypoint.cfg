CONSTANTS
  Names = {"K", "L"}
  Files <- SmallFiles
  Presets <- NothingOrL
SPECIFICATION Spec
INVARIANT ValuesIntact
CHECK_DEADLOCK FALSE
