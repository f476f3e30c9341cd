SPECIFICATION BoundedSpec
CONSTANTS
  Ids <- MCIds
  Keys <- MCKeys
  KeyOf <- MCKeyOf
  Kinds <- MCKinds
  Sources <- MCSources
  Fields <- MCFields
  Values <- MCValues
  Absent = "absent"
  Instances <- MCInstances
  MaxAdds = 5
CHECK_DEADLOCK FALSE
INVARIANTS
  GInv
  NodesMergeInstances
  FirstInstancesAreLinked
PROPERTY
  OnlyGrows
