SPECIFICATION BoundedSpec
CONSTANTS
  Ids <- MCIds
  Keys <- MCKeys
  KeyOf <- MCKeyOf
  Kinds <- MCKinds
  Sources <- MCSources
  Fields <- MCFields
  Values <- MCValues
  Absent = "absent"
  Instances <- MCInstances
  MaxAdds = 4
CHECK_DEADLOCK FALSE
PROPERTY
  EnrichmentKept
