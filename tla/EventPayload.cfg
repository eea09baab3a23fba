SPECIFICATION Spec
CONSTANTS
  Statuses = {"OL", "FSD ALARM"}
  Alarming = {"FSD ALARM"}
  Maps = {"m1", "m2", "m3", "m4"}
PROPERTIES
  PayloadStays
