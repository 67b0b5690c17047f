CONSTANTS
  p1 = p1
  p2 = p2
  v1 = v1
  person = person
  vehicle = vehicle
  porch = porch
  Event = {p1, p2}
  Key = {person, vehicle}
  Camera = {porch}
  KeyOf <- MCKeyOf
  CameraOf <- MCCameraOf
  StartOf <- MCStartOf
  EndOf <- MCEndOf
  None = None
  LeadSeconds = 0
  TrailSeconds = 0
  CopyDelaySeconds = 1
  EventEndTimeout = 1
  MaxTime = 4
  MaxMessages = 3
  MaxRestarts = 0
  Faults = FALSE
SPECIFICATION Spec
INVARIANTS
  MovedIsComplete
