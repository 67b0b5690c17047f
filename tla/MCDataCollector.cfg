SPECIFICATION Spec
CONSTANTS
  iss = iss  sensors = sensors
  p = p  m = m  s = s  w1 = w1  w2 = w2
  Topic = {iss, sensors}
  RecordTopic = {iss}
  MetaTopic = {sensors}
  Point = {p, m}
  TopicOf <- MCTopicOf
  Sensor = {s}
  SensorOf <- MCSensorOf
  Window = {1, 2, 3}
  PointsOf <- MCPointsOf
  Worker = {w1, w2}
  None = None
  MaxRuns = 2
  MaxFaults = 2
INVARIANTS
  KeysAreSent
  DuplicatesExplained
  BackfillComplete
PROPERTIES
  PollsOrEnds
