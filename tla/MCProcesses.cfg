SPECIFICATION Spec
CONSTANTS
  Default = "default"
  Instances = {"default"}
  MaxRestarts = 2
  MaxProcs = 3
  Probes = {p1, p2}
  ProbePorts = {1, 2}
  Minutes = {1, 2}
  RoundsPerMinute = 3
  MaxSamples = 2
  MaxAgeHours = 1
  Latencies = {1, 2}
  MaxHours = 3
  MaxResults = 4
  Nodes = {"n1", "n2"}
  MaxRuns = 2
  MaxFailCount = 1
INVARIANTS
  TypeOK
  
  AnswerIsOfTheNode
  EveryKindGetsItsTurn
  ScoreIsOfTheLastResults
  RowIsOfOneLook
PROPERTIES
  RecoversOrGivesUp
  EveryLookEnds
