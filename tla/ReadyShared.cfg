SPECIFICATION Spec
CONSTANTS
  main = main
  pub1 = pub1
  pub2 = pub2
  act = act
  topic = topic
  action = action
  j66 = j66
  j56 = j56
  j6 = j6
  k66 = k66
  k6 = k6
  Main = main
  Workers = {pub1, act}
  Procs <- MCProcs
  Handlers = {topic, action}
  HandlerOf <- MCHandlerOf
  Jobs = {j66, k66}
  JobsOf <- MCJobsOf
  Joints <- MCJoints
  Lines <- MCLines
  InitAttempts = 1
  MaxAttempts = 1
  MaxFaults = 1
PROPERTY ReadyBeforeData
