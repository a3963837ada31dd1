CONSTANTS
  r1 = r1
  r2 = r2
  bundle = bundle
  lint = lint
  Runners = {r1, r2}
  Operations = {bundle, lint}
  Selected <- BothAndOne
  Cluster <- OneCluster
  Failing = {lint}
  Unreliable = {lint}
  Incremental = TRUE
  Nobody = Nobody
  MaxFaults = 1
SPECIFICATION Spec
 
PROPERTIES LeaseOutlastsWork EverybodyGetsDone
