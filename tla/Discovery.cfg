CONSTANTS
  a1 = a1
  a2 = a2
  b1 = b1
  Node = {a1, a2, b1}
  ClusterName <- MCClusterName
  Seeds <- MCSeeds
  Outcome <- MCOutcome
  Cooldown = 1
  Forget = 1
  Nobody = Nobody
SPECIFICATION FairSpec
INVARIANTS TypeOK OneCluster
PROPERTIES Found
