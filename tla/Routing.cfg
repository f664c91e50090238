SPECIFICATION FairSpec
CONSTANTS
  x = x y = y z = z g1 = g1 g2 = g2
  Apps = {x, y, z}
  ModelOf <- TwoModels
  Versions <- AllVersions
  First <- FromX
  Replicas = {g1, g2}
  Scopes <- Bounds
INVARIANTS GenerationTellsTable
PROPERTIES Converges KeepsPromise
