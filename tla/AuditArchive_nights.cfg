SPECIFICATION FairSpec
CONSTANTS
  Records = {r1, r2, r3}
  Workers = {w1, w2}
  Nobody = nobody
  BatchSize = 1
  MaxBatches = 2
  MaxSeconds = 1
  MaxFailures = 1
  Faults = {"crash", "minio", "redis", "database"}
INVARIANTS TypeOK OneRunner MovedOnce LinksAreTrue
PROPERTIES ColdBeforeHotLeaves BacklogIsArchived
