\* More objects than slots, timeouts of every kind, among them one that
\* overflows, and enough threads for two to get past a lock that expired.
\* A failed assertion stops the system.
SPECIFICATION Spec
CONSTANTS
  Threads = {t1, t2, t3}
  Sems = {s1, s2, s3}
  Mutexes = {m1, m2}
  SEM_MAX = 2
  MTX_MAX = 1
  Counts = {0, 1}
  Timeouts <- EdgeTimeouts
  IntMax = 127
  UsPerMs = 8
  MaxCount = 1
  MaxLapses = 2
SYMMETRY Symmetry
INVARIANTS PoolTight MutualExclusion SyncInv
PROPERTIES ImplementsSyncObjects
CHECK_DEADLOCK FALSE
