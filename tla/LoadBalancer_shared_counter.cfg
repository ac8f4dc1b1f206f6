CONSTANTS
  Threads = {t1, t2}
  N = 2
SPECIFICATION Spec
PROPERTY EmptyMeansUnhealthy
