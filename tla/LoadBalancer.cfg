CONSTANTS
  Threads = {t1, t2}
  N = 3
SPECIFICATION Spec
SYMMETRY ThreadSymmetry
PROPERTIES QuietPickIsReference LonePickFindsHealthy
