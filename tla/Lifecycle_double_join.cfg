CONSTANTS
  Workers = {q1, q2}
  Backends = 1
SPECIFICATION Spec
INVARIANT JoinsOnce
