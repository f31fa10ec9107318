SPECIFICATION Spec
CONSTANTS
  Recoveries = {r1}
  Rotations = {o1}
  Resets = {p1}
  Runs = {c1}
  Challenges = {h1}
  Sessions = {s1}
  Passwords = {a, b}
  Requests = {x1, x2}
  MaxStep = 1
  Failures = {"abort", "commit", "late", "read"}
  First = First
  None = None
SYMMETRY Symmetry
CHECK_DEADLOCK FALSE
INVARIANT OneUnusedKey
INVARIANT OkIsTrue
INVARIANT RetryIsRecognized
INVARIANT SessionsAreCurrent
INVARIANT NoMutualWait
INVARIANT CodeSpentOnce
INVARIANT FileOutlivesKey
