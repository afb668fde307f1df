SPECIFICATION MCSpec
INVARIANTS
  NoncesAreKept
  KeysAreHonoured
  VerdictIsTrue
PROPERTIES
  ListedUntilVerdict
SYMMETRY Symmetric
CHECK_DEADLOCK FALSE
CONSTANTS
  a1 = a1
  r1 = r1
  r2 = r2
  r3 = r3
  r4 = r4
  n1 = n1
  n2 = n2
  n3 = n3
  k1 = k1
  Threads = {t1, t2}
  Requests = {a1, r1, r2, r3, r4}
  Nonces = {n1, n2, n3}
  NoNonce = NoNonce
  NonceOf <- MCNonceOf
  Keys = {k1}
  NoKey = NoKey
  KeyOf <- MCKeyOf
  NoRequest = NoRequest
  NonceCap = 2
  MaxAccepted = 4
  Actions = {a1}
  Calls = {c1, c2}
  NoAction = NoAction
  NoThread = NoThread
  HasProxy = FALSE
  MaxMishaps = 4
  PairMishaps = 2
  MaxHostSends = 4
  MaxRestarts = 1
