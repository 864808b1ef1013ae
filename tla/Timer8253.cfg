SPECIFICATION Spec
CONSTANTS
  Hex = 4
  Ten = 2
  Written = {0, 1, 2}
  Apart = 4
  Drift = 1
INVARIANTS TerminalCount RateGenerator SquareWave LatchedRead
