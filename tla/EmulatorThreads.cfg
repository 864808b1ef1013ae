\* All three frame clocks, with and without a debugger.
\* The system stops when main() returns, so a state without successor is no error.
CONSTANTS
  Clocks = {"audio", "timer", "kick"}
  MaxPending = 1
SPECIFICATION FairSpec
INVARIANTS TypeOK PausedMeansStill KickChainAlive
PROPERTIES QuitJoins PausedGuiTicks ResumeRuns
CHECK_DEADLOCK FALSE
