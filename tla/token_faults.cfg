SPECIFICATION FairSpec
CONSTANTS
  Tokens = {t1, t2}
  MaxFlushErrors = 2
  MaxCrashes = 2
INVARIANTS RevocationSticks IssuedTokenWorks
PROPERTIES ComesBack ImplementsLifecycle
CHECK_DEADLOCK FALSE
