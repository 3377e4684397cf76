SPECIFICATION FairSpec
CONSTANTS
  t1 = t1 t2 = t2 api = api k1 = k1
  Tabs = {t1, t2}
  MaxLogins = 5
  Clients = {api}
  Callers = {t1, t2, api}
  Tokens = {k1}
  MaxFailures = 1
  Scenes <- TwoTabsOrOneToken
INVARIANTS ErrorIsExplained RevocationSticks PageIsTrue
PROPERTIES NavigationEnds ImplementsLifecycle
