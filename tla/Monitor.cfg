SPECIFICATION MonitorFairSpec
CONSTANTS
  h1 = h1
  h2 = h2
  Hosts = {h1, h2}
  Seeds = {h1}
  Clients = {c1}
  Results <- MCResults
  Flaky = {h2}
INVARIANTS NoMissedServer PromptScan OneOutcome
PROPERTY StopCompletes
CHECK_DEADLOCK FALSE
