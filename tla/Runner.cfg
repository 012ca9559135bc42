CONSTANTS
  r1 = r1
  r2 = r2
  alfa = alfa
  Agents <- MCAgents
  Runs <- MCRuns
  AgentOf <- MCAgentOf
  NoRun = NoRun
  Providers = {"process", "container"}
SPECIFICATION FairSpec
CHECK_DEADLOCK FALSE
INVARIANTS
  OneModelPerWorkspace
  ModelEndsWithRun
PROPERTIES
  ImplementsAgentRunner
  EveryProcessEnds
