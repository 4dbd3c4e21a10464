SPECIFICATION SkillsSpec
CONSTANTS
  Names = {"x", "d"}
  Tools = {t, u}
  MaxConns = 4
  Callers = {c1, c2}
  Kinds = {"stdio", "http", "exec"}
  Defaults <- MCDefaults
  MaxCalls = 2
  MaxTroubles = 1
  MaxRetries = 1
  Dirs = {"a", "b"}
  SkillNames = {"a", "b", "n"}
  MaxEdits = 4
SYMMETRY Symmetry
CHECK_DEADLOCK FALSE
INVARIANTS
  NoSessionLost RunsWhatIsRegistered EnvReachesServer SettledIsLoaded
