SPECIFICATION Spec
CONSTANTS
  hi = hi
  go = go
  ok = ok
  Texts = {hi, go}
  Replies = {ok}
  Blank = Blank
  Agents = {"claude", "codex", "copilot", "copilot_db", "hermes", "agent_probe", "agentknit", "exec"}
  MaxLog = 4
  MaxCalls = 2
  MaxMore = 1
SYMMETRY Symmetry
INVARIANT TypeOK StepsNumbered NothingLost AnswersShown StepsOnlyGrow
CHECK_DEADLOCK FALSE
