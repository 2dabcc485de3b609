SPECIFICATION RulesSpec
CONSTANTS
  Facts = {"f", "g"}
  RuleActions <- MCRuleActions
  MaxRules = 1
  MaxStatements = 2
  MaxRuleLines = 7
INVARIANT FiredRulesAct
CHECK_DEADLOCK FALSE
