SPECIFICATION Spec
CONSTANTS
  t = t
  c1 = c1
  c2 = c2
  c3 = c3
  syn = syn
  anchor = anchor
  native = native
  security = security
  level = level
  Findings <- SomeFindings
  NoFinding = NoFinding
  NoTopic = NoTopic
  AnyPattern = AnyPattern
  Registry <- ThreeRules
  Frameworks = {anchor, native}
  HotPhase = 1
  Switches = {security, level}
  Switched <- SwitchesOf
  SyntaxErrors <- SomeSyntaxErrors
  Directives <- SomeDirectives
  Regions <- SomeRegions
INVARIANTS HighestConfidenceShown NothingVanishes  NoDuplicates
CHECK_DEADLOCK FALSE
