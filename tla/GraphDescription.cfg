SPECIFICATION Spec
CONSTANTS
  Programs <- Scripts
  ConstantNames = {"VALUE"}
  Known <- MyClasses
  Settings <- MostSettings
  Defaults = {"StreamFIFO", "MyFIFO"}
  MaxCalls = 2
  MaxCopies = 2
INVARIANT CopyIsFaithful
INVARIANT CopiesAgree
INVARIANT ConfigurationSurvives
CHECK_DEADLOCK FALSE
