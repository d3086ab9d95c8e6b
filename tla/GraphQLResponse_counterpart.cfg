SPECIFICATION Spec
CONSTANTS
  NotANumber = NotANumber
  NoCode = NoCode
  denied = denied
  invalid = invalid
  isDenied = isDenied
  always = always
  typo = typo
  broken = broken
  Keys <- MCKeys
  StatusOf <- MCStatusOf
  Expressions <- MCExpressions
  Compilable <- MCCompilable
  ErrorLists <- MCErrorLists
  Verdicts <- MCVerdicts
  Configs <- MCConfigs
  Statuses <- MCStatuses
CHECK_DEADLOCK FALSE
INVARIANT CounterpartsAgree
