SPECIFICATION Spec
CONSTANTS
  Width = 2
  Cases <- MCCases
INVARIANTS
  GeneratorSound
  StackTyped
  ResultRight
