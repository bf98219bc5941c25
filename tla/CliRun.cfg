SPECIFICATION Spec
CONSTANTS
  Invocations <- MCInvocations
  Parts = 2
INVARIANTS
  DryRunLeavesNoTrace
  OnlyConfirmedDestruction
  SentAsDeclared
  InputIsWhole
  OutcomeIsTruthful
PROPERTIES
  CommandEnds
