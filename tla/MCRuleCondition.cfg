SPECIFICATION Evaluation
CONSTANTS
    Absent = Absent
    Conditions <- MCConditions
    Depth <- MCDepth
    Negation <- MCNegation
    Inputs <- MCAll
INVARIANTS DeMorgan ValueExplainsMatch
\* an input is evaluated once
CHECK_DEADLOCK FALSE
