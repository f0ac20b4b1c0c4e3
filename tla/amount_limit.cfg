\* All decimals of up to five digits: precision 4, column Numeric(3, 2).
SPECIFICATION Spec
CONSTANTS
    Precision = 4
    MaxDigits = 3
    Places = 2
    MaxLength = 5
    MaxExponent = 5
INVARIANTS AcceptedAmountsFit
CHECK_DEADLOCK FALSE
