SPECIFICATION Spec
CONSTANTS
    Chars = {a, b}
    MaxLength = 3
    MaxAdds = 3
INVARIANTS
    WellFormed AnswersAsAdded
PROPERTIES
    AdditionsEnd
CHECK_DEADLOCK FALSE
