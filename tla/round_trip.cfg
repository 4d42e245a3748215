CONSTANTS
    Rep = 2
    MaxTags = 0
    MaxFilled = 3
    MaxEmpty = 3
    Roots = {"test_xml"}
SPECIFICATION Spec
INVARIANTS FieldsKeepTheirValues
\* A document ends.
CHECK_DEADLOCK FALSE
