\* Every option, set before or passed to get_string, on tables that are awkward to lay out.
SPECIFICATION Spec
CONSTANTS
    FieldN <- UnnamedFields
    Tables <- SomeTables
    NameWidth <- Widths
    Chars = {" ", "|", "-", "+", "!", "=", "*"}
    Settings <- SomeSettings
    MaxCalls = 1
INVARIANTS
    Grid
    PassedLikeSet
    HeaderKeepsWidth
