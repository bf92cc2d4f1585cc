\* Every sequence of calls on two tables, one of which may be a slice or a copy of the other.
SPECIFICATION Spec
CONSTANTS
    FieldN <- FieldNames
    Objects = {"x", "y"}
    Names = {"a", "b"}
    MaxCols = 2
    MaxRows = 2
    MaxCalls = 6
PROPERTIES
    RefusedCallsChangeNothing
    RowsFit
    PrintingEndsForCause
    RenamingKeepsAlignment
