\* One table, written by get_html_string or by hand, and pairs of tables of different width.
SPECIFICATION ReadSpec
CONSTANTS
    FieldN <- FieldNames
    Words <- SomeWords
    Pages <- SomePages
INVARIANTS
    TablesComeBack
    FailureHasCause
