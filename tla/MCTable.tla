------------------------------- MODULE MCTable -------------------------------
EXTENDS Table
FieldNames == <<"Field 1", "Field 2">>
=============================================================================
