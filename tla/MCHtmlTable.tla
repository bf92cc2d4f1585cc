----------------------------- MODULE MCHtmlTable -----------------------------
(***************************************************************************)
(* Pages of one table whose cells differ, written by get_html_string or    *)
(* with header rows anywhere, and pages of two tables whose rows differ in *)
(* width; read in Python 3 and, the pages whose cells differ, in Python 2. *)
(***************************************************************************)
EXTENDS HtmlTable

SomeWords == {"a", "b", "-", "<", Quote, Space}
FieldNames == <<<<"Field 1">>, <<"Field 2">>, <<"Field 3">>>>

Cells == {<<<<"a">>>>, <<<<Space, "a", "<", Quote>>>>, <<<<>>>>, <<<<"a">>, <<Space, "b">>>>}
Plain == <<<<"a">>>>
TablesUpTo(n, rowset) == UNION {[1..m -> rowset] : m \in 1..n}

WrittenTables ==
    {get_html_string(names, data, header) :
        names \in [1..3 -> {<<<<"a">>>>, <<<<"a", Quote>>>>, <<<<"a", "<">>>>}],
        data \in {<<>>, <<<<Plain, Plain, Plain>>>>}, header \in {TRUE}}
    \cup {get_html_string(<<<<<<"a">>>>, <<<<"b">>>>>>, data, header) :
        data \in TablesUpTo(2, [1..2 -> Cells]), header \in BOOLEAN}
    \cup {get_html_string(<<>>, <<>>, TRUE)}

Uneven == [tag : {"th", "td"}, cells : {[c \in 1..w |-> Plain] : w \in 0..3}]

SomePages ==
    [tables : {<<t>> : t \in WrittenTables}, xhtml : BOOLEAN, py3k : BOOLEAN]
    \cup [tables : {<<t>> : t \in TablesUpTo(3, Uneven)}, xhtml : BOOLEAN, py3k : {TRUE}]
    \cup [tables : TablesUpTo(2, TablesUpTo(2, Uneven)), xhtml : {FALSE}, py3k : {TRUE}]
=============================================================================
