----------------------------- MODULE MCTableText -----------------------------
(***************************************************************************)
(* Tables of up to two columns: integers and a float that may be given a   *)
(* format, cells of two lines, characters of two blocks, columns limited   *)
(* to 0 and 2 blocks, a row that is too short, and tables without fields.  *)
(***************************************************************************)
EXTENDS TableText

UnnamedFields == <<"Field 1", "Field 2">>
Widths == [a |-> 1, b |-> 4]

Line(n, w) == [n |-> n, w |-> w]
Number(key) == [key |-> key, kind |-> "int", lines |-> <<Line(1, 1)>>]
Decimal(key) == [key |-> key, kind |-> "float", lines |-> <<Line(3, 1)>>]
Word(key, n) == [key |-> key, kind |-> "other", lines |-> <<Line(n, 1)>>]
Wide(key, n) == [key |-> key, kind |-> "other", lines |-> <<Line(n, 2)>>]
Note(key, m, n) == [key |-> key, kind |-> "other", lines |-> <<Line(m, 1), Line(n, 1)>>]
Nothing == [key |-> 0, kind |-> "other", lines |-> <<Line(0, 1)>>]

TableOf(names, rows, limit) ==
    [names |-> names, rows |-> rows, sortby |-> NoField, maxWidth |-> limit]

ab == <<"a", "b">>
Numbers == <<<<Number(2), Word(1, 5)>>, <<Number(1), Note(2, 3, 2)>>, <<Number(2), Nothing>>,
             <<Number(3), Decimal(2)>>>>
Words   == <<<<Wide(1, 3), Word(1, 5)>>, <<Word(3, 5), Wide(2, 2)>>>>
Short   == <<<<Number(2)>>, <<Number(1), Word(1, 1)>>>>

SomeTables ==
    {TableOf(ab, Numbers, EmptyDict),
     TableOf(ab, Numbers, [b |-> 2]),
     TableOf(ab, Numbers, [a |-> 0, b |-> 0]),
     TableOf(ab, Words, EmptyDict),
     TableOf(ab, Words, [a |-> 3, b |-> 3]),
     TableOf(ab, Short, EmptyDict),
     TableOf(ab, <<>>, EmptyDict),
     TableOf(<<>>, <<>>, EmptyDict),
     TableOf(<<>>, <<<<>>>>, EmptyDict)}

SomeSettings ==
    {[start |-> 1], [end |-> 0], [end |-> 1], [fields |-> {"a"}], [header |-> FALSE],
     [border |-> FALSE], [sortby |-> "a"], [sortby |-> "b"], [reversesort |-> TRUE],
     [print_empty |-> FALSE], [padding_width |-> 0], [left_padding_width |-> 2],
     [right_padding_width |-> 0], [vertical_char |-> "!"], [junction_char |-> "*"],
     [header_style |-> "upper"], [int_format |-> [a |-> 3, b |-> None]],
     [float_format |-> [a |-> None, b |-> 6]]}
    \cup {[hrules |-> h] : h \in {"FRAME", "ALL", "NONE", "HEADER"}}
    \cup {[vrules |-> v] : v \in {"FRAME", "ALL", "NONE"}}
=============================================================================
