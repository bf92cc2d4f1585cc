------------------------------ MODULE HtmlTable ------------------------------
(***************************************************************************)
(* PrettyTables written as HTML and read from it (prettytable.py):         *)
(* get_html_string, and the TableHandler that from_html feeds a page to.   *)
(*                                                                         *)
(* A page is a sequence of tags and texts.  The handler is called for each *)
(* of them in turn, and makes a PrettyTable at every </table>; an          *)
(* exception there ends the reading of the page.                           *)
(***************************************************************************)
EXTENDS TableOps, SequencesExt

CONSTANTS
    Words,  \* the words texts are made of
    Pages   \* the pages that are read: their tables, each a sequence of rows of
            \* <th> or <td> cells, whether line breaks are written as <br/>, and
            \* whether the parser is that of Python 3 (since 3.5) or of Python 2

(* A text is a sequence of words.  A cell that is written is a sequence of *)
(* lines, each a text; a cell that is read is a text.                      *)
Space == "blank"
Quote  == "'"
Dash   == <<"-">>

Texts        == Seq(Words)
WrittenCells == {lines \in Seq(Texts) : lines # <<>>}
WrittenRows  == [tag : {"th", "td"}, cells : Seq(WrittenCells)]

ASSUME WordsAssumption == {Space, Quote, "-"} \subseteq Words

ASSUME PagesAssumption ==
    \A p \in Pages : p \in [tables : Seq(Seq(WrittenRows)), xhtml : BOOLEAN, py3k : BOOLEAN]

(* "Field 1", "Field 2" and so on are different names.                     *)
ASSUME FieldsAssumption ==
    \A p \in Pages : \A t \in Elements(p.tables) : \A row \in Elements(t) :
        \A j, k \in DOMAIN row.cells : FieldN[j] = FieldN[k] => j = k

VARIABLES
    page,                   \* the page
    input,                  \* what of it was not read yet
    last_row, rows,         \* the cells of this row, the rows of this table
    max_row_width,          \* the width of the widest row of the page
    last_content,           \* the text since the last end tag
    is_last_row_header,
    tables,                 \* the tables read
    raised                  \* the exception that ended the reading

handler == <<last_row, rows, max_row_width, last_content, is_last_row_header>>
pageVars == <<page, input, handler, tables, raised>>
-----------------------------------------------------------------------------
(* Writing.                                                                *)
Start(tag) == [kind |-> "start", tag |-> tag]
End(tag)   == [kind |-> "end", tag |-> tag]
Data(text) == [kind |-> "data", text |-> text]
NewLine    == Data(<<Space>>)

(* datum.replace("\n", linebreak).  The parser takes <br/> for a start tag *)
(* and an end tag.                                                         *)
Break(xhtml) == IF xhtml THEN <<Start("br"), End("br")>> ELSE <<Start("br")>>

CellMarkup(tag, lines, xhtml) ==
    <<NewLine, Start(tag), Data(lines[1])>>
        \o FlattenSeq([k \in 1 .. Len(lines) - 1 |-> Break(xhtml) \o <<Data(lines[k + 1])>>])
        \o <<End(tag)>>

RowMarkup(tag, cells, xhtml) ==
    <<NewLine, Start("tr")>>
        \o FlattenSeq([c \in DOMAIN cells |-> CellMarkup(tag, cells[c], xhtml)])
        \o <<NewLine, End("tr")>>

(* The markup of get_html_string is that of a table whose first row, if    *)
(* there is a header, holds the field names; style attributes are left     *)
(* out.                                                                    *)
Markup(table, xhtml) ==
    <<Start("table")>>
        \o FlattenSeq([k \in DOMAIN table |-> RowMarkup(table[k].tag, table[k].cells, xhtml)])
        \o <<NewLine, End("table")>>

get_html_string(names, data, header) ==
    (IF header THEN <<[tag |-> "th", cells |-> names]>> ELSE <<>>)
        \o [k \in DOMAIN data |-> [tag |-> "td", cells |-> data[k]]]
-----------------------------------------------------------------------------
(* Reading.                                                                *)

(* The parser turns what escape made of a text back in Python 3; that of   *)
(* Python 2 calls handle_entityref for it, which the handler has not, so   *)
(* that handle_data gets the text without these characters.                *)
Special == {"<", ">", "&"}

Heard(text, py3k) ==
    IF py3k THEN text
    ELSE FlattenSeq([k \in DOMAIN text |-> IF text[k] \in Special THEN <<>> ELSE <<text[k]>>])

Strip(text) ==
    LET words == {k \in DOMAIN text : text[k] # Space}
    IN IF words = {} THEN <<>> ELSE SubSeq(text, Min(words), Max(words))

(* Every later field that equals an earlier one gets a quote: after pass i *)
(* of the outer loop these are the fields.                                 *)
make_fields_unique(fields) ==
    LET n == Len(fields)
        quoted(names, i) ==
            [j \in 1..n |-> IF i < j /\ names[i] = names[j]
                            THEN Append(names[j], Quote) ELSE names[j]]
        after[i \in 0..n] == IF i = 0 THEN fields ELSE quoted(after[i - 1], i)
    IN after[n]

(* range(1, appends) has one element less than cells are missing.          *)
Filled(cells, width) ==
    cells \o [k \in 1 .. Max({0, width - Len(cells) - 1}) |-> Dash]

(* A row of <th> cells sets the field names, any other is added.           *)
AddWritten(r, row, width) ==
    IF row.header
    THEN _set_field_names(r.t, r.l, make_fields_unique(Filled(row.cells, width)))
    ELSE add_row(r.t, r.l, Filled(row.cells, width))

(* The table after each row; the first exception ends it.                  *)
generate_table(written, width) ==
    LET made[k \in 0 .. Len(written)] ==
            IF k = 0 THEN Return(Blank, NoLook)
            ELSE IF made[k - 1].exc # NoExc THEN made[k - 1]
            ELSE AddWritten(made[k - 1], written[k], width)
    IN made[Len(written)]

NextIs(kind) == raised = NoExc /\ input # <<>> /\ Head(input).kind = kind
AtEnd(tags) == NextIs("end") /\ Head(input).tag \in tags
Consume == input' = Tail(input) /\ UNCHANGED page
DropContent == last_content' = <<Space>>

handle_starttag ==
    /\ NextIs("start") /\ Consume
    /\ is_last_row_header' = (is_last_row_header \/ Head(input).tag = "th")
    /\ UNCHANGED <<last_row, rows, max_row_width, last_content, tables, raised>>

handle_data ==
    /\ NextIs("data") /\ Consume
    /\ last_content' = last_content \o Heard(Head(input).text, page.py3k)
    /\ UNCHANGED <<last_row, rows, max_row_width, is_last_row_header, tables, raised>>

(* Mutant: the text of a cell is not dropped at its end.                   *)
EndCell_keepsContent ==
    /\ AtEnd({"th", "td"}) /\ Consume
    /\ last_row' = Append(last_row, Strip(last_content))
    /\ UNCHANGED <<rows, max_row_width, last_content, is_last_row_header, tables, raised>>

EndCell ==
    /\ AtEnd({"th", "td"}) /\ Consume /\ DropContent
    /\ last_row' = Append(last_row, Strip(last_content))
    /\ UNCHANGED <<rows, max_row_width, is_last_row_header, tables, raised>>

EndRow ==
    /\ AtEnd({"tr"}) /\ Consume /\ DropContent
    /\ rows' = Append(rows, [cells |-> last_row, header |-> is_last_row_header])
    /\ max_row_width' = Max({max_row_width, Len(last_row)})
    /\ last_row' = <<>> /\ is_last_row_header' = FALSE
    /\ UNCHANGED <<tables, raised>>

(* Mutant: the rows stay for the next table.                               *)
EndTable_keepsRows ==
    /\ AtEnd({"table"}) /\ Consume
    /\ LET made == generate_table(rows, max_row_width)
       IN \/ /\ made.exc = NoExc /\ DropContent
             /\ tables' = Append(tables, made.t)
             /\ UNCHANGED <<rows, raised>>
          \/ /\ made.exc # NoExc
             /\ raised' = made.exc
             /\ UNCHANGED <<tables, rows, last_content>>
    /\ UNCHANGED <<last_row, max_row_width, is_last_row_header>>

(* The width of the widest row stays what it is for the tables to come.    *)
EndTable ==
    /\ AtEnd({"table"}) /\ Consume
    /\ LET made == generate_table(rows, max_row_width)
       IN \/ /\ made.exc = NoExc /\ DropContent
             /\ tables' = Append(tables, made.t) /\ rows' = <<>>
             /\ UNCHANGED raised
          \/ /\ made.exc # NoExc
             /\ raised' = made.exc
             /\ UNCHANGED <<tables, rows, last_content>>
    /\ UNCHANGED <<last_row, max_row_width, is_last_row_header>>

(* Any other end tag drops the text of the cell it stands in.              *)
EndOther ==
    /\ NextIs("end") /\ Head(input).tag \notin {"th", "td", "tr", "table"}
    /\ Consume /\ DropContent
    /\ UNCHANGED <<last_row, rows, max_row_width, is_last_row_header, tables, raised>>

handle_endtag == EndCell \/ EndRow \/ EndTable \/ EndOther

ReadInit ==
    /\ page \in Pages
    /\ input = FlattenSeq([k \in DOMAIN page.tables |-> Markup(page.tables[k], page.xhtml)])
    /\ last_row = <<>> /\ rows = <<>> /\ max_row_width = 0
    /\ last_content = <<>> /\ is_last_row_header = FALSE
    /\ tables = <<>> /\ raised = NoExc

ReadDone == (input = <<>> \/ raised # NoExc) /\ UNCHANGED pageVars

ReadNext == handle_starttag \/ handle_data \/ handle_endtag \/ ReadDone

ReadSpec == ReadInit /\ [][ReadNext]_pageVars
-----------------------------------------------------------------------------
(* The parser tells a row of field names by its <th> cells.                *)
IsHeader(row) == row.tag = "th" /\ row.cells # <<>>
DataRows(k) == {j \in DOMAIN page.tables[k] : ~IsHeader(page.tables[k][j])}
HeaderRows(k) == DOMAIN page.tables[k] \ DataRows(k)
Place(k, j) == Cardinality({i \in DataRows(k) : i <= j})
Columns(row) == Len(row.cells)

(* Every row of the table is as wide as the widest row of the page so far. *)
Even(k) ==
    \A row \in Elements(page.tables[k]) : \A j \in 1..k :
        \A other \in Elements(page.tables[j]) : Columns(row) >= Columns(other)

(* What is left of a cell, without blanks around it: its lines run         *)
(* together, or its last line if breaks are end tags as well               *)
(* (prettytable.py:1397); in Python 2 without the special characters.      *)
LeftOf(lines, xhtml) == IF xhtml THEN lines[Len(lines)] ELSE FlattenSeq(lines)

ReadCell(lines, xhtml, py3k) ==
    Strip(LeftOf([n \in DOMAIN lines |-> Heard(lines[n], py3k)], xhtml))
ReadCells(row) == [c \in DOMAIN row.cells |-> ReadCell(row.cells[c], page.xhtml, page.py3k)]

(* An even table comes back from the page with what is left of its cells,  *)
(* with its rows in order and the names of its last header, whatever       *)
(* tables stand before it on the page.                                     *)
ComesBack(k) ==
    LET written == page.tables[k]
    IN /\ \A j \in DataRows(k) : tables[k].rows[Place(k, j)] = ReadCells(written[j])
       /\ \A j \in HeaderRows(k) :
             (\A i \in HeaderRows(k) : i <= j) /\ Unique(ReadCells(written[j]))
                 => tables[k].names = ReadCells(written[j])

(* No table that is read lost a cell: its rows begin with what is left of  *)
(* the cells that were written and only dashes follow.                     *)
CellsAreKept(k) ==
    /\ Len(tables[k].rows) = Cardinality(DataRows(k))
    /\ \A j \in DataRows(k) :
          LET cells == ReadCells(page.tables[k][j])
              row == tables[k].rows[Place(k, j)]
          IN IsPrefix(cells, row) /\ \A c \in Len(cells) + 1 .. Len(row) : row[c] = Dash

(* What comes back of a page that is read: every cell, a cell of one line  *)
(* without special characters as it was written, a cell of several lines   *)
(* or, in Python 2, with special characters not.                           *)
TablesComeBack ==
    \A k \in DOMAIN tables : CellsAreKept(k) /\ (Even(k) => ComesBack(k))

(* Reading a page fails only at a table with a row that is narrower than   *)
(* the widest before it, which is filled up one cell short                 *)
(* (prettytable.py:1411), or at a header with two equal fields and one     *)
(* that ends in a quote already (prettytable.py:1428).                     *)
QuoteClash(k) ==
    \E j \in HeaderRows(k) :
        LET names == ReadCells(page.tables[k][j])
        IN ~Unique(names) /\ \E c \in DOMAIN names : names[c] # <<>> /\ Last(names[c]) = Quote

FailureHasCause ==
    raised # NoExc => ~Even(Len(tables) + 1) \/ QuoteClash(Len(tables) + 1)
=============================================================================
