------------------------------ MODULE TableText ------------------------------
(***************************************************************************)
(* How a PrettyTable is printed (prettytable.py): the options a table      *)
(* keeps, the ways to set them, and the text get_string makes.             *)
(*                                                                         *)
(* Text is modelled by its geometry.  A line of a cell is n characters of  *)
(* w blocks each, without a blank to break it at; a line of text is a      *)
(* sequence of pieces, each a mark or a padded cell with its width in      *)
(* blocks.                                                                 *)
(***************************************************************************)
EXTENDS TableOps, SequencesExt, FiniteSetsExt

CONSTANTS
    Tables,     \* the tables that are printed
    NameWidth,  \* the width of each field name
    Chars,      \* the characters rules and marks are made of
    Settings,   \* the options that are set or passed: records of one field
    MaxCalls    \* bound: options set before the text is made

None == -1          \* None where a number may stand

(* A cell has its place in the order of sorting and at least one line.     *)
FieldNames == DOMAIN NameWidth
Lines == [n : Nat, w : Nat]
Kinds == {"int", "float", "other"}
Cells == {cell \in [key : Int, kind : Kinds, lines : Seq(Lines)] : cell.lines # <<>>}

(* int_format and float_format: the width of the numbers of a field, None  *)
(* where the dictionary has no entry.                                      *)
Formats == [FieldNames -> Nat \cup {None}]
NoFormats == [x \in FieldNames |-> None]

(* The options of a text.  Left out are attributes, format and xhtml,      *)
(* which are for HTML; sort_key, with which cells would have another key;  *)
(* and valign, which a call is refused with and which moves no mark.       *)
OptionTypes ==
    [start |-> Nat, end |-> Nat \cup {None}, fields |-> SUBSET FieldNames,
     header |-> BOOLEAN, border |-> BOOLEAN,
     sortby |-> FieldNames \cup {NoField}, reversesort |-> BOOLEAN,
     hrules |-> {"FRAME", "ALL", "NONE", "HEADER"}, vrules |-> {"FRAME", "ALL", "NONE"},
     print_empty |-> BOOLEAN, padding_width |-> Nat,
     left_padding_width |-> Nat \cup {None}, right_padding_width |-> Nat \cup {None},
     vertical_char |-> Chars, horizontal_char |-> Chars, junction_char |-> Chars,
     header_style |-> {"None", "cap", "title", "upper", "lower"},
     int_format |-> Formats, float_format |-> Formats]

Allowed(e) == \A x \in DOMAIN e : x \in DOMAIN OptionTypes /\ e[x] \in OptionTypes[x]

ASSUME CallsAssumption == MaxCalls \in Nat

ASSUME CharsAssumption == {" ", "|", "-", "+", "!", "=", "*"} \subseteq Chars

ASSUME NamesAssumption == NameWidth \in [FieldNames -> Nat] /\ NoField \notin FieldNames

ASSUME TablesAssumption ==
    \A t \in Tables :
        /\ t \in [names : Seq(FieldNames), rows : Seq(Seq(Cells)), sortby : {NoField},
                  maxWidth : {t.maxWidth}]
        /\ t.maxWidth \in [DOMAIN t.maxWidth -> Nat]

ASSUME SettingsAssumption ==
    \A s \in Settings : Allowed(s)

VARIABLES
    tab,        \* the table
    opts,       \* the options it keeps
    calls,      \* assignments to them so far
    kwargs,     \* the options the last call of get_string was given
    text        \* what it returned

vars == <<tab, opts, calls, kwargs, text>>

AllFields == {}     \* fields = None, or an empty list
NoText == <<>>      \* before the first call

Largest(S) == IF S = {} THEN 0 ELSE Max(S)

(* d.update(e).                                                            *)
Updated(d, e) ==
    [x \in DOMAIN d \cup DOMAIN e |-> IF x \in DOMAIN e THEN e[x] ELSE d[x]]
-----------------------------------------------------------------------------
(* Options.                                                                *)

(* The constructor takes kw[x] or the default.  What is false in Python    *)
(* means the default as well: 0, and so FRAME, which is 0.  Only the       *)
(* Booleans are looked at more closely.                                    *)
Default ==
    [start |-> 0, end |-> None, fields |-> AllFields, header |-> TRUE,
     border |-> TRUE, sortby |-> NoField, reversesort |-> FALSE,
     hrules |-> "FRAME", vrules |-> "ALL", print_empty |-> TRUE,
     padding_width |-> 1, left_padding_width |-> None, right_padding_width |-> None,
     vertical_char |-> "|", horizontal_char |-> "-", junction_char |-> "+",
     header_style |-> "None", int_format |-> NoFormats, float_format |-> NoFormats]

Zero ==
    [end |-> 0, vrules |-> "FRAME", padding_width |-> 0,
     left_padding_width |-> 0, right_padding_width |-> 0]

__init__(kw) ==
    [x \in DOMAIN Default |->
        IF x \notin DOMAIN kw \/ (x \in DOMAIN Zero /\ kw[x] = Zero[x])
        THEN Default[x] ELSE kw[x]]

(* Mutant: what the table keeps hides the arguments of the call.           *)
_get_options_kept(self, kw) == Updated(kw, self)

(* The options of one call: its own arguments, else what the table keeps.  *)
_get_options(self, kw) == Updated(self, kw)

(* x.set_style(DEFAULT), MSWORD_FRIENDLY, PLAIN_COLUMNS and RANDOM, of     *)
(* whose choices a few stand for all.                                      *)
_set_default_style(o) == Updated(o,
    [header |-> TRUE, border |-> TRUE, hrules |-> "FRAME", vrules |-> "ALL",
     padding_width |-> 1, left_padding_width |-> 1, right_padding_width |-> 1,
     vertical_char |-> "|", horizontal_char |-> "-", junction_char |-> "+"])

_set_msword_style(o) == Updated(o,
    [header |-> TRUE, border |-> TRUE, hrules |-> "NONE", padding_width |-> 1,
     left_padding_width |-> 1, right_padding_width |-> 1, vertical_char |-> "|"])

_set_columns_style(o) == Updated(o,
    [header |-> TRUE, border |-> FALSE, padding_width |-> 1,
     left_padding_width |-> 0, right_padding_width |-> 8])

_set_random_style(o) ==
    {Updated(o, style) : style \in
        [header : BOOLEAN, border : BOOLEAN, hrules : {"ALL", "HEADER"}, vrules : {"FRAME", "NONE"},
         left_padding_width : {5}, right_padding_width : {0}, vertical_char : {"!"},
         horizontal_char : {"="}, junction_char : {"*"}]}
-----------------------------------------------------------------------------
(* Rows and widths.                                                        *)

lpad(o) == IF o.left_padding_width # None THEN o.left_padding_width ELSE o.padding_width
rpad(o) == IF o.right_padding_width # None THEN o.right_padding_width ELSE o.padding_width

(* rows.sort on rows decorated with their sort cell, which compares two of *)
(* them as lists: by the first item that differs, or else by their length. *)
(* Rows that compare equal stay in their order, also in reverse.           *)
Keys(row, index) == <<row[index].key>> \o [c \in DOMAIN row |-> row[c].key]

Precedes(r, s) ==
    \/ \E k \in DOMAIN r \cap DOMAIN s : r[k] < s[k] /\ \A j \in 1 .. k - 1 : r[j] = s[j]
    \/ Len(r) < Len(s) /\ \A j \in DOMAIN r : r[j] = s[j]

Before(rows, index, reverse, j, k) ==
    LET r == Keys(rows[j], index)
        s == Keys(rows[k], index)
    IN IF r = s THEN j < k ELSE IF reverse THEN Precedes(s, r) ELSE Precedes(r, s)

Sorted(rows, index, reverse) ==
    LET earlier(k) == {j \in DOMAIN rows : Before(rows, index, reverse, j, k)}
    IN [n \in DOMAIN rows |-> rows[CHOOSE k \in DOMAIN rows : Cardinality(earlier(k)) = n - 1]]

(* The rows that are printed: the slice, sorted after it was cut out.      *)
Sliced(t, o) ==
    SubSeq(t.rows, o.start + 1, IF o.end = None THEN Len(t.rows) ELSE Min({o.end, Len(t.rows)}))

_get_rows(t, o) ==
    IF o.sortby = NoField THEN Sliced(t, o)
    ELSE Sorted(Sliced(t, o), Position(t.names, o.sortby), o.reversesort)

(* The lines of a cell: a number of a field with a format takes the width  *)
(* that the format of the table, never that of the call, gives it.         *)
InFormat(format, field, value) ==
    IF format[field] # None
    THEN <<[n |-> Max({format[field], value.lines[1].n}), w |-> 1]>>
    ELSE value.lines

_format_value(self, field, value) ==
    CASE value.kind = "int"   -> InFormat(self.int_format, field, value)
      [] value.kind = "float" -> InFormat(self.float_format, field, value)
      [] value.kind = "other" -> value.lines

_format_row(t, self, row) ==
    [c \in 1 .. Min({Len(row), Len(t.names)}) |-> _format_value(self, t.names[c], row[c])]

_format_rows(t, self, rows) == [k \in DOMAIN rows |-> _format_row(t, self, rows[k])]

Blocks(line) == line.n * line.w
Width(cell) == Largest({Blocks(cell[y]) : y \in DOMAIN cell})

(* Mutant: the limit is put on the header instead of the cells.            *)
_compute_widths_noLimit(t, rows, o) ==
    [c \in DOMAIN t.names |->
        LET limited(n) == IF t.names[c] \in DOMAIN t.maxWidth
                          THEN Min({n, t.maxWidth[t.names[c]]}) ELSE n
        IN Largest({limited(IF o.header THEN NameWidth[t.names[c]] ELSE 0)}
                   \cup {limited(Width(rows[k][c])) :
                            k \in {j \in DOMAIN rows : c \in DOMAIN rows[j]}})]

(* The width of each column, of the hidden ones too: that of its name if   *)
(* there is a header, and of its widest cell, which max_width limits.      *)
_compute_widths(t, rows, o) ==
    [c \in DOMAIN t.names |->
        LET limited(n) == IF t.names[c] \in DOMAIN t.maxWidth
                          THEN Min({n, t.maxWidth[t.names[c]]}) ELSE n
        IN Largest({IF o.header THEN NameWidth[t.names[c]] ELSE 0}
                   \cup {limited(Width(rows[k][c])) :
                            k \in {j \in DOMAIN rows : c \in DOMAIN rows[j]}})]

(* textwrap.fill(line, width) counts characters: a line of n is cut after  *)
(* every width of them.  It refuses a width of 0.                          *)
Fill(line, width) ==
    [y \in 1 .. (line.n + width - 1) \div width |->
        [line EXCEPT !.n = Min({width, line.n - (y - 1) * width})]]

Wrapped(cell, width) ==
    FlattenSeq([y \in DOMAIN cell |->
        IF Blocks(cell[y]) > width THEN Fill(cell[y], width) ELSE <<cell[y]>>])

Unfillable(cell, width) == width = 0 /\ Width(cell) > 0
-----------------------------------------------------------------------------
(* Lines.                                                                  *)

Shown(t, o) == {c \in DOMAIN t.names : o.fields = AllFields \/ t.names[c] \in o.fields}

Mark(char) == [char |-> char, width |-> 1]

(* The shown cells of one line, each followed by a mark, after a mark at   *)
(* the left edge; with vrules = FRAME the mark at the right edge is        *)
(* replaced by last.  Without a border there are no marks.                 *)
Framed(o, cells, shown, edge, between, last) ==
    LET in(c) == IF c \notin shown THEN <<>>
                 ELSE IF o.border THEN <<cells[c], Mark(between)>> ELSE <<cells[c]>>
        line == (IF o.border THEN <<Mark(edge)>> ELSE <<>>)
                    \o FlattenSeq([c \in DOMAIN cells |-> in(c)])
    IN IF o.border /\ o.vrules = "FRAME" THEN Front(line) \o <<Mark(last)>> ELSE line

Edge(o, char, other) == IF o.vrules \in {"ALL", "FRAME"} THEN char ELSE other
Between(o, char, other) == IF o.vrules = "ALL" THEN char ELSE other

_stringify_hrule(t, widths, o) ==
    LET cell(c) == [char |-> o.horizontal_char, width |-> widths[c] + lpad(o) + rpad(o)]
    IN IF t.names = <<>>
       THEN <<Mark(Edge(o, o.junction_char, o.horizontal_char)), Mark(o.junction_char)>>
       ELSE Framed(o, [c \in DOMAIN widths |-> cell(c)], Shown(t, o),
                   Edge(o, o.junction_char, o.horizontal_char),
                   Between(o, o.junction_char, o.horizontal_char), o.junction_char)

(* A padded and justified cell: what is wider than its column stays so.    *)
Padded(blocks, width, o) ==
    [char |-> "text", width |-> lpad(o) + Max({width, blocks}) + rpad(o)]

(* The names are in the style of the table, not of the call; a style       *)
(* changes letters and leaves their number.                                *)
_stringify_header(self, t, widths, o) ==
    LET names == [c \in DOMAIN widths |->
                    [Padded(NameWidth[t.names[c]], widths[c], o) EXCEPT !.char = self.header_style]]
        line == IF t.names = <<>>
                THEN [k \in 1 .. IF o.border THEN 2 ELSE 1 |->
                         Mark(Edge(o, o.vertical_char, " "))]
                ELSE Framed(o, names, Shown(t, o), Edge(o, o.vertical_char, " "),
                            Between(o, o.vertical_char, " "), o.vertical_char)
        rule == <<_stringify_hrule(t, widths, o)>>
    IN (IF o.border /\ o.hrules \in {"ALL", "FRAME"} THEN rule ELSE <<>>)
           \o <<line>> \o (IF o.border /\ o.hrules # "NONE" THEN rule ELSE <<>>)

(* The lines of one row, as many as its tallest cell has, hidden or not;   *)
(* valign puts the lines of the others among them.  A row without cells    *)
(* becomes an empty line.  The marks are those the table keeps, not those  *)
(* of the call; only the last one with vrules FRAME is the call's.         *)
_stringify_row(self, t, widths, row, o) ==
    LET cells == [c \in DOMAIN row |-> Wrapped(row[c], widths[c])]
        blocks(c, y) == IF y \in DOMAIN cells[c] THEN Blocks(cells[c][y]) ELSE 0
        line(y) == Framed(o, [c \in DOMAIN row |-> Padded(blocks(c, y), widths[c], o)],
                          Shown(t, o), Edge(o, self.vertical_char, " "),
                          Between(o, self.vertical_char, " "), o.vertical_char)
        rule == IF o.border /\ o.hrules = "ALL"
                THEN <<_stringify_hrule(t, widths, o)>> ELSE <<>>
    IN IF row = <<>> THEN <<<<>>>>
       ELSE [y \in 1 .. Largest({Len(cells[c]) : c \in DOMAIN cells}) |-> line(y)] \o rule

(* get_string: the lines, or the exception of _get_rows or _stringify_row, *)
(* which looks for the last line of a row to put a rule below it: a row    *)
(* without cells, of a table without fields, has none.  Every field here   *)
(* has an alignment; module Table follows those that have not.             *)
get_string(t, self, kw) ==
    LET o == _get_options(self, kw)
        sorting == [t EXCEPT !.sortby = o.sortby, !.rows = Sliced(t, o)]
        rows == _format_rows(t, self, _get_rows(t, o))
        widths == _compute_widths(t, rows, o)
        rule == <<_stringify_hrule(t, widths, o)>>
        top == IF o.header THEN _stringify_header(self, t, widths, o)
               ELSE IF o.border /\ o.hrules \in {"ALL", "FRAME"} THEN rule ELSE <<>>
        bottom == IF o.border /\ o.hrules = "FRAME" THEN rule ELSE <<>>
    IN IF t.rows = <<>> /\ ~(o.print_empty /\ o.border) THEN [exc |-> NoExc, lines |-> <<>>]
       ELSE IF StaleSort(sorting) THEN [exc |-> "ValueError", lines |-> <<>>]
       ELSE IF UnreachedSort(sorting) THEN [exc |-> "IndexError", lines |-> <<>>]
       ELSE IF \E k \in DOMAIN rows : \E c \in DOMAIN rows[k] : Unfillable(rows[k][c], widths[c])
       THEN [exc |-> "ValueError", lines |-> <<>>]
       ELSE IF o.border /\ o.hrules = "ALL" /\ \E k \in DOMAIN rows : rows[k] = <<>>
       THEN [exc |-> "IndexError", lines |-> <<>>]
       ELSE [exc |-> NoExc, lines |->
                top \o FlattenSeq([k \in DOMAIN rows |->
                                      _stringify_row(self, t, widths, rows[k], o)]) \o bottom]
-----------------------------------------------------------------------------
(* x.option = value, where a format adds to the entries of a dictionary.   *)
(* The names of sortby and fields are checked.                             *)
Added(d, e) == [x \in FieldNames |-> IF e[x] = None THEN d[x] ELSE e[x]]

Assigned(o, setting) ==
    [x \in DOMAIN o |->
        IF x \notin DOMAIN setting THEN o[x]
        ELSE IF x \in {"int_format", "float_format"} THEN Added(o[x], setting[x])
        ELSE setting[x]]

Valid(setting) ==
    /\ "sortby" \in DOMAIN setting => setting.sortby \in Elements(tab.names) \cup {NoField}
    /\ "fields" \in DOMAIN setting => setting.fields \subseteq Elements(tab.names)

SetOption ==
    /\ calls < MaxCalls
    /\ \E setting \in {s \in Settings : Valid(s)} : opts' = Assigned(opts, setting)
    /\ calls' = calls + 1 /\ kwargs' = EmptyDict /\ text' = NoText
    /\ UNCHANGED tab

set_style ==
    /\ calls < MaxCalls
    /\ opts' \in {_set_default_style(opts), _set_msword_style(opts), _set_columns_style(opts)}
                    \cup _set_random_style(opts)
    /\ calls' = calls + 1 /\ kwargs' = EmptyDict /\ text' = NoText
    /\ UNCHANGED tab

(* x.get_string(option = value), or x.get_string().                        *)
GetString ==
    /\ text = NoText
    /\ kwargs' \in {s \in Settings : Valid(s)} \cup {EmptyDict}
    /\ text' = get_string(tab, opts, kwargs')
    /\ UNCHANGED <<tab, opts, calls>>

(* The constructor cannot be given a format: it refuses a dictionary and   *)
(* keeps a string, which is not one (prettytable.py:159, 338).             *)
Constructing ==
    {s \in Settings : Valid(s) /\ DOMAIN s \cap {"int_format", "float_format"} = {}}

Init ==
    /\ tab \in Tables
    /\ opts \in {__init__(s) : s \in Constructing \cup {EmptyDict}}
    /\ calls = 0 /\ kwargs = EmptyDict /\ text = NoText

Terminating == text # NoText /\ UNCHANGED vars

Next == SetOption \/ set_style \/ GetString \/ Terminating

Spec == Init /\ [][Next]_vars
-----------------------------------------------------------------------------
(* Every option has a value that the code looks for, however it was set,   *)
(* and the field to sort by is one of the table's (prettytable.py:504).    *)
TypeOK ==
    /\ tab \in Tables /\ calls \in 0..MaxCalls
    /\ DOMAIN opts = DOMAIN OptionTypes /\ Allowed(opts) /\ Allowed(kwargs)
    /\ {opts.sortby, _get_options(opts, kwargs).sortby} \subseteq Elements(tab.names) \cup {NoField}

Printed == text # NoText /\ text.exc = NoExc

Overwide(t) ==      \* cells whose lines cannot be cut to the column's width
    \E k \in DOMAIN t.rows : \E c \in DOMAIN t.rows[k] : \E y \in DOMAIN t.rows[k][c].lines :
        t.rows[k][c].lines[y].w > 1 /\ t.names[c] \in DOMAIN t.maxWidth

FullRows(t) == \A k \in DOMAIN t.rows : t.rows[k] # <<>> /\ Len(t.rows[k]) = Len(t.names)

(* Every line of the text has its marks in the columns where the rules     *)
(* have theirs, whichever options were set, for wrapped and many-line      *)
(* cells, hidden columns and all styles, as long as no limited column      *)
(* holds characters of two blocks (prettytable.py:1090) and every row has  *)
(* a cell for every field, and at least one.                               *)
Shape(line) == [k \in DOMAIN line |-> line[k].width]

Grid ==
    Printed /\ ~Overwide(tab) /\ FullRows(tab) =>
        \A j, k \in DOMAIN text.lines : Shape(text.lines[j]) = Shape(text.lines[k])

(* An option passed to get_string has the effect of the same option set    *)
(* before, except four that are looked up in the table all the same:       *)
(* vertical_char in a row (prettytable.py:1112, 1139), header_style        *)
(* (:1056), int_format and float_format (:886, :888).                      *)
AskedOfTable == {"vertical_char", "header_style", "int_format", "float_format"}

PassedLikeSet ==
    text # NoText /\ DOMAIN kwargs \cap AskedOfTable = {} =>
        text = get_string(tab, Assigned(opts, kwargs), EmptyDict)

(* A header with names that are not empty keeps textwrap from being called *)
(* with a width of 0, whatever max_width is (prettytable.py:1091): a text  *)
(* can then only fail because of the field it is sorted by, or because a   *)
(* row has no cells to print.                                              *)
HeaderKeepsWidth ==
    text # NoText /\ text.exc # NoExc /\ _get_options(opts, kwargs).header =>
        /\ \/ _get_options(opts, kwargs).sortby # NoField
           \/ tab.names = <<>> \/ <<>> \in Elements(tab.rows)
        /\ ~FullRows(tab)
=============================================================================
