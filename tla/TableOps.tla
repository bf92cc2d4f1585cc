------------------------------ MODULE TableOps ------------------------------
(***************************************************************************)
(* The operations of a PrettyTable object (prettytable.py) on its data:    *)
(* field names, rows, and the dictionaries that hold one entry per field   *)
(* name.  Each takes a table t and the dictionaries l it works on and      *)
(* gives the result of the call: the table and the dictionaries as the     *)
(* call leaves them, and the exception it raises, NoExc if it returns.     *)
(*                                                                         *)
(* The dictionaries are kept apart from the table because a slice of a     *)
(* table has a field list and rows of its own but the very dictionaries    *)
(* of the table it was taken from.  A dictionary is a function whose       *)
(* domain is the set of its keys.                                          *)
(***************************************************************************)
EXTENDS Integers, Sequences

CONSTANT FieldN     \* FieldN[n] is the name "Field n" of an unnamed column

NoExc == "none"
NoField == "None"   \* sortby = None
EmptyDict == [x \in {} |-> {}]

Elements(s) == {s[k] : k \in DOMAIN s}
Unique(s) == \A j, k \in DOMAIN s : s[j] = s[k] => j = k

Result(t, l, exc) == [t |-> t, l |-> l, exc |-> exc]
Raise(t, l, exc) == Result(t, l, exc)
Return(t, l) == Result(t, l, NoExc)

(* PrettyTable() with no field names and no options.                       *)
Blank == [names |-> <<>>, rows |-> <<>>, maxWidth |-> EmptyDict, sortby |-> NoField]
NoLook == [align |-> EmptyDict, valign |-> EmptyDict]
-----------------------------------------------------------------------------
(* Field names.                                                            *)

(* As many names as there are fields and cells in the first row, no two    *)
(* of them equal.                                                          *)
ValidFieldNames(t, names) ==
    /\ t.names # <<>> => Len(names) = Len(t.names)
    /\ t.rows # <<>> => Len(names) = Len(t.rows[1])
    /\ Unique(names)

(* for old, new in zip(olds, news): d[new] = d[old].  One entry is copied  *)
(* after the other, so an entry may be read after it was overwritten; the  *)
(* first old name without an entry ends the loop with a KeyError.          *)
Missing(d, olds, news) ==
    {k \in DOMAIN olds : olds[k] \notin DOMAIN d \cup {news[j] : j \in 1 .. k - 1}}

CopiedFrom(olds, news) ==
    LET from[k \in DOMAIN news] ==
            IF \E j \in 1 .. k - 1 : news[j] = olds[k]
            THEN from[CHOOSE j \in 1 .. k - 1 : news[j] = olds[k]]
            ELSE olds[k]
    IN from

CopyEntries(d, olds, news) ==
    LET done == {k \in DOMAIN olds : \A m \in Missing(d, olds, news) : k < m}
        from == CopiedFrom(olds, news)
    IN [x \in DOMAIN d \cup {news[k] : k \in done} |->
            IF \E k \in done : news[k] = x
            THEN d[from[CHOOSE k \in done : news[k] = x]]
            ELSE d[x]]

(* Mutant: the entries of dropped names are removed, as the loop after the *)
(* copying seems meant to do.                                              *)
Relabel_pops(d, olds, news, default) ==
    IF DOMAIN d # {} /\ olds # <<>>
    THEN LET all == CopyEntries(d, olds, news)
         IN [d |-> [x \in DOMAIN all \ (Elements(olds) \ Elements(news)) |-> all[x]],
             exc |-> NoExc]
    ELSE [d |-> [x \in Elements(news) |-> default], exc |-> NoExc]

(* Mutant: a renamed field starts with the default.                        *)
Relabel_resets(d, olds, news, default) ==
    [d |-> [x \in DOMAIN d \cup Elements(news) |->
                IF x \in Elements(news) THEN default ELSE d[x]],
     exc |-> NoExc]

(* What _set_field_names does to one dictionary.  old_names is assigned    *)
(* only if there were names: a dictionary with entries but no names, left  *)
(* by clear(), is an UnboundLocalError.  The loop over old_names that      *)
(* follows removes nothing: it looks for old names without an entry.       *)
Relabel(d, olds, news, default) ==
    IF DOMAIN d = {}
    THEN [d |-> [x \in Elements(news) |-> default], exc |-> NoExc]
    ELSE IF olds = <<>>
    THEN [d |-> d, exc |-> "UnboundLocalError"]
    ELSE [d |-> CopyEntries(d, olds, news),
          exc |-> IF Missing(d, olds, news) = {} THEN NoExc ELSE "KeyError"]

(* Mutant: the names are assigned before they are checked.                 *)
_set_field_names_late(t, l, names) ==
    LET named == [t EXCEPT !.names = names]
        align == Relabel(l.align, t.names, names, "c")
        valign == Relabel(l.valign, t.names, names, "t")
    IN IF ~ValidFieldNames(t, names) THEN Raise(named, l, "Exception")
       ELSE Result(named, [align |-> align.d, valign |-> valign.d], align.exc)

(* field_names = names: the names are assigned before the dictionaries are *)
(* brought up to date, and stay if that fails.                             *)
_set_field_names(t, l, names) ==
    LET named == [t EXCEPT !.names = names]
        align == Relabel(l.align, t.names, names, "c")
        valign == Relabel(l.valign, t.names, names, "t")
    IN IF ~ValidFieldNames(t, names) THEN Raise(t, l, "Exception")
       ELSE IF align.exc # NoExc
       THEN Raise(named, [l EXCEPT !.align = align.d], align.exc)
       ELSE Result(named, [align |-> align.d, valign |-> valign.d], valign.exc)

(* x.align = a, x.valign = a, x.max_width = n: an entry for every current  *)
(* name; entries of former names stay.                                     *)
ForAllFields(t, d, val) ==
    [x \in DOMAIN d \cup Elements(t.names) |->
        IF x \in Elements(t.names) THEN val ELSE d[x]]

_set_align(t, l, val) ==
    IF val \in {"l", "c", "r"}
    THEN Return(t, [l EXCEPT !.align = ForAllFields(t, @, val)])
    ELSE Raise(t, l, "Exception")

_set_valign(t, l, val) ==
    IF val \in {"t", "m", "b", "None"}
    THEN Return(t, [l EXCEPT !.valign = ForAllFields(t, @, val)])
    ELSE Raise(t, l, "Exception")

_set_max_width(t, l, n) ==
    IF n >= 0 THEN Return([t EXCEPT !.maxWidth = ForAllFields(t, @, n)], l)
    ELSE Raise(t, l, "Exception")

(* x.sortby = name: looked up when it is set, not when it is used.         *)
_set_sortby(t, l, name) ==
    IF name \in Elements(t.names) \cup {NoField}
    THEN Return([t EXCEPT !.sortby = name], l)
    ELSE Raise(t, l, "Exception")
-----------------------------------------------------------------------------
(* Rows and columns.                                                       *)

(* Mutant: the row is not measured.                                        *)
add_row_anyLength(t, l, row) ==
    LET named == _set_field_names(t, l, [k \in 1 .. Len(row) |-> FieldN[k]])
        appended(u) == [u EXCEPT !.rows = Append(@, row)]
    IN IF t.names # <<>> THEN Return(appended(t), l)
       ELSE IF named.exc # NoExc THEN named
       ELSE Return(appended(named.t), named.l)

(* A table without names first gets the names "Field 1", "Field 2", ...;   *)
(* if that fails the row is not appended.                                  *)
add_row(t, l, row) ==
    LET named == _set_field_names(t, l, [k \in 1 .. Len(row) |-> FieldN[k]])
        appended(u) == [u EXCEPT !.rows = Append(@, row)]
    IN IF t.names # <<>> /\ Len(row) # Len(t.names) THEN Raise(t, l, "Exception")
       ELSE IF t.names # <<>> THEN Return(appended(t), l)
       ELSE IF named.exc # NoExc THEN named
       ELSE Return(appended(named.t), named.l)

(* The index is compared with the last one only; del counts a negative     *)
(* index from the end.                                                     *)
del_row(t, l, index) ==
    LET n == Len(t.rows)
        at == IF index < 0 THEN n + index ELSE index
    IN IF index > n - 1 THEN Raise(t, l, "Exception")
       ELSE IF at < 0 THEN Raise(t, l, "IndexError")
       ELSE Return([t EXCEPT !.rows = SubSeq(@, 1, at) \o SubSeq(@, at + 2, n)], l)

(* A column goes to a table with as many rows as it has cells, or with     *)
(* none: then every cell starts a row of its own, also when the table      *)
(* already has other fields.  Nothing asks whether the name is new.        *)
add_column(t, l, name, column, align, valign) ==
    IF \/ Len(t.rows) \notin {0, Len(column)}
       \/ align \notin {"l", "c", "r"} \/ valign \notin {"t", "m", "b", "None"}
    THEN Raise(t, l, "Exception")
    ELSE Return([t EXCEPT
                    !.names = Append(@, name),
                    !.rows = IF t.rows = <<>>
                             THEN [k \in DOMAIN column |-> <<column[k]>>]
                             ELSE [k \in DOMAIN column |-> Append(t.rows[k], column[k])]],
                [align  |-> [x \in DOMAIN l.align \cup {name} |->
                                IF x = name THEN align ELSE l.align[x]],
                 valign |-> [x \in DOMAIN l.valign \cup {name} |->
                                IF x = name THEN valign ELSE l.valign[x]]])

clear_rows(t, l) == Return([t EXCEPT !.rows = <<>>], l)

(* The dictionaries keep their entries, and sortby its field.              *)
clear(t, l) == Return([t EXCEPT !.rows = <<>>, !.names = <<>>], l)

(* x[from:to]: a new table that takes over the names, the rows and the     *)
(* attributes, max_width excepted.  Its rows are added by add_row, which   *)
(* refuses one that is shorter than the names; its names are checked       *)
(* again, and two that are equal are refused.  The entries made for it on  *)
(* the way are replaced by the dictionaries of x, which it shares; if      *)
(* these have entries, a row of a table without names, which has no cells, *)
(* is an attempt to name the fields again.                                 *)
__getitem__(t, l, from, to) ==
    LET rows == SubSeq(t.rows, from + 1, to)
        new == [t EXCEPT !.rows = rows, !.maxWidth = EmptyDict]
        fits == t.names # <<>> => \A k \in DOMAIN rows : Len(rows[k]) = Len(t.names)
        renames == t.names = <<>> /\ rows # <<>> /\ DOMAIN l.align \cup DOMAIN l.valign # {}
    IN IF ~Unique(t.names) \/ ~fits THEN Raise(Blank, NoLook, "Exception")
       ELSE IF renames THEN Raise(Blank, NoLook, "UnboundLocalError")
       ELSE Return(new, l)
-----------------------------------------------------------------------------
(* Printing.                                                               *)

(* The exception get_string raises for the whole table with a header: from *)
(* _get_rows if the sort field is not a name (any more) or a row does not  *)
(* reach it, from _stringify_header or _stringify_row if a field has no    *)
(* alignment.  _format_row cuts a row at the last name.                    *)
Position(s, x) == CHOOSE k \in DOMAIN s : s[k] = x /\ \A j \in 1 .. k - 1 : s[j] # x

StaleSort(t) == t.sortby # NoField /\ t.sortby \notin Elements(t.names)

UnreachedSort(t) ==
    /\ t.sortby \in Elements(t.names)
    /\ \E k \in DOMAIN t.rows : Len(t.rows[k]) < Position(t.names, t.sortby)



Unaligned(t, l) ==
    \/ \E x \in Elements(t.names) : x \notin DOMAIN l.align
    \/ \E k \in DOMAIN t.rows : \E c \in DOMAIN t.rows[k] \cap DOMAIN t.names :
          t.names[c] \notin DOMAIN l.valign

Failure(t, l) ==
    IF StaleSort(t) THEN "ValueError"
    ELSE IF UnreachedSort(t) THEN "IndexError"
    ELSE IF Unaligned(t, l) THEN "KeyError"
    ELSE NoExc
=============================================================================
