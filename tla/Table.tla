-------------------------------- MODULE Table --------------------------------
(***************************************************************************)
(* PrettyTable objects (prettytable.py) as a program uses them: any        *)
(* sequence of calls on several tables, of which some are slices of        *)
(* others.  A call that raises an exception leaves the objects as it found *)
(* them or half changed, and the program goes on with them.                *)
(***************************************************************************)
EXTENDS TableOps

CONSTANTS
    Objects,    \* the tables a program may make
    Names,      \* field names it uses
    MaxCols,    \* bound: columns of a table
    MaxRows,    \* bound: rows of a table
    MaxCalls    \* bound: calls in one behaviour

(* What stands for a table that was not made yet.                          *)
NoTable == [names |-> <<>>, rows |-> <<>>, maxWidth |-> EmptyDict, sortby |-> "no table"]

ASSUME FieldNAssumption == FieldN \in [1 .. MaxCols -> STRING]
ASSUME NamesAssumption  == Names \subseteq STRING \ {NoField, NoTable.sortby}
ASSUME BoundAssumption  == MaxCols \in Nat /\ MaxRows \in Nat /\ MaxCalls \in Nat

VARIABLES
    table,      \* each object, NoTable before it is made
    look,       \* the dictionaries each object was made with
    uses,       \* whose dictionaries an object works on
    raised,     \* the exception the last call raised
    calls       \* calls so far

vars == <<table, look, uses, raised, calls>>

Exists(x) == table[x] # NoTable
LookOf(x) == look[uses[x]]

Cell == "cell"      \* what a cell holds does not matter here
Row(n) == [k \in 1..n |-> Cell]

NameLists == UNION {[1..n -> Names] : n \in 0..MaxCols}

(* A call on x, with its outcome r.                                        *)
Call(x, r) ==
    /\ Exists(x) /\ calls < MaxCalls
    /\ Len(r.t.names) <= MaxCols /\ Len(r.t.rows) <= MaxRows
    /\ table' = [table EXCEPT ![x] = r.t]
    /\ look' = [look EXCEPT ![uses[x]] = r.l]
    /\ raised' = r.exc
    /\ calls' = calls + 1
    /\ UNCHANGED uses

(* An expression that makes the object x, which works on the dictionaries  *)
(* of owner; an exception leaves no object.                                *)
Make(x, r, owner) ==
    /\ ~Exists(x) /\ calls < MaxCalls
    /\ \/ /\ r.exc = NoExc
          /\ table' = [table EXCEPT ![x] = r.t]
          /\ look' = [look EXCEPT ![owner] = r.l]
          /\ uses' = [uses EXCEPT ![x] = owner]
       \/ r.exc # NoExc /\ UNCHANGED <<table, look, uses>>
    /\ raised' = r.exc
    /\ calls' = calls + 1
-----------------------------------------------------------------------------
(* PrettyTable(names): an empty list is no list.                           *)
Construct(x) ==
    \E names \in NameLists : Make(x, _set_field_names(Blank, NoLook, names), x)

SetFieldNames(x) ==
    \E names \in NameLists :
        Call(x, _set_field_names(table[x], LookOf(x), names))

SetAlign(x)  == Call(x, _set_align(table[x], LookOf(x), "l"))
SetValign(x) == Call(x, _set_valign(table[x], LookOf(x), "t"))

SetSortby(x) ==
    \E name \in Names \cup {NoField} :
        Call(x, _set_sortby(table[x], LookOf(x), name))

AddRow(x) == \E n \in 0..MaxCols : Call(x, add_row(table[x], LookOf(x), Row(n)))

DelRow(x) == \E index \in -2..1 : Call(x, del_row(table[x], LookOf(x), index))

AddColumn(x) ==
    \E name \in Names, n \in 0..MaxRows, valign \in {"t", "top"} :
        Call(x, add_column(table[x], LookOf(x), name, Row(n), "c", valign))

ClearRows(x) == Call(x, clear_rows(table[x], LookOf(x)))
Clear(x)     == Call(x, clear(table[x], LookOf(x)))

(* x.copy(): a deep copy, with dictionaries of its own.                    *)
Copy(x, new) == Exists(x) /\ Make(new, Return(table[x], LookOf(x)), new)

(* x[from:to].                                                             *)
Slice(x, new) ==
    /\ Exists(x)
    /\ \E from, to \in 0 .. Len(table[x].rows) :
          Make(new, __getitem__(table[x], LookOf(x), from, to), uses[x])

Init ==
    /\ table = [x \in Objects |-> NoTable]
    /\ look = [x \in Objects |-> NoLook]
    /\ uses = [x \in Objects |-> x]
    /\ raised = NoExc
    /\ calls = 0

Terminating == calls = MaxCalls /\ UNCHANGED vars

Next ==
    \/ \E x \in Objects :
          \/ Construct(x) \/ SetFieldNames(x) \/ SetAlign(x) \/ SetValign(x)
          \/ SetSortby(x) \/ AddRow(x) \/ DelRow(x) \/ AddColumn(x)
          \/ ClearRows(x) \/ Clear(x)
    \/ \E x, new \in Objects : Copy(x, new) \/ Slice(x, new)
    \/ Terminating

Spec == Init /\ [][Next]_vars
-----------------------------------------------------------------------------
(* A call on a table that is refused with the module's own exception       *)
(* leaves every table as it was, also when it is a rename in the middle of *)
(* an add_row, as on a table whose rows are all empty (the checks of       *)
(* prettytable.py:286, :295, :818 and :847).                               *)
RefusedCallsChangeNothing ==
    [][raised' = "Exception" => UNCHANGED <<table, look>>]_vars

(* A table's rows have as many cells as it has fields, until a column is   *)
(* added while it has fields but no rows (prettytable.py:847); even then   *)
(* no row gets longer than the field list, so that none is cut when it is  *)
(* printed (:939).                                                         *)
Fits(t) == \A k \in DOMAIN t.rows : Len(t.rows[k]) = Len(t.names)
TooLong(t) == \E k \in DOMAIN t.rows : Len(t.rows[k]) > Len(t.names)

RowsFit ==
    [][\A x \in Objects :
        /\ Exists(x) /\ Fits(table[x]) /\ ~Fits(table'[x]) =>
              table[x].rows = <<>> /\ table[x].names # <<>>
        /\ ~TooLong(table'[x])]_vars

(* A table that prints, and would with rows in it, goes on doing so        *)
(* whatever is done to it and to the tables it shares its dictionaries     *)
(* with, and so do its slices and copies: only clearing or renaming the    *)
(* field it is sorted by, a row too short for that field, and a new field  *)
(* list after clear() end that (prettytable.py:416, :929).                 *)
HalfNamed(t, l) == ~(Elements(t.names) \subseteq DOMAIN l.align \cap DOMAIN l.valign)

Prints(x) ==
    Exists(x) => Failure(table[x], LookOf(x)) = NoExc /\ ~HalfNamed(table[x], LookOf(x))

PrintingEndsForCause ==
    [][\A x \in Objects : Prints(x) /\ ~Prints(x)' =>
        \/ StaleSort(table'[x]) \/ UnreachedSort(table'[x])
        \/ table[x].names = <<>> /\ raised' = "UnboundLocalError"
        \/ ~Exists(x) /\ \E y \in Objects :
              ~Prints(y) /\ table[y].names = table'[x].names]_vars

(* A field that is renamed keeps its alignment, in its own table and also  *)
(* when other tables share the dictionaries, as long as no other field of  *)
(* the table had the new name (prettytable.py:418).                        *)
RenamedInPlace(olds, news) ==
    /\ olds # news /\ Len(olds) = Len(news)
    /\ \A j, k \in DOMAIN olds : j # k => olds[j] # news[k]

RenamingKeepsAlignment ==
    [][\A x \in Objects :
        RenamedInPlace(table[x].names, table'[x].names) /\ raised' = NoExc =>
            \A k \in DOMAIN table[x].names :
                LookOf(x)'.align[table'[x].names[k]] = LookOf(x).align[table[x].names[k]]]_vars
=============================================================================
