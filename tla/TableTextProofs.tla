--------------------------- MODULE TableTextProofs ---------------------------
(***************************************************************************)
(* Proofs about the two forms a table is printed in. About TableText, for  *)
(* all tables, settings and numbers of calls: which options a text is made *)
(* with, how its lines are laid out, and what get_string can fail for.     *)
(* About HtmlTable, for all pages: which tables are read off them.         *)
(*                                                                         *)
(* The operators of TableText are folds, sorts and maxima of sequences.    *)
(* What they give is shown by way of the least number of a set: a claim    *)
(* that fails for some prefix of a sequence, or some size of a set, fails  *)
(* for a shortest or smallest one first. From UpTo follow the types and    *)
(* shapes of FlattenSeq's results, from MaxExists the widths of columns,   *)
(* and from Ranked that a sort by rank gives each row its place.           *)
(*                                                                         *)
(* The inductive invariant IInv says that the options keep their types and *)
(* the text is what get_string makes of them. The other theorems are then  *)
(* about get_string: each line of a text is shown to have the shape of the *)
(* rule for its widths (RuleGood, HeaderGood, RowGood), which the lines of *)
(* each cell fit once they are wrapped (WrappedFits, RowsFit).             *)
(*                                                                         *)
(* The inductive invariant ReadInv says where on the page the reading is   *)
(* (Somewhere) and what the handler holds there: the rest of the page is   *)
(* the rest of a table, a row, a cell or its lines and what follows it     *)
(* (AfterTable, AfterRow, AfterCell, AfterLine), rows and last_row are     *)
(* what has been read of it (RowsRead, CellsUpTo). Each tag leads from one *)
(* place to the next. At the end of a table generate_table is shown to     *)
(* return what the rows say (TableGenerated, TableIsFaithful), or to fail  *)
(* for one of two causes (EvenNeverFails), where UniqueMade says when the  *)
(* passes of make_fields_unique reach their aim.                           *)
(***************************************************************************)
EXTENDS TableText, HtmlTable, FiniteSetTheorems, SequenceTheorems, TLAPS

(* Numbers are ordered by a relation that has no endless descent.          *)
LEMMA OrderOfNat ==
  \E R : IsWellFoundedOn(R, Nat) /\ \A m, n \in Nat : m < n => <<m, n>> \in R
<1> DEFINE R == OpToRel(<, Nat)
<1>1. IsWellFoundedOn(R, Nat)
  BY NatLessThanWellFounded
<1>2. \A m, n \in Nat : m < n => <<m, n>> \in R
  BY DEF OpToRel
<1> HIDE DEF R
<1> QED
  BY <1>1, <1>2

(* A set of naturals that is not empty has a least element.                *)
LEMMA LeastNumber ==
  ASSUME NEW T, T \subseteq Nat, T # {}
  PROVE  \E m \in T : \A n \in T : m <= n
<1>1. PICK R : IsWellFoundedOn(R, Nat) /\ \A m, n \in Nat : m < n => <<m, n>> \in R
  BY OrderOfNat
<1>2. \E m \in T : \A n \in T : <<n, m>> \notin R
  <2>1. IsWellFoundedOn(R, Nat)
    BY <1>1
  <2> QED
    BY <2>1, WFMin, Zenon
<1>3. PICK m \in T : \A n \in T : <<n, m>> \notin R
  BY <1>2
<1>4. ASSUME NEW n \in T PROVE m <= n
  <2>1. m \in Nat /\ n \in Nat
    OBVIOUS
  <2>2. ~(n < m)
    <3>1. <<n, m>> \notin R
      BY <1>3
    <3> QED
      BY <1>1, <2>1, <3>1, Zenon
  <2> QED
    BY <2>1, <2>2
<1> QED
  BY <1>4

(* A set of numbers from 1 to n that has 1 and with each number the next   *)
(* has all of them.                                                        *)
LEMMA UpTo ==
  ASSUME NEW n \in Nat, NEW S,
         1 \in S, \A m \in 2..n : m - 1 \in S => m \in S
  PROVE  1..n \subseteq S
<1> DEFINE T == (1..n) \ S
<1>1. SUFFICES ASSUME T # {} PROVE FALSE
  OBVIOUS
<1>2. PICK m \in T : \A k \in T : m <= k
  <2>1. T \subseteq Nat
    OBVIOUS
  <2> HIDE DEF T
  <2> QED
    BY <1>1, <2>1, LeastNumber
<1>3. m \in 2..n /\ m - 1 \in 1..n /\ ~(m <= m - 1)
  BY <1>2
<1>4. m - 1 \notin T
  BY <1>2, <1>3
<1> QED
  BY <1>3, <1>4
-----------------------------------------------------------------------------
(* FlattenSeq.  The function that it defines by recursion exists ...       *)
Joins(s, f) == [i \in 1..Len(s) |-> IF i = 1 THEN s[i] ELSE f[i - 1] \o s[i]]

LEMMA JoinsExist ==
  ASSUME NEW L, NEW s \in Seq(Seq(L)), s # <<>>
  PROVE  \E f : f = Joins(s, f)
<1> DEFINE upTo(n, f) == [i \in 1..n |-> IF i = 1 THEN s[i] ELSE f[i - 1] \o s[i]]
           S == {n \in 1..Len(s) : \E f : f = upTo(n, f)}
<1>1. Len(s) \in Nat \ {0}
  OBVIOUS
<1>2. 1 \in S
  <2> DEFINE f == [i \in 1..1 |-> s[1]]
  <2>1. f = upTo(1, f)
    OBVIOUS
  <2> HIDE DEF f
  <2>2. \E h : h = upTo(1, h)
    BY <2>1
  <2> HIDE DEF upTo
  <2> QED
    BY <1>1, <2>2
<1>3. ASSUME NEW m \in 2..Len(s), m - 1 \in S PROVE m \in S
  <2>1. PICK f : f = upTo(m - 1, f)
    BY <1>3
  <2> DEFINE g == [i \in 1..m |-> IF i < m THEN f[i] ELSE f[m - 1] \o s[m]]
  <2>2. ASSUME NEW i \in 1..m PROVE g[i] = IF i = 1 THEN s[i] ELSE g[i - 1] \o s[i]
    <3>1. CASE i = m
      BY <3>1, <1>3
    <3>2. CASE i < m
      <4>1. i \in 1..(m - 1)
        BY <3>2, <1>3
      <4>2. f[i] = IF i = 1 THEN s[i] ELSE f[i - 1] \o s[i]
        BY <2>1, <4>1
      <4>3. g[i] = f[i] /\ (i # 1 => g[i - 1] = f[i - 1])
        BY <3>2, <1>3
      <4> QED
        BY <4>2, <4>3
    <3> QED
      BY <3>1, <3>2, <1>3
  <2> HIDE DEF g
  <2>3. g = [i \in 1..m |-> g[i]]
    BY DEF g
  <2>4. g = upTo(m, g)
    BY <2>2, <2>3
  <2>5. \E h : h = upTo(m, h)
    BY <2>4
  <2>6. m \in 1..Len(s)
    BY <1>1
  <2> HIDE DEF upTo
  <2> QED
    BY <2>5, <2>6
<1> HIDE DEF S
<1>4. Len(s) \in S
  <2>1. Len(s) \in Nat /\ Len(s) \in 1..Len(s) /\ \A m \in 2..Len(s) : m - 1 \in S => m \in S
    BY <1>1, <1>3
  <2> QED
    BY <1>2, <2>1, UpTo
<1> QED
  BY <1>4 DEF S, Joins

(* ... and its values are sequences, the last of which is FlattenSeq.      *)
LEMMA FlattenIsLast ==
  ASSUME NEW L, NEW s \in Seq(Seq(L)), s # <<>>
  PROVE  \E f \in [1..Len(s) -> Seq(L)] : f = Joins(s, f) /\ FlattenSeq(s) = f[Len(s)]
<1> DEFINE f == CHOOSE g : g = Joins(s, g)
<1>1. f = Joins(s, f)
  BY JoinsExist
<1>2. FlattenSeq(s) = f[Len(s)]
  BY DEF FlattenSeq, Joins
<1> HIDE DEF f
<1> DEFINE S == {i \in 1..Len(s) : f[i] \in Seq(L)}
<1>3. Len(s) \in Nat \ {0}
  OBVIOUS
<1>4. 1 \in S
  <2>1. f[1] = s[1] /\ s[1] \in Seq(L)
    BY <1>1, <1>3 DEF Joins
  <2> QED
    BY <1>3, <2>1
<1>5. ASSUME NEW m \in 2..Len(s), m - 1 \in S PROVE m \in S
  <2>1. m \in 1..Len(s) /\ m # 1
    BY <1>3
  <2>2. f[m] = f[m - 1] \o s[m]
    BY <1>1, <2>1 DEF Joins
  <2>3. f[m - 1] \in Seq(L) /\ s[m] \in Seq(L)
    BY <1>5, <2>1
  <2>4. f[m] \in Seq(L)
    BY <2>2, <2>3
  <2> QED
    BY <2>1, <2>4
<1>6. 1..Len(s) \subseteq S
  <2> HIDE DEF S
  <2>1. Len(s) \in Nat /\ \A m \in 2..Len(s) : m - 1 \in S => m \in S
    BY <1>3, <1>5
  <2> QED
    BY <1>4, <2>1, UpTo
<1> QED
  BY <1>1, <1>2, <1>6 DEF Joins

LEMMA FlattenType ==
  ASSUME NEW L, NEW s \in Seq(Seq(L))
  PROVE  FlattenSeq(s) \in Seq(L)
<1>1. CASE s = <<>>
  BY <1>1 DEF FlattenSeq
<1>2. CASE s # <<>>
  <2>1. Len(s) \in 1..Len(s)
    BY <1>2
  <2> QED
    BY <1>2, <2>1, FlattenIsLast
<1> QED
  BY <1>1, <1>2

(* Two lines have the same shape.                                          *)
Alike(a, b) == Len(a) = Len(b) /\ \A k \in 1..Len(a) : a[k].width = b[k].width

LEMMA AlikeJoined ==
  ASSUME NEW L, NEW a \in Seq(L), NEW b \in Seq(L), NEW c \in Seq(L), NEW d \in Seq(L),
         Alike(a, b), Alike(c, d)
  PROVE  Alike(a \o c, b \o d)
<1>1. Len(a) = Len(b) /\ Len(c) = Len(d) /\ Len(a) \in Nat /\ Len(c) \in Nat
  BY DEF Alike
<1>2. Len(a \o c) = Len(a) + Len(c) /\ Len(b \o d) = Len(a) + Len(c)
  BY <1>1
<1>3. ASSUME NEW k \in 1..Len(a) + Len(c)
      PROVE  (a \o c)[k].width = (b \o d)[k].width
  <2>1. CASE k <= Len(a)
    <3>1. (a \o c)[k] = a[k] /\ (b \o d)[k] = b[k] /\ k \in 1..Len(a)
      BY <1>1, <2>1
    <3> QED
      BY <3>1 DEF Alike
  <2>2. CASE k > Len(a)
    <3>1. /\ (a \o c)[k] = c[k - Len(a)] /\ (b \o d)[k] = d[k - Len(a)]
          /\ k - Len(a) \in 1..Len(c)
      BY <1>1, <2>2
    <3> QED
      BY <3>1 DEF Alike
  <2> QED
    BY <1>1, <2>1, <2>2
<1> QED
  BY <1>2, <1>3 DEF Alike

LEMMA AlikeFlattened ==
  ASSUME NEW L, NEW s \in Seq(Seq(L)), NEW t \in Seq(Seq(L)),
         Len(s) = Len(t), \A k \in 1..Len(s) : Alike(s[k], t[k])
  PROVE  Alike(FlattenSeq(s), FlattenSeq(t))
<1>1. CASE s = <<>>
  <2>1. t = <<>>
    BY <1>1
  <2>2. FlattenSeq(s) = <<>> /\ FlattenSeq(t) = <<>>
    BY <1>1, <2>1 DEF FlattenSeq
  <2> QED
    BY <2>2 DEF Alike
<1>2. CASE s # <<>>
  <2>1. t # <<>> /\ Len(s) \in Nat \ {0}
    BY <1>2
  <2>2. PICK f \in [1..Len(s) -> Seq(L)] : f = Joins(s, f) /\ FlattenSeq(s) = f[Len(s)]
    BY <1>2, FlattenIsLast
  <2>3. PICK g \in [1..Len(t) -> Seq(L)] : g = Joins(t, g) /\ FlattenSeq(t) = g[Len(t)]
    BY <2>1, FlattenIsLast
  <2> DEFINE S == {i \in 1..Len(s) : Alike(f[i], g[i])}
  <2>4. 1 \in S
    <3>1. f[1] = s[1] /\ g[1] = t[1]
      BY <2>1, <2>2, <2>3 DEF Joins
    <3> QED
      BY <2>1, <3>1
  <2>5. ASSUME NEW m \in 2..Len(s), m - 1 \in S PROVE m \in S
    <3>1. m \in 1..Len(s) /\ m - 1 \in 1..Len(s) /\ m # 1
      BY <2>1
    <3>2. f[m] = f[m - 1] \o s[m] /\ g[m] = g[m - 1] \o t[m]
      BY <2>2, <2>3, <3>1 DEF Joins
    <3>3. f[m - 1] \in Seq(L) /\ g[m - 1] \in Seq(L) /\ s[m] \in Seq(L) /\ t[m] \in Seq(L)
      <4>1. f[m - 1] \in Seq(L) /\ g[m - 1] \in Seq(L)
        BY <3>1
      <4>2. s[m] \in Seq(L)
        BY <3>1
      <4>3. t[m] \in Seq(L)
        BY <3>1
      <4> QED
        BY <4>1, <4>2, <4>3
    <3>4. Alike(f[m - 1], g[m - 1]) /\ Alike(s[m], t[m])
      BY <2>5, <3>1
    <3>5. Alike(f[m], g[m])
      BY <3>2, <3>3, <3>4, AlikeJoined
    <3> QED
      BY <3>1, <3>5
  <2> HIDE DEF S
  <2>6. 1..Len(s) \subseteq S
    <3>1. Len(s) \in Nat /\ \A m \in 2..Len(s) : m - 1 \in S => m \in S
      BY <2>1, <2>5
    <3> QED
      BY <2>4, <3>1, UpTo
  <2>7. Len(s) \in 1..Len(s)
    BY <2>1
  <2>8. Alike(f[Len(s)], g[Len(s)])
    BY <2>6, <2>7 DEF S
  <2> QED
    BY <2>2, <2>3, <2>8
<1> QED
  BY <1>1, <1>2
-----------------------------------------------------------------------------
(* Maxima of finite sets.                                                  *)
LEMMA ImageIsFinite ==
  ASSUME NEW f, IsFiniteSet(DOMAIN f)
  PROVE  IsFiniteSet({f[x] : x \in DOMAIN f})
<1> DEFINE T == {f[x] : x \in DOMAIN f}
           g == [x \in DOMAIN f |-> f[x]]
<1>1. g \in Surjection(DOMAIN f, T)
  BY DEF Surjection
<1> HIDE DEF T, g
<1>2. IsFiniteSet(T)
  BY <1>1, FS_Surjection
<1> QED
  BY <1>2 DEF T

LEMMA MaxExists ==
  ASSUME NEW S, IsFiniteSet(S), S # {}, S \subseteq Int
  PROVE  \E x \in S : \A y \in S : x >= y
<1> DEFINE Bad(n) == \E U \in SUBSET Int : /\ IsFiniteSet(U) /\ U # {} /\ Cardinality(U) = n
                                           /\ ~\E x \in U : \A y \in U : x >= y
           T == {n \in Nat : Bad(n)}
<1>1. SUFFICES ASSUME T # {} PROVE FALSE
  <2>1. Cardinality(S) \in Nat
    BY FS_CardinalityType
  <2> QED
    BY <2>1
<1>2. PICK m \in T : \A n \in T : m <= n
  <2>1. T \subseteq Nat
    OBVIOUS
  <2> HIDE DEF T
  <2> QED
    BY <1>1, <2>1, LeastNumber
<1>3. PICK U \in SUBSET Int : /\ IsFiniteSet(U) /\ U # {} /\ Cardinality(U) = m
                              /\ ~\E x \in U : \A y \in U : x >= y
  OBVIOUS
<1>4. PICK a \in U : TRUE
  BY <1>3
<1>5. IsFiniteSet(U \ {a}) /\ Cardinality(U \ {a}) = m - 1 /\ m - 1 \in Nat
  <2>1. IsFiniteSet(U \ {a}) /\ Cardinality(U \ {a}) = Cardinality(U) - 1
    BY <1>3, <1>4, FS_RemoveElement
  <2>2. Cardinality(U \ {a}) \in Nat
    BY <2>1, FS_CardinalityType
  <2> QED
    BY <1>3, <2>1, <2>2
<1>6. ~Bad(m - 1)
  <2>1. m - 1 \notin T
    <3>1. m \in Nat /\ ~(m <= m - 1)
      OBVIOUS
    <3> HIDE DEF T
    <3> QED
      BY <1>2, <3>1
  <2> QED
    BY <1>5, <2>1
<1>7. U \ {a} # {}
  BY <1>3, <1>4
<1>8. PICK b \in U \ {a} : \A y \in U \ {a} : b >= y
  BY <1>3, <1>5, <1>6, <1>7
<1>9. a \in Int /\ b \in Int /\ U \subseteq Int
  BY <1>3, <1>4
<1>10. CASE a >= b
  BY <1>3, <1>4, <1>8, <1>9, <1>10
<1>11. CASE b >= a
  BY <1>3, <1>4, <1>8, <1>9, <1>11
<1> QED
  BY <1>9, <1>10, <1>11

LEMMA LargestOf ==
  ASSUME NEW S, IsFiniteSet(S), S \subseteq Nat
  PROVE  Largest(S) \in Nat /\ \A y \in S : y <= Largest(S)
<1>1. CASE S = {}
  BY <1>1 DEF Largest
<1>2. CASE S # {}
  <2>1. \E x \in S : \A y \in S : x >= y
    <3>1. S \subseteq Int
      OBVIOUS
    <3> QED
      BY <1>2, <3>1, MaxExists
  <2>2. Max(S) \in S /\ \A y \in S : Max(S) >= y
    BY <2>1 DEF Max
  <2> QED
    BY <1>2, <2>2 DEF Largest
<1> QED
  BY <1>1, <1>2

LEMMA PairMax ==
  ASSUME NEW m \in Int, NEW n \in Int
  PROVE  Max({m, n}) = IF m >= n THEN m ELSE n
<1>1. \E x \in {m, n} : \A y \in {m, n} : x >= y
  OBVIOUS
<1>2. Max({m, n}) \in {m, n} /\ \A y \in {m, n} : Max({m, n}) >= y
  BY <1>1 DEF Max
<1> QED
  BY <1>2

LEMMA PairMin ==
  ASSUME NEW m \in Int, NEW n \in Int
  PROVE  Min({m, n}) = IF m <= n THEN m ELSE n
<1>1. \E x \in {m, n} : \A y \in {m, n} : x <= y
  OBVIOUS
<1>2. Min({m, n}) \in {m, n} /\ \A y \in {m, n} : Min({m, n}) <= y
  BY <1>1 DEF Min
<1> QED
  BY <1>2
-----------------------------------------------------------------------------
(* Options.                                                                *)
LEMMA UpdatedOptions ==
  ASSUME NEW o, NEW e, DOMAIN o = DOMAIN OptionTypes, Allowed(o), Allowed(e)
  PROVE  LET u == Updated(o, e) IN DOMAIN u = DOMAIN OptionTypes /\ Allowed(u)
<1> HIDE DEF OptionTypes
<1> QED
  BY DEF Updated, Allowed

(* The options of a table that printing asks for, whatever the call says.  *)
HasFormats(self) == self.int_format \in Formats /\ self.float_format \in Formats
HeaderStyles == {"None", "cap", "title", "upper", "lower"}

LEMMA OptionFacts ==
  ASSUME NEW o, DOMAIN o = DOMAIN OptionTypes, Allowed(o)
  PROVE  /\ o.start \in Nat /\ o.end \in Nat \cup {None}
         /\ o.fields \in SUBSET FieldNames /\ o.header \in BOOLEAN /\ o.border \in BOOLEAN
         /\ o.sortby \in FieldNames \cup {NoField} /\ o.reversesort \in BOOLEAN
         /\ o.padding_width \in Nat /\ o.left_padding_width \in Nat \cup {None}
         /\ o.right_padding_width \in Nat \cup {None}
         /\ o.vertical_char \in Chars /\ o.horizontal_char \in Chars
         /\ o.junction_char \in Chars
         /\ o.header_style \in HeaderStyles /\ HasFormats(o)
<1> QED
  BY DEF Allowed, OptionTypes, HeaderStyles, HasFormats

LEMMA OptionNames ==
  DOMAIN OptionTypes =
    {"start", "end", "fields", "header", "border", "sortby", "reversesort", "hrules", "vrules",
     "print_empty", "padding_width", "left_padding_width", "right_padding_width",
     "vertical_char", "horizontal_char", "junction_char",
     "header_style", "int_format", "float_format"}
<1> QED
  BY DEF OptionTypes

LEMMA OptionKinds ==
  /\ OptionTypes.header = BOOLEAN /\ OptionTypes.border = BOOLEAN
  /\ OptionTypes.hrules = {"FRAME", "ALL", "NONE", "HEADER"}
  /\ OptionTypes.vrules = {"FRAME", "ALL", "NONE"}
  /\ OptionTypes.padding_width = Nat
  /\ OptionTypes.left_padding_width = Nat \cup {None}
  /\ OptionTypes.right_padding_width = Nat \cup {None}
  /\ OptionTypes.vertical_char = Chars /\ OptionTypes.horizontal_char = Chars
  /\ OptionTypes.junction_char = Chars
<1> QED
  BY DEF OptionTypes

LEMMA DefaultAllowed ==
  DOMAIN Default = DOMAIN OptionTypes /\ Allowed(Default)
<1>1. DOMAIN Default = DOMAIN OptionTypes
  BY DEF Default, OptionTypes
<1>2. /\ Default.start \in OptionTypes.start /\ Default.end \in OptionTypes.end
      /\ Default.padding_width \in OptionTypes.padding_width
      /\ Default.left_padding_width \in OptionTypes.left_padding_width
      /\ Default.right_padding_width \in OptionTypes.right_padding_width
  BY DEF Default, OptionTypes
<1>3. /\ Default.header \in OptionTypes.header /\ Default.border \in OptionTypes.border
      /\ Default.reversesort \in OptionTypes.reversesort
      /\ Default.print_empty \in OptionTypes.print_empty
      /\ Default.fields \in OptionTypes.fields /\ Default.sortby \in OptionTypes.sortby
  BY DEF Default, OptionTypes, AllFields
<1>4. Default.hrules \in OptionTypes.hrules /\ Default.vrules \in OptionTypes.vrules
  BY DEF Default, OptionTypes
<1>5. /\ Default.vertical_char \in OptionTypes.vertical_char
      /\ Default.horizontal_char \in OptionTypes.horizontal_char
      /\ Default.junction_char \in OptionTypes.junction_char
  BY CharsAssumption DEF Default, OptionTypes
<1>6. /\ Default.header_style \in OptionTypes.header_style
      /\ Default.int_format \in OptionTypes.int_format
      /\ Default.float_format \in OptionTypes.float_format
  BY DEF Default, OptionTypes, Formats, NoFormats
<1> QED
  BY <1>1, <1>2, <1>3, <1>4, <1>5, <1>6, OptionNames DEF Allowed

(* x.option = value replaces an option or adds to a format.                *)
LEMMA AssignedOptions ==
  ASSUME NEW o, DOMAIN o = DOMAIN OptionTypes, Allowed(o), NEW e, Allowed(e)
  PROVE  /\ DOMAIN Assigned(o, e) = DOMAIN OptionTypes /\ Allowed(Assigned(o, e))
         /\ \A x \in DOMAIN o : x \notin DOMAIN e => Assigned(o, e)[x] = o[x]
         /\ \A x \in DOMAIN o \ {"int_format", "float_format"} :
               Assigned(o, e)[x] = IF x \in DOMAIN e THEN e[x] ELSE o[x]
<1>1. ASSUME NEW d \in Formats, NEW f \in Formats PROVE Added(d, f) \in Formats
  BY DEF Added, Formats
<1>2. OptionTypes.int_format = Formats /\ OptionTypes.float_format = Formats
  BY DEF OptionTypes
<1>3. ASSUME NEW x \in DOMAIN o PROVE Assigned(o, e)[x] \in OptionTypes[x]
  <2>1. o[x] \in OptionTypes[x] /\ (x \in DOMAIN e => e[x] \in OptionTypes[x])
    BY DEF Allowed
  <2>2. CASE x \in DOMAIN e /\ x \in {"int_format", "float_format"}
    <3>1. Assigned(o, e)[x] = Added(o[x], e[x]) /\ OptionTypes[x] = Formats
      BY <1>2, <2>2 DEF Assigned
    <3> QED
      BY <1>1, <2>1, <2>2, <3>1
  <2>3. CASE ~(x \in DOMAIN e /\ x \in {"int_format", "float_format"})
    BY <2>1, <2>3 DEF Assigned
  <2> QED
    BY <2>2, <2>3
<1>4. DOMAIN Assigned(o, e) = DOMAIN o
  BY DEF Assigned
<1>5. Allowed(Assigned(o, e))
  BY <1>3, <1>4 DEF Allowed
<1> QED
  BY <1>4, <1>5 DEF Assigned

LEMMA EmptyAllowed == Allowed(EmptyDict) /\ Valid(EmptyDict)
<1> QED
  BY DEF Allowed, Valid, EmptyDict

LEMMA ConstructedOptions ==
  ASSUME NEW s, Allowed(s)
  PROVE  /\ DOMAIN __init__(s) = DOMAIN OptionTypes /\ Allowed(__init__(s))
         /\ __init__(s).sortby \in {NoField} \cup {s[x] : x \in DOMAIN s \cap {"sortby"}}
<1>1. DOMAIN __init__(s) = DOMAIN OptionTypes
  BY DefaultAllowed DEF __init__
<1>2. ASSUME NEW x \in DOMAIN OptionTypes
      PROVE  __init__(s)[x] = Default[x] \/ (x \in DOMAIN s /\ __init__(s)[x] = s[x])
  BY DefaultAllowed DEF __init__
<1>3. Allowed(__init__(s))
  BY <1>1, <1>2, DefaultAllowed DEF Allowed
<1>4. "sortby" \in DOMAIN OptionTypes /\ Default.sortby = NoField
  BY DEF OptionTypes, Default
<1> QED
  BY <1>1, <1>2, <1>3, <1>4

LEMMA StyleAllowed ==
  ASSUME NEW e,
         DOMAIN e \subseteq {"header", "border", "hrules", "vrules", "padding_width",
                             "left_padding_width", "right_padding_width", "vertical_char",
                             "horizontal_char", "junction_char"},
         "header" \in DOMAIN e => e.header \in BOOLEAN,
         "border" \in DOMAIN e => e.border \in BOOLEAN,
         "hrules" \in DOMAIN e => e.hrules \in {"FRAME", "ALL", "NONE", "HEADER"},
         "vrules" \in DOMAIN e => e.vrules \in {"FRAME", "ALL", "NONE"},
         "padding_width" \in DOMAIN e => e.padding_width \in Nat,
         "left_padding_width" \in DOMAIN e => e.left_padding_width \in Nat,
         "right_padding_width" \in DOMAIN e => e.right_padding_width \in Nat,
         "vertical_char" \in DOMAIN e => e.vertical_char \in Chars,
         "horizontal_char" \in DOMAIN e => e.horizontal_char \in Chars,
         "junction_char" \in DOMAIN e => e.junction_char \in Chars
  PROVE  Allowed(e) /\ "sortby" \notin DOMAIN e
<1> QED
  BY OptionNames, OptionKinds DEF Allowed

LEMMA StylesAllowed ==
  ASSUME NEW o, DOMAIN o = DOMAIN OptionTypes, Allowed(o),
         NEW p \in {_set_default_style(o), _set_msword_style(o), _set_columns_style(o)}
                       \cup _set_random_style(o)
  PROVE  DOMAIN p = DOMAIN OptionTypes /\ Allowed(p) /\ p.sortby = o.sortby
<1>1. PICK e : p = Updated(o, e) /\ Allowed(e) /\ "sortby" \notin DOMAIN e
  <2>1. CASE p = _set_default_style(o)
    <3> DEFINE e == [header |-> TRUE, border |-> TRUE, hrules |-> "FRAME", vrules |-> "ALL",
                     padding_width |-> 1, left_padding_width |-> 1,
                     right_padding_width |-> 1, vertical_char |-> "|",
                     horizontal_char |-> "-", junction_char |-> "+"]
    <3>1. p = Updated(o, e)
      BY <2>1 DEF _set_default_style
    <3>2. Allowed(e) /\ "sortby" \notin DOMAIN e
      BY StyleAllowed, CharsAssumption
    <3> HIDE DEF e
    <3> QED
      BY <3>1, <3>2
  <2>2. CASE p = _set_msword_style(o)
    <3> DEFINE e == [header |-> TRUE, border |-> TRUE, hrules |-> "NONE",
                     padding_width |-> 1, left_padding_width |-> 1,
                     right_padding_width |-> 1, vertical_char |-> "|"]
    <3>1. p = Updated(o, e)
      BY <2>2 DEF _set_msword_style
    <3>2. Allowed(e) /\ "sortby" \notin DOMAIN e
      BY StyleAllowed, CharsAssumption
    <3> HIDE DEF e
    <3> QED
      BY <3>1, <3>2
  <2>3. CASE p = _set_columns_style(o)
    <3> DEFINE e == [header |-> TRUE, border |-> FALSE, padding_width |-> 1,
                     left_padding_width |-> 0, right_padding_width |-> 8]
    <3>1. p = Updated(o, e)
      BY <2>3 DEF _set_columns_style
    <3>2. Allowed(e) /\ "sortby" \notin DOMAIN e
      BY StyleAllowed
    <3> HIDE DEF e
    <3> QED
      BY <3>1, <3>2
  <2>4. CASE p \in _set_random_style(o)
    <3> DEFINE Styles == [header : BOOLEAN, border : BOOLEAN, hrules : {"ALL", "HEADER"},
                          vrules : {"FRAME", "NONE"}, left_padding_width : {5},
                          right_padding_width : {0}, vertical_char : {"!"},
                          horizontal_char : {"="}, junction_char : {"*"}]
    <3>1. PICK e \in Styles : p = Updated(o, e)
      BY <2>4 DEF _set_random_style
    <3>2. /\ DOMAIN e = {"header", "border", "hrules", "vrules", "left_padding_width",
                         "right_padding_width", "vertical_char", "horizontal_char",
                         "junction_char"}
          /\ e.header \in BOOLEAN /\ e.border \in BOOLEAN /\ e.hrules \in {"ALL", "HEADER"}
          /\ e.vrules \in {"FRAME", "NONE"} /\ e.left_padding_width = 5
          /\ e.right_padding_width = 0 /\ e.vertical_char = "!"
          /\ e.horizontal_char = "=" /\ e.junction_char = "*"
      OBVIOUS
    <3> HIDE DEF Styles
    <3>3. Allowed(e) /\ "sortby" \notin DOMAIN e
      <4>1. "!" \in Chars /\ "=" \in Chars /\ "*" \in Chars
        BY CharsAssumption
      <4> QED
        BY <3>2, <4>1, StyleAllowed
    <3> QED
      BY <3>1, <3>3
  <2> QED
    BY <2>1, <2>2, <2>3, <2>4
<1>2. "sortby" \in DOMAIN OptionTypes
  BY DEF OptionTypes
<1>3. p.sortby = o.sortby
  BY <1>1, <1>2 DEF Updated
<1> QED
  BY <1>1, <1>3, UpdatedOptions

LEMMA UpdatedSortby ==
  ASSUME NEW o, NEW e, DOMAIN o = DOMAIN OptionTypes, NEW S, o.sortby \in S,
         "sortby" \in DOMAIN e => e.sortby \in S
  PROVE  Updated(o, e).sortby \in S
<1>1. "sortby" \in DOMAIN o
  BY DEF OptionTypes
<1> QED
  BY <1>1 DEF Updated
-----------------------------------------------------------------------------
(* The options a text is made with are the table's and those of its call.  *)
IInv ==
    /\ TypeOK
    /\ Valid(kwargs)
    /\ text = NoText \/ text = get_string(tab, opts, kwargs)

LEMMA InitIInv == Init => IInv
<1> SUFFICES ASSUME Init PROVE IInv
  OBVIOUS
<1>1. PICK s \in {s \in Settings : Valid(s)} \cup {EmptyDict} : opts = __init__(s)
  BY DEF Init, Constructing
<1>2. Allowed(s) /\ Valid(s)
  BY <1>1, SettingsAssumption, EmptyAllowed
<1>3. DOMAIN opts = DOMAIN OptionTypes /\ Allowed(opts)
  BY <1>1, <1>2, ConstructedOptions
<1>4. opts.sortby \in Elements(tab.names) \cup {NoField}
  <2>1. opts.sortby \in {NoField} \cup {s[x] : x \in DOMAIN s \cap {"sortby"}}
    BY <1>1, <1>2, ConstructedOptions
  <2> QED
    BY <1>2, <2>1 DEF Valid
<1>5. kwargs = EmptyDict /\ Allowed(kwargs) /\ Valid(kwargs)
  BY EmptyAllowed DEF Init
<1>6. _get_options(opts, kwargs).sortby \in Elements(tab.names) \cup {NoField}
  <2>1. "sortby" \in DOMAIN kwargs => kwargs.sortby \in Elements(tab.names) \cup {NoField}
    BY <1>5 DEF Valid
  <2>2. Updated(opts, kwargs).sortby \in Elements(tab.names) \cup {NoField}
    BY <1>3, <1>4, <2>1, UpdatedSortby
  <2> QED
    BY <2>2 DEF _get_options
<1>7. tab \in Tables /\ calls \in 0..MaxCalls /\ text = NoText
  BY CallsAssumption DEF Init
<1> QED
  BY <1>3, <1>4, <1>5, <1>6, <1>7 DEF IInv, TypeOK

LEMMA NextIInv == IInv /\ [Next]_vars => IInv'
<1> SUFFICES ASSUME IInv, [Next]_vars PROVE IInv'
  OBVIOUS
<1> USE DEF IInv, TypeOK
<1> DEFINE Names == Elements(tab.names) \cup {NoField}
<1>1. CASE SetOption
  <2>1. PICK s \in Settings : Valid(s) /\ opts' = Assigned(opts, s)
    BY <1>1 DEF SetOption
  <2>2. Allowed(s)
    BY SettingsAssumption
  <2>3. DOMAIN opts' = DOMAIN OptionTypes /\ Allowed(opts)'
    BY <2>1, <2>2, AssignedOptions DEF Allowed
  <2>4. opts'.sortby \in Names
    <3>1. "sortby" \in DOMAIN opts \ {"int_format", "float_format"}
      BY DEF OptionTypes
    <3>2. opts'.sortby = IF "sortby" \in DOMAIN s THEN s.sortby ELSE opts.sortby
      BY <2>1, <2>2, <3>1, AssignedOptions
    <3> QED
      BY <2>1, <3>2 DEF Valid
  <2>5. kwargs' = EmptyDict /\ text' = NoText /\ tab' = tab /\ calls' \in 0..MaxCalls
    BY <1>1, CallsAssumption DEF SetOption
  <2>6. Allowed(kwargs)' /\ Valid(kwargs)'
    BY <2>5, EmptyAllowed DEF Allowed, Valid, EmptyDict
  <2>7. (_get_options(opts, kwargs).sortby)' \in Names
    BY <2>3, <2>4, <2>5, <2>6, UpdatedSortby DEF _get_options, EmptyDict
  <2> QED
    BY <2>3, <2>4, <2>5, <2>6, <2>7
<1>2. CASE set_style
  <2>1. DOMAIN opts' = DOMAIN OptionTypes /\ Allowed(opts)' /\ opts'.sortby \in Names
    BY <1>2, StylesAllowed DEF set_style, Allowed
  <2>2. kwargs' = EmptyDict /\ text' = NoText /\ tab' = tab /\ calls' \in 0..MaxCalls
    BY <1>2, CallsAssumption DEF set_style
  <2>3. Allowed(kwargs)' /\ Valid(kwargs)'
    BY <2>2, EmptyAllowed DEF Allowed, Valid, EmptyDict
  <2>4. (_get_options(opts, kwargs).sortby)' \in Names
    BY <2>1, <2>2, <2>3, UpdatedSortby DEF _get_options, EmptyDict
  <2> QED
    BY <2>1, <2>2, <2>3, <2>4
<1>3. CASE GetString
  <2>1. /\ kwargs' \in {s \in Settings : Valid(s)} \cup {EmptyDict}
        /\ text' = get_string(tab, opts, kwargs')
        /\ UNCHANGED <<tab, opts, calls>>
    BY <1>3 DEF GetString
  <2>2. Allowed(kwargs)' /\ Valid(kwargs)'
    BY <2>1, SettingsAssumption, EmptyAllowed DEF Allowed, Valid
  <2>3. (_get_options(opts, kwargs).sortby)' \in Names
    <3>1. "sortby" \in DOMAIN kwargs' => kwargs'.sortby \in Names
      BY <2>1, <2>2 DEF Valid
    <3>2. Updated(opts, kwargs').sortby \in Names
      BY <3>1, UpdatedSortby
    <3> QED
      BY <2>1, <3>2 DEF _get_options
  <2>4. text' = get_string(tab, opts, kwargs)'
    BY <2>1
  <2> QED
    BY <2>1, <2>2, <2>3, <2>4
<1>4. CASE UNCHANGED vars
  BY <1>4 DEF vars, Allowed, Valid, _get_options
<1> QED
  BY <1>1, <1>2, <1>3, <1>4 DEF Next, Terminating

(* Every option keeps a value that the code looks for, whichever setter,   *)
(* style or constructor argument it comes from, and what a text is sorted  *)
(* by is one of the fields (prettytable.py:126, 504, 732).                 *)
THEOREM TypeCorrect == Spec => []TypeOK
<1>1. IInv => TypeOK
  BY DEF IInv
<1> QED
  BY <1>1, InitIInv, NextIInv, PTL DEF Spec

LEMMA SpecIInv == Spec => []IInv
<1> QED
  BY InitIInv, NextIInv, PTL DEF Spec
-----------------------------------------------------------------------------
(* Of the table's own options, the rows look at the formats and at what    *)
(* the marks are, and the header at its style.                             *)
SameAsked(a, b) ==
    /\ a.vertical_char = b.vertical_char /\ a.header_style = b.header_style
    /\ a.int_format = b.int_format /\ a.float_format = b.float_format

LEMMA RowHidesTable ==
  ASSUME NEW a, NEW b, a.vertical_char = b.vertical_char,
         NEW t, NEW widths, NEW row, NEW o
  PROVE  _stringify_row(a, t, widths, row, o) = _stringify_row(b, t, widths, row, o)
<1> QED
  BY DEF _stringify_row

LEMMA TextFromOptions ==
  ASSUME NEW t, NEW a, NEW b, NEW e, NEW f, _get_options(a, e) = _get_options(b, f),
         SameAsked(a, b)
  PROVE  get_string(t, a, e) = get_string(t, b, f)
<1>1. \A widths, row, o :
         _stringify_row(a, t, widths, row, o) = _stringify_row(b, t, widths, row, o)
  BY RowHidesTable DEF SameAsked
<1>2. \A widths, o : _stringify_header(a, t, widths, o) = _stringify_header(b, t, widths, o)
  BY DEF _stringify_header, SameAsked
<1>3. \A shown : _format_rows(t, a, shown) = _format_rows(t, b, shown)
  BY DEF _format_rows, _format_row, _format_value, SameAsked
<1> QED
  BY <1>1, <1>2, <1>3 DEF get_string

(* An option passed to get_string has the effect of the same option set    *)
(* before, but for vertical_char, header_style, int_format and             *)
(* float_format, which printing looks up in the table (prettytable.py:732, *)
(* 886, 1056, 1112).                                                       *)
THEOREM PassingIsSetting == Spec => []PassedLikeSet
<1>1. IInv => PassedLikeSet
  <2> DEFINE set == Assigned(opts, kwargs)
  <2> SUFFICES ASSUME IInv, text # NoText, DOMAIN kwargs \cap AskedOfTable = {}
               PROVE  text = get_string(tab, set, EmptyDict)
    BY DEF PassedLikeSet
  <2>1. /\ DOMAIN opts = DOMAIN OptionTypes /\ Allowed(opts) /\ Allowed(kwargs)
        /\ DOMAIN kwargs \subseteq DOMAIN OptionTypes
    BY DEF IInv, TypeOK, Allowed
  <2>2. AskedOfTable \subseteq DOMAIN opts
    BY <2>1, OptionNames DEF AskedOfTable
  <2>3. /\ DOMAIN set = DOMAIN opts
        /\ \A x \in DOMAIN opts : x \notin DOMAIN kwargs => set[x] = opts[x]
        /\ \A x \in DOMAIN opts \ {"int_format", "float_format"} :
              set[x] = IF x \in DOMAIN kwargs THEN kwargs[x] ELSE opts[x]
    BY <2>1, AssignedOptions
  <2> HIDE DEF set
  <2>4. SameAsked(opts, set)
    BY <2>2, <2>3 DEF SameAsked, AskedOfTable
  <2>5. _get_options(opts, kwargs) = _get_options(set, EmptyDict)
    <3>1. \A x \in DOMAIN opts : (IF x \in DOMAIN kwargs THEN kwargs[x] ELSE opts[x]) = set[x]
      BY <2>3 DEF AskedOfTable
    <3>2. Updated(opts, kwargs) = [x \in DOMAIN opts |-> set[x]]
      BY <2>1, <3>1 DEF Updated
    <3>3. Updated(set, EmptyDict) = [x \in DOMAIN opts |-> set[x]]
      BY <2>3 DEF Updated, EmptyDict
    <3> QED
      BY <3>2, <3>3 DEF _get_options
  <2>6. get_string(tab, opts, kwargs) = get_string(tab, set, EmptyDict)
    BY <2>4, <2>5, TextFromOptions
  <2> QED
    BY <2>6 DEF IInv, set
<1> QED
  BY <1>1, SpecIInv, PTL
-----------------------------------------------------------------------------
(* Sorting.  The order of lists of numbers is total and transitive.        *)
LEMMA FirstDifference ==
  ASSUME NEW r \in Seq(Int), NEW s \in Seq(Int), r # s
  PROVE  Precedes(r, s) \/ Precedes(s, r)
<1> DEFINE D == {k \in 1..Len(r) : k \in 1..Len(s) /\ r[k] # s[k]}
<1>1. /\ Len(r) \in Nat /\ Len(s) \in Nat
      /\ DOMAIN r = 1..Len(r) /\ DOMAIN s = 1..Len(s)
  OBVIOUS
<1>2. CASE D # {}
  <2>1. D \subseteq Nat
    OBVIOUS
  <2>2. PICK m \in D : \A k \in D : m <= k
    <3> HIDE DEF D
    <3> QED
      BY <1>2, <2>1, LeastNumber
  <2>3. m \in 1..Len(r) /\ m \in 1..Len(s) /\ r[m] # s[m] /\ r[m] \in Int /\ s[m] \in Int
    OBVIOUS
  <2>4. ASSUME NEW j \in 1 .. m - 1 PROVE r[j] = s[j]
    <3>1. j \in 1..Len(r) /\ j \in 1..Len(s) /\ ~(m <= j)
      BY <1>1, <2>3
    <3> QED
      BY <2>2, <3>1
  <2>5. r[m] < s[m] \/ s[m] < r[m]
    BY <2>3
  <2> HIDE DEF D
  <2> QED
    BY <1>1, <2>3, <2>4, <2>5 DEF Precedes
<1>3. CASE D = {}
  <2>1. \A k \in 1..Len(r) : k \in 1..Len(s) => r[k] = s[k]
    BY <1>3
  <2>2. CASE Len(r) = Len(s)
    <3>1. r = s
      BY <2>1, <2>2
    <3> QED
      BY <3>1
  <2>3. CASE Len(r) < Len(s)
    BY <1>1, <2>1, <2>3 DEF Precedes
  <2>4. CASE Len(s) < Len(r)
    BY <1>1, <2>1, <2>4 DEF Precedes
  <2>5. Len(r) = Len(s) \/ Len(r) < Len(s) \/ Len(s) < Len(r)
    <3>1. \A a, b \in Nat : a = b \/ a < b \/ b < a
      OBVIOUS
    <3>2. Len(r) \in Nat /\ Len(s) \in Nat
      BY <1>1
    <3> HIDE DEF D
    <3> QED
      BY <3>1, <3>2, Zenon
  <2> QED
    BY <2>2, <2>3, <2>4, <2>5
<1> QED
  BY <1>2, <1>3

LEMMA PrecedesStrict ==
  ASSUME NEW r \in Seq(Int)
  PROVE  ~Precedes(r, r)
<1> QED
  BY DEF Precedes

LEMMA PrecedesTransitive ==
  ASSUME NEW r \in Seq(Int), NEW s \in Seq(Int), NEW u \in Seq(Int),
         Precedes(r, s), Precedes(s, u)
  PROVE  Precedes(r, u)
<1> DEFINE First(a, b, k) ==
      k \in 1..Len(a) /\ k \in 1..Len(b) /\ a[k] < b[k] /\ \A j \in 1 .. k - 1 : a[j] = b[j]
    Prefix(a, b) == Len(a) < Len(b) /\ \A j \in 1..Len(a) : a[j] = b[j]
<1>1. /\ Len(r) \in Nat /\ Len(s) \in Nat /\ Len(u) \in Nat
      /\ DOMAIN r = 1..Len(r) /\ DOMAIN s = 1..Len(s) /\ DOMAIN u = 1..Len(u)
      /\ \A k \in 1..Len(r) : r[k] \in Int
      /\ \A k \in 1..Len(s) : s[k] \in Int
      /\ \A k \in 1..Len(u) : u[k] \in Int
  OBVIOUS
<1>2. /\ (\E k : First(r, s, k)) \/ Prefix(r, s)
      /\ (\E k : First(s, u, k)) \/ Prefix(s, u)
  BY <1>1 DEF Precedes
<1>3. ASSUME NEW k, First(r, u, k) PROVE Precedes(r, u)
  BY <1>1, <1>3 DEF Precedes
<1>4. CASE (\E k : First(r, s, k)) /\ \E k : First(s, u, k)
  <2>1. PICK k : First(r, s, k)
    BY <1>4
  <2>2. PICK m : First(s, u, m)
    BY <1>4
  <2>3. k \in Nat /\ m \in Nat
    BY <2>1, <2>2
  <2>4. CASE k <= m
    <3>1. k \in 1..Len(u) /\ r[k] < u[k]
      <4>1. k \in 1..Len(u)
        BY <1>1, <2>1, <2>2, <2>3, <2>4
      <4>2. s[k] <= u[k]
        <5>1. CASE k = m
          BY <1>1, <2>2, <5>1
        <5>2. CASE k < m
          <6>1. k \in 1 .. m - 1
            BY <2>1, <2>3, <5>2
          <6>2. s[k] = u[k] /\ s[k] \in Int
            BY <1>1, <2>1, <2>2, <6>1
          <6> QED
            BY <6>2
        <5> QED
          BY <2>3, <2>4, <5>1, <5>2
      <4>3. r[k] < s[k] /\ r[k] \in Int /\ s[k] \in Int /\ u[k] \in Int
        BY <1>1, <2>1, <4>1
      <4> QED
        BY <4>1, <4>2, <4>3
    <3>2. \A j \in 1 .. k - 1 : r[j] = u[j]
      <4>1. \A j \in 1 .. k - 1 : j \in 1 .. m - 1
        BY <2>3, <2>4
      <4> QED
        BY <2>1, <2>2, <4>1
    <3>3. First(r, u, k)
      BY <2>1, <3>1, <3>2
    <3> QED
      BY <1>3, <3>3
  <2>5. CASE m < k
    <3>1. m \in 1 .. k - 1 /\ m \in 1..Len(r)
      BY <1>1, <2>1, <2>2, <2>3, <2>5
    <3>2. r[m] < u[m] /\ m \in 1..Len(u)
      BY <2>1, <2>2, <3>1
    <3>3. \A j \in 1 .. m - 1 : r[j] = u[j]
      <4>1. \A j \in 1 .. m - 1 : j \in 1 .. k - 1
        BY <2>3, <2>5
      <4> QED
        BY <2>1, <2>2, <4>1
    <3>4. First(r, u, m)
      BY <3>1, <3>2, <3>3
    <3> QED
      BY <1>3, <3>4
  <2> QED
    BY <2>3, <2>4, <2>5
<1>5. CASE (\E k : First(r, s, k)) /\ Prefix(s, u)
  <2>1. PICK k : First(r, s, k)
    BY <1>5
  <2>2. k \in 1..Len(u) /\ r[k] < u[k]
    BY <1>1, <1>5, <2>1
  <2>3. \A j \in 1 .. k - 1 : r[j] = u[j]
    <3>1. \A j \in 1 .. k - 1 : j \in 1..Len(s)
      BY <1>1, <2>1
    <3> QED
      BY <1>5, <2>1, <3>1
  <2>4. First(r, u, k)
    BY <2>1, <2>2, <2>3
  <2> QED
    BY <1>3, <2>4
<1>6. CASE Prefix(r, s) /\ \E k : First(s, u, k)
  <2>1. PICK k : First(s, u, k)
    BY <1>6
  <2>2. CASE k \in 1..Len(r)
    <3>1. r[k] < u[k] /\ \A j \in 1 .. k - 1 : r[j] = u[j]
      <4>1. \A j \in 1 .. k - 1 : j \in 1..Len(r)
        BY <1>1, <2>2
      <4> QED
        BY <1>6, <2>1, <2>2, <4>1
    <3>2. First(r, u, k)
      BY <2>1, <2>2, <3>1
    <3> QED
      BY <1>3, <3>2
  <2>3. CASE k \notin 1..Len(r)
    <3>1. \A j \in 1..Len(r) : j \in 1 .. k - 1
      BY <1>1, <2>1, <2>3
    <3>2. \A j \in 1..Len(r) : r[j] = u[j]
      BY <1>6, <2>1, <3>1
    <3>3. Len(r) < Len(u)
      BY <1>1, <2>1, <2>3
    <3> QED
      BY <1>1, <3>2, <3>3 DEF Precedes
  <2> QED
    BY <2>2, <2>3
<1>7. CASE Prefix(r, s) /\ Prefix(s, u)
  <2>1. Len(r) < Len(u)
    BY <1>1, <1>7
  <2>2. \A j \in 1..Len(r) : r[j] = u[j]
    <3>1. \A j \in 1..Len(r) : j \in 1..Len(s)
      BY <1>1, <1>7
    <3> QED
      BY <1>7, <3>1
  <2> QED
    BY <1>1, <2>1, <2>2 DEF Precedes
<1> QED
  BY <1>2, <1>4, <1>5, <1>6, <1>7

(* In a total order of n things there is one with each number of others    *)
(* before it.                                                              *)
LEMMA Ranked ==
  ASSUME NEW n \in Nat, NEW R,
         \A j \in 1..n : <<j, j>> \notin R,
         \A j, k \in 1..n : j = k \/ <<j, k>> \in R \/ <<k, j>> \in R,
         \A j, k, l \in 1..n : <<j, k>> \in R /\ <<k, l>> \in R => <<j, l>> \in R
  PROVE  \A m \in 1..n : \E k \in 1..n : Cardinality({j \in 1..n : <<j, k>> \in R}) = m - 1
<1> DEFINE earlier(k) == {j \in 1..n : <<j, k>> \in R}
           f == [k \in 1..n |-> Cardinality(earlier(k)) + 1]
<1>1. IsFiniteSet(1..n) /\ Cardinality(1..n) = n
  BY FS_Interval
<1>2. ASSUME NEW k \in 1..n
      PROVE  /\ IsFiniteSet(earlier(k)) /\ Cardinality(earlier(k)) \in Nat
             /\ Cardinality(earlier(k)) < n
  <2>1. earlier(k) \in SUBSET (1..n) /\ earlier(k) # 1..n
    OBVIOUS
  <2> HIDE DEF earlier
  <2>2. /\ IsFiniteSet(earlier(k)) /\ Cardinality(earlier(k)) <= n
        /\ Cardinality(earlier(k)) # n
    BY <1>1, <2>1, FS_Subset
  <2>3. Cardinality(earlier(k)) \in Nat
    BY <2>2, FS_CardinalityType
  <2> QED
    BY <2>2, <2>3
<1>3. ASSUME NEW j \in 1..n, NEW k \in 1..n, <<j, k>> \in R
      PROVE  Cardinality(earlier(j)) < Cardinality(earlier(k))
  <2>1. earlier(j) \in SUBSET earlier(k) /\ earlier(j) # earlier(k)
    BY <1>3
  <2>2. IsFiniteSet(earlier(k))
    BY <1>2
  <2>3. Cardinality(earlier(j)) \in Nat /\ Cardinality(earlier(k)) \in Nat
    BY <1>2
  <2> HIDE DEF earlier
  <2>4. /\ Cardinality(earlier(j)) <= Cardinality(earlier(k))
        /\ Cardinality(earlier(j)) # Cardinality(earlier(k))
    BY <2>1, <2>2, FS_Subset
  <2> QED
    BY <2>3, <2>4
<1>4. f \in Injection(1..n, 1..n)
  <2> HIDE DEF earlier
  <2>1. f \in [1..n -> 1..n]
    <3>1. \A k \in 1..n : Cardinality(earlier(k)) + 1 \in 1..n
      BY <1>2
    <3> QED
      BY <3>1
  <2>2. ASSUME NEW j \in 1..n, NEW k \in 1..n, f[j] = f[k] PROVE j = k
    <3>1. Cardinality(earlier(j)) = Cardinality(earlier(k))
      <4>1. Cardinality(earlier(j)) \in Nat /\ Cardinality(earlier(k)) \in Nat
        BY <1>2
      <4>2. Cardinality(earlier(j)) + 1 = Cardinality(earlier(k)) + 1
        BY <2>2
      <4> QED
        BY <4>1, <4>2
    <3>2. <<j, k>> \notin R
      <4>1. Cardinality(earlier(j)) \in Nat /\ Cardinality(earlier(k)) \in Nat
        BY <1>2
      <4> QED
        BY <1>3, <3>1, <4>1
    <3>3. <<k, j>> \notin R
      <4>1. Cardinality(earlier(j)) \in Nat /\ Cardinality(earlier(k)) \in Nat
        BY <1>2
      <4> QED
        BY <1>3, <3>1, <4>1
    <3> QED
      BY <3>2, <3>3
  <2> HIDE DEF f
  <2> QED
    BY <2>1, <2>2 DEF Injection, IsInjective
<1>5. f \in Surjection(1..n, 1..n)
  <2> HIDE DEF f
  <2> QED
    BY <1>1, <1>4, FS_Injection
<1>6. ASSUME NEW m \in 1..n PROVE \E k \in 1..n : Cardinality(earlier(k)) = m - 1
  <2>1. PICK k \in 1..n : f[k] = m
    <3> HIDE DEF f
    <3> QED
      BY <1>5 DEF Surjection
  <2>2. Cardinality(earlier(k)) \in Nat /\ Cardinality(earlier(k)) + 1 = m
    BY <1>2, <2>1
  <2> HIDE DEF earlier
  <2> QED
    BY <2>2
<1> QED
  BY <1>6

LEMMA TableFacts ==
  ASSUME NEW t \in Tables
  PROVE  /\ t.names \in Seq(FieldNames) /\ t.rows \in Seq(Seq(Cells))
         /\ t.maxWidth \in [DOMAIN t.maxWidth -> Nat]
<1> DEFINE T == [names : Seq(FieldNames), rows : Seq(Seq(Cells)), sortby : {NoField},
                 maxWidth : {t.maxWidth}]
<1>1. t \in T /\ t.maxWidth \in [DOMAIN t.maxWidth -> Nat]
  BY TablesAssumption
<1>2. t.names \in Seq(FieldNames) /\ t.rows \in Seq(Seq(Cells))
  BY <1>1
<1> HIDE DEF T
<1> QED
  BY <1>1, <1>2

LEMMA KeysType ==
  ASSUME NEW row \in Seq(Cells), NEW index \in DOMAIN row
  PROVE  Keys(row, index) \in Seq(Int)
<1>1. \A c \in DOMAIN row : row[c].key \in Int
  <2>1. \A c \in DOMAIN row : row[c] \in Cells
    OBVIOUS
  <2> QED
    BY <2>1 DEF Cells
<1>2. [c \in DOMAIN row |-> row[c].key] \in Seq(Int)
  BY <1>1
<1>3. <<row[index].key>> \in Seq(Int)
  BY <1>1
<1> QED
  BY <1>2, <1>3 DEF Keys

(* Every place of the sorted rows is taken by one of the rows.             *)
LEMMA SortedRows ==
  ASSUME NEW S, S \subseteq Seq(Cells), NEW shown \in Seq(S), NEW index, NEW reverse,
         \A k \in DOMAIN shown : index \in DOMAIN shown[k]
  PROVE  Sorted(shown, index, reverse) \in Seq(S)
<1> DEFINE R == {p \in (DOMAIN shown) \X (DOMAIN shown) : Before(shown, index, reverse, p[1], p[2])}
           n == Len(shown)
           keys(k) == Keys(shown[k], index)
<1>1. n \in Nat /\ DOMAIN shown = 1..n
  OBVIOUS
<1>2. ASSUME NEW k \in 1..n PROVE keys(k) \in Seq(Int)
  <2>1. shown[k] \in Seq(Cells)
    BY <1>1
  <2>2. index \in DOMAIN shown[k]
    BY <1>1
  <2> QED
    BY <2>1, <2>2, KeysType
<1>3. \A j, k \in 1..n : <<j, k>> \in R <=>
         IF keys(j) = keys(k) THEN j < k
         ELSE IF reverse THEN Precedes(keys(k), keys(j)) ELSE Precedes(keys(j), keys(k))
  BY <1>1 DEF Before
<1> HIDE DEF R, keys
<1>4. \A j \in 1..n : <<j, j>> \notin R
  BY <1>1, <1>3
<1>5. ASSUME NEW j \in 1..n, NEW k \in 1..n, j # k PROVE <<j, k>> \in R \/ <<k, j>> \in R
  <2>1. CASE keys(j) = keys(k)
    BY <1>1, <1>3, <1>5, <2>1
  <2>2. CASE keys(j) # keys(k)
    <3>1. Precedes(keys(j), keys(k)) \/ Precedes(keys(k), keys(j))
      BY <1>2, <2>2, FirstDifference
    <3> QED
      BY <1>3, <2>2, <3>1
  <2> QED
    BY <2>1, <2>2
<1>6. ASSUME NEW j \in 1..n, NEW k \in 1..n, NEW l \in 1..n, <<j, k>> \in R, <<k, l>> \in R
      PROVE  <<j, l>> \in R
  <2>1. keys(j) \in Seq(Int) /\ keys(k) \in Seq(Int) /\ keys(l) \in Seq(Int)
    BY <1>2
  <2>2. CASE keys(j) = keys(k) /\ keys(k) = keys(l)
    <3>1. j < k /\ k < l
      BY <1>3, <1>6, <2>2
    <3>2. j < l
      BY <3>1
    <3> QED
      BY <1>3, <2>2, <3>2
  <2>3. CASE keys(j) = keys(k) /\ keys(k) # keys(l)
    BY <1>3, <1>6, <2>3
  <2>4. CASE keys(j) # keys(k) /\ keys(k) = keys(l)
    BY <1>3, <1>6, <2>4
  <2>5. CASE keys(j) # keys(k) /\ keys(k) # keys(l) /\ reverse
    <3>1. Precedes(keys(k), keys(j)) /\ Precedes(keys(l), keys(k))
      BY <1>3, <1>6, <2>5
    <3>2. Precedes(keys(l), keys(j))
      BY <2>1, <3>1, PrecedesTransitive
    <3>3. keys(j) # keys(l)
      BY <2>1, <3>2, PrecedesStrict
    <3> QED
      BY <1>3, <2>5, <3>2, <3>3
  <2>6. CASE keys(j) # keys(k) /\ keys(k) # keys(l) /\ ~reverse
    <3>1. Precedes(keys(j), keys(k)) /\ Precedes(keys(k), keys(l))
      BY <1>3, <1>6, <2>6
    <3>2. Precedes(keys(j), keys(l))
      BY <2>1, <3>1, PrecedesTransitive
    <3>3. keys(j) # keys(l)
      BY <2>1, <3>2, PrecedesStrict
    <3> QED
      BY <1>3, <2>6, <3>2, <3>3
  <2> QED
    BY <2>2, <2>3, <2>4, <2>5, <2>6
<1>7. \A m \in 1..n : \E k \in 1..n : Cardinality({j \in 1..n : <<j, k>> \in R}) = m - 1
  <2>1. \A j, k \in 1..n : j = k \/ <<j, k>> \in R \/ <<k, j>> \in R
    BY <1>5
  <2>2. \A j, k, l \in 1..n : <<j, k>> \in R /\ <<k, l>> \in R => <<j, l>> \in R
    BY <1>6
  <2>3. n \in Nat
    BY <1>1
  <2> HIDE DEF n
  <2> QED
    BY <1>4, <2>1, <2>2, <2>3, Ranked, Zenon
<1> DEFINE earlier(k) == {j \in DOMAIN shown : Before(shown, index, reverse, j, k)}
           at(m) == CHOOSE k \in DOMAIN shown : Cardinality(earlier(k)) = m - 1
<1>8. ASSUME NEW m \in 1..n PROVE shown[at(m)] \in S
  <2>1. PICK k \in 1..n : Cardinality({j \in 1..n : <<j, k>> \in R}) = m - 1
    BY <1>7
  <2>2. {j \in 1..n : <<j, k>> \in R} = earlier(k)
    BY <1>1 DEF R
  <2>3. k \in DOMAIN shown /\ Cardinality(earlier(k)) = m - 1
    BY <1>1, <2>1, <2>2
  <2> HIDE DEF earlier
  <2>4. at(m) \in DOMAIN shown
    BY <2>3
  <2> HIDE DEF at
  <2> QED
    BY <1>1, <2>4
<1>9. Sorted(shown, index, reverse) = [m \in 1..n |-> shown[at(m)]]
  BY <1>1 DEF Sorted
<1> HIDE DEF at
<1> QED
  BY <1>1, <1>8, <1>9
-----------------------------------------------------------------------------
(* The rows that are printed are rows of the table.                        *)
LEMMA SlicedRows ==
  ASSUME NEW t \in Tables, NEW o, o.start \in Nat, o.end \in Nat \cup {None}
  PROVE  Sliced(t, o) \in Seq(Elements(t.rows))
<1> DEFINE last == IF o.end = None THEN Len(t.rows) ELSE Min({o.end, Len(t.rows)})
<1>1. Len(t.rows) \in Nat /\ DOMAIN t.rows = 1..Len(t.rows)
  BY TableFacts
<1>2. last \in Int /\ last <= Len(t.rows)
  <2>1. CASE o.end = None
    BY <1>1, <2>1
  <2>2. CASE o.end # None
    <3>1. o.end \in Int /\ Len(t.rows) \in Int
      BY <1>1, <2>2
    <3>2. Min({o.end, Len(t.rows)}) = IF o.end <= Len(t.rows) THEN o.end ELSE Len(t.rows)
      BY <3>1, PairMin
    <3> QED
      BY <2>2, <3>1, <3>2
  <2> QED
    BY <2>1, <2>2
<1> HIDE DEF last
<1>3. \A i \in o.start + 1 .. last : t.rows[i] \in Elements(t.rows)
  <2>1. \A i \in o.start + 1 .. last : i \in 1..Len(t.rows)
    BY <1>1, <1>2
  <2> QED
    BY <1>1, <2>1 DEF Elements
<1>4. o.start + 1 \in Int
  OBVIOUS
<1>5. SubSeq(t.rows, o.start + 1, last) \in Seq(Elements(t.rows))
  BY <1>2, <1>3, <1>4, SubSeqProperties
<1> QED
  BY <1>5 DEF Sliced, last

LEMMA PositionOf ==
  ASSUME NEW L, NEW s \in Seq(L), NEW x \in Elements(s)
  PROVE  Position(s, x) \in DOMAIN s /\ s[Position(s, x)] = x
<1> DEFINE K == {k \in 1..Len(s) : s[k] = x}
<1>1. Len(s) \in Nat /\ DOMAIN s = 1..Len(s)
  OBVIOUS
<1>2. K # {} /\ K \subseteq Nat
  BY <1>1 DEF Elements
<1>3. PICK m \in K : \A k \in K : m <= k
  <2> HIDE DEF K
  <2> QED
    BY <1>2, LeastNumber
<1>4. m \in DOMAIN s /\ s[m] = x
  BY <1>1
<1>5. \A j \in 1 .. m - 1 : s[j] # x
  <2>1. \A j \in 1 .. m - 1 : j \in 1..Len(s) /\ ~(m <= j)
    BY <1>1, <1>4
  <2> QED
    BY <1>3, <2>1
<1> QED
  BY <1>4, <1>5 DEF Position

(* What is sorted when a text is made.                                     *)
Sorting(t, o) == [t EXCEPT !.sortby = o.sortby, !.rows = Sliced(t, o)]

LEMMA SortingFields ==
  ASSUME NEW t \in Tables, NEW o
  PROVE  /\ Sorting(t, o).names = t.names /\ Sorting(t, o).sortby = o.sortby
         /\ Sorting(t, o).rows = Sliced(t, o)
<1> DEFINE T == [names : Seq(FieldNames), rows : Seq(Seq(Cells)), sortby : {NoField},
                 maxWidth : {t.maxWidth}]
<1>1. t \in T
  BY TablesAssumption
<1> QED
  BY <1>1 DEF Sorting

LEMMA RowsOfTable ==
  ASSUME NEW t \in Tables, NEW o, o.start \in Nat, o.end \in Nat \cup {None},
         o.sortby \in Elements(t.names) \cup {NoField}, ~UnreachedSort(Sorting(t, o))
  PROVE  _get_rows(t, o) \in Seq(Elements(t.rows))
<1>1. Sliced(t, o) \in Seq(Elements(t.rows))
  BY SlicedRows
<1>2. t.names \in Seq(FieldNames) /\ t.rows \in Seq(Seq(Cells))
  BY TableFacts
<1>3. CASE o.sortby = NoField
  BY <1>1, <1>3 DEF _get_rows
<1>4. CASE o.sortby # NoField
  <2> DEFINE index == Position(t.names, o.sortby)
             shown == Sliced(t, o)
  <2>1. index \in DOMAIN t.names
    BY <1>2, <1>4, PositionOf
  <2>2. Elements(t.rows) \subseteq Seq(Cells)
    BY <1>2 DEF Elements
  <2>3. ASSUME NEW k \in DOMAIN shown PROVE index \in DOMAIN shown[k]
    <3>1. ~(Len(shown[k]) < index)
      BY <1>4, SortingFields DEF UnreachedSort
    <3>2. shown[k] \in Seq(Cells)
      BY <1>1, <2>2
    <3>3. index \in Nat /\ index >= 1
      BY <1>2, <2>1
    <3> HIDE DEF index
    <3> QED
      BY <3>1, <3>2, <3>3
  <2> HIDE DEF index, shown
  <2>4. Sorted(shown, index, o.reversesort) \in Seq(Elements(t.rows))
    BY <1>1, <2>2, <2>3, SortedRows DEF shown
  <2> QED
    BY <1>4, <2>4 DEF _get_rows, shown, index
<1> QED
  BY <1>3, <1>4
-----------------------------------------------------------------------------
(* The cells of the text and their widths.                                 *)
LEMMA FormattedCell ==
  ASSUME NEW self, HasFormats(self), NEW field \in FieldNames, NEW value \in Cells
  PROVE  /\ _format_value(self, field, value) \in Seq(Lines)
         /\ \A y \in DOMAIN _format_value(self, field, value) :
               \/ _format_value(self, field, value)[y].w = 1
               \/ \E z \in DOMAIN value.lines :
                     _format_value(self, field, value)[y].w = value.lines[z].w
<1>1. value.lines \in Seq(Lines) /\ value.lines # <<>> /\ value.kind \in Kinds
  BY DEF Cells
<1>2. ASSUME NEW format \in Formats
      PROVE  \/ InFormat(format, field, value) = value.lines
             \/ \E n \in Nat : InFormat(format, field, value) = <<[n |-> n, w |-> 1]>>
  <2>1. CASE format[field] = None
    BY <2>1 DEF InFormat
  <2>2. CASE format[field] # None
   <3> DEFINE n == Max({format[field], value.lines[1].n})
   <3>1. format[field] \in Nat
     BY <2>2 DEF Formats
   <3>2. value.lines[1].n \in Nat
     <4>1. value.lines[1] \in Lines
       BY <1>1
     <4> QED
       BY <4>1 DEF Lines
   <3>3. n \in Nat
     <4>1. n = IF format[field] >= value.lines[1].n THEN format[field] ELSE value.lines[1].n
       BY <3>1, <3>2, PairMax
     <4> QED
       BY <3>1, <3>2, <4>1
   <3>4. InFormat(format, field, value) = <<[n |-> n, w |-> 1]>>
     BY <2>2 DEF InFormat
   <3> QED
     BY <3>3, <3>4
  <2> QED
    BY <2>1, <2>2
<1>3. \/ _format_value(self, field, value) = value.lines
      \/ \E n \in Nat : _format_value(self, field, value) = <<[n |-> n, w |-> 1]>>
  <2>1. CASE value.kind = "other"
    BY <2>1 DEF _format_value
  <2>2. CASE value.kind = "int"
    BY <1>2, <2>2 DEF _format_value, HasFormats
  <2>3. CASE value.kind = "float"
    BY <1>2, <2>3 DEF _format_value, HasFormats
  <2> QED
    BY <1>1, <2>1, <2>2, <2>3 DEF Kinds
<1>4. CASE \E n \in Nat : _format_value(self, field, value) = <<[n |-> n, w |-> 1]>>
  <2>1. PICK n \in Nat : _format_value(self, field, value) = <<[n |-> n, w |-> 1]>>
    BY <1>4
  <2> QED
    BY <2>1 DEF Lines
<1>5. CASE _format_value(self, field, value) = value.lines
  BY <1>1, <1>5
<1> QED
  BY <1>3, <1>4, <1>5

LEMMA FormattedRow ==
  ASSUME NEW t \in Tables, NEW self, HasFormats(self), NEW row \in Seq(Cells)
  PROVE  LET n == IF Len(row) <= Len(t.names) THEN Len(row) ELSE Len(t.names)
         IN /\ _format_row(t, self, row) \in Seq(Seq(Lines))
            /\ _format_row(t, self, row) = [c \in 1..n |-> _format_value(self, t.names[c], row[c])]
            /\ Len(_format_row(t, self, row)) = n /\ n \in Nat
<1> DEFINE n == IF Len(row) <= Len(t.names) THEN Len(row) ELSE Len(t.names)
<1>1. Len(row) \in Nat /\ Len(t.names) \in Nat
  BY TableFacts
<1>2. Min({Len(row), Len(t.names)}) = n /\ n \in Nat
  BY <1>1, PairMin
<1>3. _format_row(t, self, row) = [c \in 1..n |-> _format_value(self, t.names[c], row[c])]
  BY <1>2 DEF _format_row
<1>4. \A c \in 1..n : row[c] \in Cells /\ t.names[c] \in FieldNames
  BY <1>1, TableFacts
<1> HIDE DEF n
<1>5. \A c \in 1..n : _format_value(self, t.names[c], row[c]) \in Seq(Lines)
  BY <1>4, FormattedCell
<1>6. _format_row(t, self, row) \in Seq(Seq(Lines)) /\ Len(_format_row(t, self, row)) = n
  BY <1>2, <1>3, <1>5
<1> QED
  BY <1>2, <1>3, <1>6 DEF n

LEMMA FormattedRows ==
  ASSUME NEW t \in Tables, NEW self, HasFormats(self), NEW shown \in Seq(Elements(t.rows))
  PROVE  /\ _format_rows(t, self, shown) \in Seq(Seq(Seq(Lines)))
         /\ DOMAIN _format_rows(t, self, shown) = DOMAIN shown
         /\ \A k \in DOMAIN shown : _format_rows(t, self, shown)[k] = _format_row(t, self, shown[k])
<1>1. \A k \in DOMAIN shown : shown[k] \in Seq(Cells)
  BY TableFacts DEF Elements
<1>2. \A k \in DOMAIN shown : _format_row(t, self, shown[k]) \in Seq(Seq(Lines))
  BY <1>1, FormattedRow
<1> QED
  BY <1>2 DEF _format_rows

LEMMA BlocksOf ==
  ASSUME NEW line \in Lines
  PROVE  Blocks(line) \in Nat
<1>1. line.n \in Nat /\ line.w \in Nat
  BY DEF Lines
<1> QED
  BY <1>1 DEF Blocks

LEMMA WidthOf ==
  ASSUME NEW cell \in Seq(Lines)
  PROVE  Width(cell) \in Nat /\ \A y \in DOMAIN cell : Blocks(cell[y]) <= Width(cell)
<1> DEFINE f == [y \in DOMAIN cell |-> Blocks(cell[y])]
           S == {f[y] : y \in DOMAIN f}
<1>1. DOMAIN f = 1..Len(cell) /\ Len(cell) \in Int
  OBVIOUS
<1>2. IsFiniteSet(S)
  <2>1. IsFiniteSet(DOMAIN f)
    BY <1>1, FS_Interval
  <2> HIDE DEF f
  <2> QED
    BY <2>1, ImageIsFinite
<1>3. S \subseteq Nat
  <2>1. \A y \in DOMAIN cell : cell[y] \in Lines
    OBVIOUS
  <2> QED
    BY <2>1, BlocksOf
<1>4. S = {Blocks(cell[y]) : y \in DOMAIN cell}
  OBVIOUS
<1> HIDE DEF S
<1>5. Largest(S) \in Nat /\ \A y \in S : y <= Largest(S)
  BY <1>2, <1>3, LargestOf
<1> QED
  BY <1>4, <1>5 DEF Width

LEMMA WidthsOf ==
  ASSUME NEW t \in Tables, NEW o, o.header \in BOOLEAN, NEW shown \in Seq(Seq(Seq(Lines)))
  PROVE  /\ _compute_widths(t, shown, o) \in [DOMAIN t.names -> Nat]
         /\ \A c \in DOMAIN t.names :
               o.header => NameWidth[t.names[c]] <= _compute_widths(t, shown, o)[c]
         /\ \A c \in DOMAIN t.names : \A k \in DOMAIN shown :
               c \in DOMAIN shown[k] /\ t.names[c] \notin DOMAIN t.maxWidth =>
                   Width(shown[k][c]) <= _compute_widths(t, shown, o)[c]
<1> DEFINE limited(c, n) == IF t.names[c] \in DOMAIN t.maxWidth
                            THEN Min({n, t.maxWidth[t.names[c]]}) ELSE n
           K(c) == {j \in DOMAIN shown : c \in DOMAIN shown[j]}
           f(c) == [k \in K(c) |-> limited(c, Width(shown[k][c]))]
           name(c) == IF o.header THEN NameWidth[t.names[c]] ELSE 0
           S(c) == {name(c)} \cup {f(c)[k] : k \in DOMAIN f(c)}
<1>1. _compute_widths(t, shown, o) = [c \in DOMAIN t.names |-> Largest(S(c))]
  BY DEF _compute_widths
<1>2. ASSUME NEW c \in DOMAIN t.names
      PROVE  Largest(S(c)) \in Nat /\ \A n \in S(c) : n <= Largest(S(c))
  <2>1. IsFiniteSet(K(c))
    <3>1. K(c) \in SUBSET (1..Len(shown)) /\ Len(shown) \in Int
      OBVIOUS
    <3>2. IsFiniteSet(1..Len(shown))
      BY <3>1, FS_Interval
    <3> HIDE DEF K
    <3> QED
      BY <3>1, <3>2, FS_Subset
  <2>2. DOMAIN f(c) = K(c)
    OBVIOUS
  <2>3. IsFiniteSet({f(c)[k] : k \in DOMAIN f(c)})
    <3> HIDE DEF f
    <3> QED
      BY <2>1, <2>2, ImageIsFinite
  <2>4. IsFiniteSet(S(c))
    <3> DEFINE A == {name(c)}
               B == {f(c)[k] : k \in DOMAIN f(c)}
    <3>1. IsFiniteSet(A)
      BY FS_Singleton
    <3>2. IsFiniteSet(B)
      BY <2>3
    <3>3. S(c) = A \cup B
      OBVIOUS
    <3> HIDE DEF A, B, S
    <3> QED
      BY <3>1, <3>2, <3>3, FS_Union
  <2>5. name(c) \in Nat
    BY TableFacts, NamesAssumption
  <2>6. ASSUME NEW k \in K(c) PROVE f(c)[k] \in Nat
    <3>1. shown[k][c] \in Seq(Lines)
      OBVIOUS
    <3>2. Width(shown[k][c]) \in Nat
      BY <3>1, WidthOf
    <3>3. CASE t.names[c] \in DOMAIN t.maxWidth
      <4>1. t.maxWidth[t.names[c]] \in Nat
        BY <3>3, TableFacts
      <4>2. Min({Width(shown[k][c]), t.maxWidth[t.names[c]]}) \in Nat
        <5> DEFINE m == Width(shown[k][c])
                   n == t.maxWidth[t.names[c]]
        <5>1. m \in Nat /\ n \in Nat
          BY <3>2, <4>1
        <5> HIDE DEF m, n
        <5>2. m \in Int /\ n \in Int
          BY <5>1
        <5>3. Min({m, n}) \in {m, n}
          BY <5>2, PairMin
        <5>4. Min({m, n}) \in Nat
          BY <5>1, <5>3
        <5> QED
          BY <5>4 DEF m, n
      <4> QED
        BY <3>3, <4>2
    <3>4. CASE t.names[c] \notin DOMAIN t.maxWidth
      BY <3>2, <3>4
    <3> QED
      BY <3>3, <3>4
  <2>7. S(c) \subseteq Nat
    <3> HIDE DEF f, name
    <3> QED
      BY <2>2, <2>5, <2>6
  <2> HIDE DEF S
  <2> QED
    BY <2>4, <2>7, LargestOf
<1>3. ASSUME NEW c \in DOMAIN t.names, o.header PROVE NameWidth[t.names[c]] \in S(c)
  BY <1>3
<1>4. ASSUME NEW c \in DOMAIN t.names, NEW k \in DOMAIN shown, c \in DOMAIN shown[k],
             t.names[c] \notin DOMAIN t.maxWidth
      PROVE  Width(shown[k][c]) \in S(c)
  <2>1. k \in K(c) /\ f(c)[k] = Width(shown[k][c])
    BY <1>4
  <2>2. DOMAIN f(c) = K(c)
    OBVIOUS
  <2> HIDE DEF f, K
  <2> QED
    BY <2>1, <2>2
<1> HIDE DEF S
<1> QED
  BY <1>1, <1>2, <1>3, <1>4
-----------------------------------------------------------------------------
(* What get_string does with the options o of a call.                      *)
LEMMA CallOptions ==
  ASSUME IInv
  PROVE  LET o == _get_options(opts, kwargs)
         IN /\ DOMAIN o = DOMAIN OptionTypes /\ Allowed(o)
            /\ o.sortby \in Elements(tab.names) \cup {NoField}
<1>1. DOMAIN opts = DOMAIN OptionTypes /\ Allowed(opts) /\ Allowed(kwargs)
  BY DEF IInv, TypeOK
<1>2. DOMAIN Updated(opts, kwargs) = DOMAIN OptionTypes /\ Allowed(Updated(opts, kwargs))
  BY <1>1, UpdatedOptions
<1> QED
  BY <1>2 DEF IInv, TypeOK, _get_options

LEMMA NeverStale ==
  ASSUME NEW t \in Tables, NEW o, o.sortby \in Elements(t.names) \cup {NoField}
  PROVE  ~StaleSort(Sorting(t, o))
<1> QED
  BY SortingFields DEF StaleSort

(* A row that the sort field does not reach is shorter than the names.     *)
LEMMA ShortOfSort ==
  ASSUME NEW t \in Tables, NEW o, o.start \in Nat, o.end \in Nat \cup {None},
         UnreachedSort(Sorting(t, o))
  PROVE  o.sortby # NoField /\ ~FullRows(t)
<1>1. t.names \in Seq(FieldNames) /\ t.rows \in Seq(Seq(Cells))
  BY TableFacts
<1>2. o.sortby \in Elements(t.names)
  BY SortingFields DEF UnreachedSort
<1>3. o.sortby # NoField
  BY <1>1, <1>2, NamesAssumption DEF Elements
<1>4. PICK k \in DOMAIN Sliced(t, o) : Len(Sliced(t, o)[k]) < Position(t.names, o.sortby)
  BY SortingFields DEF UnreachedSort
<1>5. Sliced(t, o)[k] \in Elements(t.rows)
  BY SlicedRows
<1>6. PICK j \in DOMAIN t.rows : t.rows[j] = Sliced(t, o)[k]
  BY <1>5 DEF Elements
<1>7. Position(t.names, o.sortby) \in 1..Len(t.names)
  BY <1>1, <1>2, PositionOf
<1>8. Len(t.rows[j]) # Len(t.names)
  <2>1. t.rows[j] \in Seq(Cells)
    BY <1>1
  <2>2. Len(t.rows[j]) \in Nat /\ Len(t.names) \in Nat
    BY <1>1, <2>1
  <2>3. Len(t.rows[j]) < Position(t.names, o.sortby)
    BY <1>4, <1>6
  <2> QED
    BY <1>7, <2>2, <2>3
<1> QED
  BY <1>3, <1>8 DEF FullRows

LEMMA HeaderFills ==
  ASSUME NEW t \in Tables, NEW self, HasFormats(self), NEW o, o.header = TRUE,
         \A x \in FieldNames : NameWidth[x] > 0,
         NEW shown \in Seq(Elements(t.rows)),
         NEW k \in DOMAIN _format_rows(t, self, shown),
         NEW c \in DOMAIN _format_rows(t, self, shown)[k]
  PROVE  LET widths == _compute_widths(t, _format_rows(t, self, shown), o)
         IN ~Unfillable(_format_rows(t, self, shown)[k][c], widths[c])
<1> DEFINE all == _format_rows(t, self, shown)
           widths == _compute_widths(t, all, o)
<1>1. all \in Seq(Seq(Seq(Lines))) /\ k \in DOMAIN shown /\ all[k] = _format_row(t, self, shown[k])
  BY FormattedRows
<1>2. shown[k] \in Seq(Cells)
  <2>1. k \in DOMAIN shown /\ t.rows \in Seq(Seq(Cells))
    BY <1>1, TableFacts
  <2>2. shown[k] \in Elements(t.rows)
    BY <2>1
  <2> QED
    BY <2>1, <2>2 DEF Elements
<1>3. c \in DOMAIN t.names
  <2>1. /\ Len(t.names) \in Nat /\ Len(shown[k]) \in Nat
        /\ DOMAIN t.names = 1..Len(t.names)
    BY <1>2, TableFacts
  <2>2. DOMAIN _format_row(t, self, shown[k]) =
            1 .. IF Len(shown[k]) <= Len(t.names) THEN Len(shown[k]) ELSE Len(t.names)
    BY <1>2, FormattedRow
  <2> QED
    BY <1>1, <2>1, <2>2
<1>4. t.names[c] \in FieldNames
  BY <1>3, TableFacts
<1> HIDE DEF all
<1>5. widths[c] \in Nat /\ NameWidth[t.names[c]] <= widths[c]
  <2>1. o.header \in BOOLEAN /\ o.header
    OBVIOUS
  <2>2. /\ widths \in [DOMAIN t.names -> Nat]
        /\ \A d \in DOMAIN t.names : o.header => NameWidth[t.names[d]] <= widths[d]
    <3>1. all \in Seq(Seq(Seq(Lines))) /\ o.header \in BOOLEAN
      BY <1>1, <2>1
    <3> QED
      BY <3>1, WidthsOf
  <2> HIDE DEF widths
  <2> QED
    BY <1>3, <2>1, <2>2
<1>6. NameWidth[t.names[c]] > 0 /\ NameWidth[t.names[c]] \in Nat
  BY <1>4, NamesAssumption
<1> HIDE DEF widths
<1>7. widths[c] # 0
  BY <1>5, <1>6
<1> QED
  BY <1>7 DEF Unfillable, widths, all

(* If no field has an empty name, a text with a header fails only because  *)
(* of the field it is sorted by or for a row without cells: textwrap never *)
(* gets a width of 0 (prettytable.py:1091).                                *)
THEOREM HeadersKeepWidths ==
  ASSUME \A x \in FieldNames : NameWidth[x] > 0
  PROVE  Spec => []HeaderKeepsWidth
<1>1. IInv => HeaderKeepsWidth
  <2> DEFINE o == _get_options(opts, kwargs)
             shown == _get_rows(tab, o)
             all == _format_rows(tab, opts, shown)
             widths == _compute_widths(tab, all, o)
  <2> SUFFICES ASSUME IInv, text # NoText, text.exc # NoExc, o.header
               PROVE  /\ \/ o.sortby # NoField
                         \/ tab.names = <<>> \/ <<>> \in Elements(tab.rows)
                      /\ ~FullRows(tab)
    BY DEF HeaderKeepsWidth
  <2>1. tab \in Tables /\ text = get_string(tab, opts, kwargs) /\ HasFormats(opts)
    BY OptionFacts DEF IInv, TypeOK
  <2>2. o.sortby \in Elements(tab.names) \cup {NoField}
    BY CallOptions
  <2>3. o.start \in Nat /\ o.end \in Nat \cup {None} /\ o.header \in BOOLEAN
    BY CallOptions, OptionFacts
  <2> HIDE DEF o
  <2>4. \/ UnreachedSort(Sorting(tab, o))
        \/ /\ ~UnreachedSort(Sorting(tab, o))
           /\ \/ \E k \in DOMAIN all : \E c \in DOMAIN all[k] : Unfillable(all[k][c], widths[c])
              \/ \E k \in DOMAIN all : all[k] = <<>>
    BY <2>1, <2>2, NeverStale DEF get_string, Sorting, o
  <2>5. CASE UnreachedSort(Sorting(tab, o))
    BY <2>1, <2>3, <2>5, ShortOfSort
  <2>6. CASE ~UnreachedSort(Sorting(tab, o))
    <3>1. shown \in Seq(Elements(tab.rows))
      BY <2>1, <2>2, <2>3, <2>6, RowsOfTable
    <3> HIDE DEF shown
    <3>2. \A k \in DOMAIN all : \A c \in DOMAIN all[k] : ~Unfillable(all[k][c], widths[c])
      BY <2>1, <2>3, <3>1, HeaderFills
    <3>3. PICK k \in DOMAIN all : all[k] = <<>>
      BY <2>4, <2>6, <3>2
    <3>4. k \in DOMAIN shown /\ _format_row(tab, opts, shown[k]) = <<>>
      BY <2>1, <3>1, <3>3, FormattedRows
    <3>5. PICK j \in DOMAIN tab.rows : tab.rows[j] = shown[k]
      BY <3>1, <3>4 DEF Elements
    <3>6. shown[k] \in Seq(Cells) /\ tab.names \in Seq(FieldNames)
      BY <2>1, <3>5, TableFacts
    <3>7. Len(shown[k]) = 0 \/ Len(tab.names) = 0
      BY <2>1, <3>4, <3>6, FormattedRow
    <3>8. shown[k] = <<>> \/ tab.names = <<>>
      BY <3>6, <3>7
    <3>9. tab.names = <<>> \/ <<>> \in Elements(tab.rows)
      BY <3>5, <3>8 DEF Elements
    <3>10. ~FullRows(tab)
      BY <3>5, <3>8, <3>6 DEF FullRows
    <3> QED
      BY <3>9, <3>10
  <2> QED
    BY <2>5, <2>6
<1> QED
  BY <1>1, SpecIInv, PTL
-----------------------------------------------------------------------------
(* Lines of text.  Framed lines have the same shape if their cells have.   *)
Pieces == [char : Chars \cup {"text"} \cup HeaderStyles, width : Nat]

LEMMA MarkType ==
  ASSUME NEW char \in Chars
  PROVE  Mark(char) \in Pieces /\ Mark(char).width = 1
<1> QED
  BY DEF Mark, Pieces

LEMMA FrontAlike ==
  ASSUME NEW L, NEW a \in Seq(L), NEW b \in Seq(L), a # <<>>, Alike(a, b)
  PROVE  Front(a) \in Seq(L) /\ Front(b) \in Seq(L) /\ Alike(Front(a), Front(b))
<1>1. Len(a) \in Nat \ {0} /\ Len(b) = Len(a)
  BY DEF Alike
<1> DEFINE n == Len(a) - 1
<1>2. n \in Nat /\ Front(a) = SubSeq(a, 1, n) /\ Front(b) = SubSeq(b, 1, n)
  BY <1>1 DEF Front
<1>3. \A i \in 1..n : i \in 1..Len(a) /\ a[i] \in L /\ b[i] \in L
  BY <1>1
<1> HIDE DEF n
<1>4. /\ Front(a) \in Seq(L) /\ Len(Front(a)) = IF 1 <= n THEN n - 1 + 1 ELSE 0
      /\ \A i \in 1 .. n - 1 + 1 : Front(a)[i] = a[1 + i - 1]
  BY <1>2, <1>3, SubSeqProperties
<1>5. /\ Front(b) \in Seq(L) /\ Len(Front(b)) = IF 1 <= n THEN n - 1 + 1 ELSE 0
      /\ \A i \in 1 .. n - 1 + 1 : Front(b)[i] = b[1 + i - 1]
  BY <1>2, <1>3, SubSeqProperties
<1>6. Len(Front(a)) = n /\ Len(Front(b)) = n
  BY <1>2, <1>4, <1>5
<1>7. ASSUME NEW i \in 1..n PROVE Front(a)[i].width = Front(b)[i].width
  <2>1. i \in 1 .. n - 1 + 1 /\ 1 + i - 1 = i
    BY <1>2
  <2>2. Front(a)[i] = a[i] /\ Front(b)[i] = b[i]
    BY <1>4, <1>5, <2>1
  <2> QED
    BY <1>3, <2>2 DEF Alike
<1> QED
  BY <1>4, <1>5, <1>6, <1>7 DEF Alike

(* The cells of a line with the marks after them.                          *)
Marked(o, cells, shown, between) ==
  [c \in DOMAIN cells |->
      IF c \notin shown THEN <<>>
      ELSE IF o.border THEN <<cells[c], Mark(between)>> ELSE <<cells[c]>>]

LEMMA MarkedAlike ==
  ASSUME NEW o, NEW p \in Seq(Pieces), NEW q \in Seq(Pieces), Len(p) = Len(q),
         \A c \in 1..Len(p) : p[c].width = q[c].width,
         NEW shown, NEW x \in Chars, NEW y \in Chars
  PROVE  /\ Marked(o, p, shown, x) \in Seq(Seq(Pieces))
         /\ Marked(o, q, shown, y) \in Seq(Seq(Pieces))
         /\ Alike(FlattenSeq(Marked(o, p, shown, x)), FlattenSeq(Marked(o, q, shown, y)))
<1> DEFINE s == Marked(o, p, shown, x)
           t == Marked(o, q, shown, y)
<1>1. /\ Len(p) \in Nat /\ DOMAIN p = 1..Len(p) /\ DOMAIN q = 1..Len(p)
      /\ \A c \in 1..Len(p) : p[c] \in Pieces /\ q[c] \in Pieces
  OBVIOUS
<1>2. Mark(x) \in Pieces /\ Mark(y) \in Pieces /\ Mark(x).width = Mark(y).width
  BY MarkType
<1>3. ASSUME NEW c \in 1..Len(p)
      PROVE  s[c] \in Seq(Pieces) /\ t[c] \in Seq(Pieces) /\ Alike(s[c], t[c])
  <2>1. CASE c \notin shown
    <3>1. s[c] = <<>> /\ t[c] = <<>>
      BY <1>1, <2>1 DEF Marked
    <3> QED
      BY <3>1 DEF Alike
  <2>2. CASE c \in shown /\ o.border
    <3>1. s[c] = <<p[c], Mark(x)>> /\ t[c] = <<q[c], Mark(y)>>
      BY <1>1, <2>2 DEF Marked
    <3>2. s[c] \in Seq(Pieces) /\ t[c] \in Seq(Pieces)
      BY <1>1, <1>2, <3>1
    <3>3. Len(s[c]) = 2 /\ Len(t[c]) = 2
      BY <3>1
    <3>4. \A k \in 1..2 : s[c][k].width = t[c][k].width
      BY <1>2, <3>1
    <3> QED
      BY <3>2, <3>3, <3>4 DEF Alike
  <2>3. CASE c \in shown /\ ~o.border
    <3>1. s[c] = <<p[c]>> /\ t[c] = <<q[c]>>
      BY <1>1, <2>3 DEF Marked
    <3>2. s[c] \in Seq(Pieces) /\ t[c] \in Seq(Pieces)
      BY <1>1, <3>1
    <3>3. Len(s[c]) = 1 /\ Len(t[c]) = 1
      BY <3>1
    <3>4. \A k \in 1..1 : s[c][k].width = t[c][k].width
      BY <3>1
    <3> QED
      BY <3>2, <3>3, <3>4 DEF Alike
  <2> QED
    BY <2>1, <2>2, <2>3
<1>4. /\ DOMAIN s = 1..Len(p) /\ s = [c \in 1..Len(p) |-> s[c]]
      /\ DOMAIN t = 1..Len(p) /\ t = [c \in 1..Len(p) |-> t[c]]
  BY <1>1 DEF Marked
<1> HIDE DEF s, t
<1>5. s \in Seq(Seq(Pieces)) /\ t \in Seq(Seq(Pieces)) /\ Len(s) = Len(p) /\ Len(t) = Len(p)
  BY <1>1, <1>3, <1>4
<1>6. Alike(FlattenSeq(s), FlattenSeq(t))
  <2>1. Len(s) = Len(t) /\ \A k \in 1..Len(s) : Alike(s[k], t[k])
    BY <1>3, <1>5
  <2> QED
    BY <1>5, <2>1, AlikeFlattened
<1> QED
  BY <1>5, <1>6 DEF s, t

LEMMA FramedAlike ==
  ASSUME NEW o, o.border \in BOOLEAN,
         NEW p \in Seq(Pieces), NEW q \in Seq(Pieces), Alike(p, q),
         NEW shown, NEW x \in Chars, NEW y \in Chars,
         NEW edgeX \in Chars, NEW edgeY \in Chars, NEW lastX \in Chars, NEW lastY \in Chars
  PROVE  /\ Framed(o, p, shown, edgeX, x, lastX) \in Seq(Pieces)
         /\ Framed(o, q, shown, edgeY, y, lastY) \in Seq(Pieces)
         /\ Alike(Framed(o, p, shown, edgeX, x, lastX), Framed(o, q, shown, edgeY, y, lastY))
<1> DEFINE a == FlattenSeq(Marked(o, p, shown, x))
           b == FlattenSeq(Marked(o, q, shown, y))
           left(char) == IF o.border THEN <<Mark(char)>> ELSE <<>>
           f == left(edgeX) \o a
           g == left(edgeY) \o b
<1>1. a \in Seq(Pieces) /\ b \in Seq(Pieces) /\ Alike(a, b)
  <2>1. Len(p) = Len(q) /\ \A c \in 1..Len(p) : p[c].width = q[c].width
    BY DEF Alike
  <2>2. /\ Marked(o, p, shown, x) \in Seq(Seq(Pieces))
        /\ Marked(o, q, shown, y) \in Seq(Seq(Pieces)) /\ Alike(a, b)
    BY <2>1, MarkedAlike
  <2> QED
    BY <2>2, FlattenType
<1>2. /\ Framed(o, p, shown, edgeX, x, lastX) =
             IF o.border /\ o.vrules = "FRAME" THEN Front(f) \o <<Mark(lastX)>> ELSE f
      /\ Framed(o, q, shown, edgeY, y, lastY) =
             IF o.border /\ o.vrules = "FRAME" THEN Front(g) \o <<Mark(lastY)>> ELSE g
  BY DEF Framed, Marked
<1> HIDE DEF a, b
<1>3. /\ Mark(edgeX) \in Pieces /\ Mark(edgeY) \in Pieces
      /\ Mark(lastX) \in Pieces /\ Mark(lastY) \in Pieces
      /\ Mark(edgeX).width = Mark(edgeY).width /\ Mark(lastX).width = Mark(lastY).width
  BY MarkType
<1>4. left(edgeX) \in Seq(Pieces) /\ left(edgeY) \in Seq(Pieces) /\ Alike(left(edgeX), left(edgeY))
  BY <1>3 DEF Alike
<1> HIDE DEF left
<1>5. f \in Seq(Pieces) /\ g \in Seq(Pieces) /\ Alike(f, g)
  BY <1>1, <1>4, AlikeJoined
<1>6. CASE o.border /\ o.vrules = "FRAME"
  <2>1. f # <<>>
    <3>1. Len(left(edgeX)) = 1
      BY <1>6 DEF left
    <3>2. Len(f) = 1 + Len(a) /\ Len(a) \in Nat
      <4>1. a \in Seq(Pieces) /\ left(edgeX) \in Seq(Pieces)
        BY <1>1, <1>4
      <4>2. Len(left(edgeX) \o a) = Len(left(edgeX)) + Len(a)
        BY <4>1
      <4>3. Len(a) \in Nat
        BY <4>1
      <4> QED
        BY <3>1, <4>2, <4>3
    <3> HIDE DEF f
    <3> QED
      BY <3>2
  <2> HIDE DEF f, g
  <2>2. Front(f) \in Seq(Pieces) /\ Front(g) \in Seq(Pieces) /\ Alike(Front(f), Front(g))
    BY <1>5, <2>1, FrontAlike
  <2>3. <<Mark(lastX)>> \in Seq(Pieces) /\ <<Mark(lastY)>> \in Seq(Pieces)
        /\ Alike(<<Mark(lastX)>>, <<Mark(lastY)>>)
    BY <1>3 DEF Alike
  <2>4. /\ Front(f) \o <<Mark(lastX)>> \in Seq(Pieces)
        /\ Front(g) \o <<Mark(lastY)>> \in Seq(Pieces)
        /\ Alike(Front(f) \o <<Mark(lastX)>>, Front(g) \o <<Mark(lastY)>>)
    <3> DEFINE u == Front(f)
               v == Front(g)
               m == <<Mark(lastX)>>
               n == <<Mark(lastY)>>
    <3>1. u \in Seq(Pieces) /\ v \in Seq(Pieces) /\ Alike(u, v)
      BY <2>2
    <3>2. m \in Seq(Pieces) /\ n \in Seq(Pieces) /\ Alike(m, n)
      BY <2>3
    <3> HIDE DEF u, v, m, n
    <3>3. u \o m \in Seq(Pieces) /\ v \o n \in Seq(Pieces)
      BY <3>1, <3>2
    <3>4. Alike(u \o m, v \o n)
      BY <3>1, <3>2, AlikeJoined
    <3> QED
      BY <3>3, <3>4 DEF u, v, m, n
  <2> QED
    BY <1>2, <1>6, <2>4
<1>7. CASE ~(o.border /\ o.vrules = "FRAME")
  BY <1>2, <1>5, <1>7
<1> QED
  BY <1>6, <1>7
-----------------------------------------------------------------------------
(* The grid: every line has the shape of the rules.                        *)
Good(t, widths, o) == {line \in Seq(Pieces) : Alike(line, _stringify_hrule(t, widths, o))}

LEMMA SequenceOf ==
  ASSUME NEW L, NEW n \in Nat, NEW f, f = [c \in 1..n |-> f[c]], \A c \in 1..n : f[c] \in L
  PROVE  f \in Seq(L) /\ Len(f) = n
<1> QED
  OBVIOUS

LEMMA PadsType ==
  ASSUME NEW o, DOMAIN o = DOMAIN OptionTypes, Allowed(o)
  PROVE  lpad(o) \in Nat /\ rpad(o) \in Nat
<1>1. /\ o.padding_width \in Nat /\ o.left_padding_width \in Nat \cup {None}
      /\ o.right_padding_width \in Nat \cup {None}
  BY OptionFacts
<1> QED
  BY <1>1 DEF lpad, rpad

LEMMA MarksType ==
  ASSUME NEW o, NEW x \in Chars, NEW y \in Chars
  PROVE  Edge(o, x, y) \in Chars /\ Between(o, x, y) \in Chars
<1> QED
  BY DEF Edge, Between

LEMMA RuleOfNames ==
  ASSUME NEW t \in Tables, t.names # <<>>,
         NEW o, DOMAIN o = DOMAIN OptionTypes, Allowed(o),
         NEW widths \in [DOMAIN t.names -> Nat]
  PROVE  \E cells \in Seq(Pieces), e \in Chars, b \in Chars, l \in Chars :
            /\ _stringify_hrule(t, widths, o) = Framed(o, cells, Shown(t, o), e, b, l)
            /\ Len(cells) = Len(t.names)
            /\ \A c \in 1..Len(t.names) : cells[c].width = widths[c] + lpad(o) + rpad(o)
<1> DEFINE cells == [c \in DOMAIN widths |->
                       [char |-> o.horizontal_char, width |-> widths[c] + lpad(o) + rpad(o)]]
           e == Edge(o, o.junction_char, o.horizontal_char)
           b == Between(o, o.junction_char, o.horizontal_char)
<1>1. o.horizontal_char \in Chars /\ o.junction_char \in Chars
  BY OptionFacts
<1>2. e \in Chars /\ b \in Chars
  BY <1>1, MarksType
<1>3. lpad(o) \in Nat /\ rpad(o) \in Nat
  BY PadsType
<1>4. DOMAIN widths = 1..Len(t.names) /\ Len(t.names) \in Nat
  BY TableFacts
<1>5. \A c \in 1..Len(t.names) : widths[c] \in Nat
  BY <1>4
<1>6. cells \in Seq(Pieces) /\ Len(cells) = Len(t.names)
  <2>1. \A c \in 1..Len(t.names) : cells[c] \in Pieces
    BY <1>1, <1>3, <1>4, <1>5 DEF Pieces
  <2>2. cells = [c \in 1..Len(t.names) |-> cells[c]]
    BY <1>4
  <2> HIDE DEF cells
  <2> QED
    BY <1>4, <2>1, <2>2, SequenceOf
<1>7. \A c \in 1..Len(t.names) : cells[c].width = widths[c] + lpad(o) + rpad(o)
  BY <1>4
<1>8. _stringify_hrule(t, widths, o) = Framed(o, cells, Shown(t, o), e, b, o.junction_char)
  BY DEF _stringify_hrule
<1> HIDE DEF cells, e, b
<1> QED
  BY <1>1, <1>2, <1>6, <1>7, <1>8

LEMMA LineGood ==
  ASSUME NEW t \in Tables, t.names # <<>>,
         NEW o, DOMAIN o = DOMAIN OptionTypes, Allowed(o),
         NEW widths \in [DOMAIN t.names -> Nat],
         NEW cells \in Seq(Pieces), Len(cells) = Len(t.names),
         \A c \in 1..Len(t.names) : cells[c].width = widths[c] + lpad(o) + rpad(o),
         NEW e \in Chars, NEW b \in Chars, NEW l \in Chars
  PROVE  Framed(o, cells, Shown(t, o), e, b, l) \in Good(t, widths, o)
<1>1. PICK rule \in Seq(Pieces), re \in Chars, rb \in Chars, rl \in Chars :
            /\ _stringify_hrule(t, widths, o) = Framed(o, rule, Shown(t, o), re, rb, rl)
            /\ Len(rule) = Len(t.names)
            /\ \A c \in 1..Len(t.names) : rule[c].width = widths[c] + lpad(o) + rpad(o)
  BY RuleOfNames
<1>2. \A c \in 1..Len(cells) : cells[c].width = rule[c].width
  BY <1>1
<1>3. Len(cells) = Len(rule) /\ o.border \in BOOLEAN
  BY <1>1, OptionFacts
<1>4. /\ Framed(o, cells, Shown(t, o), e, b, l) \in Seq(Pieces)
      /\ Alike(Framed(o, cells, Shown(t, o), e, b, l), Framed(o, rule, Shown(t, o), re, rb, rl))
  <2> DEFINE shown == Shown(t, o)
  <2> HIDE DEF shown
  <2>1. Alike(cells, rule)
    BY <1>2, <1>3 DEF Alike
  <2>2. /\ Framed(o, cells, shown, e, b, l) \in Seq(Pieces)
        /\ Alike(Framed(o, cells, shown, e, b, l), Framed(o, rule, shown, re, rb, rl))
    BY <1>3, <2>1, FramedAlike
  <2> QED
    BY <2>2 DEF shown
<1> QED
  BY <1>1, <1>4 DEF Good

LEMMA RuleGood ==
  ASSUME NEW t \in Tables, NEW o, DOMAIN o = DOMAIN OptionTypes, Allowed(o),
         NEW widths \in [DOMAIN t.names -> Nat]
  PROVE  _stringify_hrule(t, widths, o) \in Good(t, widths, o)
<1>1. CASE t.names # <<>>
  <2>1. PICK rule \in Seq(Pieces), re \in Chars, rb \in Chars, rl \in Chars :
              /\ _stringify_hrule(t, widths, o) = Framed(o, rule, Shown(t, o), re, rb, rl)
              /\ Len(rule) = Len(t.names)
              /\ \A c \in 1..Len(t.names) : rule[c].width = widths[c] + lpad(o) + rpad(o)
    BY <1>1, RuleOfNames
  <2>2. Framed(o, rule, Shown(t, o), re, rb, rl) \in Good(t, widths, o)
    BY <1>1, <2>1, LineGood
  <2> QED
    BY <2>1, <2>2
<1>2. CASE t.names = <<>>
  <2>1. _stringify_hrule(t, widths, o) =
           <<Mark(Edge(o, o.junction_char, o.horizontal_char)), Mark(o.junction_char)>>
    BY <1>2 DEF _stringify_hrule
  <2>2. /\ Mark(Edge(o, o.junction_char, o.horizontal_char)) \in Pieces
        /\ Mark(o.junction_char) \in Pieces
    BY OptionFacts, MarksType, MarkType
  <2> QED
    BY <2>1, <2>2 DEF Good, Alike
<1> QED
  BY <1>1, <1>2

LEMMA PaddedCell ==
  ASSUME NEW o, DOMAIN o = DOMAIN OptionTypes, Allowed(o),
         NEW width \in Nat, NEW blocks \in Int, blocks <= width
  PROVE  /\ Padded(blocks, width, o) \in Pieces
         /\ Padded(blocks, width, o).width = width + lpad(o) + rpad(o)
<1>1. lpad(o) \in Nat /\ rpad(o) \in Nat
  BY PadsType
<1>2. Max({width, blocks}) = width
  BY PairMax
<1>3. Padded(blocks, width, o) = [char |-> "text", width |-> lpad(o) + width + rpad(o)]
  BY <1>2 DEF Padded
<1>4. lpad(o) + width + rpad(o) = width + lpad(o) + rpad(o) /\ lpad(o) + width + rpad(o) \in Nat
  BY <1>1
<1> QED
  BY <1>3, <1>4 DEF Pieces

LEMMA HeaderGood ==
  ASSUME NEW t \in Tables, NEW o, DOMAIN o = DOMAIN OptionTypes, Allowed(o),
         NEW self, self.header_style \in HeaderStyles,
         NEW widths \in [DOMAIN t.names -> Nat],
         \A c \in DOMAIN t.names : NameWidth[t.names[c]] <= widths[c],
         t.names = <<>> => o.border
  PROVE  _stringify_header(self, t, widths, o) \in Seq(Good(t, widths, o))
<1> DEFINE names == [c \in DOMAIN widths |->
                       [Padded(NameWidth[t.names[c]], widths[c], o) EXCEPT !.char = self.header_style]]
           line == IF t.names = <<>>
                   THEN [k \in 1 .. IF o.border THEN 2 ELSE 1 |-> Mark(Edge(o, o.vertical_char, " "))]
                   ELSE Framed(o, names, Shown(t, o), Edge(o, o.vertical_char, " "),
                               Between(o, o.vertical_char, " "), o.vertical_char)
           rule == <<_stringify_hrule(t, widths, o)>>
           above == IF o.border /\ o.hrules \in {"ALL", "FRAME"} THEN rule ELSE <<>>
           below == IF o.border /\ o.hrules # "NONE" THEN rule ELSE <<>>
           G == Good(t, widths, o)
<1>1. o.vertical_char \in Chars /\ " " \in Chars
  BY OptionFacts, CharsAssumption
<1>2. Edge(o, o.vertical_char, " ") \in Chars /\ Between(o, o.vertical_char, " ") \in Chars
  BY <1>1, MarksType
<1>3. line \in G
  <2>1. CASE t.names # <<>>
    <3>1. DOMAIN widths = 1..Len(t.names) /\ Len(t.names) \in Nat
      BY TableFacts
    <3>2. ASSUME NEW c \in 1..Len(t.names)
          PROVE  names[c] \in Pieces /\ names[c].width = widths[c] + lpad(o) + rpad(o)
      <4>1. t.names[c] \in FieldNames
        BY TableFacts
      <4>2. NameWidth[t.names[c]] \in Int /\ widths[c] \in Nat /\ NameWidth[t.names[c]] <= widths[c]
        BY <3>1, <4>1, NamesAssumption
      <4>3. names[c] = [Padded(NameWidth[t.names[c]], widths[c], o) EXCEPT !.char = self.header_style]
        BY <3>1
      <4>4. /\ Padded(NameWidth[t.names[c]], widths[c], o) \in Pieces
            /\ Padded(NameWidth[t.names[c]], widths[c], o).width = widths[c] + lpad(o) + rpad(o)
        BY <4>2, PaddedCell
      <4> QED
        BY <4>3, <4>4 DEF Pieces
    <3>3. names \in Seq(Pieces) /\ Len(names) = Len(t.names)
      <4>1. names = [c \in 1..Len(t.names) |-> names[c]]
        BY <3>1
      <4> HIDE DEF names
      <4>2. \A c \in 1..Len(t.names) : names[c] \in Pieces
        BY <3>2
      <4> QED
        BY <3>1, <4>1, <4>2, SequenceOf
    <3> HIDE DEF names
    <3>4. Framed(o, names, Shown(t, o), Edge(o, o.vertical_char, " "),
                 Between(o, o.vertical_char, " "), o.vertical_char) \in G
      BY <1>1, <1>2, <2>1, <3>2, <3>3, LineGood
    <3> QED
      BY <2>1, <3>4
  <2>2. CASE t.names = <<>>
    <3> DEFINE m == Mark(Edge(o, o.vertical_char, " "))
               r1 == Mark(Edge(o, o.junction_char, o.horizontal_char))
               r2 == Mark(o.junction_char)
    <3>1. _stringify_hrule(t, widths, o) = <<r1, r2>>
      BY <2>2 DEF _stringify_hrule
    <3>2. m \in Pieces /\ m.width = 1 /\ r1.width = 1 /\ r2.width = 1
      <4>1. o.junction_char \in Chars /\ o.horizontal_char \in Chars
        BY OptionFacts
      <4>2. Edge(o, o.junction_char, o.horizontal_char) \in Chars
        BY <4>1, MarksType
      <4> QED
        BY <1>2, <4>1, <4>2, MarkType
    <3>3. line = [k \in 1..2 |-> m]
      BY <2>2
    <3> HIDE DEF m, r1, r2, line
    <3>4. line \in Seq(Pieces) /\ Len(line) = 2
      BY <3>2, <3>3
    <3>5. \A k \in 1..2 : line[k].width = <<r1, r2>>[k].width
      BY <3>2, <3>3
    <3> QED
      BY <3>1, <3>4, <3>5 DEF Good, Alike
  <2> QED
    BY <2>1, <2>2
<1>4. rule \in Seq(G)
  BY RuleGood
<1>5. _stringify_header(self, t, widths, o) = above \o <<line>> \o below
  BY DEF _stringify_header
<1> HIDE DEF line, rule, G
<1>6. above \in Seq(G) /\ below \in Seq(G) /\ <<line>> \in Seq(G)
  BY <1>3, <1>4
<1> HIDE DEF above, below
<1>7. above \o <<line>> \o below \in Seq(G)
  BY <1>6
<1> QED
  BY <1>5, <1>7 DEF G
-----------------------------------------------------------------------------
(* Wrapping makes the lines of a cell fit, unless it cannot cut them.      *)
Fits(width) == {line \in [n : Int, w : Nat] : line.n * line.w <= width}

LEMMA FilledLines ==
  ASSUME NEW line \in Lines, line.w <= 1, NEW width \in Nat, width # 0
  PROVE  Fill(line, width) \in Seq(Fits(width))
<1> DEFINE last == (line.n + width - 1) \div width
           rest(y) == line.n - (y - 1) * width
           f == [y \in 1..last |-> [line EXCEPT !.n = Min({width, rest(y)})]]
           m == IF last >= 0 THEN last ELSE 0
<1>1. /\ line.n \in Nat /\ line.w \in Nat /\ (line.w = 0 \/ line.w = 1)
      /\ \A n \in Int : [line EXCEPT !.n = n] = [n |-> n, w |-> line.w]
  BY DEF Lines
<1>2. last \in Int
  BY <1>1
<1>3. ASSUME NEW y \in Int PROVE rest(y) \in Int
  BY <1>1
<1>4. ASSUME NEW y \in Int PROVE [line EXCEPT !.n = Min({width, rest(y)})] \in Fits(width)
  <2> DEFINE n == Min({width, rest(y)})
  <2>1. rest(y) \in Int
    BY <1>3
  <2> HIDE DEF rest
  <2>2. n \in Int /\ n <= width
    BY <2>1, PairMin
  <2> HIDE DEF n
  <2>3. n * line.w <= width
    <3>1. CASE line.w = 0
      BY <2>2, <3>1
    <3>2. CASE line.w = 1
      BY <2>2, <3>2
    <3> QED
      BY <1>1, <3>1, <3>2
  <2>4. [line EXCEPT !.n = n] = [n |-> n, w |-> line.w]
    BY <1>1, <2>2
  <2>5. [n |-> n, w |-> line.w] \in Fits(width)
    BY <1>1, <2>2, <2>3 DEF Fits
  <2> QED
    BY <2>4, <2>5 DEF n
<1>5. Fill(line, width) = f
  BY DEF Fill
<1> HIDE DEF last, rest
<1>6. 1..last = 1..m /\ m \in Nat
  BY <1>2
<1>7. ASSUME NEW y \in 1..m PROVE f[y] \in Fits(width)
  <2>1. y \in 1..last /\ y \in Int
    BY <1>6
  <2>2. f[y] = [line EXCEPT !.n = Min({width, rest(y)})]
    BY <2>1
  <2> HIDE DEF f
  <2> QED
    BY <1>4, <2>1, <2>2
<1>8. f = [y \in 1..m |-> f[y]]
  BY <1>6
<1> HIDE DEF f, m
<1>9. f \in Seq(Fits(width))
  BY <1>6, <1>7, <1>8, SequenceOf
<1> QED
  BY <1>5, <1>9

LEMMA WrappedFits ==
  ASSUME NEW cell \in Seq(Lines), NEW width \in Nat, ~Unfillable(cell, width),
         \A y \in DOMAIN cell : Blocks(cell[y]) > width => cell[y].w <= 1
  PROVE  Wrapped(cell, width) \in Seq(Fits(width))
<1> DEFINE f == [y \in DOMAIN cell |->
                   IF Blocks(cell[y]) > width THEN Fill(cell[y], width) ELSE <<cell[y]>>]
<1>1. DOMAIN cell = 1..Len(cell) /\ Len(cell) \in Nat
  OBVIOUS
<1>2. ASSUME NEW y \in 1..Len(cell) PROVE f[y] \in Seq(Fits(width))
  <2>1. cell[y] \in Lines
    BY <1>1
  <2>2. Blocks(cell[y]) \in Nat /\ cell[y].n \in Nat /\ cell[y].w \in Nat
    BY <2>1, BlocksOf DEF Lines
  <2>3. CASE Blocks(cell[y]) > width
    <3>1. width # 0
      <4>1. Width(cell) \in Nat /\ Blocks(cell[y]) <= Width(cell)
        BY <1>1, WidthOf
      <4>2. width = 0 => Width(cell) > 0
        BY <2>2, <2>3, <4>1
      <4> QED
        BY <4>2 DEF Unfillable
    <3>2. cell[y].w <= 1
      BY <1>1, <2>3
    <3>3. Fill(cell[y], width) \in Seq(Fits(width))
      BY <2>1, <3>1, <3>2, FilledLines
    <3> QED
      BY <1>1, <2>3, <3>3
  <2>4. CASE ~(Blocks(cell[y]) > width)
    <3>1. cell[y] \in [n : Int, w : Nat]
      BY <2>1 DEF Lines
    <3>2. cell[y].n * cell[y].w <= width
      BY <2>2, <2>4 DEF Blocks
    <3>3. <<cell[y]>> \in Seq(Fits(width))
      BY <3>1, <3>2 DEF Fits
    <3> QED
      BY <1>1, <2>4, <3>3
  <2> QED
    BY <2>3, <2>4
<1>3. f = [y \in 1..Len(cell) |-> f[y]]
  BY <1>1
<1>4. Wrapped(cell, width) = FlattenSeq(f)
  BY DEF Wrapped
<1> HIDE DEF f
<1>5. f \in Seq(Seq(Fits(width)))
  BY <1>1, <1>2, <1>3, SequenceOf
<1> QED
  BY <1>4, <1>5, FlattenType

(* A cell whose lines can be made to fit its column.                       *)
Fitting(cell, width) ==
  /\ ~Unfillable(cell, width)
  /\ \A y \in DOMAIN cell : Blocks(cell[y]) > width => cell[y].w <= 1

LEMMA RowGood ==
  ASSUME NEW t \in Tables, NEW o, DOMAIN o = DOMAIN OptionTypes, Allowed(o),
         NEW self, self.vertical_char \in Chars,
         NEW widths \in [DOMAIN t.names -> Nat],
         NEW row \in Seq(Seq(Lines)), row # <<>>, Len(row) = Len(t.names),
         \A c \in DOMAIN row : Fitting(row[c], widths[c])
  PROVE  _stringify_row(self, t, widths, row, o) \in Seq(Good(t, widths, o))
<1> DEFINE cells == [c \in DOMAIN row |-> Wrapped(row[c], widths[c])]
           blocks(c, y) == IF y \in DOMAIN cells[c] THEN Blocks(cells[c][y]) ELSE 0
           padded(y) == [c \in DOMAIN row |-> Padded(blocks(c, y), widths[c], o)]
           line(y) == Framed(o, padded(y), Shown(t, o), Edge(o, self.vertical_char, " "),
                             Between(o, self.vertical_char, " "), o.vertical_char)
           rule == IF o.border /\ o.hrules = "ALL"
                   THEN <<_stringify_hrule(t, widths, o)>> ELSE <<>>
           heights == {Len(cells[c]) : c \in DOMAIN cells}
           height == Largest(heights)
           G == Good(t, widths, o)
<1>1. /\ DOMAIN row = 1..Len(t.names) /\ Len(t.names) \in Nat
      /\ DOMAIN widths = 1..Len(t.names) /\ t.names # <<>>
  BY TableFacts
<1>2. ASSUME NEW c \in DOMAIN row
      PROVE  widths[c] \in Nat /\ cells[c] \in Seq(Fits(widths[c]))
  <2>1. widths[c] \in Nat /\ row[c] \in Seq(Lines)
    BY <1>1
  <2>2. Fitting(row[c], widths[c])
    OBVIOUS
  <2>3. Wrapped(row[c], widths[c]) \in Seq(Fits(widths[c]))
    BY <2>1, <2>2, WrappedFits DEF Fitting
  <2> QED
    BY <2>1, <2>3
<1>3. ASSUME NEW c \in DOMAIN row, NEW y
      PROVE  blocks(c, y) \in Int /\ blocks(c, y) <= widths[c]
  <2>1. widths[c] \in Nat /\ cells[c] \in Seq(Fits(widths[c]))
    BY <1>2
  <2> HIDE DEF cells
  <2>2. CASE y \in DOMAIN cells[c]
    <3>1. cells[c][y] \in Fits(widths[c])
      BY <2>1, <2>2
    <3>2. /\ cells[c][y].n \in Int /\ cells[c][y].w \in Nat
          /\ cells[c][y].n * cells[c][y].w <= widths[c]
      BY <3>1 DEF Fits
    <3>3. Blocks(cells[c][y]) \in Int /\ Blocks(cells[c][y]) <= widths[c]
      BY <3>2 DEF Blocks
    <3> QED
      BY <2>2, <3>3
  <2>3. CASE y \notin DOMAIN cells[c]
    BY <2>1, <2>3
  <2> QED
    BY <2>2, <2>3
<1>4. height \in Nat
  <2> DEFINE f == [c \in DOMAIN row |-> Len(cells[c])]
  <2>1. heights = {f[c] : c \in DOMAIN f}
    OBVIOUS
  <2>2. DOMAIN f = 1..Len(t.names)
    BY <1>1
  <2>3. IsFiniteSet(DOMAIN f)
    BY <1>1, <2>2, FS_Interval
  <2>4. \A c \in DOMAIN f : f[c] \in Nat
    <3> HIDE DEF cells
    <3>1. \A c \in DOMAIN row : Len(cells[c]) \in Nat
      BY <1>2
    <3> QED
      BY <3>1
  <2> HIDE DEF f, heights
  <2>5. IsFiniteSet(heights) /\ heights \subseteq Nat
    BY <2>1, <2>3, <2>4, ImageIsFinite
  <2> QED
    BY <2>5, LargestOf
<1>5. ASSUME NEW y PROVE line(y) \in G
  <2>1. ASSUME NEW c \in 1..Len(t.names)
        PROVE  padded(y)[c] \in Pieces /\ padded(y)[c].width = widths[c] + lpad(o) + rpad(o)
    <3>1. c \in DOMAIN row /\ widths[c] \in Nat
      BY <1>1
    <3>2. blocks(c, y) \in Int /\ blocks(c, y) <= widths[c]
      BY <1>3, <3>1
    <3> HIDE DEF blocks
    <3>3. padded(y)[c] = Padded(blocks(c, y), widths[c], o)
      BY <3>1
    <3> QED
      BY <3>1, <3>2, <3>3, PaddedCell
  <2>2. padded(y) = [c \in 1..Len(t.names) |-> padded(y)[c]]
    BY <1>1
  <2> HIDE DEF padded
  <2>3. padded(y) \in Seq(Pieces) /\ Len(padded(y)) = Len(t.names)
    BY <1>1, <2>1, <2>2, SequenceOf
  <2>4. /\ Edge(o, self.vertical_char, " ") \in Chars
        /\ Between(o, self.vertical_char, " ") \in Chars
    BY CharsAssumption, MarksType
  <2>5. o.vertical_char \in Chars
    BY OptionFacts
  <2> QED
    BY <1>1, <2>1, <2>3, <2>4, <2>5, LineGood
<1>6. rule \in Seq(G)
  BY RuleGood
<1>7. _stringify_row(self, t, widths, row, o) = [y \in 1..height |-> line(y)] \o rule
  BY DEF _stringify_row
<1> HIDE DEF line, height, rule, G
<1>8. [y \in 1..height |-> line(y)] \in Seq(G)
  BY <1>4, <1>5
<1>9. [y \in 1..height |-> line(y)] \o rule \in Seq(G)
  BY <1>6, <1>8
<1> QED
  BY <1>7, <1>9 DEF G

(* A row of the table, formatted, fits the widths computed for all rows.   *)
LEMMA RowsFit ==
  ASSUME NEW t \in Tables, ~Overwide(t), FullRows(t), NEW self, HasFormats(self),
         NEW o, o.header \in BOOLEAN, NEW shown \in Seq(Elements(t.rows)),
         NEW k \in DOMAIN shown
  PROVE  /\ _format_rows(t, self, shown)[k] \in Seq(Seq(Lines)) /\ _format_rows(t, self, shown)[k] # <<>>
         /\ Len(_format_rows(t, self, shown)[k]) = Len(t.names)
         /\ \A c \in DOMAIN _format_rows(t, self, shown)[k] :
               ~Unfillable(_format_rows(t, self, shown)[k][c],
                           _compute_widths(t, _format_rows(t, self, shown), o)[c]) =>
                   Fitting(_format_rows(t, self, shown)[k][c],
                           _compute_widths(t, _format_rows(t, self, shown), o)[c])
<1> DEFINE all == _format_rows(t, self, shown)
           row == shown[k]
           widths == _compute_widths(t, all, o)
           n == Len(t.names)
<1>1. PICK j \in DOMAIN t.rows : t.rows[j] = row
  BY DEF Elements
<1>2. row \in Seq(Cells) /\ row # <<>> /\ Len(row) = n /\ n \in Nat /\ DOMAIN t.names = 1..n
  BY <1>1, TableFacts DEF FullRows
<1>3. /\ all \in Seq(Seq(Seq(Lines))) /\ DOMAIN all = DOMAIN shown
      /\ all[k] = _format_row(t, self, row)
  BY FormattedRows
<1>4. /\ all[k] \in Seq(Seq(Lines)) /\ Len(all[k]) = n
      /\ all[k] = [c \in 1..n |-> _format_value(self, t.names[c], row[c])]
  BY <1>2, <1>3, FormattedRow
<1>5. all[k] # <<>>
  BY <1>2, <1>4
<1> HIDE DEF all
<1>6. /\ widths \in [DOMAIN t.names -> Nat]
      /\ \A c \in DOMAIN t.names :
            c \in DOMAIN all[k] /\ t.names[c] \notin DOMAIN t.maxWidth =>
                Width(all[k][c]) <= widths[c]
  BY <1>3, WidthsOf
<1> HIDE DEF widths
<1>7. ASSUME NEW c \in DOMAIN all[k], ~Unfillable(all[k][c], widths[c]),
             NEW y \in DOMAIN all[k][c], Blocks(all[k][c][y]) > widths[c]
      PROVE  all[k][c][y].w <= 1
  <2>1. c \in 1..n /\ c \in DOMAIN t.names /\ c \in DOMAIN row
    BY <1>2, <1>4
  <2>2. /\ all[k][c] = _format_value(self, t.names[c], row[c]) /\ row[c] \in Cells
        /\ t.names[c] \in FieldNames
    BY <1>2, <1>4, <2>1, TableFacts
  <2>3. all[k][c] \in Seq(Lines) /\ all[k][c][y] \in Lines
    BY <2>2, FormattedCell
  <2>4. all[k][c][y].w \in Nat /\ Blocks(all[k][c][y]) \in Nat /\ widths[c] \in Nat
    BY <1>6, <2>1, <2>3, BlocksOf DEF Lines
  <2>5. t.names[c] \in DOMAIN t.maxWidth
    <3>1. Width(all[k][c]) \in Nat /\ Blocks(all[k][c][y]) <= Width(all[k][c])
      BY <2>3, WidthOf
    <3>2. ~(Width(all[k][c]) <= widths[c])
      BY <1>7, <2>4, <3>1
    <3> QED
      BY <1>6, <2>1, <3>2
  <2>6. \A z \in DOMAIN row[c].lines : ~(row[c].lines[z].w > 1)
    BY <1>1, <2>1, <2>5 DEF Overwide
  <2>7. \/ all[k][c][y].w = 1
        \/ \E z \in DOMAIN row[c].lines : all[k][c][y].w = row[c].lines[z].w
    BY <2>2, FormattedCell
  <2>8. ~(all[k][c][y].w > 1)
    BY <2>6, <2>7
  <2> QED
    BY <2>4, <2>8
<1> QED
  BY <1>4, <1>5, <1>7 DEF Fitting, all, widths

(* Every text is a grid: in each of its lines the marks stand where those  *)
(* of the rules do (prettytable.py:1009, 1035, 1082), unless a limited     *)
(* column holds wide characters or a row lacks cells.                      *)
THEOREM TextsAreGrids == Spec => []Grid
<1>1. IInv => Grid
  <2> DEFINE o == _get_options(opts, kwargs)
             shown == _get_rows(tab, o)
             all == _format_rows(tab, opts, shown)
             widths == _compute_widths(tab, all, o)
             rule == <<_stringify_hrule(tab, widths, o)>>
             top == IF o.header THEN _stringify_header(opts, tab, widths, o)
                    ELSE IF o.border /\ o.hrules \in {"ALL", "FRAME"} THEN rule ELSE <<>>
             bottom == IF o.border /\ o.hrules = "FRAME" THEN rule ELSE <<>>
             body == [k \in DOMAIN all |-> _stringify_row(opts, tab, widths, all[k], o)]
             G == Good(tab, widths, o)
  <2> SUFFICES ASSUME IInv, Printed, ~Overwide(tab), FullRows(tab)
               PROVE  \A j, k \in DOMAIN text.lines : Shape(text.lines[j]) = Shape(text.lines[k])
    BY DEF Grid
  <2>1. /\ tab \in Tables /\ text = get_string(tab, opts, kwargs) /\ text.exc = NoExc
        /\ DOMAIN opts = DOMAIN OptionTypes /\ Allowed(opts)
    BY DEF IInv, TypeOK, Printed
  <2>2. /\ DOMAIN o = DOMAIN OptionTypes /\ Allowed(o)
        /\ o.sortby \in Elements(tab.names) \cup {NoField}
    BY CallOptions
  <2> HIDE DEF o
  <2>3. /\ o.start \in Nat /\ o.end \in Nat \cup {None} /\ o.header \in BOOLEAN
        /\ o.border \in BOOLEAN /\ opts.vertical_char \in Chars
        /\ opts.header_style \in HeaderStyles /\ HasFormats(opts)
    BY <2>1, <2>2, OptionFacts
  <2>4. CASE text.lines = <<>>
    BY <2>4
  <2>5. CASE text.lines # <<>>
    <3>1. /\ ~(tab.rows = <<>> /\ ~(o.print_empty /\ o.border))
          /\ ~UnreachedSort(Sorting(tab, o))
          /\ \A k \in DOMAIN all : \A c \in DOMAIN all[k] : ~Unfillable(all[k][c], widths[c])
          /\ text.lines = top \o FlattenSeq(body) \o bottom
      BY <2>1, <2>5 DEF get_string, Sorting, NoExc, o
    <3>2. shown \in Seq(Elements(tab.rows))
      BY <2>1, <2>2, <2>3, <3>1, RowsOfTable
    <3> HIDE DEF shown
    <3>3. /\ all \in Seq(Seq(Seq(Lines))) /\ DOMAIN all = DOMAIN shown
      BY <2>1, <2>3, <3>2, FormattedRows
    <3>4. /\ widths \in [DOMAIN tab.names -> Nat]
          /\ \A c \in DOMAIN tab.names : o.header => NameWidth[tab.names[c]] <= widths[c]
      BY <2>1, <2>3, <3>3, WidthsOf
    <3>5. ASSUME NEW k \in DOMAIN all PROVE body[k] \in Seq(G)
      <4>1. /\ all[k] \in Seq(Seq(Lines)) /\ all[k] # <<>> /\ Len(all[k]) = Len(tab.names)
            /\ \A c \in DOMAIN all[k] :
                  ~Unfillable(all[k][c], widths[c]) => Fitting(all[k][c], widths[c])
        <5>1. k \in DOMAIN shown
          BY <3>3
        <5> QED
          <6>1. /\ tab \in Tables /\ ~Overwide(tab) /\ FullRows(tab) /\ o.header \in BOOLEAN
                /\ shown \in Seq(Elements(tab.rows)) /\ k \in DOMAIN shown
                /\ HasFormats(opts)
            BY <2>1, <2>3, <3>2, <5>1
          <6> QED
            <7>1. _format_rows(tab, opts, shown)[k] # <<>>
              BY <6>1, RowsFit
            <7>2. /\ _format_rows(tab, opts, shown)[k] \in Seq(Seq(Lines))
                  /\ Len(_format_rows(tab, opts, shown)[k]) = Len(tab.names)
              BY <6>1, RowsFit
            <7>3. \A c \in DOMAIN _format_rows(tab, opts, shown)[k] :
                    ~Unfillable(_format_rows(tab, opts, shown)[k][c],
                                _compute_widths(tab, _format_rows(tab, opts, shown), o)[c]) =>
                        Fitting(_format_rows(tab, opts, shown)[k][c],
                                _compute_widths(tab, _format_rows(tab, opts, shown), o)[c])
              BY <6>1, RowsFit
            <7> QED
              BY <7>1, <7>2, <7>3
      <4> HIDE DEF all, widths
      <4>2. \A c \in DOMAIN all[k] : Fitting(all[k][c], widths[c])
        BY <3>1, <4>1
      <4>3. _stringify_row(opts, tab, widths, all[k], o) \in Seq(G)
        BY <2>1, <2>2, <2>3, <3>4, <4>1, <4>2, RowGood
      <4> QED
        BY <4>3
    <3> HIDE DEF all, widths
    <3>6. DOMAIN all = 1..Len(all) /\ Len(all) \in Nat
      BY <3>3
    <3>7. body \in Seq(Seq(G))
      <4>1. body = [k \in 1..Len(all) |-> body[k]]
        BY <3>6
      <4> HIDE DEF body, G
      <4> QED
        BY <3>5, <3>6, <4>1, SequenceOf
    <3>8. FlattenSeq(body) \in Seq(G)
      <4> HIDE DEF body, G
      <4> QED
        BY <3>7, FlattenType
    <3>9. rule \in Seq(G)
      <4>1. _stringify_hrule(tab, widths, o) \in G
        BY <2>1, <2>2, <3>4, RuleGood
      <4> HIDE DEF G
      <4> QED
        BY <4>1
    <3>10. top \in Seq(G)
      <4>1. CASE o.header
        <5>1. tab.names = <<>> => o.border
          <6>1. ASSUME tab.names = <<>>, NEW k \in DOMAIN tab.rows PROVE FALSE
            <7>1. tab.rows[k] \in Seq(Cells)
              BY <2>1, TableFacts
            <7>2. tab.rows[k] # <<>> /\ Len(tab.rows[k]) = 0
              BY <6>1 DEF FullRows
            <7> QED
              BY <7>1, <7>2
          <6>2. tab.rows \in Seq(Seq(Cells))
            BY <2>1, TableFacts
          <6>3. tab.names = <<>> => tab.rows = <<>>
            <7>1. ASSUME tab.names = <<>> PROVE DOMAIN tab.rows = {}
              BY <6>1, <7>1
            <7>2. DOMAIN tab.rows = {} => Len(tab.rows) = 0
              <8>1. Len(tab.rows) \in Nat /\ DOMAIN tab.rows = 1..Len(tab.rows)
                BY <6>2
              <8>2. Len(tab.rows) # 0 => 1 \in 1..Len(tab.rows)
                BY <8>1
              <8> QED
                BY <8>1, <8>2
            <7>3. Len(tab.rows) = 0 => tab.rows = <<>>
              BY <6>2
            <7> QED
              BY <7>1, <7>2, <7>3
          <6> QED
            BY <3>1, <6>3
        <5>2. \A c \in DOMAIN tab.names : NameWidth[tab.names[c]] <= widths[c]
          BY <3>4, <4>1
        <5>3. _stringify_header(opts, tab, widths, o) \in Seq(G)
          BY <2>1, <2>2, <2>3, <3>4, <5>1, <5>2, HeaderGood
        <5> QED
          BY <4>1, <5>3
      <4>2. CASE ~o.header
        <5> HIDE DEF rule, G
        <5> QED
          BY <3>9, <4>2
      <4> QED
        BY <4>1, <4>2
    <3>11. bottom \in Seq(G)
      <4> HIDE DEF rule, G
      <4> QED
        BY <3>9
    <3> DEFINE middle == FlattenSeq(body)
    <3>12. top \o middle \o bottom \in Seq(G)
      <4> HIDE DEF top, middle, bottom, G
      <4>1. top \in Seq(G) /\ middle \in Seq(G) /\ bottom \in Seq(G)
        BY <3>8, <3>10, <3>11 DEF middle
      <4> QED
        BY <4>1
    <3>13. text.lines \in Seq(G)
      BY <3>1, <3>12
    <3>14. ASSUME NEW j \in DOMAIN text.lines, NEW k \in DOMAIN text.lines
           PROVE  Shape(text.lines[j]) = Shape(text.lines[k])
      <4> DEFINE a == text.lines[j]
                 b == text.lines[k]
                 h == _stringify_hrule(tab, widths, o)
      <4>1. a \in G /\ b \in G
        <5> HIDE DEF G
        <5> QED
          BY <3>13
      <4>2. /\ a \in Seq(Pieces) /\ b \in Seq(Pieces) /\ Alike(a, h) /\ Alike(b, h)
        BY <4>1 DEF Good
      <4> HIDE DEF a, b, h
      <4>3. DOMAIN a = DOMAIN b /\ \A i \in DOMAIN a : a[i].width = b[i].width
        BY <4>2 DEF Alike
      <4> QED
        BY <4>3 DEF Shape, a, b
    <3> QED
      BY <3>14
  <2> QED
    BY <2>4, <2>5
<1> QED
  BY <1>1, SpecIInv, PTL
-----------------------------------------------------------------------------
(* Sequences may be joined in any grouping.                                *)
Regroups(a, b, c) == (a \o b) \o c = a \o (b \o c)

LEMMA Regrouping ==
  ASSUME NEW L, NEW a \in Seq(L), NEW b \in Seq(L), NEW c \in Seq(L)
  PROVE  Regroups(a, b, c)
BY ConcatAssociative DEF Regroups

(* What FlattenSeq gives begins with the first of its sequences ...        *)
LEMMA FlattenFirst ==
  ASSUME NEW L, NEW s \in Seq(Seq(L)), s # <<>>
  PROVE  FlattenSeq(s) = s[1] \o FlattenSeq(Tail(s))
<1>1. Len(s) \in Nat \ {0} /\ s[1] \in Seq(L) /\ Tail(s) \in Seq(Seq(L))
  BY HeadTailProperties
<1>2. PICK f \in [1..Len(s) -> Seq(L)] : f = Joins(s, f) /\ FlattenSeq(s) = f[Len(s)]
  BY FlattenIsLast
<1>3. f[1] = s[1] /\ \A m \in 2..Len(s) : f[m] = f[m - 1] \o s[m]
  <2>1. 1 \in 1..Len(s) /\ \A m \in 2..Len(s) : m \in 1..Len(s) /\ m # 1
    BY <1>1
  <2>2. \A m \in 1..Len(s) : f[m] = IF m = 1 THEN s[1] ELSE f[m - 1] \o s[m]
    BY <1>2 DEF Joins
  <2> QED
    BY <2>1, <2>2
<1>4. CASE Len(s) = 1
  <2>1. Tail(s) = <<>>
    <3>1. Len(Tail(s)) = Len(s) - 1
      BY HeadTailProperties
    <3>2. Len(Tail(s)) = 0
      BY <1>4, <3>1
    <3> QED
      BY <1>1, <3>2, EmptySeq
  <2>3. FlattenSeq(Tail(s)) = <<>>
    BY <2>1 DEF FlattenSeq
  <2>2. s[1] \o <<>> = s[1]
    BY <1>1, ConcatEmptySeq
  <2> QED
    BY <1>2, <1>3, <1>4, <2>2, <2>3
<1>5. CASE Len(s) # 1
  <2> DEFINE t == Tail(s)
             n == Len(s) - 1
  <2>1. /\ n \in Nat /\ 1 <= n /\ Len(t) = n /\ n \in 1..n /\ n + 1 = Len(s)
        /\ t \in Seq(Seq(L)) /\ t # <<>>
        /\ \A m \in 1..n : t[m] = s[m + 1] /\ t[m] \in Seq(L)
    <3>1. Len(t) = n /\ \A m \in 1..n : t[m] = s[m + 1]
      BY <1>1
    <3>2. n # 0
      BY <1>1, <1>5
    <3>3. \A m \in 1..n : s[m + 1] \in Seq(L)
      BY <1>1
    <3>4. t \in Seq(Seq(L)) /\ n \in Nat /\ n + 1 = Len(s)
      BY <1>1
    <3> HIDE DEF t, n
    <3>5. t # <<>> /\ 1 <= n /\ n \in 1..n
      BY <3>1, <3>2, <3>4
    <3> QED
      BY <3>1, <3>3, <3>4, <3>5
  <2> HIDE DEF t, n
  <2>2. PICK g \in [1..n -> Seq(L)] : g = Joins(t, g) /\ FlattenSeq(t) = g[n]
    BY <1>1, <2>1, FlattenIsLast
  <2>3. g[1] = t[1] /\ \A m \in 2..n : g[m] = g[m - 1] \o t[m]
    <3>1. 1 \in 1..n /\ \A m \in 2..n : m \in 1..n /\ m # 1
      BY <2>1
    <3>2. \A m \in 1..n : g[m] = IF m = 1 THEN t[1] ELSE g[m - 1] \o t[m]
      BY <2>1, <2>2 DEF Joins
    <3> QED
      BY <3>1, <3>2
  <2> DEFINE S == {i \in 1..n : f[i + 1] = s[1] \o g[i]}
  <2>4. 1 \in S
    <3>1. 2 \in 2..Len(s) /\ 1 \in 1..n /\ 1 + 1 = 2 /\ 2 - 1 = 1
      BY <1>1, <2>1
    <3>2. f[2] = f[1] \o s[2] /\ t[1] = s[2]
      <4>1. f[2] = f[2 - 1] \o s[2]
        BY <1>3, <3>1
      <4>2. t[1] = s[1 + 1]
        BY <2>1, <3>1
      <4> QED
        BY <3>1, <4>1, <4>2
    <3> QED
      BY <1>3, <2>3, <3>1, <3>2
  <2>5. ASSUME NEW m \in 2..n, m - 1 \in S PROVE m \in S
    <3>1. /\ m \in 1..n /\ m - 1 \in 1..n /\ m + 1 \in 2..Len(s)
          /\ (m - 1) + 1 = m /\ (m + 1) - 1 = m
      BY <1>1, <2>1
    <3>2. f[m + 1] = f[m] \o t[m]
      <4>1. f[m + 1] = f[(m + 1) - 1] \o s[m + 1]
        BY <1>3, <3>1
      <4>2. t[m] = s[m + 1]
        BY <2>1, <3>1
      <4> QED
        BY <3>1, <4>1, <4>2
    <3>3. f[m] = s[1] \o g[m - 1]
      BY <2>5, <3>1
    <3>4. g[m] = g[m - 1] \o t[m]
      BY <2>3
    <3>5. g[m - 1] \in Seq(L) /\ t[m] \in Seq(L)
      BY <2>1, <3>1
    <3>6. Regroups(s[1], g[m - 1], t[m])
      BY <1>1, <3>5, Regrouping
    <3> QED
      BY <3>1, <3>2, <3>3, <3>4, <3>6 DEF Regroups
  <2> HIDE DEF S
  <2>6. n \in S
    <3>1. n \in Nat /\ \A m \in 2..n : m - 1 \in S => m \in S
      BY <2>1, <2>5
    <3> QED
      BY <2>1, <2>4, <3>1, UpTo
  <2>7. f[n + 1] = s[1] \o g[n] /\ n + 1 = Len(s)
    BY <2>1, <2>6 DEF S
  <2> QED
    BY <1>2, <2>2, <2>7 DEF t
<1> QED
  BY <1>4, <1>5

(* ... and ends with the last.                                             *)
LEMMA FlattenLast ==
  ASSUME NEW L, NEW s \in Seq(Seq(L)), NEW n \in 1..Len(s)
  PROVE  FlattenSeq(SubSeq(s, 1, n)) = FlattenSeq(SubSeq(s, 1, n - 1)) \o s[n]
<1> DEFINE t == SubSeq(s, 1, n)
           u == SubSeq(s, 1, n - 1)
<1>1. /\ n \in Nat /\ Len(t) = n /\ t \in Seq(Seq(L)) /\ t # <<>>
      /\ \A m \in 1..n : t[m] = s[m] /\ s[m] \in Seq(L)
  <2>1. Len(t) = n /\ t \in Seq(Seq(L)) /\ \A m \in 1..n : t[m] = s[m]
    OBVIOUS
  <2>2. \A m \in 1..n : s[m] \in Seq(L)
    OBVIOUS
  <2>3. n \in Nat /\ n # 0
    OBVIOUS
  <2> HIDE DEF t
  <2> QED
    BY <2>1, <2>2, <2>3
<1>2. /\ Len(u) = n - 1 /\ u \in Seq(Seq(L)) /\ \A m \in 1 .. n - 1 : u[m] = s[m]
  OBVIOUS
<1> HIDE DEF t, u
<1>3. PICK f \in [1..n -> Seq(L)] : f = Joins(t, f) /\ FlattenSeq(t) = f[n]
  BY <1>1, FlattenIsLast
<1>4. f[1] = s[1] /\ \A m \in 2..n : f[m] = f[m - 1] \o s[m]
  <2>1. 1 \in 1..n /\ \A m \in 2..n : m \in 1..n /\ m # 1
    BY <1>1
  <2>2. \A m \in 1..n : f[m] = IF m = 1 THEN s[1] ELSE f[m - 1] \o s[m]
    BY <1>1, <1>3 DEF Joins
  <2> QED
    BY <2>1, <2>2
<1>5. CASE n = 1
  <2>1. FlattenSeq(u) = <<>>
    <3>1. u = <<>>
      BY <1>2, <1>5
    <3> QED
      BY <3>1 DEF FlattenSeq
  <2>2. <<>> \o s[1] = s[1]
    BY <1>1, ConcatEmptySeq
  <2> QED
    BY <1>3, <1>4, <1>5, <2>1, <2>2 DEF t, u
<1>6. CASE n # 1
  <2>1. n - 1 \in Nat \ {0} /\ u # <<>> /\ n - 1 \in 1 .. n - 1 /\ n \in 2..n
    BY <1>1, <1>2, <1>6
  <2>2. PICK g \in [1 .. n - 1 -> Seq(L)] : g = Joins(u, g) /\ FlattenSeq(u) = g[n - 1]
    BY <1>2, <2>1, FlattenIsLast
  <2>3. g[1] = s[1] /\ \A m \in 2 .. n - 1 : g[m] = g[m - 1] \o s[m]
    <3>1. 1 \in 1 .. n - 1 /\ \A m \in 2 .. n - 1 : m \in 1 .. n - 1 /\ m # 1
      BY <2>1
    <3>2. \A m \in 1 .. n - 1 : g[m] = IF m = 1 THEN s[1] ELSE g[m - 1] \o s[m]
      BY <1>2, <2>2 DEF Joins
    <3> QED
      BY <3>1, <3>2
  <2> DEFINE S == {i \in 1 .. n - 1 : f[i] = g[i]}
  <2>4. 1 \in S
    BY <1>4, <2>1, <2>3
  <2>5. ASSUME NEW m \in 2 .. n - 1, m - 1 \in S PROVE m \in S
    <3>1. m \in 2..n /\ m \in 1 .. n - 1
      BY <2>1
    <3> QED
      BY <1>4, <2>3, <2>5, <3>1
  <2> HIDE DEF S
  <2>6. n - 1 \in S
    <3>1. \A m \in 2 .. n - 1 : m - 1 \in S => m \in S
      BY <2>5
    <3> QED
      BY <2>1, <2>4, <3>1, UpTo
  <2>7. f[n - 1] = g[n - 1]
    BY <2>6 DEF S
  <2>8. f[n] = f[n - 1] \o s[n]
    BY <1>4, <2>1
  <2> QED
    BY <1>3, <2>2, <2>7, <2>8 DEF t, u
<1> QED
  BY <1>5, <1>6

(* What is left of the sequences after the first k of them.                *)
Rest(s, k) == FlattenSeq(SubSeq(s, k + 1, Len(s)))

LEMMA RestType ==
  ASSUME NEW L, NEW s \in Seq(Seq(L)), NEW k \in Nat
  PROVE  Rest(s, k) \in Seq(L)
<1>1. SubSeq(s, k + 1, Len(s)) \in Seq(Seq(L))
  OBVIOUS
<1> QED
  BY <1>1, FlattenType DEF Rest

LEMMA RestAll ==
  ASSUME NEW L, NEW s \in Seq(Seq(L))
  PROVE  Rest(s, 0) = FlattenSeq(s)
<1>1. SubSeq(s, 0 + 1, Len(s)) = s
  BY SubSeqFull
<1> QED
  BY <1>1 DEF Rest

LEMMA RestNone ==
  ASSUME NEW L, NEW s \in Seq(Seq(L))
  PROVE  Rest(s, Len(s)) = <<>>
<1>1. SubSeq(s, Len(s) + 1, Len(s)) = <<>>
  <2>1. Len(s) \in Int /\ Len(s) + 1 \in Int /\ Len(s) < Len(s) + 1
    OBVIOUS
  <2> QED
    BY <2>1, SubSeqEmpty
<1> QED
  BY <1>1 DEF Rest, FlattenSeq

LEMMA RestFirst ==
  ASSUME NEW L, NEW s \in Seq(Seq(L)), NEW k \in Nat, k < Len(s)
  PROVE  Rest(s, k) = s[k + 1] \o Rest(s, k + 1)
<1> DEFINE t == SubSeq(s, k + 1, Len(s))
<1>1. k + 1 \in 1..Len(s) /\ Len(s) \in k + 1 .. Len(s)
  OBVIOUS
<1>2. t \in Seq(Seq(L)) /\ t # <<>> /\ t[1] = s[k + 1]
  <2>1. t \in Seq(Seq(L)) /\ Len(t) = Len(s) - k
    OBVIOUS
  <2>2. Len(s) - k # 0
    BY <1>1
  <2>3. t[1] = s[k + 1]
    BY <1>1
  <2> HIDE DEF t
  <2> QED
    BY <2>1, <2>2, <2>3
<1>3. Tail(t) = SubSeq(s, (k + 1) + 1, Len(s))
  BY <1>1, HeadTailOfSubSeq
<1> HIDE DEF t
<1>4. FlattenSeq(t) = t[1] \o FlattenSeq(Tail(t))
  BY <1>2, FlattenFirst
<1> QED
  BY <1>2, <1>3, <1>4 DEF Rest, t

LEMMA ConsFacts ==
  ASSUME NEW L, NEW a \in L, NEW s \in Seq(L)
  PROVE  /\ Cons(a, s) \in Seq(L) /\ Cons(a, s) # <<>>
         /\ Head(Cons(a, s)) = a /\ Tail(Cons(a, s)) = s
<1>1. <<a>> \in Seq(L)
  OBVIOUS
<1>2. <<a>> \o s \in Seq(L) /\ Len(<<a>> \o s) = 1 + Len(s)
  BY <1>1
<1>3. <<a>> \o s # <<>>
  BY <1>2
<1>4. Head(<<a>> \o s) = a
  BY <1>1, <1>2
<1>5. Tail(<<a>> \o s) = s
  <2>1. Tail(<<a>> \o s) \in Seq(L) /\ Len(Tail(<<a>> \o s)) = Len(s)
    BY <1>2, <1>3, HeadTailProperties
  <2>2. \A i \in 1..Len(s) : Tail(<<a>> \o s)[i] = s[i]
    BY <1>1, <1>2
  <2> QED
    BY <2>1, <2>2, SeqEqual
<1> QED
  BY <1>2, <1>3, <1>4, <1>5 DEF Cons

LEMMA ConsJoined ==
  ASSUME NEW L, NEW a \in L, NEW s \in Seq(L), NEW t \in Seq(L)
  PROVE  Cons(a, s) \o t = Cons(a, s \o t)
<1>1. <<a>> \in Seq(L)
  OBVIOUS
<1>2. Regroups(<<a>>, s, t)
  BY <1>1, Regrouping
<1> QED
  BY <1>2 DEF Regroups, Cons

(* Sequences that are written out.                                         *)
LEMMA PairJoined ==
  ASSUME NEW L, NEW a \in L, NEW b \in L
  PROVE  <<a, b>> = <<a>> \o <<b>>
<1> DEFINE s == <<a, b>>
           t == <<a>> \o <<b>>
<1>1. s \in Seq(L) /\ Len(s) = 2 /\ s[1] = a /\ s[2] = b
  OBVIOUS
<1>2. t \in Seq(L) /\ Len(t) = 2 /\ t[1] = a /\ t[2] = b
  OBVIOUS
<1> HIDE DEF s, t
<1>3. \A i \in 1..Len(s) : s[i] = t[i]
  BY <1>1, <1>2
<1>4. s = t
  BY <1>1, <1>2, <1>3, SeqEqual
<1> QED
  BY <1>4 DEF s, t

TwoWritten(a, b, s) == <<a, b>> \o s = Cons(a, Cons(b, s))
ThreeWritten(a, b, c, s) == <<a, b, c>> \o s = Cons(a, Cons(b, Cons(c, s)))

LEMMA ConsTwo ==
  ASSUME NEW L, NEW a \in L, NEW b \in L, NEW s \in Seq(L)
  PROVE  TwoWritten(a, b, s)
<1>1. <<a>> \in Seq(L) /\ <<b>> \in Seq(L)
  OBVIOUS
<1>2. <<a, b>> = <<a>> \o <<b>>
  BY PairJoined
<1>3. Regroups(<<a>>, <<b>>, s)
  BY <1>1, Regrouping
<1> QED
  BY <1>2, <1>3 DEF Regroups, Cons, TwoWritten

LEMMA ConsThree ==
  ASSUME NEW L, NEW a \in L, NEW b \in L, NEW c \in L, NEW s \in Seq(L)
  PROVE  ThreeWritten(a, b, c, s)
<1>1. <<a>> \in Seq(L) /\ <<b, c>> \in Seq(L)
  OBVIOUS
<1>2. <<a, b, c>> = <<a>> \o <<b, c>>
  OBVIOUS
<1>3. Regroups(<<a>>, <<b, c>>, s) /\ TwoWritten(b, c, s)
  BY <1>1, Regrouping, ConsTwo
<1> QED
  BY <1>2, <1>3 DEF Regroups, Cons, TwoWritten, ThreeWritten

(* Markup is a sequence between two short ones.                            *)
FrameRegroups(a, s, b, t) == ((a \o s) \o b) \o t = a \o (s \o (b \o t))

LEMMA FramedMarkup ==
  ASSUME NEW L, NEW a \in Seq(L), NEW s \in Seq(L), NEW b \in Seq(L), NEW t \in Seq(L)
  PROVE  (a \o s) \o b \in Seq(L) /\ FrameRegroups(a, s, b, t)
<1>1. a \o s \in Seq(L) /\ b \o t \in Seq(L)
  BY ConcatProperties
<1>2. (a \o s) \o b \in Seq(L)
  BY <1>1, ConcatProperties
<1>3. Regroups(a \o s, b, t) /\ Regroups(a, s, b \o t)
  BY <1>1, Regrouping
<1> QED
  BY <1>2, <1>3 DEF Regroups, FrameRegroups

-----------------------------------------------------------------------------
(* The markup of a page, and what of it follows after table k, after row j *)
(* of that table, after cell c of that row, and after line n of that cell. *)
Tags == {"table", "tr", "th", "td", "br"}
Tokens == [kind : {"start", "end"}, tag : Tags] \cup [kind : {"data"}, text : Texts]

TablesMarkup(p) == [k \in DOMAIN p.tables |-> Markup(p.tables[k], p.xhtml)]
RowsMarkup(table, xhtml) ==
    [j \in DOMAIN table |-> RowMarkup(table[j].tag, table[j].cells, xhtml)]
CellsMarkup(row, xhtml) ==
    [c \in DOMAIN row.cells |-> CellMarkup(row.tag, row.cells[c], xhtml)]
LinesMarkup(lines, xhtml) ==
    [n \in 1 .. Len(lines) - 1 |-> Break(xhtml) \o <<Data(lines[n + 1])>>]

Row(p, k, j) == p.tables[k][j]
Cell(p, k, j, c) == Row(p, k, j).cells[c]

AfterTable(p, k) == Rest(TablesMarkup(p), k)
AfterRow(p, k, j) ==
    Rest(RowsMarkup(p.tables[k], p.xhtml), j)
        \o Cons(NewLine, Cons(End("table"), AfterTable(p, k)))
AfterCell(p, k, j, c) ==
    Rest(CellsMarkup(Row(p, k, j), p.xhtml), c)
        \o Cons(NewLine, Cons(End("tr"), AfterRow(p, k, j)))
AfterLine(p, k, j, c, n) ==
    Rest(LinesMarkup(Cell(p, k, j, c), p.xhtml), n - 1)
        \o Cons(End(Row(p, k, j).tag), AfterCell(p, k, j, c))

LEMMA TokenTypes ==
  /\ \A tag \in Tags : Start(tag) \in Tokens /\ End(tag) \in Tokens
  /\ \A txt \in Texts : Data(txt) \in Tokens
  /\ NewLine \in Tokens
<1>1. \A tag \in Tags : Start(tag) \in Tokens /\ End(tag) \in Tokens
  BY DEF Start, End, Tokens
<1>2. \A txt \in Texts : Data(txt) \in Tokens
  BY DEF Data, Tokens
<1>3. <<Space>> \in Texts
  <2>1. Space \in Words
    BY WordsAssumption
  <2> QED
    BY <2>1 DEF Texts
<1> QED
  BY <1>1, <1>2, <1>3 DEF NewLine

LEMMA PageTypes ==
  ASSUME NEW p \in Pages
  PROVE  /\ p.tables \in Seq(Seq(WrittenRows)) /\ p.xhtml \in BOOLEAN /\ p.py3k \in BOOLEAN
         /\ \A k \in DOMAIN p.tables :
               /\ p.tables[k] \in Seq(WrittenRows)
               /\ \A j \in DOMAIN p.tables[k] :
                     /\ Row(p, k, j) \in WrittenRows /\ Row(p, k, j).tag \in Tags
                     /\ Row(p, k, j).cells \in Seq(WrittenCells)
                     /\ \A c \in DOMAIN Row(p, k, j).cells : Cell(p, k, j, c) \in WrittenCells
<1>1. p \in [tables : Seq(Seq(WrittenRows)), xhtml : BOOLEAN, py3k : BOOLEAN]
  BY PagesAssumption
<1>2. p.tables \in Seq(Seq(WrittenRows)) /\ p.xhtml \in BOOLEAN /\ p.py3k \in BOOLEAN
  BY <1>1
<1>3. ASSUME NEW k \in DOMAIN p.tables PROVE p.tables[k] \in Seq(WrittenRows)
  BY <1>2
<1>4. ASSUME NEW k \in DOMAIN p.tables, NEW j \in DOMAIN p.tables[k]
      PROVE  /\ Row(p, k, j) \in WrittenRows /\ Row(p, k, j).tag \in Tags
             /\ Row(p, k, j).cells \in Seq(WrittenCells)
             /\ \A c \in DOMAIN Row(p, k, j).cells : Cell(p, k, j, c) \in WrittenCells
  <2> DEFINE row == Row(p, k, j)
  <2>1. row \in WrittenRows
    BY <1>3 DEF Row
  <2> HIDE DEF row
  <2>2. row.tag \in Tags /\ row.cells \in Seq(WrittenCells)
    <3>1. row.tag \in {"th", "td"} /\ row.cells \in Seq(WrittenCells)
      BY <2>1 DEF WrittenRows
    <3> QED
      BY <3>1 DEF Tags
  <2>3. \A c \in DOMAIN row.cells : row.cells[c] \in WrittenCells
    BY <2>2
  <2> QED
    BY <2>1, <2>2, <2>3 DEF row, Cell
<1> QED
  BY <1>2, <1>3, <1>4

LEMMA LinesMarkupType ==
  ASSUME NEW lines \in WrittenCells, NEW xhtml \in BOOLEAN
  PROVE  /\ LinesMarkup(lines, xhtml) \in Seq(Seq(Tokens))
         /\ Len(LinesMarkup(lines, xhtml)) = Len(lines) - 1
         /\ Len(lines) \in Nat /\ Len(lines) >= 1
         /\ \A n \in 1..Len(lines) : lines[n] \in Texts /\ Data(lines[n]) \in Tokens
<1>1. lines \in Seq(Texts) /\ lines # <<>> /\ Len(lines) \in Nat
  BY DEF WrittenCells
<1>2. Len(lines) >= 1
  BY <1>1
<1>3. \A n \in 1..Len(lines) : lines[n] \in Texts /\ Data(lines[n]) \in Tokens
  BY <1>1, TokenTypes
<1>4. Break(xhtml) \in Seq(Tokens)
  <2>1. Start("br") \in Tokens /\ End("br") \in Tokens
    BY DEF Start, End, Tokens, Tags
  <2> QED
    BY <2>1 DEF Break
<1>5. ASSUME NEW n \in 1 .. Len(lines) - 1
      PROVE  Break(xhtml) \o <<Data(lines[n + 1])>> \in Seq(Tokens)
  <2>1. n + 1 \in 1..Len(lines)
    BY <1>1
  <2>2. <<Data(lines[n + 1])>> \in Seq(Tokens)
    BY <1>3, <2>1
  <2> QED
    BY <1>4, <2>2, ConcatProperties
<1>6. Len(lines) - 1 \in Nat
  BY <1>1, <1>2
<1>7. LinesMarkup(lines, xhtml) \in Seq(Seq(Tokens))
  BY <1>5, <1>6, IsASeq DEF LinesMarkup
<1>8. Len(LinesMarkup(lines, xhtml)) = Len(lines) - 1
  BY <1>6 DEF LinesMarkup
<1> QED
  BY <1>1, <1>2, <1>3, <1>7, <1>8

LEMMA CellMarkupType ==
  ASSUME NEW tag \in Tags, NEW lines \in WrittenCells, NEW xhtml \in BOOLEAN
  PROVE  /\ CellMarkup(tag, lines, xhtml) \in Seq(Tokens)
         /\ \A rest \in Seq(Tokens) :
               CellMarkup(tag, lines, xhtml) \o rest
                 = Cons(NewLine, Cons(Start(tag), Cons(Data(lines[1]),
                       Rest(LinesMarkup(lines, xhtml), 0) \o Cons(End(tag), rest))))
<1> DEFINE a == <<NewLine, Start(tag), Data(lines[1])>>
           s == Rest(LinesMarkup(lines, xhtml), 0)
           b == <<End(tag)>>
<1>1. LinesMarkup(lines, xhtml) \in Seq(Seq(Tokens)) /\ Data(lines[1]) \in Tokens
  <2>1. 1 \in 1..Len(lines)
    BY LinesMarkupType
  <2> QED
    BY <2>1, LinesMarkupType
<1>2. CellMarkup(tag, lines, xhtml) = (a \o s) \o b
  BY <1>1, RestAll DEF CellMarkup, LinesMarkup
<1>3. NewLine \in Tokens /\ Start(tag) \in Tokens /\ End(tag) \in Tokens
  BY TokenTypes
<1>4. s \in Seq(Tokens)
  BY <1>1, RestType
<1>5. a \in Seq(Tokens) /\ b \in Seq(Tokens)
  BY <1>1, <1>3
<1>6. (a \o s) \o b \in Seq(Tokens)
  <2> HIDE DEF a, b, s
  <2> QED
    BY <1>4, <1>5, FramedMarkup
<1>7. ASSUME NEW rest \in Seq(Tokens)
      PROVE  ((a \o s) \o b) \o rest
               = Cons(NewLine, Cons(Start(tag), Cons(Data(lines[1]), s \o Cons(End(tag), rest))))
  <2>1. b \o rest = Cons(End(tag), rest)
    BY DEF Cons
  <2>2. b \o rest \in Seq(Tokens)
    BY <1>5, ConcatProperties
  <2> DEFINE u == s \o (b \o rest)
  <2>3. u \in Seq(Tokens)
    BY <1>4, <2>2, ConcatProperties
  <2>4. a \o u = Cons(NewLine, Cons(Start(tag), Cons(Data(lines[1]), u)))
    <3> HIDE DEF u
    <3>1. ThreeWritten(NewLine, Start(tag), Data(lines[1]), u)
      BY <1>1, <1>3, <2>3, ConsThree
    <3> QED
      BY <3>1 DEF ThreeWritten
  <2>5. ((a \o s) \o b) \o rest = a \o u
    <3> HIDE DEF a, b, s
    <3>1. FrameRegroups(a, s, b, rest)
      BY <1>4, <1>5, FramedMarkup
    <3> QED
      BY <3>1 DEF FrameRegroups, u
  <2> QED
    BY <2>1, <2>4, <2>5
<1> QED
  BY <1>2, <1>6, <1>7

LEMMA CellsMarkupType ==
  ASSUME NEW row \in WrittenRows, NEW xhtml \in BOOLEAN
  PROVE  /\ CellsMarkup(row, xhtml) \in Seq(Seq(Tokens))
         /\ Len(CellsMarkup(row, xhtml)) = Len(row.cells)
         /\ row.tag \in Tags /\ row.cells \in Seq(WrittenCells)
         /\ \A c \in 1..Len(row.cells) :
               CellsMarkup(row, xhtml)[c] = CellMarkup(row.tag, row.cells[c], xhtml)
<1>1. row.tag \in Tags /\ row.cells \in Seq(WrittenCells)
  <2>1. row.tag \in {"th", "td"} /\ row.cells \in Seq(WrittenCells)
    BY DEF WrittenRows
  <2> QED
    BY <2>1 DEF Tags
<1>2. DOMAIN row.cells = 1..Len(row.cells) /\ Len(row.cells) \in Nat
  BY <1>1
<1>3. \A c \in 1..Len(row.cells) : CellMarkup(row.tag, row.cells[c], xhtml) \in Seq(Tokens)
  <2>1. \A c \in 1..Len(row.cells) : row.cells[c] \in WrittenCells
    BY <1>1
  <2> QED
    BY <1>1, <2>1, CellMarkupType
<1>4. CellsMarkup(row, xhtml) \in Seq(Seq(Tokens))
  BY <1>2, <1>3, IsASeq DEF CellsMarkup
<1>5. Len(CellsMarkup(row, xhtml)) = Len(row.cells)
  BY <1>2 DEF CellsMarkup
<1> QED
  BY <1>1, <1>2, <1>4, <1>5 DEF CellsMarkup

LEMMA RowMarkupType ==
  ASSUME NEW row \in WrittenRows, NEW xhtml \in BOOLEAN
  PROVE  /\ RowMarkup(row.tag, row.cells, xhtml) \in Seq(Tokens)
         /\ \A rest \in Seq(Tokens) :
               RowMarkup(row.tag, row.cells, xhtml) \o rest
                 = Cons(NewLine, Cons(Start("tr"),
                       Rest(CellsMarkup(row, xhtml), 0) \o Cons(NewLine, Cons(End("tr"), rest))))
<1> DEFINE a == <<NewLine, Start("tr")>>
           s == Rest(CellsMarkup(row, xhtml), 0)
           b == <<NewLine, End("tr")>>
<1>1. CellsMarkup(row, xhtml) \in Seq(Seq(Tokens))
  BY CellsMarkupType
<1>2. RowMarkup(row.tag, row.cells, xhtml) = (a \o s) \o b
  BY <1>1, RestAll DEF RowMarkup, CellsMarkup
<1>3. NewLine \in Tokens /\ Start("tr") \in Tokens /\ End("tr") \in Tokens
  BY TokenTypes DEF Tags
<1>4. s \in Seq(Tokens)
  BY <1>1, RestType
<1>5. a \in Seq(Tokens) /\ b \in Seq(Tokens)
  BY <1>3
<1>6. (a \o s) \o b \in Seq(Tokens)
  <2> HIDE DEF a, b, s
  <2> QED
    BY <1>4, <1>5, FramedMarkup
<1>7. ASSUME NEW rest \in Seq(Tokens)
      PROVE  ((a \o s) \o b) \o rest
               = Cons(NewLine, Cons(Start("tr"), s \o Cons(NewLine, Cons(End("tr"), rest))))
  <2>1. b \o rest = Cons(NewLine, Cons(End("tr"), rest))
    <3>1. TwoWritten(NewLine, End("tr"), rest)
      BY <1>3, ConsTwo
    <3> QED
      BY <3>1 DEF TwoWritten
  <2>2. b \o rest \in Seq(Tokens)
    BY <1>5, ConcatProperties
  <2> DEFINE u == s \o (b \o rest)
  <2>3. u \in Seq(Tokens)
    BY <1>4, <2>2, ConcatProperties
  <2>4. a \o u = Cons(NewLine, Cons(Start("tr"), u))
    <3> HIDE DEF u
    <3>1. TwoWritten(NewLine, Start("tr"), u)
      BY <1>3, <2>3, ConsTwo
    <3> QED
      BY <3>1 DEF TwoWritten
  <2>5. ((a \o s) \o b) \o rest = a \o u
    <3> HIDE DEF a, b, s
    <3>1. FrameRegroups(a, s, b, rest)
      BY <1>4, <1>5, FramedMarkup
    <3> QED
      BY <3>1 DEF FrameRegroups, u
  <2> QED
    BY <2>1, <2>4, <2>5
<1> QED
  BY <1>2, <1>6, <1>7

LEMMA RowsMarkupType ==
  ASSUME NEW table \in Seq(WrittenRows), NEW xhtml \in BOOLEAN
  PROVE  /\ RowsMarkup(table, xhtml) \in Seq(Seq(Tokens))
         /\ Len(RowsMarkup(table, xhtml)) = Len(table) /\ DOMAIN table = 1..Len(table)
         /\ \A j \in 1..Len(table) :
               RowsMarkup(table, xhtml)[j] = RowMarkup(table[j].tag, table[j].cells, xhtml)
<1>1. DOMAIN table = 1..Len(table) /\ Len(table) \in Nat
  OBVIOUS
<1>2. \A j \in 1..Len(table) : RowMarkup(table[j].tag, table[j].cells, xhtml) \in Seq(Tokens)
  <2>1. \A j \in 1..Len(table) : table[j] \in WrittenRows
    OBVIOUS
  <2> QED
    BY <2>1, RowMarkupType
<1>3. RowsMarkup(table, xhtml) \in Seq(Seq(Tokens))
  BY <1>1, <1>2, IsASeq DEF RowsMarkup
<1>4. Len(RowsMarkup(table, xhtml)) = Len(table)
  BY <1>1 DEF RowsMarkup
<1> QED
  BY <1>1, <1>3, <1>4 DEF RowsMarkup

LEMMA MarkupType ==
  ASSUME NEW table \in Seq(WrittenRows), NEW xhtml \in BOOLEAN
  PROVE  /\ Markup(table, xhtml) \in Seq(Tokens)
         /\ \A rest \in Seq(Tokens) :
               Markup(table, xhtml) \o rest
                 = Cons(Start("table"), Rest(RowsMarkup(table, xhtml), 0)
                                            \o Cons(NewLine, Cons(End("table"), rest)))
<1> DEFINE a == <<Start("table")>>
           s == Rest(RowsMarkup(table, xhtml), 0)
           b == <<NewLine, End("table")>>
<1>1. RowsMarkup(table, xhtml) \in Seq(Seq(Tokens))
  BY RowsMarkupType
<1>2. Markup(table, xhtml) = (a \o s) \o b
  BY <1>1, RestAll DEF Markup, RowsMarkup
<1>3. NewLine \in Tokens /\ Start("table") \in Tokens /\ End("table") \in Tokens
  BY TokenTypes DEF Tags
<1>4. s \in Seq(Tokens)
  BY <1>1, RestType
<1>5. a \in Seq(Tokens) /\ b \in Seq(Tokens)
  BY <1>3
<1>6. (a \o s) \o b \in Seq(Tokens)
  <2> HIDE DEF a, b, s
  <2> QED
    BY <1>4, <1>5, FramedMarkup
<1>7. ASSUME NEW rest \in Seq(Tokens)
      PROVE  ((a \o s) \o b) \o rest
               = Cons(Start("table"), s \o Cons(NewLine, Cons(End("table"), rest)))
  <2>1. b \o rest = Cons(NewLine, Cons(End("table"), rest))
    <3>1. TwoWritten(NewLine, End("table"), rest)
      BY <1>3, ConsTwo
    <3> QED
      BY <3>1 DEF TwoWritten
  <2>2. b \o rest \in Seq(Tokens)
    BY <1>5, ConcatProperties
  <2> DEFINE u == s \o (b \o rest)
  <2>3. a \o u = Cons(Start("table"), u)
    BY DEF Cons
  <2>4. ((a \o s) \o b) \o rest = a \o u
    <3> HIDE DEF a, b, s
    <3>1. FrameRegroups(a, s, b, rest)
      BY <1>4, <1>5, FramedMarkup
    <3> QED
      BY <3>1 DEF FrameRegroups, u
  <2> QED
    BY <2>1, <2>3, <2>4
<1> QED
  BY <1>2, <1>6, <1>7

LEMMA TablesMarkupType ==
  ASSUME NEW p \in Pages
  PROVE  /\ TablesMarkup(p) \in Seq(Seq(Tokens))
         /\ Len(TablesMarkup(p)) = Len(p.tables) /\ DOMAIN p.tables = 1..Len(p.tables)
         /\ \A k \in 1..Len(p.tables) : TablesMarkup(p)[k] = Markup(p.tables[k], p.xhtml)
<1>1. DOMAIN p.tables = 1..Len(p.tables) /\ Len(p.tables) \in Nat
  BY PageTypes
<1>2. \A k \in 1..Len(p.tables) : Markup(p.tables[k], p.xhtml) \in Seq(Tokens)
  BY <1>1, PageTypes, MarkupType
<1>3. TablesMarkup(p) \in Seq(Seq(Tokens))
  BY <1>1, <1>2, IsASeq DEF TablesMarkup
<1>4. Len(TablesMarkup(p)) = Len(p.tables)
  BY <1>1 DEF TablesMarkup
<1> QED
  BY <1>1, <1>3, <1>4 DEF TablesMarkup

(* What comes next at each place of a page.                                *)
LEMMA AfterTables ==
  ASSUME NEW p \in Pages, NEW k \in 0..Len(p.tables)
  PROVE  /\ AfterTable(p, k) \in Seq(Tokens)
         /\ k = Len(p.tables) => AfterTable(p, k) = <<>>
         /\ k < Len(p.tables) => AfterTable(p, k) = Cons(Start("table"), AfterRow(p, k + 1, 0))
<1> DEFINE s == TablesMarkup(p)
<1>1. s \in Seq(Seq(Tokens)) /\ Len(s) = Len(p.tables) /\ k \in Nat /\ Len(p.tables) \in Nat
  BY TablesMarkupType, PageTypes
<1>2. AfterTable(p, k) \in Seq(Tokens)
  BY <1>1, RestType DEF AfterTable
<1>3. ASSUME k = Len(p.tables) PROVE AfterTable(p, k) = <<>>
  BY <1>1, <1>3, RestNone DEF AfterTable
<1>4. ASSUME k < Len(p.tables)
      PROVE  AfterTable(p, k) = Cons(Start("table"), AfterRow(p, k + 1, 0))
  <2>1. k + 1 \in 1..Len(p.tables) /\ k + 1 \in Nat
    BY <1>1, <1>4
  <2>2. AfterTable(p, k) = s[k + 1] \o AfterTable(p, k + 1)
    <3> HIDE DEF s
    <3>1. Rest(s, k) = s[k + 1] \o Rest(s, k + 1)
      BY <1>1, <1>4, RestFirst
    <3> QED
      BY <3>1 DEF AfterTable, s
  <2>3. AfterTable(p, k + 1) \in Seq(Tokens)
    BY <1>1, <2>1, RestType DEF AfterTable
  <2>4. s[k + 1] = Markup(p.tables[k + 1], p.xhtml)
    BY <2>1, TablesMarkupType
  <2>5. p.tables[k + 1] \in Seq(WrittenRows) /\ p.xhtml \in BOOLEAN
    BY <2>1, PageTypes, TablesMarkupType
  <2> DEFINE t == p.tables[k + 1]
  <2>6. Markup(t, p.xhtml) \o AfterTable(p, k + 1)
          = Cons(Start("table"), Rest(RowsMarkup(t, p.xhtml), 0)
                                     \o Cons(NewLine, Cons(End("table"), AfterTable(p, k + 1))))
    <3> HIDE DEF t
    <3> QED
      BY <2>3, <2>5, MarkupType DEF t
  <2> QED
    BY <2>2, <2>4, <2>6 DEF AfterRow
<1> QED
  BY <1>2, <1>3, <1>4

LEMMA AfterRows ==
  ASSUME NEW p \in Pages, NEW k \in 1..Len(p.tables), NEW j \in 0..Len(p.tables[k])
  PROVE  /\ AfterRow(p, k, j) \in Seq(Tokens)
         /\ j = Len(p.tables[k]) =>
               AfterRow(p, k, j) = Cons(NewLine, Cons(End("table"), AfterTable(p, k)))
         /\ j < Len(p.tables[k]) =>
               AfterRow(p, k, j) = Cons(NewLine, Cons(Start("tr"), AfterCell(p, k, j + 1, 0)))
<1> DEFINE t == p.tables[k]
           s == RowsMarkup(t, p.xhtml)
           last == Cons(NewLine, Cons(End("table"), AfterTable(p, k)))
<1>1. t \in Seq(WrittenRows) /\ p.xhtml \in BOOLEAN
  BY PageTypes, TablesMarkupType
<1>2. s \in Seq(Seq(Tokens)) /\ Len(s) = Len(t) /\ j \in Nat /\ Len(t) \in Nat
  BY <1>1, RowsMarkupType
<1>3. last \in Seq(Tokens)
  <2>1. k \in 0..Len(p.tables)
    OBVIOUS
  <2>2. AfterTable(p, k) \in Seq(Tokens) /\ NewLine \in Tokens /\ End("table") \in Tokens
    BY <2>1, AfterTables, TokenTypes DEF Tags
  <2>3. Cons(End("table"), AfterTable(p, k)) \in Seq(Tokens)
    BY <2>2, ConsFacts
  <2> QED
    BY <2>2, <2>3, ConsFacts
<1>4. AfterRow(p, k, j) = Rest(s, j) \o last
  BY DEF AfterRow
<1>5. Rest(s, j) \in Seq(Tokens)
  BY <1>2, RestType
<1>6. AfterRow(p, k, j) \in Seq(Tokens)
  BY <1>3, <1>4, <1>5, ConcatProperties
<1>7. ASSUME j = Len(t) PROVE AfterRow(p, k, j) = last
  <2>1. Rest(s, j) = <<>>
    BY <1>2, <1>7, RestNone
  <2>2. <<>> \o last = last
    BY <1>3, ConcatEmptySeq
  <2> QED
    BY <1>4, <2>1, <2>2
<1>8. ASSUME j < Len(t)
      PROVE  AfterRow(p, k, j) = Cons(NewLine, Cons(Start("tr"), AfterCell(p, k, j + 1, 0)))
  <2>1. j + 1 \in 1..Len(t) /\ j + 1 \in Nat /\ DOMAIN t = 1..Len(t)
    BY <1>1, <1>2, <1>8
  <2>2. Rest(s, j + 1) \in Seq(Tokens)
    BY <1>2, <2>1, RestType
  <2>3. s[j + 1] = RowMarkup(t[j + 1].tag, t[j + 1].cells, p.xhtml) /\ t[j + 1] \in WrittenRows
    BY <1>1, <2>1, RowsMarkupType
  <2>4. s[j + 1] \in Seq(Tokens)
    BY <1>1, <2>3, RowMarkupType
  <2>5. AfterRow(p, k, j) = s[j + 1] \o AfterRow(p, k, j + 1)
    <3> HIDE DEF s, last
    <3>1. Rest(s, j) = s[j + 1] \o Rest(s, j + 1)
      BY <1>2, <1>8, RestFirst
    <3>2. Regroups(s[j + 1], Rest(s, j + 1), last)
      BY <1>3, <2>2, <2>4, Regrouping
    <3>3. AfterRow(p, k, j + 1) = Rest(s, j + 1) \o last
      BY DEF AfterRow, s, last
    <3> QED
      BY <1>4, <3>1, <3>2, <3>3 DEF Regroups
  <2>6. AfterRow(p, k, j + 1) \in Seq(Tokens)
    BY <1>3, <2>2, ConcatProperties DEF AfterRow
  <2>7. t[j + 1] = Row(p, k, j + 1)
    BY DEF Row
  <2>8. RowMarkup(t[j + 1].tag, t[j + 1].cells, p.xhtml) \o AfterRow(p, k, j + 1)
          = Cons(NewLine, Cons(Start("tr"), AfterCell(p, k, j + 1, 0)))
    <3> DEFINE row == Row(p, k, j + 1)
    <3>1. row \in WrittenRows
      BY <2>3, <2>7
    <3>2. RowMarkup(row.tag, row.cells, p.xhtml) \o AfterRow(p, k, j + 1)
            = Cons(NewLine, Cons(Start("tr"), Rest(CellsMarkup(row, p.xhtml), 0)
                     \o Cons(NewLine, Cons(End("tr"), AfterRow(p, k, j + 1)))))
      <4> HIDE DEF row
      <4> QED
        BY <1>1, <2>6, <3>1, RowMarkupType
    <3> QED
      BY <2>7, <3>2 DEF AfterCell
  <2> QED
    BY <2>3, <2>5, <2>8
<1> QED
  BY <1>6, <1>7, <1>8

LEMMA AfterCells ==
  ASSUME NEW p \in Pages, NEW k \in 1..Len(p.tables), NEW j \in 1..Len(p.tables[k]),
         NEW c \in 0..Len(Row(p, k, j).cells)
  PROVE  /\ AfterCell(p, k, j, c) \in Seq(Tokens)
         /\ c = Len(Row(p, k, j).cells) =>
               AfterCell(p, k, j, c) = Cons(NewLine, Cons(End("tr"), AfterRow(p, k, j)))
         /\ c < Len(Row(p, k, j).cells) =>
               AfterCell(p, k, j, c) =
                 Cons(NewLine, Cons(Start(Row(p, k, j).tag),
                   Cons(Data(Cell(p, k, j, c + 1)[1]), AfterLine(p, k, j, c + 1, 1))))
<1> DEFINE row == Row(p, k, j)
           s == CellsMarkup(row, p.xhtml)
           last == Cons(NewLine, Cons(End("tr"), AfterRow(p, k, j)))
<1>1. row \in WrittenRows /\ p.xhtml \in BOOLEAN
  <2>1. k \in DOMAIN p.tables /\ p.tables[k] \in Seq(WrittenRows)
    BY PageTypes, TablesMarkupType
  <2>2. j \in DOMAIN p.tables[k]
    BY <2>1
  <2> QED
    BY <2>1, <2>2, PageTypes
<1>2. s \in Seq(Seq(Tokens)) /\ Len(s) = Len(row.cells) /\ c \in Nat /\ Len(row.cells) \in Nat
  BY <1>1, CellsMarkupType
<1>3. last \in Seq(Tokens)
  <2>1. j \in 0..Len(p.tables[k])
    OBVIOUS
  <2>2. AfterRow(p, k, j) \in Seq(Tokens) /\ NewLine \in Tokens /\ End("tr") \in Tokens
    BY <2>1, AfterRows, TokenTypes DEF Tags
  <2>3. Cons(End("tr"), AfterRow(p, k, j)) \in Seq(Tokens)
    BY <2>2, ConsFacts
  <2> QED
    BY <2>2, <2>3, ConsFacts
<1>4. AfterCell(p, k, j, c) = Rest(s, c) \o last
  BY DEF AfterCell
<1>5. Rest(s, c) \in Seq(Tokens)
  BY <1>2, RestType
<1>6. AfterCell(p, k, j, c) \in Seq(Tokens)
  BY <1>3, <1>4, <1>5, ConcatProperties
<1>7. ASSUME c = Len(row.cells) PROVE AfterCell(p, k, j, c) = last
  <2>1. Rest(s, c) = <<>>
    BY <1>2, <1>7, RestNone
  <2>2. <<>> \o last = last
    BY <1>3, ConcatEmptySeq
  <2> QED
    BY <1>4, <2>1, <2>2
<1>8. ASSUME c < Len(row.cells)
      PROVE  AfterCell(p, k, j, c) =
               Cons(NewLine, Cons(Start(row.tag),
                 Cons(Data(Cell(p, k, j, c + 1)[1]), AfterLine(p, k, j, c + 1, 1))))
  <2>1. c + 1 \in 1..Len(row.cells) /\ c + 1 \in Nat /\ row.cells[c + 1] \in WrittenCells
    <3>1. row.cells \in Seq(WrittenCells) /\ c + 1 \in 1..Len(row.cells) /\ c + 1 \in Nat
      BY <1>1, <1>2, <1>8, CellsMarkupType
    <3> QED
      BY <3>1
  <2>2. Rest(s, c + 1) \in Seq(Tokens)
    BY <1>2, <2>1, RestType
  <2>3. s[c + 1] = CellMarkup(row.tag, row.cells[c + 1], p.xhtml) /\ row.tag \in Tags
    BY <1>1, <2>1, CellsMarkupType
  <2>4. s[c + 1] \in Seq(Tokens)
    BY <1>1, <2>1, <2>3, CellMarkupType
  <2>5. AfterCell(p, k, j, c) = s[c + 1] \o AfterCell(p, k, j, c + 1)
    <3> HIDE DEF s, last
    <3>1. Rest(s, c) = s[c + 1] \o Rest(s, c + 1)
      BY <1>2, <1>8, RestFirst
    <3>2. Regroups(s[c + 1], Rest(s, c + 1), last)
      BY <1>3, <2>2, <2>4, Regrouping
    <3>3. AfterCell(p, k, j, c + 1) = Rest(s, c + 1) \o last
      BY DEF AfterCell, s, last
    <3> QED
      BY <1>4, <3>1, <3>2, <3>3 DEF Regroups
  <2>6. AfterCell(p, k, j, c + 1) \in Seq(Tokens)
    BY <1>3, <2>2, ConcatProperties DEF AfterCell
  <2>7. row.cells[c + 1] = Cell(p, k, j, c + 1)
    BY DEF Cell
  <2>8. 1 - 1 = 0
    OBVIOUS
  <2> QED
    BY <1>1, <2>1, <2>3, <2>5, <2>6, <2>7, <2>8, CellMarkupType DEF AfterLine
<1> QED
  BY <1>6, <1>7, <1>8

LEMMA AfterLines ==
  ASSUME NEW p \in Pages, NEW k \in 1..Len(p.tables), NEW j \in 1..Len(p.tables[k]),
         NEW c \in 1..Len(Row(p, k, j).cells), NEW n \in 1..Len(Cell(p, k, j, c))
  PROVE  /\ AfterLine(p, k, j, c, n) \in Seq(Tokens)
         /\ n = Len(Cell(p, k, j, c)) =>
               AfterLine(p, k, j, c, n) = Cons(End(Row(p, k, j).tag), AfterCell(p, k, j, c))
         /\ n < Len(Cell(p, k, j, c)) =>
               LET next == Cons(Data(Cell(p, k, j, c)[n + 1]), AfterLine(p, k, j, c, n + 1))
               IN AfterLine(p, k, j, c, n) =
                    Cons(Start("br"), IF p.xhtml THEN Cons(End("br"), next) ELSE next)
<1> DEFINE lines == Cell(p, k, j, c)
           s == LinesMarkup(lines, p.xhtml)
           tag == Row(p, k, j).tag
           last == Cons(End(tag), AfterCell(p, k, j, c))
<1>1. lines \in WrittenCells /\ tag \in Tags /\ p.xhtml \in BOOLEAN
  <2>1. k \in DOMAIN p.tables /\ p.tables[k] \in Seq(WrittenRows)
    BY PageTypes, TablesMarkupType
  <2>2. j \in DOMAIN p.tables[k]
    BY <2>1
  <2>3. Row(p, k, j).cells \in Seq(WrittenCells)
    BY <2>1, <2>2, PageTypes
  <2>4. c \in DOMAIN Row(p, k, j).cells
    BY <2>3
  <2> QED
    BY <2>1, <2>2, <2>4, PageTypes
<1>2. /\ s \in Seq(Seq(Tokens)) /\ Len(s) = Len(lines) - 1 /\ n - 1 \in Nat /\ Len(lines) \in Nat
      /\ n \in Nat
  BY <1>1, LinesMarkupType
<1>3. last \in Seq(Tokens)
  <2>1. c \in 0..Len(Row(p, k, j).cells)
    OBVIOUS
  <2>2. AfterCell(p, k, j, c) \in Seq(Tokens) /\ End(tag) \in Tokens
    BY <1>1, <2>1, AfterCells, TokenTypes
  <2> QED
    BY <2>2, ConsFacts
<1>4. AfterLine(p, k, j, c, n) = Rest(s, n - 1) \o last
  BY DEF AfterLine
<1>5. Rest(s, n - 1) \in Seq(Tokens)
  BY <1>2, RestType
<1>6. AfterLine(p, k, j, c, n) \in Seq(Tokens)
  BY <1>3, <1>4, <1>5, ConcatProperties
<1>7. ASSUME n = Len(lines) PROVE AfterLine(p, k, j, c, n) = last
  <2>1. Rest(s, n - 1) = <<>>
    BY <1>2, <1>7, RestNone
  <2>2. <<>> \o last = last
    BY <1>3, ConcatEmptySeq
  <2> QED
    BY <1>4, <2>1, <2>2
<1>8. ASSUME n < Len(lines)
      PROVE  LET next == Cons(Data(lines[n + 1]), AfterLine(p, k, j, c, n + 1))
             IN AfterLine(p, k, j, c, n) =
                  Cons(Start("br"), IF p.xhtml THEN Cons(End("br"), next) ELSE next)
  <2>1. n + 1 \in 1..Len(lines) /\ n - 1 < Len(s) /\ (n - 1) + 1 = n /\ (n + 1) - 1 = n
        /\ n \in 1 .. Len(lines) - 1
    BY <1>2, <1>8
  <2> DEFINE line == Data(lines[n + 1])
             after == AfterLine(p, k, j, c, n + 1)
             both == Break(p.xhtml) \o <<line>>
  <2>2. s[n] = both
    BY <2>1 DEF LinesMarkup
  <2>3. line \in Tokens /\ Start("br") \in Tokens /\ End("br") \in Tokens
    BY <1>1, <2>1, LinesMarkupType, TokenTypes DEF Tags
  <2>4. Rest(s, n) \in Seq(Tokens)
    BY <1>2, RestType
  <2>5. Break(p.xhtml) \in Seq(Tokens) /\ <<line>> \in Seq(Tokens)
    BY <2>3 DEF Break
  <2>6. both \in Seq(Tokens)
    BY <2>5, ConcatProperties
  <2>7. after = Rest(s, n) \o last
    BY <2>1 DEF AfterLine
  <2>8. after \in Seq(Tokens)
    BY <1>3, <2>4, <2>7, ConcatProperties
  <2>9. AfterLine(p, k, j, c, n) = both \o after
    <3> HIDE DEF s, last, both, after
    <3>1. Rest(s, n - 1) = both \o Rest(s, n)
      <4>1. Rest(s, n - 1) = s[(n - 1) + 1] \o Rest(s, (n - 1) + 1)
        BY <1>2, <2>1, RestFirst
      <4> QED
        BY <2>1, <2>2, <4>1
    <3>2. Regroups(both, Rest(s, n), last)
      BY <1>3, <2>4, <2>6, Regrouping
    <3> QED
      BY <1>4, <2>7, <3>1, <3>2 DEF Regroups
  <2>10. both \o after = Break(p.xhtml) \o Cons(line, after)
    <3>1. Regroups(Break(p.xhtml), <<line>>, after)
      <4> HIDE DEF line, after
      <4> QED
        BY <2>5, <2>8, Regrouping
    <3> QED
      BY <3>1 DEF Regroups, Cons
  <2> DEFINE next == Cons(line, after)
  <2>11. next \in Seq(Tokens)
    <3> HIDE DEF line, after
    <3> QED
      BY <2>3, <2>8, ConsFacts
  <2>12. Break(p.xhtml) \o next
           = Cons(Start("br"), IF p.xhtml THEN Cons(End("br"), next) ELSE next)
    <3> HIDE DEF next
    <3>1. TwoWritten(Start("br"), End("br"), next)
      BY <2>3, <2>11, ConsTwo
    <3>2. CASE p.xhtml
      BY <3>1, <3>2 DEF TwoWritten, Break
    <3>3. CASE ~p.xhtml
      BY <3>3 DEF Cons, Break
    <3> QED
      BY <3>2, <3>3
  <2> QED
    BY <2>9, <2>10, <2>12
<1> QED
  BY <1>6, <1>7, <1>8
-----------------------------------------------------------------------------
(* Blanks before a text do not change what is left of it without them.     *)
WordsIn(txt) == {k \in DOMAIN txt : txt[k] # Space}

LEMMA MinOf ==
  ASSUME NEW S, S \subseteq Nat, NEW m \in S, \A x \in S : m <= x
  PROVE  Min(S) = m
<1>1. \E y \in S : \A x \in S : y <= x
  OBVIOUS
<1>2. Min(S) \in S /\ \A x \in S : Min(S) <= x
  BY <1>1 DEF Min
<1>3. m \in Nat /\ Min(S) \in Nat
  BY <1>2
<1>4. m <= Min(S) /\ Min(S) <= m
  BY <1>2
<1> QED
  BY <1>3, <1>4

LEMMA MaxOf ==
  ASSUME NEW S, S \subseteq Nat, NEW m \in S, \A x \in S : m >= x
  PROVE  Max(S) = m
<1>1. \E y \in S : \A x \in S : y >= x
  OBVIOUS
<1>2. Max(S) \in S /\ \A x \in S : Max(S) >= x
  BY <1>1 DEF Max
<1>3. m \in Nat /\ Max(S) \in Nat
  BY <1>2
<1>4. m >= Max(S) /\ Max(S) >= m
  BY <1>2
<1> QED
  BY <1>3, <1>4

LEMMA FirstAndLastWord ==
  ASSUME NEW t \in Texts, WordsIn(t) # {}
  PROVE  \E first, last \in WordsIn(t) : \A k \in WordsIn(t) : first <= k /\ k <= last
<1>1. Len(t) \in Nat /\ DOMAIN t = 1..Len(t)
  BY DEF Texts
<1>2. WordsIn(t) \subseteq 1..Len(t)
  BY <1>1 DEF WordsIn
<1>3. PICK first \in WordsIn(t) : \A k \in WordsIn(t) : first <= k
  <2>1. WordsIn(t) \subseteq Nat
    BY <1>2
  <2> QED
    BY <2>1, LeastNumber
<1>4. PICK last \in WordsIn(t) : \A k \in WordsIn(t) : last >= k
  <2>1. IsFiniteSet(1..Len(t))
    BY <1>1, FS_Interval
  <2>2. IsFiniteSet(WordsIn(t)) /\ WordsIn(t) \subseteq Int
    BY <1>1, <1>2, <2>1, FS_Subset
  <2> QED
    BY <2>2, MaxExists
<1>5. \A k \in WordsIn(t) : first <= k /\ k <= last
  BY <1>1, <1>2, <1>3, <1>4
<1> QED
  BY <1>5

LEMMA StripType ==
  ASSUME NEW t \in Texts
  PROVE  Strip(t) \in Texts
<1>1. Len(t) \in Nat /\ DOMAIN t = 1..Len(t)
  BY DEF Texts
<1>2. CASE WordsIn(t) = {}
  BY <1>2 DEF Strip, WordsIn, Texts
<1>3. CASE WordsIn(t) # {}
  <2>1. PICK first, last \in WordsIn(t) : \A k \in WordsIn(t) : first <= k /\ k <= last
    BY <1>3, FirstAndLastWord
  <2>2. WordsIn(t) \subseteq 1..Len(t)
    BY <1>1 DEF WordsIn
  <2>3. WordsIn(t) \subseteq Nat
    BY <2>2
  <2>4. \A k \in WordsIn(t) : last >= k
    BY <2>1, <2>2
  <2>5. Min(WordsIn(t)) = first /\ Max(WordsIn(t)) = last
    BY <2>1, <2>3, <2>4, MinOf, MaxOf
  <2>6. Strip(t) = SubSeq(t, first, last)
    BY <1>3, <2>5 DEF Strip, WordsIn
  <2>7. first \in 1..Len(t) /\ last \in 1..Len(t) /\ t \in Seq(Words)
    BY <2>2 DEF Texts
  <2>8. SubSeq(t, first, last) \in Seq(Words)
    BY <2>7
  <2> QED
    BY <2>6, <2>8 DEF Texts
<1> QED
  BY <1>2, <1>3

LEMMA StripBlanks ==
  ASSUME NEW b \in Seq({Space}), NEW t \in Texts
  PROVE  Strip(b \o t) = Strip(t)
<1> DEFINE n == Len(b)
           bt == b \o t
<1>1. /\ n \in Nat /\ Len(t) \in Nat /\ DOMAIN t = 1..Len(t) /\ t \in Seq(Words)
      /\ \A k \in 1..n : b[k] = Space
  BY DEF Texts
<1>2. b \in Seq(Words)
  <2>1. Space \in Words
    BY WordsAssumption
  <2> QED
    BY <2>1
<1>3. /\ bt \in Seq(Words) /\ Len(bt) = n + Len(t) /\ DOMAIN bt = 1 .. n + Len(t)
      /\ \A k \in 1..n : bt[k] = b[k]
      /\ \A k \in 1..Len(t) : bt[n + k] = t[k]
  BY <1>1, <1>2
<1> HIDE DEF bt, n
<1>4. \A k \in 1..Len(t) : k \in WordsIn(t) <=> n + k \in WordsIn(bt)
  BY <1>1, <1>3 DEF WordsIn
<1>5. \A k \in WordsIn(bt) : k - n \in WordsIn(t) /\ k - n \in 1..Len(t) /\ n + (k - n) = k
  <2> SUFFICES ASSUME NEW k \in WordsIn(bt)
               PROVE  k - n \in WordsIn(t) /\ k - n \in 1..Len(t) /\ n + (k - n) = k
    OBVIOUS
  <2>1. k \in 1 .. n + Len(t) /\ bt[k] # Space
    BY <1>3 DEF WordsIn
  <2>2. k \notin 1..n
    BY <1>1, <1>3, <2>1
  <2>3. k - n \in 1..Len(t) /\ n + (k - n) = k
    BY <1>1, <2>1, <2>2
  <2> QED
    BY <1>4, <2>3
<1>6. WordsIn(t) \subseteq 1..Len(t) /\ WordsIn(bt) \subseteq 1 .. n + Len(t)
  BY <1>1, <1>3 DEF WordsIn
<1>7. CASE WordsIn(t) = {}
  <2>1. WordsIn(bt) = {}
    BY <1>5, <1>7
  <2> QED
    BY <1>7, <2>1 DEF Strip, WordsIn, bt
<1>8. CASE WordsIn(t) # {}
  <2>1. PICK first, last \in WordsIn(t) : \A k \in WordsIn(t) : first <= k /\ k <= last
    BY <1>8, FirstAndLastWord
  <2>2. /\ first \in 1..Len(t) /\ last \in 1..Len(t)
        /\ n + first \in WordsIn(bt) /\ n + last \in WordsIn(bt)
    BY <1>4, <1>6, <2>1
  <2>3. \A k \in WordsIn(bt) : n + first <= k /\ n + last >= k
    <3> SUFFICES ASSUME NEW k \in WordsIn(bt) PROVE n + first <= k /\ n + last >= k
      OBVIOUS
    <3>1. first <= k - n /\ k - n <= last /\ k - n \in 1..Len(t) /\ n + (k - n) = k
      BY <1>5, <2>1
    <3>2. k \in 1 .. n + Len(t)
      BY <1>6
    <3> QED
      BY <1>1, <2>2, <3>1, <3>2
  <2>4. Min(WordsIn(t)) = first /\ Max(WordsIn(t)) = last
    <3>1. WordsIn(t) \subseteq Nat /\ \A k \in WordsIn(t) : last >= k
      BY <1>1, <1>6, <2>1, <2>2
    <3> QED
      BY <2>1, <3>1, MinOf, MaxOf
  <2>5. Min(WordsIn(bt)) = n + first /\ Max(WordsIn(bt)) = n + last
    <3>1. WordsIn(bt) \subseteq Nat
      BY <1>6
    <3> QED
      BY <2>2, <2>3, <3>1, MinOf, MaxOf
  <2>6. Strip(t) = SubSeq(t, first, last)
    BY <1>8, <2>4 DEF Strip, WordsIn
  <2>7. Strip(bt) = SubSeq(bt, n + first, n + last)
    BY <2>2, <2>5 DEF Strip, WordsIn
  <2>8. SubSeq(bt, n + first, n + last) = SubSeq(t, first, last)
    <3> DEFINE u == SubSeq(bt, n + first, n + last)
               v == SubSeq(t, first, last)
    <3>0. first <= last
      BY <2>1
    <3>1. u \in Seq(Words) /\ Len(u) = last - first + 1
          /\ \A k \in 1 .. last - first + 1 : u[k] = bt[n + (first + k - 1)]
      <4>1. n + first \in 1 .. n + Len(t) /\ n + last \in 1 .. n + Len(t) /\ n + first <= n + last
        BY <1>1, <2>2, <3>0
      <4>2. u \in Seq(Words) /\ Len(u) = (n + last) - (n + first) + 1
            /\ \A k \in 1 .. (n + last) - (n + first) + 1 : u[k] = bt[(n + first) + k - 1]
        BY <1>3, <4>1
      <4> HIDE DEF u
      <4>3. (n + last) - (n + first) + 1 = last - first + 1
            /\ \A k \in Nat : (n + first) + k - 1 = n + (first + k - 1)
        BY <1>1, <2>2
      <4> QED
        BY <2>2, <4>2, <4>3
    <3>2. v \in Seq(Words) /\ Len(v) = last - first + 1
          /\ \A k \in 1 .. last - first + 1 : v[k] = t[first + k - 1]
      BY <1>1, <2>2, <3>0
    <3>3. \A k \in 1 .. last - first + 1 : first + k - 1 \in 1..Len(t)
      BY <1>1, <2>2, <3>0
    <3> HIDE DEF u, v
    <3>4. \A k \in 1..Len(u) : u[k] = v[k]
      BY <1>3, <3>1, <3>2, <3>3
    <3> QED
      BY <3>1, <3>2, <3>4, SeqEqual DEF u, v
  <2> QED
    BY <2>6, <2>7, <2>8 DEF bt
<1> QED
  BY <1>7, <1>8
-----------------------------------------------------------------------------
(* make_fields_unique: the fields after each pass of its outer loop.       *)
Quoted(names, i, n) ==
    [j \in 1..n |-> IF i < j /\ names[i] = names[j] THEN Append(names[j], Quote) ELSE names[j]]
Passes(fields, f) ==
    [i \in 0..Len(fields) |-> IF i = 0 THEN fields ELSE Quoted(f[i - 1], i, Len(fields))]

LEMMA PassesExist ==
  ASSUME NEW fields \in Seq(Texts)
  PROVE  \E f : f = Passes(fields, f)
<1> DEFINE upTo(n, f) ==
             [i \in 0 .. n - 1 |-> IF i = 0 THEN fields ELSE Quoted(f[i - 1], i, Len(fields))]
           N == Len(fields) + 1
           S == {n \in 1..N : \E f : f = upTo(n, f)}
<1>1. Len(fields) \in Nat /\ N \in Nat \ {0} /\ N - 1 = Len(fields)
  OBVIOUS
<1>2. 1 \in S
  <2> DEFINE f == [i \in 0..0 |-> fields]
  <2>1. f = upTo(1, f)
    OBVIOUS
  <2> HIDE DEF f
  <2>2. \E h : h = upTo(1, h)
    BY <2>1
  <2> HIDE DEF upTo
  <2> QED
    BY <1>1, <2>2
<1>3. ASSUME NEW m \in 2..N, m - 1 \in S PROVE m \in S
  <2>1. PICK f : f = upTo(m - 1, f)
    BY <1>3
  <2> DEFINE g == [i \in 0 .. m - 1 |->
                     IF i < m - 1 THEN f[i] ELSE Quoted(f[m - 2], m - 1, Len(fields))]
  <2>2. ASSUME NEW i \in 0 .. m - 1
        PROVE  g[i] = IF i = 0 THEN fields ELSE Quoted(g[i - 1], i, Len(fields))
    <3>1. CASE i = m - 1
      <4>1. i # 0 /\ i - 1 = m - 2 /\ i - 1 \in 0 .. m - 1 /\ i - 1 < m - 1 /\ ~(i < m - 1)
        BY <3>1, <1>3
      <4>2. g[i - 1] = f[m - 2]
        BY <4>1
      <4>3. g[i] = Quoted(f[m - 2], m - 1, Len(fields))
        BY <4>1
      <4> HIDE DEF g
      <4> QED
        BY <3>1, <4>1, <4>2, <4>3
    <3>2. CASE i < m - 1
      <4>1. i \in 0 .. (m - 1) - 1
        BY <3>2, <1>3
      <4>2. f[i] = IF i = 0 THEN fields ELSE Quoted(f[i - 1], i, Len(fields))
        BY <2>1, <4>1
      <4>3. g[i] = f[i] /\ (i # 0 => g[i - 1] = f[i - 1])
        BY <3>2, <1>3
      <4> HIDE DEF g
      <4> QED
        BY <4>2, <4>3
    <3> QED
      BY <3>1, <3>2, <1>3
  <2> HIDE DEF g
  <2>3. g = [i \in 0 .. m - 1 |-> g[i]]
    BY DEF g
  <2>4. g = upTo(m, g)
    BY <2>2, <2>3
  <2>5. \E h : h = upTo(m, h)
    BY <2>4
  <2>6. m \in 1..N
    BY <1>1
  <2> HIDE DEF upTo
  <2> QED
    BY <2>5, <2>6
<1> HIDE DEF S
<1>4. N \in S
  <2>1. N \in Nat /\ N \in 1..N /\ \A m \in 2..N : m - 1 \in S => m \in S
    BY <1>1, <1>3
  <2> QED
    BY <1>2, <2>1, UpTo
<1> QED
  BY <1>1, <1>4 DEF S, Passes

(* A claim that holds of the fields and that no pass breaks holds of what  *)
(* make_fields_unique gives.                                               *)
LEMMA UniqueIsLast ==
  ASSUME NEW fields \in Seq(Texts)
  PROVE  \E f : /\ f[0] = fields
                /\ \A i \in 1..Len(fields) : f[i] = Quoted(f[i - 1], i, Len(fields))
                /\ make_fields_unique(fields) = f[Len(fields)]
<1> DEFINE f == CHOOSE g : g = Passes(fields, g)
<1>1. f = Passes(fields, f)
  BY PassesExist
<1>2. make_fields_unique(fields) = f[Len(fields)]
  BY DEF make_fields_unique, Passes, Quoted
<1> HIDE DEF f
<1>3. Len(fields) \in Nat /\ 0 \in 0..Len(fields)
      /\ \A i \in 1..Len(fields) : i \in 0..Len(fields) /\ i # 0
  OBVIOUS
<1>4. f[0] = fields /\ \A i \in 1..Len(fields) : f[i] = Quoted(f[i - 1], i, Len(fields))
  BY <1>1, <1>3 DEF Passes
<1> QED
  BY <1>2, <1>4

(* A text that is the other with quotes after it.                          *)
Extends(x, y) ==
    /\ Len(y) <= Len(x)
    /\ \A c \in 1..Len(y) : x[c] = y[c]
    /\ \A c \in Len(y) + 1 .. Len(x) : x[c] = Quote
Plain(x) == x # <<>> => Last(x) # Quote

LEMMA ExtendsOne ==
  ASSUME NEW x \in Texts, NEW y \in Texts, NEW z \in Texts, Plain(y), Plain(z),
         Extends(x, y), Extends(x, z)
  PROVE  y = z
<1>1. ASSUME NEW u \in Texts, NEW v \in Texts, Plain(v), Extends(x, u), Extends(x, v)
      PROVE  Len(v) <= Len(u)
  <2>1. SUFFICES ASSUME Len(u) < Len(v) PROVE FALSE
    BY DEF Texts
  <2>2. /\ Len(u) \in Nat /\ Len(v) \in Nat /\ Len(x) \in Nat /\ v # <<>>
        /\ Len(v) \in 1..Len(v) /\ Len(v) \in Len(u) + 1 .. Len(x)
    BY <1>1, <2>1 DEF Texts, Extends
  <2>3. x[Len(v)] = v[Len(v)] /\ x[Len(v)] = Quote
    BY <1>1, <2>2 DEF Extends
  <2> QED
    BY <1>1, <2>2, <2>3 DEF Plain, Last
<1>2. Len(y) = Len(z)
  <2>1. Len(y) <= Len(z) /\ Len(z) <= Len(y)
    BY <1>1
  <2> QED
    BY <2>1 DEF Texts
<1>3. \A c \in 1..Len(y) : y[c] = z[c]
  BY <1>2 DEF Extends
<1>4. y \in Seq(Words) /\ z \in Seq(Words)
  BY DEF Texts
<1> QED
  BY <1>2, <1>3, <1>4, SeqEqual

LEMMA ExtendsMore ==
  ASSUME NEW x \in Texts, NEW y \in Texts, Extends(x, y)
  PROVE  /\ Append(x, Quote) \in Texts /\ Extends(Append(x, Quote), y)
         /\ Len(Append(x, Quote)) = Len(x) + 1 /\ Len(x) \in Nat
<1> DEFINE w == Append(x, Quote)
<1>1. x \in Seq(Words) /\ y \in Seq(Words) /\ Quote \in Words
  BY WordsAssumption DEF Texts
<1>2. w \in Seq(Words) /\ Len(w) = Len(x) + 1 /\ w[Len(x) + 1] = Quote
      /\ \A c \in 1..Len(x) : w[c] = x[c]
  BY <1>1
<1>3. Len(x) \in Nat /\ Len(y) \in Nat /\ Len(y) <= Len(x)
  BY <1>1 DEF Extends
<1> HIDE DEF w
<1>4. \A c \in 1..Len(y) : w[c] = y[c]
  <2>1. \A c \in 1..Len(y) : c \in 1..Len(x)
    BY <1>3
  <2> QED
    BY <1>2, <2>1 DEF Extends
<1>5. \A c \in Len(y) + 1 .. Len(w) : w[c] = Quote
  <2> SUFFICES ASSUME NEW c \in Len(y) + 1 .. Len(w) PROVE w[c] = Quote
    OBVIOUS
  <2>1. c = Len(x) + 1 \/ (c \in 1..Len(x) /\ c \in Len(y) + 1 .. Len(x))
    BY <1>2, <1>3
  <2> QED
    BY <1>2, <2>1 DEF Extends
<1>6. Extends(w, y)
  BY <1>2, <1>3, <1>4, <1>5 DEF Extends
<1> QED
  BY <1>2, <1>3, <1>6 DEF Texts, w

(* Fields that differ stay as they are.                                    *)
LEMMA UniqueKept ==
  ASSUME NEW fields \in Seq(Texts), Unique(fields)
  PROVE  make_fields_unique(fields) = fields
<1> DEFINE n == Len(fields)
<1>1. PICK f : /\ f[0] = fields
               /\ \A i \in 1..n : f[i] = Quoted(f[i - 1], i, n)
               /\ make_fields_unique(fields) = f[n]
  BY UniqueIsLast
<1>2. n \in Nat /\ DOMAIN fields = 1..n /\ fields = [j \in 1..n |-> fields[j]]
  OBVIOUS
<1> HIDE DEF n
<1>3. \A i \in 1..n : Quoted(fields, i, n) = fields
  <2> SUFFICES ASSUME NEW i \in 1..n PROVE Quoted(fields, i, n) = fields
    OBVIOUS
  <2>1. \A j \in 1..n : ~(i < j /\ fields[i] = fields[j])
    <3> SUFFICES ASSUME NEW j \in 1..n, i < j, fields[i] = fields[j] PROVE FALSE
      OBVIOUS
    <3>1. i = j
      BY <1>2 DEF Unique
    <3> QED
      BY <1>2, <3>1
  <2>2. Quoted(fields, i, n) = [j \in 1..n |-> fields[j]]
    BY <2>1 DEF Quoted
  <2> QED
    BY <1>2, <2>2
<1>4. CASE n = 0
  BY <1>1, <1>4
<1>5. CASE n # 0
  <2> DEFINE S == {i \in 1..n : f[i] = fields}
  <2>1. n \in 1..n /\ 1 \in 1..n /\ 1 - 1 = 0
    BY <1>2, <1>5
  <2>2. 1 \in S
    BY <1>1, <1>3, <2>1
  <2>3. ASSUME NEW m \in 2..n, m - 1 \in S PROVE m \in S
    <3>1. m \in 1..n
      BY <1>2
    <3> QED
      BY <1>1, <1>3, <2>3, <3>1
  <2> HIDE DEF S
  <2>4. n \in S
    BY <1>2, <2>1, <2>2, <2>3, UpTo
  <2> QED
    BY <1>1, <2>4 DEF S
<1> QED
  BY <1>4, <1>5

LEMMA UniqueType ==
  ASSUME NEW fields \in Seq(Texts)
  PROVE  /\ make_fields_unique(fields) \in Seq(Texts)
         /\ Len(make_fields_unique(fields)) = Len(fields)
<1> DEFINE n == Len(fields)
<1>1. PICK f : /\ f[0] = fields
               /\ \A i \in 1..n : f[i] = Quoted(f[i - 1], i, n)
               /\ make_fields_unique(fields) = f[n]
  BY UniqueIsLast
<1>2. n \in Nat
  OBVIOUS
<1>3. \A names, i : names \in [1..n -> Texts] => Quoted(names, i, n) \in [1..n -> Texts]
  <2>1. \A x \in Texts : Append(x, Quote) \in Texts
    BY WordsAssumption DEF Texts
  <2> HIDE DEF n
  <2> QED
    BY <2>1 DEF Quoted
<1>4. fields \in [1..n -> Texts]
  OBVIOUS
<1> HIDE DEF n
<1>5. CASE n = 0
  BY <1>1, <1>5 DEF n
<1>6. CASE n # 0
  <2> DEFINE S == {i \in 1..n : f[i] \in [1..n -> Texts]}
  <2>1. n \in 1..n /\ 1 \in 1..n /\ 1 - 1 = 0
    BY <1>2, <1>6
  <2>2. 1 \in S
    BY <1>1, <1>3, <1>4, <2>1
  <2>3. ASSUME NEW m \in 2..n, m - 1 \in S PROVE m \in S
    <3>1. m \in 1..n
      BY <1>2
    <3> QED
      BY <1>1, <1>3, <2>3, <3>1
  <2> HIDE DEF S
  <2>4. n \in S
    BY <1>2, <2>1, <2>2, <2>3, UpTo
  <2>5. f[n] \in [1..n -> Texts]
    BY <2>4 DEF S
  <2> QED
    BY <1>1, <1>2, <2>5 DEF n
<1> QED
  BY <1>5, <1>6

(* What the passes keep true if no field ends in a quote: equal fields     *)
(* that were not passed stay equal, and each that was passed is shorter    *)
(* than its equals after it.                                               *)
Passed(fields, names, i) ==
    /\ \A m \in 1..Len(fields) : names[m] \in Texts /\ Extends(names[m], fields[m])
    /\ \A j, m \in 1..Len(fields) :
          i < j /\ i < m /\ fields[j] = fields[m] => names[j] = names[m]
    /\ \A j, m \in 1..Len(fields) :
          j <= i /\ j < m /\ fields[j] = fields[m] => Len(names[j]) < Len(names[m])

LEMMA PassKeeps ==
  ASSUME NEW fields \in Seq(Texts), \A c \in DOMAIN fields : Plain(fields[c]),
         NEW i \in 1..Len(fields), NEW names, Passed(fields, names, i - 1)
  PROVE  Passed(fields, Quoted(names, i, Len(fields)), i)
<1> DEFINE n == Len(fields)
           new == Quoted(names, i, n)
<1>1. n \in Nat /\ i \in Nat /\ \A m \in 1..n : m \in Nat /\ fields[m] \in Texts /\ Plain(fields[m])
  OBVIOUS
<1>2. /\ \A m \in 1..n : names[m] \in Texts /\ Extends(names[m], fields[m])
      /\ \A j, m \in 1..n : i <= j /\ i <= m /\ fields[j] = fields[m] => names[j] = names[m]
      /\ \A j, m \in 1..n :
            j < i /\ j < m /\ fields[j] = fields[m] => Len(names[j]) < Len(names[m])
  <2>1. \A m \in 1..n : (i - 1 < m <=> i <= m) /\ (m <= i - 1 <=> m < i)
    BY <1>1
  <2> HIDE DEF n
  <2> QED
    BY <2>1 DEF Passed, n
<1>3. \A m \in 1..n :
         new[m] = IF i < m /\ fields[i] = fields[m] THEN Append(names[m], Quote) ELSE names[m]
  <2> SUFFICES ASSUME NEW m \in 1..n
               PROVE  new[m] = IF i < m /\ fields[i] = fields[m]
                               THEN Append(names[m], Quote) ELSE names[m]
    OBVIOUS
  <2>1. new[m] = IF i < m /\ names[i] = names[m] THEN Append(names[m], Quote) ELSE names[m]
    BY DEF Quoted
  <2>2. i < m /\ fields[i] = fields[m] => names[i] = names[m]
    BY <1>1, <1>2
  <2>3. names[i] = names[m] => fields[i] = fields[m]
    BY <1>1, <1>2, ExtendsOne
  <2> HIDE DEF new, n
  <2> QED
    BY <2>1, <2>2, <2>3
<1> HIDE DEF new, n
<1>4. \A m \in 1..n : /\ Append(names[m], Quote) \in Texts
                      /\ Extends(Append(names[m], Quote), fields[m])
                      /\ Len(Append(names[m], Quote)) = Len(names[m]) + 1
                      /\ Len(names[m]) \in Nat
  BY <1>1, <1>2, ExtendsMore
<1>5. \A m \in 1..n : new[m] \in Texts /\ Extends(new[m], fields[m])
  BY <1>2, <1>3, <1>4
<1>6. \A j, m \in 1..n : i < j /\ i < m /\ fields[j] = fields[m] => new[j] = new[m]
  <2> SUFFICES ASSUME NEW j \in 1..n, NEW m \in 1..n, i < j, i < m, fields[j] = fields[m]
               PROVE  new[j] = new[m]
    OBVIOUS
  <2>1. names[j] = names[m]
    BY <1>1, <1>2
  <2> QED
    BY <1>3, <2>1
<1>7. \A j, m \in 1..n : j <= i /\ j < m /\ fields[j] = fields[m] => Len(new[j]) < Len(new[m])
  <2> SUFFICES ASSUME NEW j \in 1..n, NEW m \in 1..n, j <= i, j < m, fields[j] = fields[m]
               PROVE  Len(new[j]) < Len(new[m])
    OBVIOUS
  <2>1. new[j] = names[j]
    BY <1>1, <1>3
  <2>2. Len(names[j]) \in Nat /\ Len(names[m]) \in Nat /\ Len(names[m]) <= Len(new[m])
    <3>1. Len(names[j]) \in Nat /\ Len(names[m]) \in Nat
      BY <1>4
    <3>2. Len(new[m]) = Len(names[m]) + 1 \/ Len(new[m]) = Len(names[m])
      BY <1>3, <1>4
    <3> QED
      BY <3>1, <3>2
  <2>3. Len(new[m]) \in Nat
    BY <1>3, <1>4
  <2>4. CASE j = i
    <3>1. names[j] = names[m]
      BY <1>1, <1>2, <2>4
    <3>2. Len(new[m]) = Len(names[m]) + 1
      BY <1>3, <1>4, <2>4
    <3> QED
      BY <2>1, <2>2, <3>1, <3>2
  <2>5. CASE j # i
    <3>1. j < i
      BY <1>1, <2>5
    <3>2. Len(names[j]) < Len(names[m])
      BY <1>2, <3>1
    <3> QED
      BY <2>1, <2>2, <2>3, <3>2
  <2> QED
    BY <2>4, <2>5
<1> QED
  BY <1>5, <1>6, <1>7 DEF Passed, new, n

(* If no field ends in a quote, what make_fields_unique gives is unique.   *)
LEMMA UniqueMade ==
  ASSUME NEW fields \in Seq(Texts), \A c \in DOMAIN fields : Plain(fields[c])
  PROVE  Unique(make_fields_unique(fields))
<1> DEFINE n == Len(fields)
<1>1. PICK f : /\ f[0] = fields
               /\ \A i \in 1..n : f[i] = Quoted(f[i - 1], i, n)
               /\ make_fields_unique(fields) = f[n]
  BY UniqueIsLast
<1>2. n \in Nat /\ DOMAIN fields = 1..n /\ \A m \in 1..n : fields[m] \in Texts
  OBVIOUS
<1>3. CASE n = 0
  BY <1>1, <1>2, <1>3 DEF Unique
<1>4. CASE n # 0
  <2> DEFINE S == {i \in 1..n : Passed(fields, f[i], i)}
  <2>1. n \in 1..n /\ 1 \in 1..n /\ 1 - 1 = 0
    BY <1>2, <1>4
  <2>2. Passed(fields, fields, 0)
    <3>1. \A m \in 1..n : Extends(fields[m], fields[m])
      <4> SUFFICES ASSUME NEW m \in 1..n PROVE Extends(fields[m], fields[m])
        OBVIOUS
      <4>1. Len(fields[m]) \in Nat
        BY <1>2 DEF Texts
      <4> QED
        BY <4>1 DEF Extends
    <3>2. \A j \in 1..n : ~(j <= 0)
      OBVIOUS
    <3> QED
      BY <1>2, <3>1, <3>2 DEF Passed
  <2>3. 1 \in S
    <3>1. Passed(fields, Quoted(fields, 1, n), 1)
      BY <2>1, <2>2, PassKeeps
    <3> QED
      BY <1>1, <2>1, <3>1
  <2>4. ASSUME NEW m \in 2..n, m - 1 \in S PROVE m \in S
    <3>1. m \in 1..n
      BY <1>2
    <3>2. Passed(fields, f[m - 1], m - 1)
      BY <2>4
    <3>3. Passed(fields, Quoted(f[m - 1], m, n), m)
      BY <3>1, <3>2, PassKeeps
    <3> QED
      BY <1>1, <3>1, <3>3
  <2> HIDE DEF S
  <2>5. n \in S
    <3>1. \A m \in 2..n : m - 1 \in S => m \in S
      BY <2>4
    <3> HIDE DEF n
    <3> QED
      BY <1>2, <2>1, <2>3, <3>1, UpTo
  <2>6. Passed(fields, f[n], n)
    BY <2>5 DEF S
  <2> DEFINE names == f[n]
  <2>7. DOMAIN names = 1..n
    <3>1. names = Quoted(f[n - 1], n, n)
      BY <1>1, <2>1
    <3> QED
      BY <3>1 DEF Quoted
  <2>8. \A j, m \in 1..n : j < m => names[j] # names[m]
    <3> SUFFICES ASSUME NEW j \in 1..n, NEW m \in 1..n, j < m, names[j] = names[m] PROVE FALSE
      OBVIOUS
    <3>1. /\ names[j] \in Texts /\ Extends(names[j], fields[j]) /\ Extends(names[j], fields[m])
          /\ Len(names[j]) \in Nat
      BY <2>6 DEF Passed, Texts
    <3>2. fields[j] = fields[m]
      BY <1>2, <3>1, ExtendsOne
    <3>3. j <= n
      BY <1>2
    <3>4. Len(names[j]) < Len(names[m])
      BY <2>6, <3>2, <3>3 DEF Passed
    <3> QED
      BY <3>1, <3>4
  <2> HIDE DEF names
  <2>9. Unique(names)
    <3> SUFFICES ASSUME NEW j \in 1..n, NEW m \in 1..n, names[j] = names[m] PROVE j = m
      BY <2>7 DEF Unique
    <3>1. ~(j < m) /\ ~(m < j)
      BY <2>8
    <3> QED
      BY <1>2, <3>1
  <2> QED
    BY <1>1, <2>9 DEF names
<1> QED
  BY <1>3, <1>4
-----------------------------------------------------------------------------
(* A row that is filled up begins with its cells.                          *)
LEMMA FilledRow ==
  ASSUME NEW cells \in Seq(Texts), NEW width \in Nat
  PROVE  /\ Filled(cells, width) \in Seq(Texts) /\ Len(cells) <= Len(Filled(cells, width))
         /\ IsPrefix(cells, Filled(cells, width))
         /\ \A c \in Len(cells) + 1 .. Len(Filled(cells, width)) : Filled(cells, width)[c] = Dash
         /\ width <= Len(cells) => Filled(cells, width) = cells
<1> DEFINE m == Max({0, width - Len(cells) - 1})
           dashes == [k \in 1..m |-> Dash]
           row == Filled(cells, width)
<1>1. m \in Nat /\ (width <= Len(cells) => m = 0) /\ Len(cells) \in Nat
  <2>1. Len(cells) \in Nat /\ width - Len(cells) - 1 \in Int
    OBVIOUS
  <2>2. m = IF 0 >= width - Len(cells) - 1 THEN 0 ELSE width - Len(cells) - 1
    BY <2>1, PairMax
  <2> QED
    BY <2>1, <2>2
<1>2. Dash \in Texts
  BY WordsAssumption DEF Dash, Texts
<1>3. row = cells \o dashes
  BY DEF Filled
<1> HIDE DEF m
<1>4. dashes \in Seq(Texts) /\ Len(dashes) = m /\ \A k \in 1..m : dashes[k] = Dash
  BY <1>1, <1>2
<1> HIDE DEF dashes, row
<1>5. /\ row \in Seq(Texts) /\ Len(row) = Len(cells) + m
      /\ \A c \in 1..Len(cells) : row[c] = cells[c]
      /\ \A k \in 1..m : row[Len(cells) + k] = dashes[k]
  <2>1. /\ row \in Seq(Texts) /\ Len(row) = Len(cells) + m
        /\ \A c \in 1 .. Len(cells) + m :
              row[c] = IF c <= Len(cells) THEN cells[c] ELSE dashes[c - Len(cells)]
    BY <1>3, <1>4, ConcatProperties
  <2>2. \A c \in 1..Len(cells) : c \in 1 .. Len(cells) + m /\ c <= Len(cells)
    BY <1>1
  <2>3. \A k \in 1..m : /\ Len(cells) + k \in 1 .. Len(cells) + m
                        /\ ~(Len(cells) + k <= Len(cells)) /\ (Len(cells) + k) - Len(cells) = k
    BY <1>1
  <2> QED
    BY <2>1, <2>2, <2>3
<1>6. Len(cells) <= Len(row)
  BY <1>1, <1>5
<1>7. SubSeq(row, 1, Len(cells)) = cells
  <2> DEFINE s == SubSeq(row, 1, Len(cells))
  <2>1. s \in Seq(Texts) /\ Len(s) = Len(cells) /\ \A c \in 1..Len(cells) : s[c] = row[c]
    BY <1>1, <1>5, <1>6
  <2> HIDE DEF s
  <2>2. s = cells
    BY <1>5, <2>1, SeqEqual
  <2> QED
    BY <2>2 DEF s
<1>8. SubSeq(cells, 1, Len(cells)) = cells
  BY SubSeqFull
<1>9. IsPrefix(cells, row)
  BY <1>6, <1>7, <1>8 DEF IsPrefix
<1>10. \A c \in Len(cells) + 1 .. Len(row) : row[c] = Dash
  <2> SUFFICES ASSUME NEW c \in Len(cells) + 1 .. Len(row) PROVE row[c] = Dash
    OBVIOUS
  <2>1. c - Len(cells) \in 1..m /\ Len(cells) + (c - Len(cells)) = c
    BY <1>1, <1>5
  <2> QED
    BY <1>4, <1>5, <2>1
<1>11. ASSUME width <= Len(cells) PROVE row = cells
  <2>1. Len(row) = Len(cells)
    BY <1>1, <1>5, <1>11
  <2> QED
    BY <1>5, <2>1, SeqEqual
<1> QED
  BY <1>5, <1>6, <1>9, <1>10, <1>11 DEF row

(* generate_table: the result after each row.                              *)
Made(written, width, f) ==
    [k \in 0..Len(written) |->
        IF k = 0 THEN Return(Blank, NoLook)
        ELSE IF f[k - 1].exc # NoExc THEN f[k - 1]
        ELSE AddWritten(f[k - 1], written[k], width)]

LEMMA MadeExists ==
  ASSUME NEW L, NEW written \in Seq(L), NEW width
  PROVE  \E f : f = Made(written, width, f)
<1> DEFINE step(r, k) == IF r.exc # NoExc THEN r ELSE AddWritten(r, written[k], width)
           upTo(n, f) ==
             [i \in 0 .. n - 1 |-> IF i = 0 THEN Return(Blank, NoLook) ELSE step(f[i - 1], i)]
           N == Len(written) + 1
           S == {n \in 1..N : \E f : f = upTo(n, f)}
<1>1. Len(written) \in Nat /\ N \in Nat \ {0} /\ N - 1 = Len(written)
  OBVIOUS
<1>2. 1 \in S
  <2> DEFINE f == [i \in 0..0 |-> Return(Blank, NoLook)]
  <2>1. f = upTo(1, f)
    OBVIOUS
  <2> HIDE DEF f
  <2>2. \E h : h = upTo(1, h)
    BY <2>1
  <2> HIDE DEF upTo
  <2> QED
    BY <1>1, <2>2
<1>3. ASSUME NEW m \in 2..N, m - 1 \in S PROVE m \in S
  <2>1. PICK f : f = upTo(m - 1, f)
    BY <1>3
  <2> DEFINE g == [i \in 0 .. m - 1 |-> IF i < m - 1 THEN f[i] ELSE step(f[m - 2], m - 1)]
  <2> HIDE DEF step
  <2>2. ASSUME NEW i \in 0 .. m - 1
        PROVE  g[i] = IF i = 0 THEN Return(Blank, NoLook) ELSE step(g[i - 1], i)
    <3>1. CASE i = m - 1
      <4>1. i # 0 /\ i - 1 = m - 2 /\ i - 1 \in 0 .. m - 1 /\ i - 1 < m - 1 /\ ~(i < m - 1)
        BY <3>1, <1>3
      <4>2. g[i - 1] = f[m - 2]
        BY <4>1
      <4>3. g[i] = step(f[m - 2], m - 1)
        BY <4>1
      <4> HIDE DEF g
      <4> QED
        BY <3>1, <4>1, <4>2, <4>3
    <3>2. CASE i < m - 1
      <4>1. i \in 0 .. (m - 1) - 1
        BY <3>2, <1>3
      <4>2. f[i] = IF i = 0 THEN Return(Blank, NoLook) ELSE step(f[i - 1], i)
        BY <2>1, <4>1
      <4>3. g[i] = f[i] /\ (i # 0 => g[i - 1] = f[i - 1])
        BY <3>2, <1>3
      <4> HIDE DEF g
      <4> QED
        BY <4>2, <4>3
    <3> QED
      BY <3>1, <3>2, <1>3
  <2> HIDE DEF g
  <2>3. g = [i \in 0 .. m - 1 |-> g[i]]
    BY DEF g
  <2>4. g = upTo(m, g)
    BY <2>2, <2>3
  <2>5. \E h : h = upTo(m, h)
    BY <2>4
  <2>6. m \in 1..N
    BY <1>1
  <2> HIDE DEF upTo
  <2> QED
    BY <2>5, <2>6
<1> HIDE DEF S
<1>4. N \in S
  <2>1. N \in Nat /\ N \in 1..N /\ \A m \in 2..N : m - 1 \in S => m \in S
    BY <1>1, <1>3
  <2> QED
    BY <1>2, <2>1, UpTo
<1> QED
  BY <1>1, <1>4 DEF S, Made

LEMMA GeneratedIsLast ==
  ASSUME NEW L, NEW written \in Seq(L), NEW width
  PROVE  \E f : /\ f[0] = Return(Blank, NoLook)
                /\ \A k \in 1..Len(written) :
                      f[k] = IF f[k - 1].exc # NoExc THEN f[k - 1]
                             ELSE AddWritten(f[k - 1], written[k], width)
                /\ generate_table(written, width) = f[Len(written)]
<1> DEFINE f == CHOOSE g : g = Made(written, width, g)
<1>1. f = Made(written, width, f)
  BY MadeExists
<1>2. generate_table(written, width) = f[Len(written)]
  BY DEF generate_table, Made
<1> HIDE DEF f
<1>3. Len(written) \in Nat /\ 0 \in 0..Len(written)
      /\ \A i \in 1..Len(written) : i \in 0..Len(written) /\ i # 0
  OBVIOUS
<1>4. f[0] = Return(Blank, NoLook)
      /\ \A k \in 1..Len(written) :
            f[k] = IF f[k - 1].exc # NoExc THEN f[k - 1]
                   ELSE AddWritten(f[k - 1], written[k], width)
  BY <1>1, <1>3 DEF Made
<1> QED
  BY <1>2, <1>4

(* How many of some rows there are up to each of them.                     *)
UpToRow(D, i) == Cardinality({d \in D : d <= i})

LEMMA CountedRows ==
  ASSUME NEW n \in Nat, NEW D, D \subseteq 1..n, NEW i \in 1..n
  PROVE  /\ UpToRow(D, 0) = 0
         /\ UpToRow(D, i) \in Nat
         /\ UpToRow(D, i) = IF i \in D THEN UpToRow(D, i - 1) + 1 ELSE UpToRow(D, i - 1)
         /\ \A d \in D : d <= i => UpToRow(D, d) \in 1..UpToRow(D, i)
         /\ UpToRow(D, n) = Cardinality(D)
<1> DEFINE U(k) == {d \in D : d <= k}
<1>0. \A d \in D : d \in 1..n /\ d \in Nat
  OBVIOUS
<1>1. \A k \in 0..n : IsFiniteSet(U(k)) /\ Cardinality(U(k)) \in Nat
  <2>1. IsFiniteSet(1..n)
    BY FS_Interval
  <2>2. \A k \in 0..n : U(k) \in SUBSET (1..n)
    OBVIOUS
  <2> QED
    BY <2>1, <2>2, FS_Subset, FS_CardinalityType
<1>2. U(0) = {}
  <2>1. \A d \in D : ~(d <= 0)
    BY <1>0
  <2> QED
    BY <2>1
<1>3. Cardinality(U(0)) = 0
  BY <1>2, FS_EmptySet
<1>4. U(i) = (IF i \in D THEN U(i - 1) \cup {i} ELSE U(i - 1)) /\ i \notin U(i - 1)
  <2>1. \A d \in D : d <= i <=> d <= i - 1 \/ d = i
    BY <1>0
  <2>2. ~(i <= i - 1) /\ i <= i
    OBVIOUS
  <2> QED
    BY <2>1, <2>2
<1>5. Cardinality(U(i)) = IF i \in D THEN Cardinality(U(i - 1)) + 1 ELSE Cardinality(U(i - 1))
  <2>1. i - 1 \in 0..n
    OBVIOUS
  <2> HIDE DEF U
  <2> QED
    BY <1>1, <1>4, <2>1, FS_AddElement
<1>6. ASSUME NEW d \in D, d <= i PROVE Cardinality(U(d)) \in 1..Cardinality(U(i))
  <2>1. d \in 0..n /\ i \in 0..n /\ U(d) \in SUBSET U(i) /\ d \in U(d)
    <3>1. d \in 1..n /\ d <= d /\ d \in 0..n /\ i \in 0..n
      BY <1>0
    <3>2. \A e \in D : e <= d => e <= i
      BY <1>0, <1>6, <3>1
    <3> QED
      BY <3>1, <3>2
  <2> HIDE DEF U
  <2>2. Cardinality(U(d)) <= Cardinality(U(i))
    BY <1>1, <2>1, FS_Subset
  <2>3. Cardinality(U(d)) # 0
    BY <1>1, <2>1, FS_EmptySet
  <2> QED
    BY <1>1, <2>1, <2>2, <2>3
<1>7. U(n) = D
  <2>1. \A d \in D : d <= n
    BY <1>0
  <2> QED
    BY <2>1
<1>8. Cardinality(U(i)) \in Nat
  <2>1. i \in 0..n
    OBVIOUS
  <2> HIDE DEF U
  <2> QED
    BY <1>1, <2>1
<1> QED
  BY <1>3, <1>5, <1>6, <1>7, <1>8 DEF UpToRow
-----------------------------------------------------------------------------
(* What the calls that generate_table makes leave in the table.            *)
LEMMA NamesAssigned ==
  ASSUME NEW t, {"names", "rows"} \subseteq DOMAIN t, NEW l, NEW u,
         _set_field_names(t, l, u).exc = NoExc
  PROVE  LET new == _set_field_names(t, l, u).t
         IN {"names", "rows"} \subseteq DOMAIN new /\ new.names = u /\ new.rows = t.rows
<1> DEFINE named == [t EXCEPT !.names = u]
<1>1. {"names", "rows"} \subseteq DOMAIN named /\ named.names = u /\ named.rows = t.rows
  OBVIOUS
<1> HIDE DEF named
<1>2. _set_field_names(t, l, u).t = named
  <2>1. NoExc # "Exception"
    BY DEF NoExc
  <2> QED
    BY <2>1 DEF _set_field_names, Raise, Result, named
<1> QED
  BY <1>1, <1>2

LEMMA RowAppended ==
  ASSUME NEW t, {"names", "rows"} \subseteq DOMAIN t, NEW l, NEW row,
         add_row(t, l, row).exc = NoExc
  PROVE  LET new == add_row(t, l, row).t
         IN /\ {"names", "rows"} \subseteq DOMAIN new /\ new.rows = Append(t.rows, row)
            /\ t.names # <<>> => new.names = t.names
<1> DEFINE u == [k \in 1..Len(row) |-> FieldN[k]]
           named == _set_field_names(t, l, u)
           appended(v) == [v EXCEPT !.rows = Append(@, row)]
<1>1. \A v : {"names", "rows"} \subseteq DOMAIN v =>
         /\ {"names", "rows"} \subseteq DOMAIN appended(v) /\ appended(v).names = v.names
         /\ appended(v).rows = Append(v.rows, row)
  OBVIOUS
<1>2. NoExc # "Exception"
  BY DEF NoExc
<1>3. named.exc = NoExc =>
        {"names", "rows"} \subseteq DOMAIN named.t /\ named.t.names = u /\ named.t.rows = t.rows
  <2> HIDE DEF u
  <2> QED
    BY NamesAssigned
<1>4. add_row(t, l, row) =
        IF t.names # <<>> /\ Len(row) # Len(t.names) THEN Raise(t, l, "Exception")
        ELSE IF t.names # <<>> THEN Return(appended(t), l)
        ELSE IF named.exc # NoExc THEN named
        ELSE Return(appended(named.t), named.l)
  BY DEF add_row
<1>5. Raise(t, l, "Exception").exc = "Exception" /\ Return(appended(t), l).t = appended(t)
      /\ Return(appended(named.t), named.l).t = appended(named.t)
  BY DEF Raise, Return, Result
<1> HIDE DEF appended, named, u
<1>6. CASE t.names # <<>>
  BY <1>1, <1>2, <1>4, <1>5, <1>6
<1>7. CASE t.names = <<>>
  <2>1. named.exc = NoExc /\ add_row(t, l, row).t = appended(named.t)
    BY <1>4, <1>5, <1>7
  <2> QED
    BY <1>1, <1>3, <1>7, <2>1 DEF u
<1> QED
  BY <1>6, <1>7

(* The rows that are read of a page, and what generate_table makes of the  *)
(* first i of them, unless it fails.                                       *)
ReadRows == [cells : Seq(Texts), header : BOOLEAN]
DataOf(written) == {j \in 1..Len(written) : ~written[j].header}

Generated(written, width, r, i) ==
    /\ {"names", "rows"} \subseteq DOMAIN r.t
    /\ r.t.rows \in Seq(Seq(Texts)) /\ Len(r.t.rows) = UpToRow(DataOf(written), i)
    /\ \A d \in DataOf(written) :
          d <= i => r.t.rows[UpToRow(DataOf(written), d)] = Filled(written[d].cells, width)
    /\ \A h \in 1..i :
          written[h].header =>
             /\ r.t.names # <<>>
             /\ (\A g \in 1..i : written[g].header => g <= h)
                   => r.t.names = make_fields_unique(Filled(written[h].cells, width))

LEMMA OneMoreRow ==
  ASSUME NEW written \in Seq(ReadRows), NEW width \in Nat, NEW i \in 1..Len(written),
         written[i].header => written[i].cells # <<>>,
         NEW r, Generated(written, width, r, i - 1), r.exc = NoExc,
         AddWritten(r, written[i], width).exc = NoExc
  PROVE  Generated(written, width, AddWritten(r, written[i], width), i)
<1> DEFINE D == DataOf(written)
           row == written[i]
           cells == Filled(row.cells, width)
           new == AddWritten(r, row, width)
<1>1. row.cells \in Seq(Texts) /\ row.header \in BOOLEAN
  <2>1. row \in ReadRows
    OBVIOUS
  <2> QED
    BY <2>1 DEF ReadRows
<1>2. cells \in Seq(Texts) /\ Len(row.cells) <= Len(cells)
  BY <1>1, FilledRow
<1>3. /\ i \in D <=> ~row.header
      /\ UpToRow(D, i) = IF row.header THEN UpToRow(D, i - 1) ELSE UpToRow(D, i - 1) + 1
      /\ \A d \in D : d \in Nat /\ (d <= i - 1 => UpToRow(D, d) \in 1..UpToRow(D, i - 1))
      /\ UpToRow(D, i - 1) \in Nat
  <2>1. Len(written) \in Nat /\ D \subseteq 1..Len(written)
    BY DEF DataOf
  <2>2. i \in D <=> ~row.header
    BY DEF DataOf
  <2>3. UpToRow(D, i) = IF i \in D THEN UpToRow(D, i - 1) + 1 ELSE UpToRow(D, i - 1)
    BY <2>1, CountedRows
  <2>4. \A d \in D : d \in Nat
    BY <2>1
  <2>5. CASE i = 1
    <3>1. i - 1 = 0 /\ UpToRow(D, 0) = 0 /\ \A d \in D : ~(d <= 0)
      BY <2>1, <2>5, CountedRows
    <3> HIDE DEF D, row
    <3> QED
      BY <2>2, <2>3, <2>4, <3>1
  <2>6. CASE i # 1
    <3>1. i - 1 \in 1..Len(written)
      BY <2>6
    <3> HIDE DEF D, row
    <3>2. \A k \in 1..Len(written) : UpToRow(D, k) \in Nat
            /\ \A d \in D : d <= k => UpToRow(D, d) \in 1..UpToRow(D, k)
      BY <2>1, CountedRows
    <3>3. UpToRow(D, i - 1) \in Nat
          /\ \A d \in D : d <= i - 1 => UpToRow(D, d) \in 1..UpToRow(D, i - 1)
      BY <3>1, <3>2
    <3> QED
      BY <2>2, <2>3, <2>4, <3>3
  <2> QED
    BY <2>5, <2>6
<1>4. /\ {"names", "rows"} \subseteq DOMAIN r.t
      /\ r.t.rows \in Seq(Seq(Texts)) /\ Len(r.t.rows) = UpToRow(D, i - 1)
      /\ \A d \in D : d <= i - 1 => r.t.rows[UpToRow(D, d)] = Filled(written[d].cells, width)
  BY DEF Generated
<1>5. \A h \in 1 .. i - 1 :
         written[h].header =>
            /\ r.t.names # <<>>
            /\ (\A g \in 1 .. i - 1 : written[g].header => g <= h)
                  => r.t.names = make_fields_unique(Filled(written[h].cells, width))
  BY DEF Generated
<1>6. i \in Nat /\ \A h \in 1..i : h \in Nat /\ (h = i \/ h \in 1 .. i - 1)
  OBVIOUS
<1>7. CASE row.header
  <2>1. new = _set_field_names(r.t, r.l, make_fields_unique(cells))
    BY <1>7 DEF AddWritten
  <2> DEFINE names == make_fields_unique(cells)
  <2>2. /\ {"names", "rows"} \subseteq DOMAIN new.t
        /\ new.t.names = names /\ new.t.rows = r.t.rows
    <3> HIDE DEF names
    <3> QED
      BY <1>4, <2>1, NamesAssigned DEF names
  <2>3. names # <<>>
    <3>1. Len(names) = Len(cells)
      BY <1>2, UniqueType
    <3>2. Len(row.cells) \in Nat \ {0} /\ Len(cells) \in Nat
      BY <1>1, <1>2, <1>7
    <3> HIDE DEF names
    <3>3. Len(names) # 0
      BY <1>2, <3>1, <3>2
    <3> QED
      BY <3>3
  <2>4. \A d \in D : d <= i => d <= i - 1
    BY <1>3, <1>6, <1>7
  <2>5. \A h \in 1..i : (\A g \in 1..i : written[g].header => g <= h) => h = i
    <3> SUFFICES ASSUME NEW h \in 1..i, \A g \in 1..i : written[g].header => g <= h
                 PROVE  h = i
      OBVIOUS
    <3>1. i \in 1..i /\ i <= h
      BY <1>7
    <3> QED
      BY <3>1
  <2> HIDE DEF names, new, cells, D
  <2>6. \A d \in D : d <= i => new.t.rows[UpToRow(D, d)] = Filled(written[d].cells, width)
    BY <1>4, <2>2, <2>4
  <2>7. Len(new.t.rows) = UpToRow(D, i) /\ new.t.rows \in Seq(Seq(Texts))
    BY <1>3, <1>4, <1>7, <2>2
  <2>8. \A h \in 1..i :
          written[h].header =>
             /\ new.t.names # <<>>
             /\ (\A g \in 1..i : written[g].header => g <= h)
                   => new.t.names = make_fields_unique(Filled(written[h].cells, width))
    BY <2>2, <2>3, <2>5 DEF names, cells
  <2> QED
    BY <2>2, <2>6, <2>7, <2>8 DEF Generated, new, D
<1>8. CASE ~row.header
  <2>1. new = add_row(r.t, r.l, cells)
    BY <1>8 DEF AddWritten
  <2>2. /\ {"names", "rows"} \subseteq DOMAIN new.t
        /\ new.t.rows = Append(r.t.rows, cells)
        /\ (r.t.names # <<>> => new.t.names = r.t.names)
    <3>1. add_row(r.t, r.l, cells).exc = NoExc
      BY <2>1
    <3> HIDE DEF cells, new
    <3> QED
      BY <1>4, <2>1, <3>1, RowAppended
  <2> HIDE DEF new, cells, D
  <2>3. /\ new.t.rows \in Seq(Seq(Texts)) /\ Len(new.t.rows) = UpToRow(D, i)
        /\ new.t.rows[UpToRow(D, i)] = cells
        /\ \A k \in 1..UpToRow(D, i - 1) : new.t.rows[k] = r.t.rows[k]
    BY <1>2, <1>3, <1>4, <1>8, <2>2
  <2>4. \A d \in D : d <= i => new.t.rows[UpToRow(D, d)] = Filled(written[d].cells, width)
    <3> SUFFICES ASSUME NEW d \in D, d <= i
                 PROVE  new.t.rows[UpToRow(D, d)] = Filled(written[d].cells, width)
      OBVIOUS
    <3>1. CASE d = i
      BY <2>3, <3>1 DEF cells
    <3>2. CASE d # i
      <4>1. d <= i - 1
        BY <1>3, <1>6, <3>2
      <4> QED
        BY <1>3, <1>4, <2>3, <4>1
    <3> QED
      BY <3>1, <3>2
  <2>5. \A h \in 1..i :
          written[h].header =>
             /\ new.t.names # <<>>
             /\ (\A g \in 1..i : written[g].header => g <= h)
                   => new.t.names = make_fields_unique(Filled(written[h].cells, width))
    <3> SUFFICES ASSUME NEW h \in 1..i, written[h].header
                 PROVE  /\ new.t.names # <<>>
                        /\ (\A g \in 1..i : written[g].header => g <= h)
                              => new.t.names = make_fields_unique(Filled(written[h].cells, width))
      OBVIOUS
    <3>1. h \in 1 .. i - 1
      BY <1>6, <1>8
    <3>2. \A g \in 1 .. i - 1 : g \in 1..i
      OBVIOUS
    <3> QED
      BY <1>5, <2>2, <3>1, <3>2
  <2> QED
    BY <2>2, <2>3, <2>4, <2>5 DEF Generated, new, D
<1> QED
  BY <1>1, <1>7, <1>8

(* What a table that is generated holds.                                   *)
LEMMA TableGenerated ==
  ASSUME NEW written \in Seq(ReadRows), NEW width \in Nat,
         \A j \in DOMAIN written : written[j].header => written[j].cells # <<>>,
         generate_table(written, width).exc = NoExc
  PROVE  Generated(written, width, generate_table(written, width), Len(written))
<1> DEFINE n == Len(written)
<1>1. PICK f : /\ f[0] = Return(Blank, NoLook)
               /\ \A k \in 1..n : f[k] = IF f[k - 1].exc # NoExc THEN f[k - 1]
                                         ELSE AddWritten(f[k - 1], written[k], width)
               /\ generate_table(written, width) = f[n]
  BY GeneratedIsLast
<1>2. n \in Nat /\ DOMAIN written = 1..n
  OBVIOUS
<1>3. Generated(written, width, f[0], 0)
  <2>1. {"names", "rows"} \subseteq DOMAIN f[0].t /\ f[0].t.rows = <<>>
    BY <1>1 DEF Return, Result, Blank
  <2>2. UpToRow(DataOf(written), 0) = 0 /\ \A d \in DataOf(written) : ~(d <= 0)
    <3>1. \A d \in DataOf(written) : ~(d <= 0)
      BY DEF DataOf
    <3>2. {d \in DataOf(written) : d <= 0} = {}
      BY <3>1
    <3>3. Cardinality({d \in DataOf(written) : d <= 0}) = 0
      BY <3>2, FS_EmptySet
    <3> QED
      BY <3>1, <3>3 DEF UpToRow
  <2>3. 1..0 = {}
    OBVIOUS
  <2> QED
    BY <2>1, <2>2, <2>3 DEF Generated
<1>4. ASSUME NEW k \in 1..n, f[k - 1].exc = NoExc => Generated(written, width, f[k - 1], k - 1)
      PROVE  f[k].exc = NoExc => Generated(written, width, f[k], k)
  <2> SUFFICES ASSUME f[k].exc = NoExc PROVE Generated(written, width, f[k], k)
    OBVIOUS
  <2>1. f[k - 1].exc = NoExc /\ f[k] = AddWritten(f[k - 1], written[k], width)
    BY <1>1
  <2> QED
    BY <1>2, <1>4, <2>1, OneMoreRow
<1> HIDE DEF n
<1>5. CASE n = 0
  BY <1>1, <1>3, <1>5 DEF n
<1>6. CASE n # 0
  <2> DEFINE S == {k \in 1..n : f[k].exc = NoExc => Generated(written, width, f[k], k)}
  <2>1. n \in 1..n /\ 1 \in 1..n /\ 1 - 1 = 0
    BY <1>2, <1>6
  <2>2. 1 \in S
    BY <1>3, <1>4, <2>1
  <2>3. ASSUME NEW m \in 2..n, m - 1 \in S PROVE m \in S
    <3>1. m \in 1..n
      BY <1>2
    <3> QED
      BY <1>4, <2>3, <3>1
  <2> HIDE DEF S
  <2>4. n \in S
    BY <1>2, <2>1, <2>2, <2>3, UpTo
  <2> QED
    BY <1>1, <2>4 DEF S, n
<1> QED
  BY <1>5, <1>6
-----------------------------------------------------------------------------
(* Rows of one width, and headers whose fields can be made unique, never   *)
(* fail: the dictionaries have an entry for every name, and none before    *)
(* there are names.                                                        *)
Covered(d, names) == Elements(names) \subseteq DOMAIN d /\ (names = <<>> => DOMAIN d = {})

LEMMA RelabelCovers ==
  ASSUME NEW N, NEW olds \in Seq(N), NEW news \in Seq(N), NEW d, Covered(d, olds), NEW default,
         olds # <<>> => Len(news) = Len(olds)
  PROVE  /\ Relabel(d, olds, news, default).exc = NoExc
         /\ Covered(Relabel(d, olds, news, default).d, news)
<1>1. DOMAIN news = 1..Len(news) /\ Len(news) \in Nat
      /\ DOMAIN olds = 1..Len(olds) /\ Len(olds) \in Nat
  OBVIOUS
<1>2. news = <<>> => Elements(news) = {}
  BY DEF Elements
<1>3. CASE DOMAIN d = {}
  <2> DEFINE e == [x \in Elements(news) |-> default]
  <2>1. Relabel(d, olds, news, default) = [d |-> e, exc |-> NoExc]
    BY <1>3 DEF Relabel
  <2>2. DOMAIN e = Elements(news)
    OBVIOUS
  <2> HIDE DEF e
  <2>3. Covered(e, news)
    BY <1>2, <2>2 DEF Covered
  <2>4. [d |-> e, exc |-> NoExc].d = e /\ [d |-> e, exc |-> NoExc].exc = NoExc
    OBVIOUS
  <2> QED
    BY <2>1, <2>3, <2>4
<1>4. CASE DOMAIN d # {}
  <2>1. olds # <<>> /\ Len(news) = Len(olds) /\ Elements(olds) \subseteq DOMAIN d
    BY <1>4 DEF Covered
  <2>2. news # <<>>
    <3>1. Len(olds) # 0
      BY <2>1
    <3> QED
      BY <2>1, <3>1
  <2>3. Missing(d, olds, news) = {}
    BY <2>1 DEF Missing, Elements
  <2>4. Relabel(d, olds, news, default) = [d |-> CopyEntries(d, olds, news), exc |-> NoExc]
    BY <1>4, <2>1, <2>3 DEF Relabel
  <2>5. DOMAIN CopyEntries(d, olds, news) = DOMAIN d \cup {news[k] : k \in DOMAIN olds}
    <3>1. {k \in DOMAIN olds : \A m \in Missing(d, olds, news) : k < m} = DOMAIN olds
      BY <2>3
    <3> QED
      BY <3>1 DEF CopyEntries
  <2>6. Elements(news) = {news[k] : k \in DOMAIN olds}
    BY <1>1, <2>1 DEF Elements
  <2> QED
    BY <2>2, <2>4, <2>5, <2>6 DEF Covered
<1> QED
  BY <1>3, <1>4

ColumnNames == Texts \cup {FieldN[k] : k \in Nat}

Sound(r, width) ==
    /\ r.exc = NoExc /\ {"names", "rows"} \subseteq DOMAIN r.t
    /\ r.t.names \in Seq(ColumnNames) /\ (r.t.names # <<>> => Len(r.t.names) = width)
    /\ r.t.rows \in Seq(Seq(Texts)) /\ (r.t.rows # <<>> => Len(r.t.rows[1]) = width)
    /\ Covered(r.l.align, r.t.names) /\ Covered(r.l.valign, r.t.names)

LEMMA NamesFit ==
  ASSUME NEW width \in Nat, NEW r, Sound(r, width),
         NEW u \in Seq(ColumnNames), Len(u) = width, Unique(u)
  PROVE  LET new == _set_field_names(r.t, r.l, u)
         IN Sound(new, width) /\ new.t.names = u /\ new.t.rows = r.t.rows
<1> DEFINE align == Relabel(r.l.align, r.t.names, u, "c")
           valign == Relabel(r.l.valign, r.t.names, u, "t")
           named == [r.t EXCEPT !.names = u]
           new == Result(named, [align |-> align.d, valign |-> valign.d], valign.exc)
<1>1. ValidFieldNames(r.t, u)
  BY DEF ValidFieldNames, Sound
<1>2. r.t.names # <<>> => Len(u) = Len(r.t.names)
  BY DEF Sound
<1>3. align.exc = NoExc /\ Covered(align.d, u) /\ valign.exc = NoExc /\ Covered(valign.d, u)
  <2>1. r.t.names \in Seq(ColumnNames) /\ Covered(r.l.align, r.t.names)
        /\ Covered(r.l.valign, r.t.names)
    BY DEF Sound
  <2> QED
    BY <1>2, <2>1, RelabelCovers
<1>4. /\ {"names", "rows"} \subseteq DOMAIN named /\ named.names = u
      /\ named.rows = r.t.rows
  BY DEF Sound
<1>5. _set_field_names(r.t, r.l, u) = new
  <2> HIDE DEF named
  <2> QED
    BY <1>1, <1>3 DEF _set_field_names, named
<1>6. /\ new.exc = valign.exc /\ new.t = named
      /\ new.l.align = align.d /\ new.l.valign = valign.d
  <2> HIDE DEF align, valign, named
  <2> QED
    BY DEF Result
<1> HIDE DEF new, align, valign, named
<1>7. Sound(new, width)
  BY <1>3, <1>4, <1>6 DEF Sound
<1> QED
  BY <1>4, <1>5, <1>6, <1>7

LEMMA RowFits ==
  ASSUME NEW width \in Nat, NEW r, Sound(r, width),
         \A j, k \in 1..width : FieldN[j] = FieldN[k] => j = k,
         NEW row \in Seq(Texts), Len(row) = width
  PROVE  Sound(add_row(r.t, r.l, row), width)
<1> DEFINE u == [k \in 1..Len(row) |-> FieldN[k]]
           named == _set_field_names(r.t, r.l, u)
           appended(v) == [v EXCEPT !.rows = Append(@, row)]
<1>1. \A v : {"names", "rows"} \subseteq DOMAIN v =>
         /\ {"names", "rows"} \subseteq DOMAIN appended(v) /\ appended(v).names = v.names
         /\ appended(v).rows = Append(v.rows, row)
  OBVIOUS
<1>2. \A s \in Seq(Seq(Texts)) : (s # <<>> => Len(s[1]) = width) =>
         /\ Append(s, row) \in Seq(Seq(Texts)) /\ Len(Append(s, row)[1]) = width
  <2> SUFFICES ASSUME NEW s \in Seq(Seq(Texts)), s # <<>> => Len(s[1]) = width
               PROVE  Append(s, row) \in Seq(Seq(Texts)) /\ Len(Append(s, row)[1]) = width
    OBVIOUS
  <2>1. CASE s = <<>>
    BY <2>1
  <2>2. CASE s # <<>>
    <3>1. 1 \in 1..Len(s)
      BY <2>2
    <3>2. Append(s, row)[1] = s[1]
      BY <3>1
    <3> QED
      BY <2>2, <3>2
  <2> QED
    BY <2>1, <2>2
<1>3. add_row(r.t, r.l, row) =
        IF r.t.names # <<>> /\ Len(row) # Len(r.t.names) THEN Raise(r.t, r.l, "Exception")
        ELSE IF r.t.names # <<>> THEN Return(appended(r.t), r.l)
        ELSE IF named.exc # NoExc THEN named
        ELSE Return(appended(named.t), named.l)
  BY DEF add_row
<1>4. \A t, l : Sound(Result(t, l, NoExc), width) => Sound(Return(appended(t), l), width)
  <2> SUFFICES ASSUME NEW t, NEW l, Sound(Result(t, l, NoExc), width)
               PROVE  Sound(Return(appended(t), l), width)
    OBVIOUS
  <2>1. /\ Result(t, l, NoExc).t = t /\ Result(t, l, NoExc).l = l
        /\ Return(appended(t), l).t = appended(t) /\ Return(appended(t), l).l = l
        /\ Return(appended(t), l).exc = NoExc
    BY DEF Return, Result
  <2>2. /\ {"names", "rows"} \subseteq DOMAIN t
        /\ t.names \in Seq(ColumnNames) /\ (t.names # <<>> => Len(t.names) = width)
        /\ t.rows \in Seq(Seq(Texts)) /\ (t.rows # <<>> => Len(t.rows[1]) = width)
        /\ Covered(l.align, t.names) /\ Covered(l.valign, t.names)
    BY <2>1 DEF Sound
  <2>3. /\ {"names", "rows"} \subseteq DOMAIN appended(t) /\ appended(t).names = t.names
        /\ appended(t).rows = Append(t.rows, row)
    BY <1>1, <2>2
  <2> HIDE DEF appended
  <2> QED
    BY <1>2, <2>1, <2>2, <2>3 DEF Sound
<1>5. CASE r.t.names # <<>>
  <2>1. Len(r.t.names) = width
    BY <1>5 DEF Sound
  <2>2. Sound(Result(r.t, r.l, NoExc), width)
    <3>1. Result(r.t, r.l, NoExc).t = r.t /\ Result(r.t, r.l, NoExc).l = r.l
          /\ Result(r.t, r.l, NoExc).exc = NoExc
      BY DEF Result
    <3> QED
      BY <3>1 DEF Sound
  <2> HIDE DEF appended
  <2> QED
    BY <1>3, <1>4, <1>5, <2>1, <2>2
<1>6. CASE r.t.names = <<>>
  <2>1. u \in Seq(ColumnNames) /\ Len(u) = width /\ Unique(u)
    <3>1. \A k \in 1..width : FieldN[k] \in ColumnNames
      BY DEF ColumnNames
    <3>2. u \in Seq(ColumnNames)
      BY <3>1
    <3>3. Len(u) = width /\ DOMAIN u = 1..width /\ \A k \in 1..width : u[k] = FieldN[k]
      OBVIOUS
    <3> HIDE DEF u
    <3>4. Unique(u)
      BY <3>3 DEF Unique
    <3> QED
      BY <3>2, <3>3, <3>4
  <2> HIDE DEF u
  <2>2. Sound(named, width)
    BY <2>1, NamesFit
  <2> HIDE DEF named, appended
  <2>3. named.exc = NoExc
    BY <2>2 DEF Sound
  <2>4. Sound(Result(named.t, named.l, NoExc), width)
    <3>1. /\ Result(named.t, named.l, NoExc).t = named.t
          /\ Result(named.t, named.l, NoExc).l = named.l
          /\ Result(named.t, named.l, NoExc).exc = NoExc
      BY DEF Result
    <3> QED
      BY <2>2, <3>1 DEF Sound
  <2> QED
    BY <1>3, <1>4, <1>6, <2>3, <2>4
<1> QED
  BY <1>5, <1>6

LEMMA NeverFails ==
  ASSUME NEW written \in Seq(ReadRows), NEW width \in Nat,
         \A j \in DOMAIN written :
            /\ Len(written[j].cells) = width
            /\ written[j].header => Unique(make_fields_unique(written[j].cells)),
         written # <<>> => \A j, k \in 1..width : FieldN[j] = FieldN[k] => j = k
  PROVE  generate_table(written, width).exc = NoExc
<1> DEFINE n == Len(written)
<1>1. PICK f : /\ f[0] = Return(Blank, NoLook)
               /\ \A k \in 1..n : f[k] = IF f[k - 1].exc # NoExc THEN f[k - 1]
                                         ELSE AddWritten(f[k - 1], written[k], width)
               /\ generate_table(written, width) = f[n]
  BY GeneratedIsLast
<1>2. n \in Nat /\ DOMAIN written = 1..n
  OBVIOUS
<1>3. Sound(f[0], width)
  <2>1. /\ f[0].exc = NoExc /\ {"names", "rows"} \subseteq DOMAIN f[0].t
        /\ f[0].t.rows = <<>> /\ f[0].t.names = <<>>
        /\ f[0].l.align = EmptyDict /\ f[0].l.valign = EmptyDict
    BY <1>1 DEF Return, Result, Blank, NoLook
  <2>2. Covered(EmptyDict, <<>>)
    BY DEF Covered, Elements, EmptyDict
  <2> QED
    BY <2>1, <2>2 DEF Sound
<1>4. ASSUME NEW k \in 1..n, Sound(f[k - 1], width)
      PROVE  Sound(f[k], width)
  <2> DEFINE r == f[k - 1]
             cells == written[k].cells
  <2>1. r.exc = NoExc
    BY <1>4 DEF Sound
  <2>2. f[k] = AddWritten(r, written[k], width)
    BY <1>1, <2>1
  <2>3. cells \in Seq(Texts) /\ Len(cells) = width
    <3>1. written[k] \in ReadRows
      OBVIOUS
    <3> QED
      BY <1>2, <3>1 DEF ReadRows
  <2>4. Filled(cells, width) = cells
    BY <2>3, FilledRow
  <2>5. written # <<>>
    BY <1>2
  <2> HIDE DEF r, cells
  <2>6. CASE written[k].header
    <3> DEFINE u == make_fields_unique(cells)
    <3>1. u \in Seq(Texts) /\ Unique(u) /\ Len(u) = width
      BY <1>2, <2>3, <2>6, UniqueType DEF cells
    <3>2. u \in Seq(ColumnNames)
      <4>1. Texts \subseteq ColumnNames
        BY DEF ColumnNames
      <4> HIDE DEF u
      <4> QED
        BY <3>1, <4>1
    <3>3. f[k] = _set_field_names(r.t, r.l, u)
      BY <2>2, <2>4, <2>6 DEF AddWritten, cells
    <3> HIDE DEF u
    <3>4. Sound(_set_field_names(r.t, r.l, u), width)
      BY <1>4, <3>1, <3>2, NamesFit DEF r
    <3> QED
      BY <3>3, <3>4
  <2>7. CASE ~written[k].header
    <3>1. f[k] = add_row(r.t, r.l, cells)
      BY <2>2, <2>4, <2>7 DEF AddWritten, cells
    <3>2. Sound(add_row(r.t, r.l, cells), width)
      BY <1>4, <2>3, <2>5, RowFits DEF r
    <3> QED
      BY <3>1, <3>2
  <2> QED
    BY <2>6, <2>7
<1> HIDE DEF n
<1>5. CASE n = 0
  BY <1>1, <1>3, <1>5 DEF n, Sound
<1>6. CASE n # 0
  <2> DEFINE S == {k \in 1..n : Sound(f[k], width)}
  <2>1. n \in 1..n /\ 1 \in 1..n /\ 1 - 1 = 0
    BY <1>2, <1>6
  <2>2. 1 \in S
    BY <1>3, <1>4, <2>1
  <2>3. ASSUME NEW m \in 2..n, m - 1 \in S PROVE m \in S
    <3>1. m \in 1..n
      BY <1>2
    <3> QED
      BY <1>4, <2>3, <3>1
  <2> HIDE DEF S
  <2>4. n \in S
    BY <1>2, <2>1, <2>2, <2>3, UpTo
  <2> QED
    BY <1>1, <2>4 DEF S, Sound, n
<1> QED
  BY <1>5, <1>6
-----------------------------------------------------------------------------
(* What is read of the cells and rows of a page.                           *)
CellsUpTo(p, k, j, c) == [i \in 1..c |-> ReadCell(Cell(p, k, j, i), p.xhtml, p.py3k)]
RowRead(p, k, j) ==
    [cells |-> CellsUpTo(p, k, j, Len(Row(p, k, j).cells)), header |-> IsHeader(Row(p, k, j))]
RowsRead(p, k, j) == [i \in 1..j |-> RowRead(p, k, i)]

(* What the handler hears of a cell, and what it holds of it after n of    *)
(* these lines and the break that follows them.                            *)
HeardCell(lines, py3k) == [n \in DOMAIN lines |-> Heard(lines[n], py3k)]
Kept(lines, xhtml, n) == IF xhtml THEN <<>> ELSE FlattenSeq(SubSeq(lines, 1, n))

LEMMA HeardType ==
  ASSUME NEW txt \in Texts, NEW py3k \in BOOLEAN
  PROVE  Heard(txt, py3k) \in Texts
<1> DEFINE parts == [k \in DOMAIN txt |-> IF txt[k] \in Special THEN <<>> ELSE <<txt[k]>>]
<1>1. txt \in Seq(Words) /\ Len(txt) \in Nat /\ DOMAIN txt = 1..Len(txt)
  BY DEF Texts
<1>2. \A k \in 1..Len(txt) : (IF txt[k] \in Special THEN <<>> ELSE <<txt[k]>>) \in Seq(Words)
  BY <1>1
<1>3. parts \in Seq(Seq(Words))
  BY <1>1, <1>2, IsASeq
<1> HIDE DEF parts
<1>4. FlattenSeq(parts) \in Seq(Words)
  BY <1>3, FlattenType
<1> QED
  BY <1>4 DEF Heard, parts, Texts

LEMMA BlankHeard ==
  ASSUME NEW py3k \in BOOLEAN
  PROVE  Heard(<<Space>>, py3k) = <<Space>>
<1>1. CASE py3k
  BY <1>1 DEF Heard
<1>2. CASE ~py3k
  <2> DEFINE s == <<(<<Space>>)>>
  <2>1. Space \notin Special
    BY DEF Special, Space
  <2>2. [k \in DOMAIN <<Space>> |-> IF <<Space>>[k] \in Special THEN <<>> ELSE <<(<<Space>>[k])>>]
          = s
    <3>1. DOMAIN <<Space>> = 1..1 /\ \A k \in 1..1 : k = 1
      OBVIOUS
    <3>2. <<Space>>[1] = Space
      OBVIOUS
    <3> HIDE DEF Space
    <3>3. s = [k \in 1..1 |-> <<Space>>]
      OBVIOUS
    <3> QED
      BY <2>1, <3>1, <3>2, <3>3
  <2>3. s \in Seq(Seq(Words)) /\ s # <<>> /\ s[1] = <<Space>> /\ Tail(s) = <<>>
    BY WordsAssumption
  <2>4. Heard(<<Space>>, py3k) = FlattenSeq(s)
    BY <1>2, <2>2 DEF Heard
  <2> HIDE DEF s
  <2>5. FlattenSeq(s) = s[1] \o FlattenSeq(Tail(s))
    BY <2>3, FlattenFirst
  <2>6. FlattenSeq(<<>>) = <<>>
    BY DEF FlattenSeq
  <2>7. <<Space>> \o <<>> = <<Space>>
    BY ConcatEmptySeq, WordsAssumption
  <2> QED
    BY <2>3, <2>4, <2>5, <2>6, <2>7
<1> QED
  BY <1>1, <1>2

LEMMA HeardLines ==
  ASSUME NEW lines \in WrittenCells, NEW py3k \in BOOLEAN
  PROVE  /\ HeardCell(lines, py3k) \in WrittenCells
         /\ Len(HeardCell(lines, py3k)) = Len(lines) /\ Len(lines) \in Nat
         /\ \A n \in 1..Len(lines) :
               lines[n] \in Texts /\ HeardCell(lines, py3k)[n] = Heard(lines[n], py3k)
<1> DEFINE heard == HeardCell(lines, py3k)
<1>1. lines \in Seq(Texts) /\ lines # <<>> /\ Len(lines) \in Nat /\ DOMAIN lines = 1..Len(lines)
  BY DEF WrittenCells
<1>2. heard = [n \in 1..Len(lines) |-> Heard(lines[n], py3k)]
  BY <1>1 DEF HeardCell
<1>3. \A n \in 1..Len(lines) : lines[n] \in Texts /\ Heard(lines[n], py3k) \in Texts
  BY <1>1, HeardType
<1> HIDE DEF heard
<1>4. heard \in Seq(Texts)
  BY <1>1, <1>2, <1>3, IsASeq
<1>5. Len(heard) = Len(lines)
  BY <1>1, <1>2, <1>4
<1>6. heard # <<>>
  BY <1>1, <1>4, <1>5
<1>7. heard \in WrittenCells
  BY <1>4, <1>6 DEF WrittenCells
<1> QED
  BY <1>1, <1>2, <1>3, <1>5, <1>7 DEF heard

LEMMA KeptLines ==
  ASSUME NEW lines \in WrittenCells, NEW xhtml \in BOOLEAN
  PROVE  /\ Kept(lines, xhtml, 0) = <<>>
         /\ \A n \in 1..Len(lines) :
               /\ lines[n] \in Texts /\ Kept(lines, xhtml, n - 1) \in Texts
               /\ Kept(lines, xhtml, n - 1) \o lines[n] \in Texts
               /\ ~xhtml => Kept(lines, xhtml, n) = Kept(lines, xhtml, n - 1) \o lines[n]
         /\ LeftOf(lines, xhtml) = Kept(lines, xhtml, Len(lines) - 1) \o lines[Len(lines)]
         /\ LeftOf(lines, xhtml) \in Texts
         /\ Len(lines) \in 1..Len(lines) /\ 1 \in 1..Len(lines)
<1>1. lines \in Seq(Seq(Words)) /\ Len(lines) \in Nat /\ lines # <<>>
  BY DEF WrittenCells, Texts
<1>2. Len(lines) \in 1..Len(lines) /\ 1 \in 1..Len(lines)
  <2>1. Len(lines) # 0
    BY <1>1
  <2> QED
    BY <1>1, <2>1
<1>3. Kept(lines, xhtml, 0) = <<>>
  <2>1. SubSeq(lines, 1, 0) = <<>>
    BY <1>1
  <2> QED
    BY <2>1 DEF Kept, FlattenSeq
<1>4. \A n \in 1..Len(lines) : FlattenSeq(SubSeq(lines, 1, n - 1)) \in Seq(Words)
  <2> SUFFICES ASSUME NEW n \in 1..Len(lines)
               PROVE  FlattenSeq(SubSeq(lines, 1, n - 1)) \in Seq(Words)
    OBVIOUS
  <2>1. SubSeq(lines, 1, n - 1) \in Seq(Seq(Words))
    BY <1>1
  <2> QED
    BY <2>1, FlattenType
<1>5. \A n \in 1..Len(lines) : lines[n] \in Texts /\ Kept(lines, xhtml, n - 1) \in Texts
  <2>1. <<>> \in Seq(Words)
    OBVIOUS
  <2> QED
    BY <1>1, <1>4, <2>1 DEF Kept, Texts
<1>6. \A n \in 1..Len(lines) : Kept(lines, xhtml, n - 1) \o lines[n] \in Texts
  BY <1>5, ConcatProperties DEF Texts
<1>7. ASSUME NEW n \in 1..Len(lines), ~xhtml
      PROVE  Kept(lines, xhtml, n) = Kept(lines, xhtml, n - 1) \o lines[n]
  BY <1>1, <1>7, FlattenLast DEF Kept
<1>8. LeftOf(lines, xhtml) = Kept(lines, xhtml, Len(lines) - 1) \o lines[Len(lines)]
  <2>1. CASE xhtml
    <3>1. <<>> \o lines[Len(lines)] = lines[Len(lines)]
      BY <1>2, <1>5, ConcatEmptySeq DEF Texts
    <3> QED
      BY <2>1, <3>1 DEF LeftOf, Kept
  <2>2. CASE ~xhtml
    <3>1. Kept(lines, xhtml, Len(lines)) = FlattenSeq(lines)
      <4>1. SubSeq(lines, 1, Len(lines)) = lines
        BY <1>1, SubSeqFull
      <4> QED
        BY <2>2, <4>1 DEF Kept
    <3>2. Kept(lines, xhtml, Len(lines))
            = Kept(lines, xhtml, Len(lines) - 1) \o lines[Len(lines)]
      BY <1>2, <1>7, <2>2
    <3> QED
      BY <2>2, <3>1, <3>2 DEF LeftOf
  <2> QED
    BY <2>1, <2>2
<1>9. LeftOf(lines, xhtml) \in Texts
  BY <1>2, <1>6, <1>8
<1> QED
  BY <1>2, <1>3, <1>5, <1>6, <1>7, <1>8, <1>9

(* The same of a cell as it was written.                                   *)
LEMMA CellIsRead ==
  ASSUME NEW lines \in WrittenCells, NEW xhtml \in BOOLEAN, NEW py3k \in BOOLEAN
  PROVE  LET heard == HeardCell(lines, py3k)
         IN /\ Len(heard) = Len(lines) /\ Len(lines) \in Nat
            /\ Kept(heard, xhtml, 0) = <<>>
            /\ \A n \in 1..Len(lines) :
                  /\ lines[n] \in Texts /\ heard[n] = Heard(lines[n], py3k)
                  /\ heard[n] \in Texts /\ Kept(heard, xhtml, n - 1) \in Texts
                  /\ Kept(heard, xhtml, n - 1) \o heard[n] \in Texts
                  /\ ~xhtml => Kept(heard, xhtml, n) = Kept(heard, xhtml, n - 1) \o heard[n]
            /\ ReadCell(lines, xhtml, py3k)
                  = Strip(Kept(heard, xhtml, Len(lines) - 1) \o heard[Len(lines)])
            /\ ReadCell(lines, xhtml, py3k) \in Texts
            /\ Len(lines) \in 1..Len(lines) /\ 1 \in 1..Len(lines)
<1> DEFINE heard == HeardCell(lines, py3k)
<1>1. /\ heard \in WrittenCells /\ Len(heard) = Len(lines) /\ Len(lines) \in Nat
      /\ \A n \in 1..Len(lines) : lines[n] \in Texts /\ heard[n] = Heard(lines[n], py3k)
  BY HeardLines
<1>2. ReadCell(lines, xhtml, py3k) = Strip(LeftOf(heard, xhtml))
  BY DEF ReadCell, HeardCell
<1> HIDE DEF heard
<1>3. /\ Kept(heard, xhtml, 0) = <<>>
      /\ \A n \in 1..Len(heard) :
            /\ heard[n] \in Texts /\ Kept(heard, xhtml, n - 1) \in Texts
            /\ Kept(heard, xhtml, n - 1) \o heard[n] \in Texts
            /\ ~xhtml => Kept(heard, xhtml, n) = Kept(heard, xhtml, n - 1) \o heard[n]
      /\ LeftOf(heard, xhtml) = Kept(heard, xhtml, Len(heard) - 1) \o heard[Len(heard)]
      /\ LeftOf(heard, xhtml) \in Texts
      /\ Len(heard) \in 1..Len(heard) /\ 1 \in 1..Len(heard)
  BY <1>1, KeptLines
<1>4. ReadCell(lines, xhtml, py3k) \in Texts
  BY <1>2, <1>3, StripType
<1> QED
  BY <1>1, <1>2, <1>3, <1>4 DEF heard

LEMMA RowPlaces ==
  ASSUME NEW p \in Pages, NEW k \in 1..Len(p.tables)
  PROVE  /\ DOMAIN p.tables[k] = 1..Len(p.tables[k]) /\ Len(p.tables[k]) \in Nat
         /\ Len(p.tables) \in Nat /\ DOMAIN p.tables = 1..Len(p.tables)
         /\ p.xhtml \in BOOLEAN /\ p.py3k \in BOOLEAN
         /\ \A j \in 1..Len(p.tables[k]) :
               /\ Row(p, k, j).tag \in Tags /\ Row(p, k, j).tag \in {"th", "td"}
               /\ Len(Row(p, k, j).cells) \in Nat
               /\ DOMAIN Row(p, k, j).cells = 1..Len(Row(p, k, j).cells)
               /\ Row(p, k, j).cells # <<>> <=> Len(Row(p, k, j).cells) # 0
               /\ \A c \in 1..Len(Row(p, k, j).cells) : Cell(p, k, j, c) \in WrittenCells
<1>1. /\ p.tables[k] \in Seq(WrittenRows) /\ DOMAIN p.tables = 1..Len(p.tables)
      /\ p.xhtml \in BOOLEAN /\ p.py3k \in BOOLEAN /\ p.tables \in Seq(Seq(WrittenRows))
  BY PageTypes, TablesMarkupType
<1>2. /\ DOMAIN p.tables[k] = 1..Len(p.tables[k]) /\ Len(p.tables[k]) \in Nat
      /\ Len(p.tables) \in Nat
  BY <1>1
<1>3. ASSUME NEW j \in 1..Len(p.tables[k])
      PROVE  /\ Row(p, k, j).tag \in Tags /\ Row(p, k, j).tag \in {"th", "td"}
             /\ Len(Row(p, k, j).cells) \in Nat
             /\ DOMAIN Row(p, k, j).cells = 1..Len(Row(p, k, j).cells)
             /\ Row(p, k, j).cells # <<>> <=> Len(Row(p, k, j).cells) # 0
             /\ \A c \in 1..Len(Row(p, k, j).cells) : Cell(p, k, j, c) \in WrittenCells
  <2>1. /\ Row(p, k, j) \in WrittenRows /\ Row(p, k, j).tag \in Tags
        /\ Row(p, k, j).cells \in Seq(WrittenCells)
        /\ \A c \in DOMAIN Row(p, k, j).cells : Cell(p, k, j, c) \in WrittenCells
    BY <1>1, <1>2, PageTypes
  <2>2. Row(p, k, j).tag \in {"th", "td"}
    BY <2>1 DEF WrittenRows
  <2>3. /\ Len(Row(p, k, j).cells) \in Nat
        /\ DOMAIN Row(p, k, j).cells = 1..Len(Row(p, k, j).cells)
        /\ Row(p, k, j).cells # <<>> <=> Len(Row(p, k, j).cells) # 0
    BY <2>1
  <2> QED
    BY <2>1, <2>2, <2>3
<1> QED
  BY <1>1, <1>2, <1>3

LEMMA RowsAreRead ==
  ASSUME NEW p \in Pages, NEW k \in 1..Len(p.tables), NEW j \in 0..Len(p.tables[k])
  PROVE  /\ RowsRead(p, k, j) \in Seq(ReadRows) /\ Len(RowsRead(p, k, j)) = j
         /\ \A i \in 1..j :
               /\ RowsRead(p, k, j)[i] = RowRead(p, k, i)
               /\ RowsRead(p, k, j)[i].header = IsHeader(Row(p, k, i))
               /\ RowsRead(p, k, j)[i].cells
                    = [c \in DOMAIN Row(p, k, i).cells |->
                         ReadCell(Row(p, k, i).cells[c], p.xhtml, p.py3k)]
               /\ Len(RowsRead(p, k, j)[i].cells) = Len(Row(p, k, i).cells)
               /\ RowsRead(p, k, j)[i].cells \in Seq(Texts)
<1>1. ASSUME NEW i \in 1..j
      PROVE  /\ RowRead(p, k, i) \in ReadRows
             /\ RowRead(p, k, i).header = IsHeader(Row(p, k, i))
             /\ RowRead(p, k, i).cells
                  = [c \in DOMAIN Row(p, k, i).cells |->
                       ReadCell(Row(p, k, i).cells[c], p.xhtml, p.py3k)]
             /\ Len(RowRead(p, k, i).cells) = Len(Row(p, k, i).cells)
             /\ RowRead(p, k, i).cells \in Seq(Texts)
  <2> DEFINE n == Len(Row(p, k, i).cells)
             cells == CellsUpTo(p, k, i, n)
  <2>1. i \in 1..Len(p.tables[k])
    BY RowPlaces
  <2>2. /\ n \in Nat /\ DOMAIN Row(p, k, i).cells = 1..n
        /\ p.xhtml \in BOOLEAN /\ p.py3k \in BOOLEAN
        /\ \A c \in 1..n : Cell(p, k, i, c) \in WrittenCells
    BY <2>1, RowPlaces
  <2>3. \A c \in 1..n : ReadCell(Cell(p, k, i, c), p.xhtml, p.py3k) \in Texts
    BY <2>2, CellIsRead
  <2> HIDE DEF n
  <2>4. cells \in Seq(Texts) /\ Len(cells) = n
    BY <2>2, <2>3, IsASeq DEF CellsUpTo
  <2>5. cells = [c \in DOMAIN Row(p, k, i).cells |->
                   ReadCell(Row(p, k, i).cells[c], p.xhtml, p.py3k)]
    BY <2>2 DEF CellsUpTo, Cell
  <2>6. IsHeader(Row(p, k, i)) \in BOOLEAN
    BY DEF IsHeader
  <2> HIDE DEF cells
  <2>7. RowRead(p, k, i) = [cells |-> cells, header |-> IsHeader(Row(p, k, i))]
    BY DEF RowRead, cells, n
  <2>8. RowRead(p, k, i) \in ReadRows
    BY <2>4, <2>6, <2>7 DEF ReadRows
  <2>9. RowRead(p, k, i).cells = cells /\ RowRead(p, k, i).header = IsHeader(Row(p, k, i))
    BY <2>7
  <2> QED
    BY <2>4, <2>5, <2>8, <2>9 DEF n
<1>2. j \in Nat
  BY RowPlaces
<1>3. RowsRead(p, k, j) \in Seq(ReadRows) /\ Len(RowsRead(p, k, j)) = j
  <2> DEFINE s == RowsRead(p, k, j)
  <2>1. s = [i \in 1..j |-> RowRead(p, k, i)]
    BY DEF RowsRead
  <2>2. \A i \in 1..j : RowRead(p, k, i) \in ReadRows
    BY <1>1
  <2> HIDE DEF s
  <2>3. s \in Seq(ReadRows)
    BY <1>2, <2>1, <2>2, IsASeq
  <2>4. Len(s) = j
    BY <1>2, <2>1, <2>3
  <2> QED
    BY <2>3, <2>4 DEF s
<1>4. \A i \in 1..j : RowsRead(p, k, j)[i] = RowRead(p, k, i)
  BY DEF RowsRead
<1> QED
  BY <1>1, <1>3, <1>4

LEMMA OneMoreRead ==
  ASSUME NEW p \in Pages, NEW k \in 1..Len(p.tables), NEW j \in 1..Len(p.tables[k])
  PROVE  /\ Append(RowsRead(p, k, j - 1), RowRead(p, k, j)) = RowsRead(p, k, j)
         /\ \A c \in 1..Len(Row(p, k, j).cells) :
               Append(CellsUpTo(p, k, j, c - 1), ReadCell(Cell(p, k, j, c), p.xhtml, p.py3k))
                 = CellsUpTo(p, k, j, c)
<1>1. ASSUME NEW f, NEW n \in Nat \ {0}
      PROVE  Append([i \in 1 .. n - 1 |-> f[i]], f[n]) = [i \in 1..n |-> f[i]]
  <2> DEFINE L == {f[i] : i \in 1..n}
             s == [i \in 1 .. n - 1 |-> f[i]]
             t == [i \in 1..n |-> f[i]]
  <2>1. n \in 1..n /\ \A i \in 1 .. n - 1 : i \in 1..n /\ n - 1 \in Nat
    OBVIOUS
  <2>2. s \in Seq(L) /\ Len(s) = n - 1 /\ \A i \in 1 .. n - 1 : s[i] = f[i]
    BY <2>1, IsASeq
  <2>3. t \in Seq(L) /\ Len(t) = n /\ \A i \in 1..n : t[i] = f[i]
    BY <2>1, IsASeq
  <2>4. f[n] \in L
    BY <2>1
  <2> HIDE DEF s, t, L
  <2>5. Append(s, f[n]) \in Seq(L) /\ Len(Append(s, f[n])) = n
        /\ Append(s, f[n])[n] = f[n] /\ \A i \in 1 .. n - 1 : Append(s, f[n])[i] = s[i]
    BY <2>1, <2>2, <2>4
  <2>6. \A i \in 1..n : i = n \/ i \in 1 .. n - 1
    OBVIOUS
  <2>7. \A i \in 1..n : Append(s, f[n])[i] = t[i]
    BY <2>2, <2>3, <2>5, <2>6
  <2>8. Append(s, f[n]) = t
    BY <2>3, <2>5, <2>7, SeqEqual
  <2> QED
    BY <2>8 DEF s, t
<1>2. Append(RowsRead(p, k, j - 1), RowRead(p, k, j)) = RowsRead(p, k, j)
  <2> DEFINE f == [i \in 1..j |-> RowRead(p, k, i)]
  <2>1. j \in Nat \ {0} /\ j \in 1..j /\ \A i \in 1 .. j - 1 : i \in 1..j
    BY RowPlaces
  <2>2. Append([i \in 1 .. j - 1 |-> f[i]], f[j]) = [i \in 1..j |-> f[i]]
    <3> HIDE DEF f
    <3> QED
      BY <1>1, <2>1
  <2> QED
    BY <2>1, <2>2 DEF RowsRead
<1>3. ASSUME NEW c \in 1..Len(Row(p, k, j).cells)
      PROVE  Append(CellsUpTo(p, k, j, c - 1), ReadCell(Cell(p, k, j, c), p.xhtml, p.py3k))
               = CellsUpTo(p, k, j, c)
  <2> DEFINE f == [i \in 1..c |-> ReadCell(Cell(p, k, j, i), p.xhtml, p.py3k)]
  <2>1. c \in Nat \ {0} /\ c \in 1..c /\ \A i \in 1 .. c - 1 : i \in 1..c
    BY RowPlaces
  <2>2. Append([i \in 1 .. c - 1 |-> f[i]], f[c]) = [i \in 1..c |-> f[i]]
    <3> HIDE DEF f
    <3> QED
      BY <1>1, <2>1
  <2> QED
    BY <2>1, <2>2 DEF CellsUpTo
<1> QED
  BY <1>2, <1>3
-----------------------------------------------------------------------------
(* The width of the widest row down to row j of table k.                   *)
Above(m, i, k, j) == m < k \/ (m = k /\ i <= j)
Widest(p, w, k, j) ==
    /\ w \in Nat
    /\ \A m \in 1..Len(p.tables) : \A i \in 1..Len(p.tables[m]) :
          Above(m, i, k, j) => Columns(Row(p, m, i)) <= w
    /\ w = 0 \/ \E m \in 1..Len(p.tables) : \E i \in 1..Len(p.tables[m]) :
                   Above(m, i, k, j) /\ Columns(Row(p, m, i)) = w

LEMMA WidestAtFirst ==
  ASSUME NEW p \in Pages
  PROVE  Widest(p, 0, 1, 0)
<1>1. \A m \in 1..Len(p.tables) : \A i \in 1..Len(p.tables[m]) : ~Above(m, i, 1, 0)
  BY DEF Above
<1> QED
  BY <1>1 DEF Widest

LEMMA WidestSoFar ==
  ASSUME NEW p \in Pages, NEW w, NEW k \in 1..Len(p.tables), NEW j \in 1..Len(p.tables[k]),
         Widest(p, w, k, j - 1)
  PROVE  Widest(p, Max({w, Columns(Row(p, k, j))}), k, j)
<1> DEFINE n == Columns(Row(p, k, j))
           v == Max({w, n})
           Has(m, i) == m \in 1..Len(p.tables) /\ i \in 1..Len(p.tables[m])
           width(m, i) == Columns(Row(p, m, i))
<1>1. w \in Nat /\ n \in Nat /\ k \in Nat /\ j \in Nat /\ Has(k, j)
  BY RowPlaces DEF Widest, Columns
<1>2. v = IF w >= n THEN w ELSE n
  BY <1>1, PairMax
<1>3. \A m, i : Has(m, i) => m \in Nat /\ i \in Nat /\ width(m, i) \in Nat
  BY RowPlaces DEF Columns
<1>4. /\ \A m, i : Has(m, i) /\ Above(m, i, k, j - 1) => width(m, i) <= w
      /\ w = 0 \/ \E m, i : Has(m, i) /\ Above(m, i, k, j - 1) /\ width(m, i) = w
  BY DEF Widest
<1>5. \A m, i : Has(m, i) =>
         (Above(m, i, k, j) <=> Above(m, i, k, j - 1) \/ (m = k /\ i = j))
  <2> HIDE DEF Has
  <2> QED
    BY <1>1, <1>3 DEF Above
<1>6. v \in Nat /\ w <= v /\ n <= v /\ (v = w \/ v = n)
  BY <1>1, <1>2
<1>7. width(k, j) = n
  OBVIOUS
<1> HIDE DEF v, n, Has, width
<1>8. \A m, i : Has(m, i) /\ Above(m, i, k, j) => width(m, i) <= v
  <2> SUFFICES ASSUME NEW m, NEW i, Has(m, i), Above(m, i, k, j) PROVE width(m, i) <= v
    OBVIOUS
  <2>1. width(m, i) <= w \/ width(m, i) = n
    BY <1>4, <1>5, <1>7
  <2> QED
    BY <1>1, <1>3, <1>6, <2>1
<1>9. v = 0 \/ \E m, i : Has(m, i) /\ Above(m, i, k, j) /\ width(m, i) = v
  <2>1. CASE v = n
    BY <1>1, <1>5, <1>7, <2>1
  <2>2. CASE v = w
    BY <1>4, <1>5, <2>2
  <2> QED
    BY <1>6, <2>1, <2>2
<1> QED
  BY <1>6, <1>8, <1>9 DEF Widest, v, n, Has, width

LEMMA WidestOfTable ==
  ASSUME NEW p \in Pages, NEW w, NEW k \in 1..Len(p.tables),
         Widest(p, w, k, Len(p.tables[k]))
  PROVE  Widest(p, w, k + 1, 0)
<1>1. k \in Nat
  BY RowPlaces
<1>2. \A m \in 1..Len(p.tables) : \A i \in 1..Len(p.tables[m]) :
         Above(m, i, k + 1, 0) <=> Above(m, i, k, Len(p.tables[k]))
  <2> SUFFICES ASSUME NEW m \in 1..Len(p.tables), NEW i \in 1..Len(p.tables[m])
               PROVE  Above(m, i, k + 1, 0) <=> Above(m, i, k, Len(p.tables[k]))
    OBVIOUS
  <2>1. m \in Nat /\ i \in Nat /\ i >= 1 /\ Len(p.tables[m]) \in Nat /\ i <= Len(p.tables[m])
    BY RowPlaces
  <2> QED
    BY <1>1, <2>1 DEF Above
<1> QED
  BY <1>2 DEF Widest

(* All rows of an even table are as wide as the widest.                    *)
LEMMA EvenWidth ==
  ASSUME page \in Pages, NEW w, NEW k \in 1..Len(page.tables),
         Widest(page, w, k, Len(page.tables[k])), Even(k),
         NEW i \in 1..Len(page.tables[k])
  PROVE  Columns(Row(page, k, i)) = w
<1> DEFINE n == Columns(Row(page, k, i))
<1>1. w \in Nat /\ n \in Nat /\ k \in Nat /\ Len(page.tables) \in Nat
  BY RowPlaces DEF Widest, Columns
<1>2. n <= w
  <2>1. i <= Len(page.tables[k])
    BY RowPlaces
  <2> QED
    BY <2>1 DEF Widest, Above
<1>3. \A m \in 1..k : \A h \in 1..Len(page.tables[m]) : n >= Columns(Row(page, m, h))
  <2> SUFFICES ASSUME NEW m \in 1..k, NEW h \in 1..Len(page.tables[m])
               PROVE  n >= Columns(Row(page, m, h))
    OBVIOUS
  <2>1. m \in 1..Len(page.tables)
    BY <1>1
  <2>2. DOMAIN page.tables[m] = 1..Len(page.tables[m])
        /\ DOMAIN page.tables[k] = 1..Len(page.tables[k])
    BY <2>1, RowPlaces
  <2>3. page.tables[k][i] \in Elements(page.tables[k])
        /\ page.tables[m][h] \in Elements(page.tables[m])
    BY <2>2 DEF Elements
  <2> QED
    BY <2>3 DEF Even, Row
<1>4. w = 0 \/ \E m \in 1..k : \E h \in 1..Len(page.tables[m]) : Columns(Row(page, m, h)) = w
  <2>1. \A m \in 1..Len(page.tables) : \A h : Above(m, h, k, Len(page.tables[k])) => m \in 1..k
    BY <1>1 DEF Above
  <2> QED
    BY <2>1 DEF Widest
<1> HIDE DEF n
<1>5. w <= n
  BY <1>1, <1>3, <1>4
<1> QED
  BY <1>1, <1>2, <1>5 DEF n

(* What is claimed of a table that was read is true of the one that        *)
(* generate_table makes of its rows, and with even rows and fields that    *)
(* can be made unique it makes one.                                        *)
Faithful(t, k) ==
    LET written == page.tables[k]
    IN /\ Len(t.rows) = Cardinality(DataRows(k))
       /\ \A j \in DataRows(k) :
             LET cells == ReadCells(written[j])
                 row == t.rows[Place(k, j)]
             IN IsPrefix(cells, row) /\ \A c \in Len(cells) + 1 .. Len(row) : row[c] = Dash
       /\ Even(k) =>
             /\ \A j \in DataRows(k) : t.rows[Place(k, j)] = ReadCells(written[j])
             /\ \A j \in HeaderRows(k) :
                   (\A i \in HeaderRows(k) : i <= j) /\ Unique(ReadCells(written[j]))
                       => t.names = ReadCells(written[j])

LEMMA FaithfulTables ==
  TablesComeBack <=> \A k \in DOMAIN tables : Faithful(tables[k], k)
<1>1. \A k : CellsAreKept(k) /\ (Even(k) => ComesBack(k)) <=> Faithful(tables[k], k)
  BY DEF Faithful, CellsAreKept, ComesBack
<1> QED
  BY <1>1 DEF TablesComeBack

LEMMA RowsOfPage ==
  ASSUME page \in Pages, NEW k \in 1..Len(page.tables), NEW W,
         W = RowsRead(page, k, Len(page.tables[k]))
  PROVE  /\ W \in Seq(ReadRows) /\ Len(W) = Len(page.tables[k]) /\ DOMAIN W = 1..Len(W)
         /\ Len(W) \in Nat
         /\ DataRows(k) = DataOf(W) /\ HeaderRows(k) = {j \in 1..Len(W) : W[j].header}
         /\ \A j \in 1..Len(W) :
               /\ W[j].cells = ReadCells(page.tables[k][j]) /\ W[j].cells \in Seq(Texts)
               /\ Len(W[j].cells) = Columns(Row(page, k, j))
               /\ W[j].header => W[j].cells # <<>>
<1> DEFINE n == Len(page.tables[k])
<1>1. n \in Nat /\ DOMAIN page.tables[k] = 1..n
  BY RowPlaces
<1>2. n \in 0..n
  BY <1>1
<1>3. /\ W \in Seq(ReadRows) /\ Len(W) = n
      /\ \A i \in 1..n :
            /\ W[i].header = IsHeader(Row(page, k, i))
            /\ W[i].cells
                 = [c \in DOMAIN Row(page, k, i).cells |->
                      ReadCell(Row(page, k, i).cells[c], page.xhtml, page.py3k)]
            /\ Len(W[i].cells) = Len(Row(page, k, i).cells)
            /\ W[i].cells \in Seq(Texts)
  BY <1>2, RowsAreRead
<1>4. DOMAIN W = 1..n
  BY <1>3
<1>5. DataRows(k) = DataOf(W)
  BY <1>1, <1>3 DEF DataRows, DataOf, Row
<1>6. HeaderRows(k) = {j \in 1..Len(W) : W[j].header}
  BY <1>1, <1>3, <1>5 DEF HeaderRows, DataOf
<1>7. ASSUME NEW j \in 1..n PROVE W[j].cells = ReadCells(page.tables[k][j])
  BY <1>3 DEF ReadCells, Row
<1>8. ASSUME NEW j \in 1..n, W[j].header PROVE W[j].cells # <<>>
  <2>1. Row(page, k, j).cells # <<>>
    BY <1>3, <1>8 DEF IsHeader
  <2>2. Len(Row(page, k, j).cells) # 0
    BY <2>1, RowPlaces
  <2>3. Len(W[j].cells) # 0
    BY <1>3, <2>2
  <2> QED
    BY <2>3
<1> HIDE DEF n
<1>9. \A j \in 1..n : Len(W[j].cells) = Columns(Row(page, k, j)) /\ W[j].cells \in Seq(Texts)
  BY <1>3 DEF Columns
<1> QED
  BY <1>1, <1>3, <1>4, <1>5, <1>6, <1>7, <1>8, <1>9 DEF n

LEMMA TableIsFaithful ==
  ASSUME page \in Pages, NEW w, NEW k \in 1..Len(page.tables),
         Widest(page, w, k, Len(page.tables[k])), NEW W,
         W = RowsRead(page, k, Len(page.tables[k])),
         generate_table(W, w).exc = NoExc
  PROVE  Faithful(generate_table(W, w).t, k)
<1> DEFINE n == Len(W)
           D == DataOf(W)
           t == generate_table(W, w).t
<1>1. /\ W \in Seq(ReadRows) /\ n = Len(page.tables[k]) /\ DOMAIN W = 1..n /\ n \in Nat
      /\ DataRows(k) = D /\ HeaderRows(k) = {j \in 1..n : W[j].header}
      /\ \A j \in 1..n : /\ W[j].cells = ReadCells(page.tables[k][j])
                         /\ W[j].cells \in Seq(Texts)
                         /\ Len(W[j].cells) = Columns(Row(page, k, j))
                         /\ W[j].header => W[j].cells # <<>>
  BY RowsOfPage
<1>2. w \in Nat
  BY DEF Widest
<1>3. Generated(W, w, generate_table(W, w), n)
  BY <1>1, <1>2, TableGenerated
<1>4. D \subseteq 1..n /\ (\A d \in D : d \in 1..n /\ d <= n) /\ UpToRow(D, n) = Cardinality(D)
  <2>1. D \subseteq 1..n /\ \A d \in D : d \in 1..n /\ d <= n
    BY DEF DataOf
  <2>2. UpToRow(D, n) = Cardinality(D)
    <3>1. {d \in D : d <= n} = D
      BY <2>1
    <3> QED
      BY <3>1 DEF UpToRow
  <2> QED
    BY <2>1, <2>2
<1>5. \A j : Place(k, j) = UpToRow(D, j)
  BY <1>1 DEF Place, UpToRow
<1> HIDE DEF n, D, t
<1>6. /\ Len(t.rows) = UpToRow(D, n)
      /\ \A d \in D : t.rows[UpToRow(D, d)] = Filled(W[d].cells, w)
      /\ \A h \in 1..n : W[h].header /\ (\A g \in 1..n : W[g].header => g <= h)
            => t.names = make_fields_unique(Filled(W[h].cells, w))
  BY <1>3, <1>4 DEF Generated, D, t
<1>7. \A j \in 1..n : /\ IsPrefix(W[j].cells, Filled(W[j].cells, w))
                      /\ \A c \in Len(W[j].cells) + 1 .. Len(Filled(W[j].cells, w)) :
                            Filled(W[j].cells, w)[c] = Dash
  BY <1>1, <1>2, FilledRow
<1>8. Even(k) => \A j \in 1..n : Filled(W[j].cells, w) = W[j].cells
  <2> SUFFICES ASSUME Even(k), NEW j \in 1..n PROVE Filled(W[j].cells, w) = W[j].cells
    OBVIOUS
  <2>1. Columns(Row(page, k, j)) = w
    BY <1>1, EvenWidth
  <2>2. w <= Len(W[j].cells)
    BY <1>1, <1>2, <2>1
  <2> QED
    BY <1>1, <1>2, <2>2, FilledRow
<1>9. Len(t.rows) = Cardinality(DataRows(k))
  BY <1>1, <1>4, <1>6
<1>10. ASSUME NEW j \in DataRows(k)
       PROVE  LET cells == ReadCells(page.tables[k][j])
                  row == t.rows[Place(k, j)]
              IN IsPrefix(cells, row) /\ \A c \in Len(cells) + 1 .. Len(row) : row[c] = Dash
  <2>1. j \in 1..n /\ j \in D
    BY <1>1, <1>4, <1>10
  <2>2. t.rows[Place(k, j)] = Filled(W[j].cells, w) /\ ReadCells(page.tables[k][j]) = W[j].cells
    BY <1>1, <1>5, <1>6, <2>1
  <2> QED
    BY <1>7, <2>1, <2>2
<1>11. ASSUME Even(k), NEW j \in DataRows(k)
       PROVE  t.rows[Place(k, j)] = ReadCells(page.tables[k][j])
  <2>1. j \in 1..n /\ j \in D
    BY <1>1, <1>4, <1>11
  <2> QED
    BY <1>1, <1>5, <1>6, <1>8, <1>11, <2>1
<1>12. ASSUME Even(k), NEW j \in HeaderRows(k), \A i \in HeaderRows(k) : i <= j,
              Unique(ReadCells(page.tables[k][j]))
       PROVE  t.names = ReadCells(page.tables[k][j])
  <2>1. j \in 1..n /\ W[j].header /\ \A g \in 1..n : W[g].header => g <= j
    BY <1>1, <1>12
  <2>2. t.names = make_fields_unique(W[j].cells)
    BY <1>6, <1>8, <1>12, <2>1
  <2>3. W[j].cells = ReadCells(page.tables[k][j]) /\ W[j].cells \in Seq(Texts)
    BY <1>1, <2>1
  <2> QED
    BY <1>12, <2>2, <2>3, UniqueKept
<1> QED
  BY <1>9, <1>10, <1>11, <1>12 DEF Faithful, t

LEMMA EvenNeverFails ==
  ASSUME page \in Pages, NEW w, NEW k \in 1..Len(page.tables),
         Widest(page, w, k, Len(page.tables[k])), NEW W,
         W = RowsRead(page, k, Len(page.tables[k])),
         Even(k), ~QuoteClash(k)
  PROVE  generate_table(W, w).exc = NoExc
<1> DEFINE n == Len(W)
<1>1. /\ W \in Seq(ReadRows) /\ n = Len(page.tables[k]) /\ DOMAIN W = 1..n /\ n \in Nat
      /\ HeaderRows(k) = {j \in 1..n : W[j].header}
      /\ \A j \in 1..n : /\ W[j].cells = ReadCells(page.tables[k][j])
                         /\ W[j].cells \in Seq(Texts)
                         /\ Len(W[j].cells) = Columns(Row(page, k, j))
  BY RowsOfPage
<1>2. w \in Nat
  BY DEF Widest
<1> HIDE DEF n
<1>3. \A j \in 1..n : Len(W[j].cells) = w
  BY <1>1, EvenWidth
<1>4. ASSUME NEW j \in 1..n, W[j].header PROVE Unique(make_fields_unique(W[j].cells))
  <2> DEFINE fields == W[j].cells
  <2>1. fields \in Seq(Texts) /\ j \in HeaderRows(k) /\ fields = ReadCells(page.tables[k][j])
    BY <1>1, <1>4
  <2>2. Unique(fields) \/ \A c \in DOMAIN fields : ~(fields[c] # <<>> /\ Last(fields[c]) = Quote)
    BY <2>1 DEF QuoteClash
  <2> HIDE DEF fields
  <2>3. Unique(make_fields_unique(fields))
    <3>1. CASE Unique(fields)
      BY <2>1, <3>1, UniqueKept
    <3>2. CASE \A c \in DOMAIN fields : ~(fields[c] # <<>> /\ Last(fields[c]) = Quote)
      <4>1. \A c \in DOMAIN fields : Plain(fields[c])
        BY <3>2 DEF Plain
      <4> QED
        BY <2>1, <4>1, UniqueMade
    <3> QED
      BY <2>2, <3>1, <3>2
  <2> QED
    BY <2>3 DEF fields
<1>5. W # <<>> => \A j, m \in 1..w : FieldN[j] = FieldN[m] => j = m
  <2> SUFFICES ASSUME W # <<>> PROVE \A j, m \in 1..w : FieldN[j] = FieldN[m] => j = m
    OBVIOUS
  <2>1. 1 \in 1..n
    <3>1. n # 0
      BY <1>1 DEF n
    <3> QED
      BY <1>1, <3>1
  <2>2. /\ page.tables[k][1] \in Elements(page.tables[k])
        /\ page.tables[k] \in Elements(page.tables)
        /\ DOMAIN page.tables[k][1].cells = 1..Len(page.tables[k][1].cells)
    <3>1. /\ DOMAIN page.tables[k] = 1..n /\ DOMAIN page.tables = 1..Len(page.tables)
          /\ DOMAIN Row(page, k, 1).cells = 1..Len(Row(page, k, 1).cells)
      BY <1>1, <2>1, RowPlaces
    <3> QED
      BY <2>1, <3>1 DEF Elements, Row
  <2>3. Len(page.tables[k][1].cells) = w
    BY <1>1, <1>3, <2>1 DEF Columns, Row
  <2> QED
    BY <2>2, <2>3, FieldsAssumption
<1> QED
  BY <1>1, <1>2, <1>3, <1>4, <1>5, NeverFails
-----------------------------------------------------------------------------
(* Where the reading of a page is, and what the handler holds there.       *)
Blanks(txt) == txt \in Seq({Space})
Holds(txt) == \E b \in Seq({Space}) : last_content = b \o txt

RowsDone(k, j) ==
    /\ Len(tables) = k - 1 /\ rows = RowsRead(page, k, j)
    /\ Widest(page, max_row_width, k, j)

CellsDone(k, j, c) == RowsDone(k, j - 1) /\ last_row = CellsUpTo(page, k, j, c)

NoRowBegun == last_row = <<>> /\ is_last_row_header = FALSE /\ Blanks(last_content)

(* Between two tables, ...                                                 *)
AtTable(k) ==
    RowsDone(k + 1, 0) /\ NoRowBegun /\ input = AfterTable(page, k)

(* ... two rows, before or after the blank that is written there, ...      *)
AtRow(k, j) ==
    /\ RowsDone(k, j) /\ NoRowBegun
    /\ input \in {AfterRow(page, k, j), Tail(AfterRow(page, k, j))}

(* ... or two cells,                                                       *)
AtCell(k, j, c) ==
    /\ CellsDone(k, j, c) /\ Blanks(last_content)
    /\ is_last_row_header = (Row(page, k, j).tag = "th" /\ c # 0)
    /\ input \in {AfterCell(page, k, j, c), Tail(AfterCell(page, k, j, c))}

(* before line n of a cell, after it, or within the break after it.        *)
InCell(k, j, c) ==
    CellsDone(k, j, c - 1) /\ is_last_row_header = (Row(page, k, j).tag = "th")

FromLine(k, j, c, n) ==
    Cons(Data(Cell(page, k, j, c)[n]), AfterLine(page, k, j, c, n))

AtData(k, j, c, n) ==
    /\ InCell(k, j, c) /\ input = FromLine(k, j, c, n)
    /\ Holds(Kept(HeardCell(Cell(page, k, j, c), page.py3k), page.xhtml, n - 1))

AtLine(k, j, c, n) ==
    /\ InCell(k, j, c) /\ input = AfterLine(page, k, j, c, n)
    /\ LET heard == HeardCell(Cell(page, k, j, c), page.py3k)
       IN Holds(Kept(heard, page.xhtml, n - 1) \o heard[n])

AtBreakEnd(k, j, c, n) ==
    /\ InCell(k, j, c) /\ n < Len(Cell(page, k, j, c)) /\ page.xhtml
    /\ input = Cons(End("br"), FromLine(k, j, c, n + 1))

AtLines(k, j, c) ==
    \E n \in 1..Len(Cell(page, k, j, c)) :
        AtData(k, j, c, n) \/ AtLine(k, j, c, n) \/ AtBreakEnd(k, j, c, n)

AtCells(k, j) ==
    \/ \E c \in 0..Len(Row(page, k, j).cells) : AtCell(k, j, c)
    \/ \E c \in 1..Len(Row(page, k, j).cells) : AtLines(k, j, c)

AtRows(k) ==
    \/ \E j \in 0..Len(page.tables[k]) : AtRow(k, j)
    \/ \E j \in 1..Len(page.tables[k]) : AtCells(k, j)

Somewhere ==
    \/ \E k \in 0..Len(page.tables) : AtTable(k)
    \/ \E k \in 1..Len(page.tables) : AtRows(k)

(* The inductive invariant of reading: what is claimed of the tables holds *)
(* and, unless an exception ended it, the handler holds what belongs to    *)
(* the place it has come to.                                               *)
Claims == tables \in Seq(Elements(tables)) /\ TablesComeBack /\ FailureHasCause

ReadInv == page \in Pages /\ Claims /\ (raised = NoExc => Somewhere)

(* What each kind of tag does to the handler.                              *)
LEMMA TokenKinds ==
  /\ \A tag : Start(tag).kind = "start" /\ Start(tag).tag = tag
  /\ \A tag : End(tag).kind = "end" /\ End(tag).tag = tag
  /\ \A txt : Data(txt).kind = "data" /\ Data(txt).text = txt
<1> QED
  BY DEF Start, End, Data

LEMMA StartStep ==
  ASSUME NEW tag \in Tags, NEW rest \in Seq(Tokens), input = Cons(Start(tag), rest),
         raised = NoExc, ReadNext
  PROVE  /\ input' = rest /\ page' = page
         /\ is_last_row_header' = (is_last_row_header \/ tag = "th")
         /\ UNCHANGED <<last_row, rows, max_row_width, last_content, tables, raised>>
<1>1. input # <<>> /\ Head(input) = Start(tag) /\ Tail(input) = rest
  BY ConsFacts, TokenTypes
<1>2. Head(input).kind = "start" /\ Head(input).tag = tag
  BY <1>1, TokenKinds
<1>3. handle_starttag
  BY <1>1, <1>2 DEF ReadNext, ReadDone, handle_data, handle_endtag, EndCell, EndRow, EndTable,
        EndOther, AtEnd, NextIs
<1> QED
  BY <1>1, <1>2, <1>3 DEF handle_starttag, Consume

LEMMA DataStep ==
  ASSUME NEW txt \in Texts, NEW rest \in Seq(Tokens), input = Cons(Data(txt), rest),
         raised = NoExc, ReadNext
  PROVE  /\ input' = rest /\ page' = page
         /\ last_content' = last_content \o Heard(txt, page.py3k)
         /\ UNCHANGED <<last_row, rows, max_row_width, is_last_row_header, tables, raised>>
<1>1. input # <<>> /\ Head(input) = Data(txt) /\ Tail(input) = rest
  BY ConsFacts, TokenTypes
<1>2. Head(input).kind = "data" /\ Head(input).text = txt
  BY <1>1, TokenKinds
<1>3. handle_data
  BY <1>1, <1>2 DEF ReadNext, ReadDone, handle_starttag, handle_endtag, EndCell, EndRow, EndTable,
        EndOther, AtEnd, NextIs
<1> QED
  BY <1>1, <1>2, <1>3 DEF handle_data, Consume

LEMMA NewLineStep ==
  ASSUME NEW rest \in Seq(Tokens), input = Cons(NewLine, rest), raised = NoExc, ReadNext,
         page.py3k \in BOOLEAN
  PROVE  /\ input' = rest /\ page' = page /\ last_content' = last_content \o <<Space>>
         /\ UNCHANGED <<last_row, rows, max_row_width, is_last_row_header, tables, raised>>
<1>1. <<Space>> \in Texts /\ input = Cons(Data(<<Space>>), rest)
  BY WordsAssumption DEF Texts, NewLine
<1>2. /\ input' = rest /\ page' = page
      /\ last_content' = last_content \o Heard(<<Space>>, page.py3k)
      /\ UNCHANGED <<last_row, rows, max_row_width, is_last_row_header, tables, raised>>
  BY <1>1, DataStep
<1> QED
  BY <1>2, BlankHeard

LEMMA EndStep ==
  ASSUME NEW tag \in Tags, NEW rest \in Seq(Tokens), input = Cons(End(tag), rest),
         raised = NoExc, ReadNext
  PROVE  /\ handle_endtag /\ Head(input).tag = tag /\ Tail(input) = rest
<1>1. input # <<>> /\ Head(input) = End(tag) /\ Tail(input) = rest
  BY ConsFacts, TokenTypes
<1>2. Head(input).kind = "end" /\ Head(input).tag = tag
  BY <1>1, TokenKinds
<1>3. handle_endtag
  BY <1>1, <1>2 DEF ReadNext, ReadDone, handle_starttag, handle_data, NextIs
<1> QED
  BY <1>1, <1>2, <1>3

LEMMA EndCellStep ==
  ASSUME NEW tag \in {"th", "td"}, NEW rest \in Seq(Tokens), input = Cons(End(tag), rest),
         raised = NoExc, ReadNext
  PROVE  /\ input' = rest /\ page' = page /\ last_content' = <<Space>>
         /\ last_row' = Append(last_row, Strip(last_content))
         /\ UNCHANGED <<rows, max_row_width, is_last_row_header, tables, raised>>
<1>1. tag \in Tags
  BY DEF Tags
<1>2. handle_endtag /\ Head(input).tag = tag /\ Tail(input) = rest
  BY <1>1, EndStep
<1>3. EndCell
  BY <1>2 DEF handle_endtag, EndRow, EndTable, EndOther, AtEnd
<1> QED
  BY <1>2, <1>3 DEF EndCell, Consume, DropContent

LEMMA EndRowStep ==
  ASSUME NEW rest \in Seq(Tokens), input = Cons(End("tr"), rest), raised = NoExc, ReadNext
  PROVE  /\ input' = rest /\ page' = page /\ last_content' = <<Space>>
         /\ rows' = Append(rows, [cells |-> last_row, header |-> is_last_row_header])
         /\ max_row_width' = Max({max_row_width, Len(last_row)})
         /\ last_row' = <<>> /\ is_last_row_header' = FALSE
         /\ UNCHANGED <<tables, raised>>
<1>1. "tr" \in Tags
  BY DEF Tags
<1>2. handle_endtag /\ Head(input).tag = "tr" /\ Tail(input) = rest
  BY <1>1, EndStep
<1>3. EndRow
  BY <1>2 DEF handle_endtag, EndCell, EndTable, EndOther, AtEnd
<1> QED
  BY <1>2, <1>3 DEF EndRow, Consume, DropContent

LEMMA EndTableStep ==
  ASSUME NEW rest \in Seq(Tokens), input = Cons(End("table"), rest), raised = NoExc, ReadNext
  PROVE  /\ input' = rest /\ page' = page
         /\ UNCHANGED <<last_row, max_row_width, is_last_row_header>>
         /\ LET made == generate_table(rows, max_row_width)
            IN \/ /\ made.exc = NoExc /\ last_content' = <<Space>>
                  /\ tables' = Append(tables, made.t) /\ rows' = <<>> /\ raised' = raised
               \/ /\ made.exc # NoExc /\ raised' = made.exc /\ tables' = tables
<1>1. "table" \in Tags
  BY DEF Tags
<1>2. handle_endtag /\ Head(input).tag = "table" /\ Tail(input) = rest
  BY <1>1, EndStep
<1>3. EndTable
  BY <1>2 DEF handle_endtag, EndCell, EndRow, EndOther, AtEnd
<1> QED
  BY <1>2, <1>3 DEF EndTable, Consume, DropContent

LEMMA EndBreakStep ==
  ASSUME NEW rest \in Seq(Tokens), input = Cons(End("br"), rest), raised = NoExc, ReadNext
  PROVE  /\ input' = rest /\ page' = page /\ last_content' = <<Space>>
         /\ UNCHANGED <<last_row, rows, max_row_width, is_last_row_header, tables, raised>>
<1>1. "br" \in Tags
  BY DEF Tags
<1>2. handle_endtag /\ Head(input).tag = "br" /\ Tail(input) = rest
  BY <1>1, EndStep
<1>3. EndOther
  BY <1>2 DEF handle_endtag, EndCell, EndRow, EndTable, AtEnd
<1> QED
  BY <1>2, <1>3 DEF EndOther, Consume, DropContent

(* Blanks that are added to blanks, and text that is added to text.        *)
LEMMA AddedText ==
  /\ Blanks(<<>>) /\ Blanks(<<Space>>)
  /\ \A s : Blanks(s) => Blanks(s \o <<Space>>)
  /\ Blanks(last_content) => Holds(<<>>)
  /\ \A s, t \in Texts : Holds(s) => \E b \in Seq({Space}) : last_content \o t = b \o (s \o t)
<1>1. Blanks(<<>>) /\ Blanks(<<Space>>)
  BY DEF Blanks
<1>2. \A s : Blanks(s) => Blanks(s \o <<Space>>)
  <2>1. <<Space>> \in Seq({Space})
    OBVIOUS
  <2> QED
    BY <2>1, ConcatProperties DEF Blanks
<1>3. Blanks(last_content) => Holds(<<>>)
  BY ConcatEmptySeq DEF Blanks, Holds
<1>4. ASSUME NEW s \in Texts, NEW t \in Texts, Holds(s)
      PROVE  \E b \in Seq({Space}) : last_content \o t = b \o (s \o t)
  <2>1. PICK b \in Seq({Space}) : last_content = b \o s
    BY <1>4 DEF Holds
  <2>2. b \in Seq(Words) /\ s \in Seq(Words) /\ t \in Seq(Words)
    BY WordsAssumption DEF Texts
  <2>3. Regroups(b, s, t)
    BY <2>2, Regrouping
  <2>4. last_content \o t = b \o (s \o t)
    BY <2>1, <2>3 DEF Regroups
  <2> QED
    BY <2>4
<1> QED
  BY <1>1, <1>2, <1>3, <1>4
-----------------------------------------------------------------------------
(* Every step of the handler leads from one place to the next.             *)
LEMMA NextPlace ==
  ASSUME page' = page
  PROVE  /\ \A k \in 0..Len(page.tables) : AtTable(k)' => Somewhere'
         /\ \A k \in 1..Len(page.tables) :
               /\ \A j \in 0..Len(page.tables[k]) : AtRow(k, j)' => Somewhere'
               /\ \A j \in 1..Len(page.tables[k]) :
                     /\ \A c \in 0..Len(Row(page, k, j).cells) : AtCell(k, j, c)' => Somewhere'
                     /\ \A c \in 1..Len(Row(page, k, j).cells) :
                           \A n \in 1..Len(Cell(page, k, j, c)) :
                              AtData(k, j, c, n)' \/ AtLine(k, j, c, n)' \/ AtBreakEnd(k, j, c, n)'
                                 => Somewhere'
<1>1. \A k \in 0..Len(page.tables) : AtTable(k)' => Somewhere'
  BY DEF Somewhere
<1>2. ASSUME NEW k \in 1..Len(page.tables)
      PROVE  /\ \A j \in 0..Len(page.tables[k]) : AtRow(k, j)' => Somewhere'
             /\ \A j \in 1..Len(page.tables[k]) :
                   /\ \A c \in 0..Len(Row(page, k, j).cells) : AtCell(k, j, c)' => Somewhere'
                   /\ \A c \in 1..Len(Row(page, k, j).cells) :
                         \A n \in 1..Len(Cell(page, k, j, c)) :
                            AtData(k, j, c, n)' \/ AtLine(k, j, c, n)' \/ AtBreakEnd(k, j, c, n)'
                               => Somewhere'
  <2>1. AtRows(k)' => Somewhere'
    BY DEF Somewhere
  <2>2. \A j \in 0..Len(page.tables[k]) : AtRow(k, j)' => AtRows(k)'
    BY DEF AtRows
  <2>3. \A j \in 1..Len(page.tables[k]) : AtCells(k, j)' => AtRows(k)'
    BY DEF AtRows
  <2>4. \A j \in 1..Len(page.tables[k]) :
          /\ \A c \in 0..Len(Row(page, k, j).cells) : AtCell(k, j, c)' => AtCells(k, j)'
          /\ \A c \in 1..Len(Row(page, k, j).cells) : AtLines(k, j, c)' => AtCells(k, j)'
    BY DEF AtCells
  <2>5. \A j, c : \A n \in 1..Len(Cell(page, k, j, c)) :
          AtData(k, j, c, n)' \/ AtLine(k, j, c, n)' \/ AtBreakEnd(k, j, c, n)'
             => AtLines(k, j, c)'
    BY DEF AtLines
  <2> QED
    BY <2>1, <2>2, <2>3, <2>4, <2>5
<1> QED
  BY <1>1, <1>2

LEMMA DoneStays ==
  ASSUME UNCHANGED <<page, tables, rows, max_row_width>>
  PROVE  /\ \A k, j : RowsDone(k, j) => RowsDone(k, j)'
         /\ last_row' = last_row => \A k, j, c : CellsDone(k, j, c) => CellsDone(k, j, c)'
<1>1. \A k, j : RowsDone(k, j) => RowsDone(k, j)'
  BY DEF RowsDone
<1>2. last_row' = last_row => \A k, j, c : CellsDone(k, j, c) => CellsDone(k, j, c)'
  BY <1>1 DEF CellsDone
<1> QED
  BY <1>1, <1>2

Moved == page' = page /\ raised' = raised /\ tables' = tables /\ Somewhere'

LEMMA Unmoved ==
  ASSUME UNCHANGED pageVars, Somewhere
  PROVE  Somewhere'
<1>1. /\ page' = page /\ input' = input /\ last_row' = last_row /\ rows' = rows
      /\ max_row_width' = max_row_width /\ last_content' = last_content
      /\ is_last_row_header' = is_last_row_header /\ tables' = tables
  BY DEF pageVars, handler
<1>2. /\ \A k, j : RowsDone(k, j) => RowsDone(k, j)'
      /\ \A k, j, c : CellsDone(k, j, c) => CellsDone(k, j, c)'
  BY <1>1, DoneStays
<1>3. \A k : AtTable(k) => AtTable(k)'
  BY <1>1, <1>2 DEF AtTable, NoRowBegun
<1>4. \A k, j : AtRow(k, j) => AtRow(k, j)'
  BY <1>1, <1>2 DEF AtRow, NoRowBegun
<1>5. \A k, j, c : AtCell(k, j, c) => AtCell(k, j, c)'
  BY <1>1, <1>2 DEF AtCell
<1>6. ASSUME NEW k, NEW j, NEW c, AtLines(k, j, c) PROVE AtLines(k, j, c)'
  <2>1. PICK n \in 1..Len(Cell(page, k, j, c)) :
           AtData(k, j, c, n) \/ AtLine(k, j, c, n) \/ AtBreakEnd(k, j, c, n)
    BY <1>6 DEF AtLines
  <2>2. InCell(k, j, c)'
    BY <1>1, <1>2, <2>1 DEF InCell, AtData, AtLine, AtBreakEnd
  <2>3. \A s : Holds(s) => Holds(s)'
    BY <1>1 DEF Holds
  <2>4. \A m : FromLine(k, j, c, m)' = FromLine(k, j, c, m)
    BY <1>1 DEF FromLine
  <2>5. AtData(k, j, c, n) => AtData(k, j, c, n)'
    BY <1>1, <2>2, <2>3, <2>4 DEF AtData
  <2>6. AtLine(k, j, c, n) => AtLine(k, j, c, n)'
    BY <1>1, <2>2, <2>3 DEF AtLine
  <2>7. AtBreakEnd(k, j, c, n) => AtBreakEnd(k, j, c, n)'
    BY <1>1, <2>2, <2>4 DEF AtBreakEnd
  <2> QED
    BY <1>1, <2>1, <2>5, <2>6, <2>7 DEF AtLines
<1>7. \A k, j : AtCells(k, j) => AtCells(k, j)'
  BY <1>1, <1>5, <1>6 DEF AtCells
<1>8. \A k : AtRows(k) => AtRows(k)'
  BY <1>1, <1>4, <1>7 DEF AtRows
<1> QED
  BY <1>1, <1>3, <1>8 DEF Somewhere

LEMMA FromTable ==
  ASSUME page \in Pages, raised = NoExc, ReadNext,
         NEW k \in 0..Len(page.tables), AtTable(k)
  PROVE  Moved
<1>1. Len(page.tables) \in Nat
  BY PageTypes
<1>2. RowsDone(k + 1, 0) /\ NoRowBegun /\ input = AfterTable(page, k)
  BY DEF AtTable
<1>3. CASE k = Len(page.tables)
  <2>1. input = <<>>
    BY <1>2, <1>3, AfterTables
  <2>2. UNCHANGED pageVars
    BY <2>1 DEF ReadNext, handle_starttag, handle_data, handle_endtag, EndCell, EndRow, EndTable,
          EndOther, AtEnd, NextIs, ReadDone
  <2>3. Somewhere
    BY DEF Somewhere
  <2> QED
    BY <2>2, <2>3, Unmoved DEF Moved, pageVars
<1>4. CASE k # Len(page.tables)
  <2>1. k + 1 \in 1..Len(page.tables) /\ k < Len(page.tables)
    BY <1>1, <1>4
  <2>2. 0 \in 0..Len(page.tables[k + 1])
    BY <2>1, RowPlaces
  <2>3. input = Cons(Start("table"), AfterRow(page, k + 1, 0))
    BY <1>2, <2>1, AfterTables
  <2>4. AfterRow(page, k + 1, 0) \in Seq(Tokens)
    BY <2>1, <2>2, AfterRows
  <2>5. /\ input' = AfterRow(page, k + 1, 0) /\ page' = page
        /\ is_last_row_header' = (is_last_row_header \/ "table" = "th")
        /\ UNCHANGED <<last_row, rows, max_row_width, last_content, tables, raised>>
    <3>1. "table" \in Tags
      BY DEF Tags
    <3> QED
      BY <2>3, <2>4, <3>1, StartStep
  <2>6. RowsDone(k + 1, 0)'
    BY <1>2, <2>5, DoneStays
  <2>7. AtRow(k + 1, 0)'
    BY <1>2, <2>5, <2>6 DEF AtRow, NoRowBegun
  <2> QED
    BY <2>1, <2>2, <2>5, <2>7, NextPlace DEF Moved
<1> QED
  BY <1>3, <1>4

LEMMA FromRow ==
  ASSUME page \in Pages, raised = NoExc, ReadNext,
         NEW k \in 1..Len(page.tables), NEW j \in 0..Len(page.tables[k]), AtRow(k, j),
         ~(j = Len(page.tables[k]) /\ input = Cons(End("table"), AfterTable(page, k)))
  PROVE  Moved
<1>1. RowsDone(k, j) /\ NoRowBegun /\ input \in {AfterRow(page, k, j), Tail(AfterRow(page, k, j))}
  BY DEF AtRow
<1> DEFINE row == Cons(Start("tr"), AfterCell(page, k, j + 1, 0))
           end == Cons(End("table"), AfterTable(page, k))
           next == IF j = Len(page.tables[k]) THEN end ELSE row
<1>2. Len(page.tables[k]) \in Nat /\ k \in 0..Len(page.tables) /\ Len(page.tables) \in Nat
  BY RowPlaces
<1>3. j # Len(page.tables[k]) =>
        /\ j + 1 \in 1..Len(page.tables[k]) /\ 0 \in 0..Len(Row(page, k, j + 1).cells)
        /\ j < Len(page.tables[k]) /\ AfterCell(page, k, j + 1, 0) \in Seq(Tokens)
  <2> SUFFICES ASSUME j # Len(page.tables[k])
               PROVE  /\ j + 1 \in 1..Len(page.tables[k]) /\ 0 \in 0..Len(Row(page, k, j + 1).cells)
                      /\ j < Len(page.tables[k]) /\ AfterCell(page, k, j + 1, 0) \in Seq(Tokens)
    OBVIOUS
  <2>1. j + 1 \in 1..Len(page.tables[k]) /\ j < Len(page.tables[k])
    BY <1>2
  <2>2. Len(Row(page, k, j + 1).cells) \in Nat
    BY <2>1, RowPlaces
  <2>3. 0 \in 0..Len(Row(page, k, j + 1).cells)
    BY <2>2
  <2> QED
    BY <2>1, <2>3, AfterCells
<1>4. AfterRow(page, k, j) = Cons(NewLine, next)
  BY <1>3, AfterRows
<1>5. next \in Seq(Tokens)
  <2>1. AfterTable(page, k) \in Seq(Tokens)
    BY <1>2, AfterTables
  <2>2. Start("tr") \in Tokens /\ End("table") \in Tokens
    BY TokenTypes DEF Tags
  <2>3. end \in Seq(Tokens)
    BY <2>1, <2>2, ConsFacts
  <2>4. j # Len(page.tables[k]) => row \in Seq(Tokens)
    BY <1>3, <2>2, ConsFacts
  <2> HIDE DEF row, end
  <2> QED
    BY <2>3, <2>4
<1>6. Tail(AfterRow(page, k, j)) = next
  <2> HIDE DEF next
  <2> QED
    BY <1>4, <1>5, ConsFacts, TokenTypes
<1>7. CASE input = Cons(NewLine, next)
  <2> HIDE DEF next
  <2>1. /\ input' = next /\ page' = page /\ last_content' = last_content \o <<Space>>
        /\ UNCHANGED <<last_row, rows, max_row_width, is_last_row_header, tables, raised>>
    <3>1. page.py3k \in BOOLEAN
      BY PageTypes
    <3> QED
      BY <1>5, <1>7, <3>1, NewLineStep
  <2>2. RowsDone(k, j)' /\ NoRowBegun'
    BY <1>1, <2>1, DoneStays, AddedText DEF NoRowBegun
  <2>3. AtRow(k, j)'
    BY <1>6, <2>1, <2>2 DEF AtRow
  <2> QED
    BY <2>1, <2>3, NextPlace DEF Moved
<1>8. CASE input = next
  <2>1. j # Len(page.tables[k]) /\ input = row
    BY <1>8
  <2>2. /\ input' = AfterCell(page, k, j + 1, 0) /\ page' = page
        /\ is_last_row_header' = (is_last_row_header \/ "tr" = "th")
        /\ UNCHANGED <<last_row, rows, max_row_width, last_content, tables, raised>>
    <3>1. "tr" \in Tags
      BY DEF Tags
    <3> QED
      BY <1>3, <2>1, <3>1, StartStep
  <2>3. RowsDone(k, j)'
    BY <1>1, <2>2, DoneStays
  <2>4. (j + 1) - 1 = j
    BY <1>2
  <2>5. CellsUpTo(page, k, j + 1, 0) = <<>>
    BY DEF CellsUpTo
  <2>6. CellsDone(k, j + 1, 0)'
    BY <1>1, <2>2, <2>3, <2>4, <2>5 DEF CellsDone, NoRowBegun
  <2>7. is_last_row_header' = FALSE /\ Blanks(last_content)'
    BY <1>1, <2>2 DEF NoRowBegun
  <2>8. AtCell(k, j + 1, 0)'
    BY <2>2, <2>6, <2>7 DEF AtCell
  <2> QED
    BY <1>3, <2>1, <2>2, <2>8, NextPlace DEF Moved
<1> QED
  BY <1>1, <1>4, <1>6, <1>7, <1>8

LEMMA LinesType ==
  ASSUME NEW p \in Pages, NEW k \in 1..Len(p.tables), NEW j \in 1..Len(p.tables[k]),
         NEW c \in 1..Len(Row(p, k, j).cells), NEW n \in 1..Len(Cell(p, k, j, c))
  PROVE  Cons(Data(Cell(p, k, j, c)[n]), AfterLine(p, k, j, c, n)) \in Seq(Tokens)
<1>1. Cell(p, k, j, c) \in WrittenCells
  BY RowPlaces
<1>2. Cell(p, k, j, c)[n] \in Texts
  BY <1>1, LinesMarkupType
<1>3. Data(Cell(p, k, j, c)[n]) \in Tokens /\ AfterLine(p, k, j, c, n) \in Seq(Tokens)
  BY <1>2, TokenTypes, AfterLines
<1> QED
  BY <1>3, ConsFacts

LEMMA FromCell ==
  ASSUME page \in Pages, raised = NoExc, ReadNext,
         NEW k \in 1..Len(page.tables), NEW j \in 1..Len(page.tables[k]),
         NEW c \in 0..Len(Row(page, k, j).cells), AtCell(k, j, c)
  PROVE  Moved
<1> DEFINE row == Row(page, k, j)
           width == Len(row.cells)
           end == Cons(End("tr"), AfterRow(page, k, j))
           cell == Cons(Start(row.tag), FromLine(k, j, c + 1, 1))
           next == IF c = width THEN end ELSE cell
<1>1. /\ CellsDone(k, j, c) /\ Blanks(last_content)
      /\ is_last_row_header = (row.tag = "th" /\ c # 0)
      /\ input \in {AfterCell(page, k, j, c), Tail(AfterCell(page, k, j, c))}
  BY DEF AtCell
<1>2. /\ width \in Nat /\ row.tag \in Tags
      /\ row.cells # <<>> <=> width # 0
      /\ j \in 0..Len(page.tables[k]) /\ c \in 0..width
      /\ page.xhtml \in BOOLEAN /\ page.py3k \in BOOLEAN
  <2>1. /\ width \in Nat /\ row.tag \in Tags
        /\ row.cells # <<>> <=> width # 0
        /\ page.xhtml \in BOOLEAN /\ page.py3k \in BOOLEAN
    BY RowPlaces
  <2>2. j \in 0..Len(page.tables[k]) /\ c \in 0..width
    OBVIOUS
  <2> QED
    BY <2>1, <2>2
<1>3. c # width =>
        /\ c + 1 \in 1..width /\ c < width /\ (c + 1) - 1 = c
        /\ Cell(page, k, j, c + 1) \in WrittenCells /\ 1 \in 1..Len(Cell(page, k, j, c + 1))
        /\ FromLine(k, j, c + 1, 1) \in Seq(Tokens)
  <2> SUFFICES ASSUME c # width
               PROVE  /\ c + 1 \in 1..width /\ c < width /\ (c + 1) - 1 = c
                      /\ Cell(page, k, j, c + 1) \in WrittenCells
                      /\ 1 \in 1..Len(Cell(page, k, j, c + 1))
                      /\ FromLine(k, j, c + 1, 1) \in Seq(Tokens)
    OBVIOUS
  <2>1. c + 1 \in 1..width /\ c < width /\ (c + 1) - 1 = c
    BY <1>2
  <2>2. Cell(page, k, j, c + 1) \in WrittenCells
    BY <2>1, RowPlaces
  <2>3. 1 \in 1..Len(Cell(page, k, j, c + 1))
    BY <1>2, <2>2, CellIsRead
  <2>4. FromLine(k, j, c + 1, 1) \in Seq(Tokens)
    BY <2>1, <2>3, LinesType DEF FromLine
  <2> QED
    BY <2>1, <2>2, <2>3, <2>4
<1>4. AfterCell(page, k, j, c) = Cons(NewLine, next)
  BY <1>3, AfterCells DEF FromLine
<1>5. next \in Seq(Tokens) /\ AfterRow(page, k, j) \in Seq(Tokens)
  <2>1. AfterRow(page, k, j) \in Seq(Tokens)
    BY <1>2, AfterRows
  <2>2. Start(row.tag) \in Tokens /\ End("tr") \in Tokens
    <3>1. "tr" \in Tags
      BY DEF Tags
    <3> QED
      BY <1>2, <3>1, TokenTypes
  <2>3. end \in Seq(Tokens)
    BY <2>1, <2>2, ConsFacts
  <2>4. c # width => cell \in Seq(Tokens)
    BY <1>3, <2>2, ConsFacts
  <2> HIDE DEF row, end, cell, width
  <2> QED
    BY <2>1, <2>3, <2>4
<1>6. Tail(AfterCell(page, k, j, c)) = next
  <2> HIDE DEF next
  <2> QED
    BY <1>4, <1>5, ConsFacts, TokenTypes
<1>7. CASE input = Cons(NewLine, next)
  <2> HIDE DEF next
  <2>1. /\ input' = next /\ page' = page /\ last_content' = last_content \o <<Space>>
        /\ UNCHANGED <<last_row, rows, max_row_width, is_last_row_header, tables, raised>>
    BY <1>2, <1>5, <1>7, NewLineStep
  <2>2. CellsDone(k, j, c)' /\ Blanks(last_content)'
    BY <1>1, <2>1, DoneStays, AddedText
  <2>3. AtCell(k, j, c)'
    BY <1>1, <1>6, <2>1, <2>2 DEF AtCell
  <2> QED
    BY <2>1, <2>3, NextPlace DEF Moved
<1>8. CASE input = end /\ c = width
  <2>1. /\ input' = AfterRow(page, k, j) /\ page' = page /\ last_content' = <<Space>>
        /\ rows' = Append(rows, [cells |-> last_row, header |-> is_last_row_header])
        /\ max_row_width' = Max({max_row_width, Len(last_row)})
        /\ last_row' = <<>> /\ is_last_row_header' = FALSE
        /\ UNCHANGED <<tables, raised>>
    BY <1>5, <1>8, EndRowStep
  <2>2. /\ Len(tables) = k - 1 /\ rows = RowsRead(page, k, j - 1)
        /\ Widest(page, max_row_width, k, j - 1) /\ last_row = CellsUpTo(page, k, j, c)
    BY <1>1 DEF CellsDone, RowsDone
  <2>3. is_last_row_header = IsHeader(row)
    <3>1. is_last_row_header = (row.tag = "th" /\ row.cells # <<>>)
      <4>1. c # 0 <=> row.cells # <<>>
        BY <1>2, <1>8
      <4> HIDE DEF width, row
      <4> QED
        BY <1>1, <4>1
    <3> QED
      BY <3>1 DEF IsHeader
  <2>4. [cells |-> last_row, header |-> is_last_row_header] = RowRead(page, k, j)
    BY <1>8, <2>2, <2>3 DEF RowRead
  <2>5. rows' = RowsRead(page, k, j)
    BY <2>1, <2>2, <2>4, OneMoreRead
  <2>6. Len(last_row) = Columns(row)
    <3>1. Len(CellsUpTo(page, k, j, width)) = width
      <4> HIDE DEF width
      <4> QED
        BY <1>2 DEF CellsUpTo
    <3> QED
      BY <1>8, <2>2, <3>1 DEF Columns
  <2>7. Widest(page, max_row_width', k, j)
    BY <2>1, <2>2, <2>6, WidestSoFar
  <2>8. RowsDone(k, j)'
    BY <2>1, <2>2, <2>5, <2>7 DEF RowsDone
  <2>9. NoRowBegun'
    BY <2>1, AddedText DEF NoRowBegun
  <2>10. AtRow(k, j)'
    BY <2>1, <2>8, <2>9 DEF AtRow
  <2> QED
    BY <1>2, <2>1, <2>10, NextPlace DEF Moved
<1>9. CASE input = cell /\ c # width
  <2>1. /\ input' = FromLine(k, j, c + 1, 1) /\ page' = page
        /\ is_last_row_header' = (is_last_row_header \/ row.tag = "th")
        /\ UNCHANGED <<last_row, rows, max_row_width, last_content, tables, raised>>
    BY <1>2, <1>3, <1>9, StartStep
  <2>2. CellsDone(k, j, c)'
    BY <1>1, <2>1, DoneStays
  <2>3. is_last_row_header' = (row.tag = "th")
    BY <1>1, <2>1
  <2>4. InCell(k, j, c + 1)'
    BY <1>3, <1>9, <2>1, <2>2, <2>3 DEF InCell
  <2>5. Kept(HeardCell(Cell(page, k, j, c + 1), page.py3k), page.xhtml, 1 - 1) = <<>>
    <3>1. 1 - 1 = 0
      OBVIOUS
    <3> QED
      BY <1>2, <1>3, <1>9, <3>1, CellIsRead
  <2>6. Holds(<<>>)'
    <3>1. Holds(<<>>)
      BY <1>1, AddedText
    <3> QED
      BY <2>1, <3>1 DEF Holds
  <2>7. AtData(k, j, c + 1, 1)'
    <3>1. FromLine(k, j, c + 1, 1)' = FromLine(k, j, c + 1, 1)
      BY <2>1 DEF FromLine
    <3> QED
      BY <2>1, <2>4, <2>5, <2>6, <3>1 DEF AtData
  <2> HIDE DEF cell, end, next, row
  <2> QED
    BY <1>3, <1>9, <2>1, <2>7, NextPlace DEF Moved, row
<1>10. input = Cons(NewLine, next) \/ input = next
  BY <1>1, <1>4, <1>6
<1> QED
  BY <1>7, <1>8, <1>9, <1>10

LEMMA FromText ==
  ASSUME page \in Pages, raised = NoExc, ReadNext,
         NEW k \in 1..Len(page.tables), NEW j \in 1..Len(page.tables[k]),
         NEW c \in 1..Len(Row(page, k, j).cells), NEW n \in 1..Len(Cell(page, k, j, c)),
         AtData(k, j, c, n)
  PROVE  Moved
<1> DEFINE lines == Cell(page, k, j, c)
           heard == HeardCell(lines, page.py3k)
           kept == Kept(heard, page.xhtml, n - 1)
<1>1. InCell(k, j, c) /\ input = FromLine(k, j, c, n) /\ Holds(kept)
  BY DEF AtData
<1>2. lines \in WrittenCells /\ page.xhtml \in BOOLEAN /\ page.py3k \in BOOLEAN
  BY RowPlaces
<1>3. /\ lines[n] \in Texts /\ heard[n] = Heard(lines[n], page.py3k)
      /\ heard[n] \in Texts /\ kept \in Texts /\ AfterLine(page, k, j, c, n) \in Seq(Tokens)
  BY <1>2, CellIsRead, AfterLines
<1>4. /\ input' = AfterLine(page, k, j, c, n) /\ page' = page
      /\ last_content' = last_content \o heard[n]
      /\ UNCHANGED <<last_row, rows, max_row_width, is_last_row_header, tables, raised>>
  <2>1. /\ input' = AfterLine(page, k, j, c, n) /\ page' = page
        /\ last_content' = last_content \o Heard(lines[n], page.py3k)
        /\ UNCHANGED <<last_row, rows, max_row_width, is_last_row_header, tables, raised>>
    BY <1>1, <1>3, DataStep DEF FromLine
  <2> HIDE DEF heard, lines
  <2> QED
    BY <1>3, <2>1
<1>5. InCell(k, j, c)'
  BY <1>1, <1>4, DoneStays DEF InCell
<1>6. Holds(kept \o heard[n])'
  <2> DEFINE held == kept \o heard[n]
  <2>1. \E b \in Seq({Space}) : last_content \o heard[n] = b \o held
    <3> HIDE DEF kept, heard, lines
    <3> QED
      BY <1>1, <1>3, AddedText
  <2>2. held' = held
    BY <1>4
  <2> HIDE DEF held
  <2>3. Holds(held)'
    BY <1>4, <2>1, <2>2 DEF Holds
  <2> QED
    BY <2>3 DEF held
<1>7. AtLine(k, j, c, n)'
  BY <1>4, <1>5, <1>6 DEF AtLine
<1> QED
  BY <1>4, <1>7, NextPlace DEF Moved

LEMMA FromLineEnd ==
  ASSUME page \in Pages, raised = NoExc, ReadNext,
         NEW k \in 1..Len(page.tables), NEW j \in 1..Len(page.tables[k]),
         NEW c \in 1..Len(Row(page, k, j).cells), NEW n \in 1..Len(Cell(page, k, j, c)),
         AtLine(k, j, c, n)
  PROVE  Moved
<1> DEFINE lines == Cell(page, k, j, c)
           heard == HeardCell(lines, page.py3k)
           held == Kept(heard, page.xhtml, n - 1) \o heard[n]
           tag == Row(page, k, j).tag
           next == FromLine(k, j, c, n + 1)
<1>1. InCell(k, j, c) /\ input = AfterLine(page, k, j, c, n) /\ Holds(held)
  BY DEF AtLine
<1>2. /\ lines \in WrittenCells /\ page.xhtml \in BOOLEAN /\ page.py3k \in BOOLEAN
      /\ tag \in {"th", "td"}
  BY RowPlaces
<1>3. held \in Texts /\ Len(lines) \in Nat /\ n \in Nat
  <2>1. held \in Texts
    BY <1>2, CellIsRead
  <2> QED
    BY <1>2, <2>1, LinesMarkupType
<1>4. CASE n = Len(lines)
  <2>1. c \in 0..Len(Row(page, k, j).cells) /\ c # 0
    BY RowPlaces
  <2>2. AfterCell(page, k, j, c) \in Seq(Tokens) /\ input = Cons(End(tag), AfterCell(page, k, j, c))
    BY <1>1, <1>4, <2>1, AfterCells, AfterLines
  <2>3. /\ input' = AfterCell(page, k, j, c) /\ page' = page /\ last_content' = <<Space>>
        /\ last_row' = Append(last_row, Strip(last_content))
        /\ UNCHANGED <<rows, max_row_width, is_last_row_header, tables, raised>>
    <3> HIDE DEF tag
    <3> QED
      BY <1>2, <2>2, EndCellStep
  <2>4. Strip(last_content) = ReadCell(lines, page.xhtml, page.py3k)
    <3>1. PICK b \in Seq({Space}) : last_content = b \o held
      BY <1>1 DEF Holds
    <3>2. Strip(last_content) = Strip(held)
      <4> HIDE DEF held
      <4> QED
        BY <1>3, <3>1, StripBlanks
    <3>3. ReadCell(lines, page.xhtml, page.py3k) = Strip(held)
      BY <1>2, <1>4, CellIsRead
    <3> QED
      BY <3>2, <3>3
  <2>5. RowsDone(k, j - 1) /\ last_row = CellsUpTo(page, k, j, c - 1)
        /\ is_last_row_header = (tag = "th")
    BY <1>1 DEF InCell, CellsDone
  <2>6. last_row' = CellsUpTo(page, k, j, c)
    BY <2>3, <2>4, <2>5, OneMoreRead
  <2>7. CellsDone(k, j, c)'
    <3>1. RowsDone(k, j - 1)'
      BY <2>3, <2>5, DoneStays
    <3> QED
      BY <2>3, <2>6, <3>1 DEF CellsDone
  <2>8. is_last_row_header' = (tag = "th" /\ c # 0)
    BY <2>1, <2>3, <2>5
  <2>9. AtCell(k, j, c)'
    BY <2>3, <2>7, <2>8, AddedText DEF AtCell
  <2> QED
    BY <2>1, <2>3, <2>9, NextPlace DEF Moved
<1>5. CASE n # Len(lines)
  <2>1. n + 1 \in 1..Len(lines) /\ n < Len(lines) /\ (n + 1) - 1 = n
    BY <1>3, <1>5
  <2>2. input = Cons(Start("br"), IF page.xhtml THEN Cons(End("br"), next) ELSE next)
    BY <1>1, <2>1, AfterLines DEF FromLine
  <2>3. next \in Seq(Tokens)
    BY <2>1, LinesType DEF FromLine
  <2>4. Cons(End("br"), next) \in Seq(Tokens)
    <3>1. End("br") \in Tokens
      BY TokenTypes DEF Tags
    <3> HIDE DEF next
    <3> QED
      BY <2>3, <3>1, ConsFacts
  <2>5. "br" \in Tags
    BY DEF Tags
  <2> HIDE DEF next
  <2>6. /\ input' = (IF page.xhtml THEN Cons(End("br"), next) ELSE next) /\ page' = page
        /\ is_last_row_header' = (is_last_row_header \/ "br" = "th")
        /\ UNCHANGED <<last_row, rows, max_row_width, last_content, tables, raised>>
    <3> DEFINE rest == IF page.xhtml THEN Cons(End("br"), next) ELSE next
    <3>1. rest \in Seq(Tokens) /\ input = Cons(Start("br"), rest)
      BY <2>2, <2>3, <2>4
    <3> HIDE DEF rest
    <3>2. /\ input' = rest /\ page' = page
          /\ is_last_row_header' = (is_last_row_header \/ "br" = "th")
          /\ UNCHANGED <<last_row, rows, max_row_width, last_content, tables, raised>>
      BY <2>5, <3>1, StartStep
    <3> QED
      BY <3>2 DEF rest
  <2>7. InCell(k, j, c)'
    <3>1. CellsDone(k, j, c - 1) /\ is_last_row_header = (tag = "th")
      BY <1>1 DEF InCell
    <3>2. CellsDone(k, j, c - 1)'
      BY <2>6, <3>1, DoneStays
    <3>3. is_last_row_header' = (tag = "th")
      BY <2>6, <3>1
    <3> QED
      BY <2>6, <3>2, <3>3 DEF InCell
  <2>8. next' = next
    BY <2>6 DEF next, FromLine
  <2>9. CASE page.xhtml
    <3>1. input' = Cons(End("br"), next)
      BY <2>6, <2>9
    <3>2. AtBreakEnd(k, j, c, n)'
      BY <2>1, <2>6, <2>7, <2>8, <2>9, <3>1 DEF AtBreakEnd, next
    <3> QED
      BY <2>6, <3>2, NextPlace DEF Moved
  <2>10. CASE ~page.xhtml
    <3>1. input' = next
      BY <2>6, <2>10
    <3>2. Kept(heard, page.xhtml, (n + 1) - 1) = held
      <4>1. Kept(heard, page.xhtml, n) = Kept(heard, page.xhtml, n - 1) \o heard[n]
        BY <1>2, <2>10, CellIsRead
      <4> HIDE DEF heard
      <4> QED
        BY <2>1, <4>1
    <3>3. Holds(held)'
      BY <1>1, <2>6 DEF Holds
    <3>4. AtData(k, j, c, n + 1)'
      BY <2>6, <2>7, <2>8, <3>1, <3>2, <3>3 DEF AtData, next
    <3> QED
      BY <2>1, <2>6, <3>4, NextPlace DEF Moved
  <2> QED
    BY <1>2, <2>9, <2>10
<1> QED
  BY <1>4, <1>5

LEMMA FromBreak ==
  ASSUME page \in Pages, raised = NoExc, ReadNext,
         NEW k \in 1..Len(page.tables), NEW j \in 1..Len(page.tables[k]),
         NEW c \in 1..Len(Row(page, k, j).cells), NEW n \in 1..Len(Cell(page, k, j, c)),
         AtBreakEnd(k, j, c, n)
  PROVE  Moved
<1> DEFINE lines == Cell(page, k, j, c)
           next == FromLine(k, j, c, n + 1)
<1>1. InCell(k, j, c) /\ n < Len(lines) /\ page.xhtml /\ input = Cons(End("br"), next)
  BY DEF AtBreakEnd
<1>2. n + 1 \in 1..Len(lines) /\ (n + 1) - 1 = n
  <2>1. lines \in WrittenCells
    BY RowPlaces
  <2>2. Len(lines) \in Nat
    BY <2>1 DEF WrittenCells
  <2> QED
    BY <1>1, <2>2
<1>3. next \in Seq(Tokens)
  BY <1>2, LinesType DEF FromLine
<1> HIDE DEF next
<1>4. /\ input' = next /\ page' = page /\ last_content' = <<Space>>
      /\ UNCHANGED <<last_row, rows, max_row_width, is_last_row_header, tables, raised>>
  BY <1>1, <1>3, EndBreakStep
<1>5. InCell(k, j, c)'
  BY <1>1, <1>4, DoneStays DEF InCell
<1>6. Kept(HeardCell(lines, page.py3k), page.xhtml, (n + 1) - 1) = <<>>
  BY <1>1 DEF Kept
<1>7. Holds(<<>>)'
  <2>1. <<Space>> \in Seq({Space}) /\ <<Space>> \o <<>> = <<Space>>
    BY ConcatEmptySeq
  <2> QED
    BY <1>4, <2>1 DEF Holds
<1>8. next' = next
  BY <1>4 DEF next, FromLine
<1>9. AtData(k, j, c, n + 1)'
  BY <1>4, <1>5, <1>6, <1>7, <1>8 DEF AtData, next
<1> QED
  BY <1>2, <1>4, <1>9, NextPlace DEF Moved
-----------------------------------------------------------------------------
(* What is claimed of a page depends on the page and on nothing else.      *)
LEMMA ClaimsStay ==
  ASSUME page' = page
  PROVE  /\ \A k : Even(k)' <=> Even(k)
         /\ \A k : QuoteClash(k)' <=> QuoteClash(k)
         /\ \A k : /\ DataRows(k)' = DataRows(k) /\ HeaderRows(k)' = HeaderRows(k)
                   /\ \A j : Place(k, j)' = Place(k, j)
         /\ \A row : ReadCells(row)' = ReadCells(row)
<1>1. \A k : DataRows(k)' = DataRows(k)
  BY DEF DataRows
<1>2. \A k : HeaderRows(k)' = HeaderRows(k)
  BY <1>1 DEF HeaderRows
<1>3. \A k, j : Place(k, j)' = Place(k, j)
  BY <1>1 DEF Place
<1>4. \A row : ReadCells(row)' = ReadCells(row)
  BY DEF ReadCells
<1>5. \A k : Even(k)' <=> Even(k)
  BY DEF Even
<1>6. \A k : QuoteClash(k)' <=> QuoteClash(k)
  BY <1>2, <1>4 DEF QuoteClash
<1> QED
  BY <1>1, <1>2, <1>3, <1>4, <1>5, <1>6

LEMMA FaithfulNext ==
  ASSUME page' = page, \A k \in DOMAIN tables' : Faithful(tables'[k], k)
  PROVE  TablesComeBack'
<1>1. ASSUME NEW k \in DOMAIN tables'
      PROVE  CellsAreKept(k)' /\ (Even(k)' => ComesBack(k)')
  <2>1. CellsAreKept(k)'
    BY ClaimsStay DEF Faithful, CellsAreKept
  <2>2. Even(k)' => ComesBack(k)'
    BY ClaimsStay DEF Faithful, ComesBack
  <2> QED
    BY <2>1, <2>2
<1> QED
  BY <1>1 DEF TablesComeBack

LEMMA ClaimsUnmoved ==
  ASSUME page' = page, raised' = raised, tables' = tables, Claims
  PROVE  Claims'
<1>1. TablesComeBack'
  <2>1. \A k \in DOMAIN tables : Faithful(tables[k], k)
    BY FaithfulTables DEF Claims
  <2>2. \A k \in DOMAIN tables' : Faithful(tables'[k], k)
    BY <2>1
  <2> QED
    BY <2>2, FaithfulNext
<1>2. FailureHasCause'
  BY ClaimsStay DEF Claims, FailureHasCause
<1>3. (tables \in Seq(Elements(tables)))'
  BY DEF Claims, Elements
<1> QED
  BY <1>1, <1>2, <1>3 DEF Claims

LEMMA SeqOfElements ==
  ASSUME NEW S, NEW s \in Seq(S)
  PROVE  s \in Seq(Elements(s))
<1>1. s = [i \in 1..Len(s) |-> s[i]] /\ \A i \in 1..Len(s) : s[i] \in Elements(s)
  BY DEF Elements
<1> QED
  BY <1>1

(* At the end of a table generate_table either makes one that is faithful  *)
(* to what was written, or fails for one of the two causes.                *)
LEMMA FromTableEnd ==
  ASSUME page \in Pages, raised = NoExc, ReadNext, Claims,
         NEW k \in 1..Len(page.tables), AtRow(k, Len(page.tables[k])),
         input = Cons(End("table"), AfterTable(page, k))
  PROVE  page' = page /\ Claims' /\ (raised' = NoExc => Somewhere')
<1> DEFINE W == RowsRead(page, k, Len(page.tables[k]))
           w == max_row_width
           made == generate_table(W, w)
<1>1. /\ RowsDone(k, Len(page.tables[k])) /\ NoRowBegun
      /\ Len(tables) = k - 1 /\ rows = W /\ Widest(page, w, k, Len(page.tables[k]))
  BY DEF AtRow, RowsDone
<1>2. k \in Nat /\ k \in 0..Len(page.tables) /\ AfterTable(page, k) \in Seq(Tokens)
  <2>1. k \in Nat /\ k \in 0..Len(page.tables)
    BY RowPlaces
  <2> QED
    BY <2>1, AfterTables
<1> HIDE DEF W, made
<1>3. /\ input' = AfterTable(page, k) /\ page' = page
      /\ UNCHANGED <<last_row, max_row_width, is_last_row_header>>
      /\ \/ /\ made.exc = NoExc /\ last_content' = <<Space>>
            /\ tables' = Append(tables, made.t) /\ rows' = <<>> /\ raised' = raised
         \/ /\ made.exc # NoExc /\ raised' = made.exc /\ tables' = tables
  BY <1>1, <1>2, EndTableStep DEF made
<1>4. tables \in Seq(Elements(tables)) /\ \A i \in DOMAIN tables : Faithful(tables[i], i)
  BY FaithfulTables DEF Claims
<1>5. CASE made.exc = NoExc
  <2>1. /\ last_content' = <<Space>> /\ tables' = Append(tables, made.t)
        /\ rows' = <<>> /\ raised' = raised
    BY <1>3, <1>5
  <2>2. /\ Len(tables') = k /\ DOMAIN tables' = 1..k /\ tables'[k] = made.t
        /\ \A i \in 1..k : i # k => i \in DOMAIN tables /\ tables'[i] = tables[i]
        /\ tables' \in Seq(Elements(tables) \cup {made.t})
    BY <1>1, <1>2, <1>4, <2>1
  <2>3. Faithful(made.t, k)
    BY <1>1, <1>5, TableIsFaithful DEF made, W
  <2>4. TablesComeBack'
    BY <1>3, <1>4, <2>2, <2>3, FaithfulNext
  <2>5. (tables \in Seq(Elements(tables)))'
    BY <2>2, SeqOfElements
  <2>6. FailureHasCause'
    BY <2>1 DEF FailureHasCause
  <2>7. RowsDone(k + 1, 0)'
    <3>1. RowsRead(page, k + 1, 0) = <<>>
      BY DEF RowsRead
    <3>2. Widest(page, w, k + 1, 0)
      BY <1>1, WidestOfTable
    <3>3. Len(tables') = (k + 1) - 1
      BY <1>2, <2>2
    <3> QED
      BY <1>3, <2>1, <3>1, <3>2, <3>3 DEF RowsDone
  <2>8. NoRowBegun'
    BY <1>1, <1>3, <2>1, AddedText DEF NoRowBegun
  <2>9. AtTable(k)'
    BY <1>3, <2>7, <2>8 DEF AtTable
  <2> QED
    BY <1>2, <1>3, <2>4, <2>5, <2>6, <2>9, NextPlace DEF Claims
<1>6. CASE made.exc # NoExc
  <2>1. raised' # NoExc /\ tables' = tables
    BY <1>3, <1>6
  <2>2. ~Even(k) \/ QuoteClash(k)
    BY <1>1, <1>6, EvenNeverFails DEF made, W
  <2>3. Len(tables) + 1 = k
    BY <1>1, <1>2
  <2>4. FailureHasCause'
    BY <1>3, <2>1, <2>2, <2>3, ClaimsStay DEF FailureHasCause
  <2>5. \A i \in DOMAIN tables' : Faithful(tables'[i], i)
    BY <1>4, <2>1
  <2>6. TablesComeBack'
    BY <1>3, <2>5, FaithfulNext
  <2>7. (tables \in Seq(Elements(tables)))'
    BY <1>4, <2>1 DEF Elements
  <2> QED
    BY <1>3, <2>1, <2>4, <2>6, <2>7 DEF Claims
<1> QED
  BY <1>5, <1>6

LEMMA ReadBegins == ReadInit => ReadInv
<1> SUFFICES ASSUME ReadInit PROVE ReadInv
  OBVIOUS
<1>1. /\ page \in Pages
      /\ input = FlattenSeq([k \in DOMAIN page.tables |-> Markup(page.tables[k], page.xhtml)])
      /\ last_row = <<>> /\ rows = <<>> /\ max_row_width = 0 /\ last_content = <<>>
      /\ is_last_row_header = FALSE /\ tables = <<>> /\ raised = NoExc
  BY DEF ReadInit
<1>2. Claims
  BY <1>1 DEF Claims, TablesComeBack, FailureHasCause
<1>3. input = AfterTable(page, 0)
  <2>1. TablesMarkup(page) \in Seq(Seq(Tokens))
    BY <1>1, TablesMarkupType
  <2>2. Rest(TablesMarkup(page), 0) = FlattenSeq(TablesMarkup(page))
    BY <2>1, RestAll
  <2> QED
    BY <1>1, <2>2 DEF AfterTable, TablesMarkup
<1>4. RowsDone(0 + 1, 0)
  <2>1. Widest(page, 0, 0 + 1, 0) /\ Len(tables) = (0 + 1) - 1
    BY <1>1, WidestAtFirst
  <2>2. RowsRead(page, 0 + 1, 0) = <<>>
    BY DEF RowsRead
  <2> QED
    BY <1>1, <2>1, <2>2 DEF RowsDone
<1>5. AtTable(0)
  BY <1>1, <1>3, <1>4, AddedText DEF AtTable, NoRowBegun
<1>6. Len(page.tables) \in Nat
  BY <1>1, PageTypes
<1> QED
  BY <1>1, <1>2, <1>5, <1>6 DEF ReadInv, Somewhere

LEMMA ReadGoesOn == ReadInv /\ [ReadNext]_pageVars => ReadInv'
<1> SUFFICES ASSUME ReadInv, [ReadNext]_pageVars PROVE ReadInv'
  OBVIOUS
<1>1. page \in Pages /\ Claims /\ (raised = NoExc => Somewhere)
  BY DEF ReadInv
<1>2. CASE UNCHANGED pageVars
  <2>1. page' = page /\ raised' = raised /\ tables' = tables
    BY <1>2 DEF pageVars
  <2>2. raised' = NoExc => Somewhere'
    BY <1>1, <1>2, <2>1, Unmoved
  <2> QED
    BY <1>1, <2>1, <2>2, ClaimsUnmoved DEF ReadInv
<1>3. CASE ReadNext /\ raised # NoExc
  <2>1. UNCHANGED pageVars
    BY <1>3 DEF ReadNext, handle_starttag, handle_data, handle_endtag, EndCell, EndRow, EndTable,
          EndOther, AtEnd, NextIs, ReadDone
  <2> QED
    BY <1>2, <2>1
<1>4. Moved => ReadInv'
  BY <1>1, ClaimsUnmoved DEF Moved, ReadInv
<1>5. CASE ReadNext /\ raised = NoExc
  <2>1. ASSUME NEW k \in 0..Len(page.tables), AtTable(k) PROVE Moved
    BY <1>1, <1>5, <2>1, FromTable
  <2>2. ASSUME NEW k \in 1..Len(page.tables), NEW j \in 0..Len(page.tables[k]), AtRow(k, j)
        PROVE  ReadInv'
    <3>1. CASE j = Len(page.tables[k]) /\ input = Cons(End("table"), AfterTable(page, k))
      <4>1. page' = page /\ Claims' /\ (raised' = NoExc => Somewhere')
        BY <1>1, <1>5, <2>2, <3>1, FromTableEnd
      <4> QED
        BY <1>1, <4>1 DEF ReadInv
    <3>2. CASE ~(j = Len(page.tables[k]) /\ input = Cons(End("table"), AfterTable(page, k)))
      BY <1>1, <1>4, <1>5, <2>2, <3>2, FromRow
    <3> QED
      BY <3>1, <3>2
  <2>3. ASSUME NEW k \in 1..Len(page.tables), NEW j \in 1..Len(page.tables[k]),
               NEW c \in 0..Len(Row(page, k, j).cells), AtCell(k, j, c)
        PROVE  Moved
    BY <1>1, <1>5, <2>3, FromCell
  <2>4. ASSUME NEW k \in 1..Len(page.tables), NEW j \in 1..Len(page.tables[k]),
               NEW c \in 1..Len(Row(page, k, j).cells), NEW n \in 1..Len(Cell(page, k, j, c)),
               AtData(k, j, c, n) \/ AtLine(k, j, c, n) \/ AtBreakEnd(k, j, c, n)
        PROVE  Moved
    <3>1. CASE AtData(k, j, c, n)
      BY <1>1, <1>5, <3>1, FromText
    <3>2. CASE AtLine(k, j, c, n)
      BY <1>1, <1>5, <3>2, FromLineEnd
    <3>3. CASE AtBreakEnd(k, j, c, n)
      BY <1>1, <1>5, <3>3, FromBreak
    <3> QED
      BY <2>4, <3>1, <3>2, <3>3
  <2>5. ASSUME NEW k \in 1..Len(page.tables), NEW j \in 1..Len(page.tables[k]), AtCells(k, j)
        PROVE  Moved
    BY <2>3, <2>4, <2>5 DEF AtCells, AtLines
  <2>6. ASSUME NEW k \in 1..Len(page.tables), AtRows(k) PROVE ReadInv'
    BY <1>4, <2>2, <2>5, <2>6 DEF AtRows
  <2> QED
    BY <1>1, <1>4, <1>5, <2>1, <2>6 DEF Somewhere
<1> QED
  BY <1>2, <1>3, <1>5

LEMMA ReadAlways == ReadSpec => []ReadInv
<1> QED
  BY ReadBegins, ReadGoesOn, PTL DEF ReadSpec

(* Every table that is read off a page, whatever stands on it, has all the *)
(* rows and cells that were written, in order and filled up with dashes;   *)
(* an even one has nothing else, and the names of its last header if they  *)
(* are unique (handle_data, handle_endtag, generate_table).  A cell comes  *)
(* back with its lines run together or, with <br/>, as its last line, and  *)
(* in Python 2 without <, > and &.                                         *)
THEOREM TablesReadBack == ReadSpec => []TablesComeBack
<1>1. ReadInv => TablesComeBack
  BY DEF ReadInv, Claims
<1> QED
  BY <1>1, ReadAlways, PTL

(* The reading of a page ends with an exception only at a table with an    *)
(* uneven row, or at a header whose fields make_fields_unique cannot make  *)
(* unique.                                                                 *)
THEOREM ReadingFailsForCause == ReadSpec => []FailureHasCause
<1>1. ReadInv => FailureHasCause
  BY DEF ReadInv, Claims
<1> QED
  BY <1>1, ReadAlways, PTL
=============================================================================
