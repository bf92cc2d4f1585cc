----------------------------- MODULE TableProofs -----------------------------
(***************************************************************************)
(* What a call on a PrettyTable keeps, for any number of tables, columns   *)
(* and rows.                                                               *)
(*                                                                         *)
(* Lemma by lemma, one per operation, Sound collects what the operation    *)
(* does to the table it is called on and to the dictionaries it may share  *)
(* with others; the theorems combine them with the invariant that a table  *)
(* works on dictionaries of a table that exists.                           *)
(***************************************************************************)
EXTENDS Table, TLAPS

Cells == {Cell}

IsTable(t) ==
    /\ t = [names |-> t.names, rows |-> t.rows, maxWidth |-> t.maxWidth, sortby |-> t.sortby]
    /\ t.names \in Seq(STRING)
    /\ t.rows \in Seq(Seq(Cells))

IsLook(l) == l = [align |-> l.align, valign |-> l.valign]

Grows(l, m) ==
    /\ DOMAIN l.align \subseteq DOMAIN m.align
    /\ DOMAIN l.valign \subseteq DOMAIN m.valign

(* The parts of Sound.                                                     *)
WellTyped(r) == IsTable(r.t) /\ IsLook(r.l) /\ r = Result(r.t, r.l, r.exc)
Atomic(t, l, r) == r.exc = "Exception" => r.t = t /\ r.l = l
StaysNamed(t, l, r) ==
    \/ HalfNamed(t, l) \/ ~HalfNamed(r.t, r.l)
    \/ t.names = <<>> /\ r.exc = "UnboundLocalError"
StaysFit(t, r) ==
    /\ TooLong(t) \/ ~TooLong(r.t)
    /\ Fits(t) /\ ~TooLong(t) => Fits(r.t) \/ (t.rows = <<>> /\ t.names # <<>>)
KeepsSort(t, r) == r.t.sortby \in {t.sortby, NoField} \cup Names

(* A table with fields has alignments, so that a rename copies them and    *)
(* does not start with the default; the copies are those of the old names. *)
NamesKeyed(t, l) == t.names # <<>> => DOMAIN l.align # {}
KeepsLook(t, l, r) ==
    /\ NamesKeyed(t, l) => NamesKeyed(r.t, r.l)
    /\ NamesKeyed(t, l) /\ RenamedInPlace(t.names, r.t.names) /\ r.exc = NoExc =>
           \A k \in DOMAIN t.names : r.l.align[r.t.names[k]] = l.align[t.names[k]]

Sound(t, l, r) ==
    /\ WellTyped(r) /\ Atomic(t, l, r) /\ Grows(l, r.l)
    /\ StaysNamed(t, l, r) /\ StaysFit(t, r) /\ KeepsSort(t, r) /\ KeepsLook(t, l, r)
-----------------------------------------------------------------------------
(* What happens to the keys of one dictionary when fields are renamed.     *)
LEMMA CopyKeeps ==
    ASSUME NEW d, NEW olds, NEW news
    PROVE  DOMAIN d \subseteq DOMAIN CopyEntries(d, olds, news)
BY DEF CopyEntries

LEMMA CopyAll ==
    ASSUME NEW d, NEW olds, NEW news, DOMAIN news = DOMAIN olds,
           Missing(d, olds, news) = {}
    PROVE  DOMAIN CopyEntries(d, olds, news) = DOMAIN d \cup Elements(news)
BY DEF CopyEntries, Elements

(* No new name is another field's old one, so no entry is read after it    *)
(* was overwritten.                                                        *)
LEMMA CopiedInPlace ==
    ASSUME NEW olds \in Seq(STRING), NEW news \in Seq(STRING), RenamedInPlace(olds, news)
    PROVE  \A k \in DOMAIN news : CopiedFrom(olds, news)[k] = olds[k]
<1> DEFINE G(f) == [k \in DOMAIN news |->
                        IF \E j \in 1 .. k - 1 : news[j] = olds[k]
                        THEN f[CHOOSE j \in 1 .. k - 1 : news[j] = olds[k]]
                        ELSE olds[k]]
           from == CHOOSE f : f = G(f)
           id == [k \in DOMAIN news |-> olds[k]]
<1>1. ASSUME NEW k \in DOMAIN news, NEW j \in 1 .. k - 1
      PROVE  news[j] # olds[k]
  <2>1. DOMAIN news = DOMAIN olds /\ j \in DOMAIN olds /\ j # k
    BY DEF RenamedInPlace
  <2>2. QED
    BY <2>1 DEF RenamedInPlace
<1>2. \A f : G(f) = id
  BY <1>1
<1>3. from = id
  BY <1>2, Zenon
<1>4. CopiedFrom(olds, news) = from
  BY DEF CopiedFrom
<1>5. QED
  BY <1>3, <1>4

LEMMA CopiedAlignment ==
    ASSUME NEW d, NEW olds \in Seq(STRING), NEW news \in Seq(STRING), Unique(news),
           RenamedInPlace(olds, news), Missing(d, olds, news) = {}
    PROVE  \A k \in DOMAIN olds : CopyEntries(d, olds, news)[news[k]] = d[olds[k]]
<1> DEFINE done == {k \in DOMAIN olds : \A m \in Missing(d, olds, news) : k < m}
           from == CopiedFrom(olds, news)
<1>1. done = DOMAIN olds /\ DOMAIN olds = DOMAIN news
  <2>1. DOMAIN olds = DOMAIN news
    BY DEF RenamedInPlace
  <2>2. done = DOMAIN olds
    OBVIOUS
  <2>3. QED
    BY <2>1, <2>2
<1>2. SUFFICES ASSUME NEW k \in DOMAIN olds
               PROVE  CopyEntries(d, olds, news)[news[k]] = d[olds[k]]
  OBVIOUS
<1>3. (CHOOSE j \in done : news[j] = news[k]) = k
  <2>1. \E j \in done : news[j] = news[k]
    BY <1>1
  <2>2. \A j \in done : news[j] = news[k] => j = k
    BY <1>1 DEF Unique
  <2>3. QED
    BY <2>1, <2>2
<1>4. from[k] = olds[k]
  BY <1>1, CopiedInPlace
<1> HIDE DEF from
<1>5. CopyEntries(d, olds, news)
        = [x \in DOMAIN d \cup {news[j] : j \in done} |->
              IF \E j \in done : news[j] = x
              THEN d[from[CHOOSE j \in done : news[j] = x]]
              ELSE d[x]]
  BY DEF CopyEntries, from
<1> HIDE DEF done
<1>6. news[k] \in {news[j] : j \in done} /\ \E j \in done : news[j] = news[k]
  BY <1>1
<1>7. CopyEntries(d, olds, news)[news[k]] = d[from[CHOOSE j \in done : news[j] = news[k]]]
  BY <1>5, <1>6
<1>8. QED
  BY <1>3, <1>4, <1>7

LEMMA RelabelKeys ==
    ASSUME NEW d, NEW olds \in Seq(STRING), NEW news \in Seq(STRING), NEW default,
           olds # <<>> => Len(news) = Len(olds)
    PROVE  LET r == Relabel(d, olds, news, default)
           IN /\ DOMAIN d \subseteq DOMAIN r.d
              /\ r.exc = NoExc => Elements(news) \subseteq DOMAIN r.d
              /\ r.exc \in {NoExc, "UnboundLocalError", "KeyError"}
              /\ r.exc = "UnboundLocalError" => olds = <<>>
              /\ r.exc = "KeyError" => ~(Elements(olds) \subseteq DOMAIN d)
<1>1. CASE DOMAIN d = {}
  BY <1>1 DEF Relabel, NoExc
<1>2. CASE DOMAIN d # {} /\ olds = <<>>
  BY <1>2 DEF Relabel, NoExc
<1>3. CASE DOMAIN d # {} /\ olds # <<>>
  <2>1. DOMAIN news = DOMAIN olds
    BY <1>3
  <2>2. Missing(d, olds, news) # {} => ~(Elements(olds) \subseteq DOMAIN d)
    BY DEF Missing, Elements
  <2>3. Relabel(d, olds, news, default)
          = [d |-> CopyEntries(d, olds, news),
             exc |-> IF Missing(d, olds, news) = {} THEN NoExc ELSE "KeyError"]
    BY <1>3 DEF Relabel
  <2>5. CASE Missing(d, olds, news) = {}
    <3>1. Relabel(d, olds, news, default) = [d |-> CopyEntries(d, olds, news), exc |-> NoExc]
      BY <2>3, <2>5
    <3>2. DOMAIN CopyEntries(d, olds, news) = DOMAIN d \cup Elements(news)
      BY <2>1, <2>5, CopyAll, Zenon
    <3>3. QED
      BY <3>1, <3>2 DEF NoExc
  <2>6. CASE Missing(d, olds, news) # {}
    <3>1. Relabel(d, olds, news, default) = [d |-> CopyEntries(d, olds, news), exc |-> "KeyError"]
      BY <2>3, <2>6
    <3>2. DOMAIN d \subseteq DOMAIN CopyEntries(d, olds, news)
      BY CopyKeeps, Zenon
    <3>3. QED
      BY <2>2, <2>6, <3>1, <3>2 DEF NoExc
  <2>7. QED
    BY <2>5, <2>6
<1>4. QED
  BY <1>1, <1>2, <1>3
-----------------------------------------------------------------------------
(* What the operations keep.                                               *)

(* A call that does not rename the fields.                                 *)
LEMMA SameNamesLook ==
    ASSUME NEW t, IsTable(t), NEW l, NEW r, Grows(l, r.l),
           r.t.names = t.names \/ r.t.names = <<>>
    PROVE  KeepsLook(t, l, r)
<1>1. NamesKeyed(t, l) => NamesKeyed(r.t, r.l)
  BY DEF NamesKeyed, Grows
<1>2. ~RenamedInPlace(t.names, r.t.names)
  <2>1. CASE r.t.names = t.names
    BY <2>1 DEF RenamedInPlace
  <2>2. CASE r.t.names = <<>>
    BY <2>2 DEF RenamedInPlace, IsTable
  <2>3. QED
    BY <2>1, <2>2
<1>3. QED
  BY <1>1, <1>2 DEF KeepsLook

(* A call that changes the number of fields.                               *)
LEMMA OtherNamesLook ==
    ASSUME NEW t, NEW l, NEW r, NamesKeyed(r.t, r.l), Len(r.t.names) # Len(t.names)
    PROVE  KeepsLook(t, l, r)
BY DEF KeepsLook, RenamedInPlace

LEMMA RenamedLook ==
    ASSUME NEW t, IsTable(t), NEW l, IsLook(l), NEW names \in Seq(STRING)
    PROVE  KeepsLook(t, l, _set_field_names(t, l, names))
<1> DEFINE u == [t EXCEPT !.names = names]
           align == Relabel(l.align, t.names, names, "c")
           valign == Relabel(l.valign, t.names, names, "t")
           m == [l EXCEPT !.align = align.d]
           r == _set_field_names(t, l, names)
<1>1. CASE ~ValidFieldNames(t, names)
  <2>1. r.t = t /\ r.l = l
    BY <1>1 DEF _set_field_names, Raise, Result
  <2>2. QED
    BY <2>1, SameNamesLook DEF Grows
<1>2. CASE ValidFieldNames(t, names)
  <2>1. /\ t.names \in Seq(STRING) /\ (t.names # <<>> => Len(names) = Len(t.names))
        /\ Unique(names)
    BY <1>2 DEF IsTable, ValidFieldNames
  <2>2. u.names = names /\ m.align = align.d
    BY DEF IsTable, IsLook
  <2>3. /\ r.t = u /\ r.l.align = align.d
        /\ r.exc = NoExc => align.exc = NoExc
    <3>1. CASE align.exc # NoExc
      <4>1. r = Result(u, m, align.exc)
        BY <1>2, <3>1 DEF _set_field_names, Raise
      <4> HIDE DEF u, align, valign, m, r
      <4>2. QED
        BY <2>2, <3>1, <4>1 DEF Result
    <3>2. CASE align.exc = NoExc
      <4>1. r = Result(u, [align |-> align.d, valign |-> valign.d], valign.exc)
        BY <1>2, <3>2 DEF _set_field_names
      <4>2. QED
        BY <3>2, <4>1 DEF Result
    <3>3. QED
      BY <3>1, <3>2
  <2>4. names # <<>> => DOMAIN align.d # {}
    <3>1. /\ DOMAIN l.align \subseteq DOMAIN align.d
          /\ align.exc = NoExc => Elements(names) \subseteq DOMAIN align.d
          /\ align.exc # NoExc => DOMAIN l.align # {}
      <4>1. DOMAIN l.align \subseteq DOMAIN align.d
        BY <2>1, RelabelKeys
      <4>2. align.exc = NoExc => Elements(names) \subseteq DOMAIN align.d
        BY <2>1, RelabelKeys
      <4>3. align.exc # NoExc => DOMAIN l.align # {}
        BY DEF Relabel, NoExc
      <4>4. QED
        BY <4>1, <4>2, <4>3
    <3>2. names # <<>> => Elements(names) # {}
      <4>1. names # <<>> => 1 \in DOMAIN names
        OBVIOUS
      <4>2. QED
        BY <4>1 DEF Elements
    <3>3. QED
      BY <3>1, <3>2
  <2>5. ASSUME NamesKeyed(t, l), RenamedInPlace(t.names, names), align.exc = NoExc,
               NEW k \in DOMAIN t.names
        PROVE  align.d[names[k]] = l.align[t.names[k]]
    <3>1. t.names # <<>> /\ DOMAIN l.align # {}
      BY <2>1, <2>5 DEF NamesKeyed
    <3>2. align.d = CopyEntries(l.align, t.names, names) /\ Missing(l.align, t.names, names) = {}
      BY <2>5, <3>1 DEF Relabel, NoExc
    <3>3. QED
      BY <2>1, <2>5, <3>2, CopiedAlignment
  <2> HIDE DEF u, align, valign, m, r
  <2>6. NamesKeyed(r.t, r.l)
    BY <2>2, <2>3, <2>4 DEF NamesKeyed
  <2>7. QED
    BY <2>2, <2>3, <2>5, <2>6 DEF KeepsLook, r
<1>3. QED
  BY <1>1, <1>2

LEMMA SameSound ==
    ASSUME NEW t, IsTable(t), NEW l, IsLook(l), NEW exc
    PROVE  Sound(t, l, Result(t, l, exc))
<1> DEFINE r == Result(t, l, exc)
<1>1. r.t = t /\ r.l = l /\ r.exc = exc
  BY DEF Result
<1>2. WellTyped(r)
  BY <1>1 DEF WellTyped
<1>3. Atomic(t, l, r) /\ Grows(l, r.l) /\ StaysNamed(t, l, r)
  BY <1>1 DEF Atomic, Grows, StaysNamed
<1>4. StaysFit(t, r) /\ KeepsSort(t, r)
  BY <1>1 DEF StaysFit, KeepsSort
<1>5. KeepsLook(t, l, r)
  BY <1>1, <1>3, SameNamesLook
<1>6. QED
  BY <1>1, <1>2, <1>3, <1>4, <1>5 DEF Sound

(* A rename that passed the checks.                                        *)
LEMMA RenamedSound ==
    ASSUME NEW t, IsTable(t), NEW l, IsLook(l), NEW names \in Seq(STRING),
           NEW m, IsLook(m), Grows(l, m), NEW exc,
           ValidFieldNames(t, names), exc # "Exception",
           HalfNamed(t, l) \/ ~HalfNamed([t EXCEPT !.names = names], m)
               \/ (t.names = <<>> /\ exc = "UnboundLocalError"),
           KeepsLook(t, l, Result([t EXCEPT !.names = names], m, exc))
    PROVE  Sound(t, l, Result([t EXCEPT !.names = names], m, exc))
<1> DEFINE u == [t EXCEPT !.names = names]
<1>1. u = [names |-> names, rows |-> t.rows, maxWidth |-> t.maxWidth, sortby |-> t.sortby]
  BY DEF IsTable
<1>2. IsTable(u)
  BY <1>1 DEF IsTable
<1>3. StaysFit(t, Result(u, m, exc))
  <2>1. CASE t.names # <<>>
    BY <2>1, <1>1 DEF StaysFit, Fits, TooLong, Result, ValidFieldNames
  <2>2. CASE t.rows = <<>>
    <3>1. u.rows = <<>> /\ DOMAIN u.rows = {}
      BY <2>2, <1>1
    <3>2. Fits(u) /\ ~TooLong(u)
      BY <3>1 DEF Fits, TooLong
    <3>3. QED
      BY <3>2 DEF StaysFit, Result
  <2>3. CASE t.names = <<>> /\ t.rows # <<>>
    <3>1. t.rows \in Seq(Seq(Cells)) /\ 1 \in DOMAIN t.rows
      BY <2>3 DEF IsTable
    <3>2. Len(names) = Len(t.rows[1]) /\ Len(names) \in Nat
      BY <2>3 DEF ValidFieldNames
    <3>3. CASE TooLong(t)
      BY <3>3 DEF StaysFit, Result, Fits, TooLong
    <3>4. CASE ~TooLong(t)
      <4>1. \A k \in DOMAIN t.rows : Len(t.rows[k]) = 0
        BY <3>1, <3>4, <2>3 DEF TooLong
      <4>2. Len(names) = 0
        BY <3>1, <3>2, <4>1
      <4>3. u.rows = t.rows /\ Len(u.names) = 0
        BY <1>1, <4>2
      <4>4. Fits(u) /\ ~TooLong(u)
        BY <4>1, <4>3 DEF Fits, TooLong
      <4>5. QED
        BY <4>4 DEF StaysFit, Result
    <3>5. QED
      BY <3>3, <3>4
  <2>4. QED
    BY <2>1, <2>2, <2>3
<1>4. KeepsSort(t, Result(u, m, exc)) /\ Atomic(t, l, Result(u, m, exc))
  BY <1>1 DEF KeepsSort, Atomic, Result
<1>5. QED
  BY <1>2, <1>3, <1>4 DEF Sound, WellTyped, StaysNamed, Result

LEMMA SetFieldNamesSound ==
    ASSUME NEW t, IsTable(t), NEW l, IsLook(l), NEW names \in Seq(STRING)
    PROVE  Sound(t, l, _set_field_names(t, l, names))
<1> DEFINE u == [t EXCEPT !.names = names]
           align == Relabel(l.align, t.names, names, "c")
           valign == Relabel(l.valign, t.names, names, "t")
<1>1. CASE ~ValidFieldNames(t, names)
  BY <1>1, SameSound DEF _set_field_names, Raise
<1>2. CASE ValidFieldNames(t, names)
  <2>1. t.names \in Seq(STRING) /\ (t.names # <<>> => Len(names) = Len(t.names))
    BY <1>2 DEF IsTable, ValidFieldNames
  <2>2. u.names = names
    BY DEF IsTable
  <2>3. CASE align.exc # NoExc
    <3> DEFINE m == [l EXCEPT !.align = align.d]
    <3>1. m = [align |-> align.d, valign |-> l.valign]
      BY DEF IsLook
    <3>2. IsLook(m) /\ Grows(l, m)
      BY <3>1, <2>1, RelabelKeys DEF IsLook, Grows
    <3>3. HalfNamed(t, l) \/ (t.names = <<>> /\ align.exc = "UnboundLocalError")
      <4>1. \/ align.exc = "UnboundLocalError" /\ t.names = <<>>
            \/ ~(Elements(t.names) \subseteq DOMAIN l.align)
        BY <2>1, <2>3, RelabelKeys DEF NoExc
      <4>2. QED
        BY <4>1 DEF HalfNamed
    <3>4. align.exc # "Exception"
      BY <2>1, RelabelKeys DEF NoExc
    <3>5. _set_field_names(t, l, names) = Result(u, m, align.exc)
      BY <1>2, <2>3 DEF _set_field_names, Raise
    <3>6. Sound(t, l, Result(u, m, align.exc))
      BY <1>2, <3>2, <3>3, <3>4, <3>5, RenamedLook, RenamedSound
    <3>7. QED
      BY <3>5, <3>6
  <2>4. CASE align.exc = NoExc
    <3> DEFINE m == [align |-> align.d, valign |-> valign.d]
    <3>1. IsLook(m) /\ Grows(l, m)
      BY <2>1, RelabelKeys DEF IsLook, Grows
    <3>2. HalfNamed(t, l) \/ ~HalfNamed(u, m)
            \/ (t.names = <<>> /\ valign.exc = "UnboundLocalError")
      <4>1. Elements(names) \subseteq DOMAIN align.d
        BY <2>1, <2>4, RelabelKeys
      <4>2. \/ Elements(names) \subseteq DOMAIN valign.d
            \/ valign.exc = "UnboundLocalError" /\ t.names = <<>>
            \/ ~(Elements(t.names) \subseteq DOMAIN l.valign)
        BY <2>1, RelabelKeys
      <4>3. QED
        BY <2>2, <4>1, <4>2 DEF HalfNamed
    <3>3. valign.exc # "Exception"
      BY <2>1, RelabelKeys DEF NoExc
    <3>4. _set_field_names(t, l, names) = Result(u, m, valign.exc)
      BY <1>2, <2>4 DEF _set_field_names
    <3>5. Sound(t, l, Result(u, m, valign.exc))
      BY <1>2, <3>1, <3>2, <3>3, <3>4, RenamedLook, RenamedSound
    <3>6. QED
      BY <3>4, <3>5
  <2>5. QED
    BY <2>3, <2>4
<1>3. QED
  BY <1>1, <1>2

(* A call that returns, on a table whose fields stay: it may only fill in  *)
(* the dictionaries, choose a sort field and change the rows.              *)
LEMMA ReturnSound ==
    ASSUME NEW t, IsTable(t), NEW l, IsLook(l), NEW u, IsTable(u), NEW m, IsLook(m),
           Grows(l, m), HalfNamed(t, l) \/ ~HalfNamed(u, m),
           StaysFit(t, Return(u, m)), u.sortby \in {t.sortby, NoField} \cup Names,
           KeepsLook(t, l, Return(u, m))
    PROVE  Sound(t, l, Return(u, m))
<1> DEFINE r == Return(u, m)
<1>1. r.t = u /\ r.l = m /\ r.exc = NoExc /\ r = Result(u, m, NoExc)
  BY DEF Return, Result
<1>2. WellTyped(r)
  BY <1>1 DEF WellTyped
<1>3. Atomic(t, l, r)
  BY <1>1 DEF Atomic, NoExc
<1>4. StaysNamed(t, l, r) /\ KeepsSort(t, r)
  BY <1>1 DEF StaysNamed, KeepsSort
<1>5. QED
  BY <1>1, <1>2, <1>3, <1>4 DEF Sound

LEMMA ReturnedLook ==
    ASSUME NEW t, IsTable(t), NEW l, NEW u, NEW m, Grows(l, m),
           u.names = t.names \/ u.names = <<>>
    PROVE  KeepsLook(t, l, Return(u, m))
<1>1. Return(u, m).t = u /\ Return(u, m).l = m
  BY DEF Return, Result
<1>2. QED
  BY <1>1, SameNamesLook

LEMMA SetAlignSound ==
    ASSUME NEW t, IsTable(t), NEW l, IsLook(l), NEW val
    PROVE  Sound(t, l, _set_align(t, l, val))
<1> DEFINE m == [l EXCEPT !.align = ForAllFields(t, @, val)]
<1>1. m = [align |-> ForAllFields(t, l.align, val), valign |-> l.valign]
  BY DEF IsLook
<1>2. IsLook(m) /\ Grows(l, m)
  BY <1>1 DEF IsLook, Grows, ForAllFields
<1>3. HalfNamed(t, l) \/ ~HalfNamed(t, m)
  BY <1>1, <1>2 DEF HalfNamed, Grows
<1>4. StaysFit(t, Return(t, m))
  BY DEF StaysFit, Return, Result
<1>5. Sound(t, l, Return(t, m))
  BY <1>2, <1>3, <1>4, ReturnedLook, ReturnSound
<1>6. QED
  BY <1>5, SameSound DEF _set_align, Raise

LEMMA SetValignSound ==
    ASSUME NEW t, IsTable(t), NEW l, IsLook(l), NEW val
    PROVE  Sound(t, l, _set_valign(t, l, val))
<1> DEFINE m == [l EXCEPT !.valign = ForAllFields(t, @, val)]
<1>1. m = [align |-> l.align, valign |-> ForAllFields(t, l.valign, val)]
  BY DEF IsLook
<1>2. IsLook(m) /\ Grows(l, m)
  BY <1>1 DEF IsLook, Grows, ForAllFields
<1>3. HalfNamed(t, l) \/ ~HalfNamed(t, m)
  BY <1>1, <1>2 DEF HalfNamed, Grows
<1>4. StaysFit(t, Return(t, m))
  BY DEF StaysFit, Return, Result
<1>5. Sound(t, l, Return(t, m))
  BY <1>2, <1>3, <1>4, ReturnedLook, ReturnSound
<1>6. QED
  BY <1>5, SameSound DEF _set_valign, Raise

LEMMA SetSortbySound ==
    ASSUME NEW t, IsTable(t), NEW l, IsLook(l), NEW name \in Names \cup {NoField}
    PROVE  Sound(t, l, _set_sortby(t, l, name))
<1> DEFINE u == [t EXCEPT !.sortby = name]
<1>1. u = [names |-> t.names, rows |-> t.rows, maxWidth |-> t.maxWidth, sortby |-> name]
  BY DEF IsTable
<1>2. IsTable(u) /\ Grows(l, l)
  BY <1>1 DEF IsTable, Grows
<1>3. HalfNamed(t, l) \/ ~HalfNamed(u, l)
  BY <1>1 DEF HalfNamed
<1>4. StaysFit(t, Return(u, l))
  BY <1>1 DEF StaysFit, Fits, TooLong, Return, Result
<1>5. u.sortby \in {t.sortby, NoField} \cup Names
  BY <1>1
<1>6. Sound(t, l, Return(u, l))
  BY <1>1, <1>2, <1>3, <1>4, <1>5, ReturnedLook, ReturnSound
<1>7. QED
  BY <1>6, SameSound DEF _set_sortby, Raise

LEMMA WithRows ==
    ASSUME NEW t, IsTable(t), NEW rows
    PROVE  [t EXCEPT !.rows = rows]
             = [names |-> t.names, rows |-> rows, maxWidth |-> t.maxWidth, sortby |-> t.sortby]
BY DEF IsTable

LEMMA WithNamesRows ==
    ASSUME NEW t, IsTable(t), NEW names, NEW rows
    PROVE  /\ [t EXCEPT !.names = names, !.rows = rows]
                = [names |-> names, rows |-> rows, maxWidth |-> t.maxWidth, sortby |-> t.sortby]
           /\ [t EXCEPT !.rows = rows, !.names = names]
                = [names |-> names, rows |-> rows, maxWidth |-> t.maxWidth, sortby |-> t.sortby]
<1> DEFINE u == [names |-> names, rows |-> t.rows,
                 maxWidth |-> t.maxWidth, sortby |-> t.sortby]
           v == [names |-> t.names, rows |-> rows,
                 maxWidth |-> t.maxWidth, sortby |-> t.sortby]
<1>1. [t EXCEPT !.names = names] = u /\ [t EXCEPT !.rows = rows] = v
  BY DEF IsTable
<1>2. /\ [t EXCEPT !.names = names, !.rows = rows] = [u EXCEPT !.rows = rows]
      /\ [t EXCEPT !.rows = rows, !.names = names] = [v EXCEPT !.names = names]
  BY <1>1, Zenon
<1>3. QED
  BY <1>2

LEMMA WithRowsWidth ==
    ASSUME NEW t, IsTable(t), NEW rows, NEW width
    PROVE  [t EXCEPT !.rows = rows, !.maxWidth = width]
             = [names |-> t.names, rows |-> rows, maxWidth |-> width, sortby |-> t.sortby]
<1> DEFINE v == [names |-> t.names, rows |-> rows,
                 maxWidth |-> t.maxWidth, sortby |-> t.sortby]
<1>1. [t EXCEPT !.rows = rows] = v
  BY DEF IsTable
<1>2. [t EXCEPT !.rows = rows, !.maxWidth = width] = [v EXCEPT !.maxWidth = width]
  BY <1>1, Zenon
<1>3. QED
  BY <1>2

LEMMA AppendedElements ==
    ASSUME NEW S, NEW s \in Seq(S), NEW x \in S
    PROVE  Elements(Append(s, x)) = Elements(s) \cup {x}
<1>1. /\ DOMAIN Append(s, x) = DOMAIN s \cup {Len(s) + 1}
      /\ \A k \in DOMAIN s : Append(s, x)[k] = s[k]
      /\ Append(s, x)[Len(s) + 1] = x
  OBVIOUS
<1>2. QED
  BY <1>1, Zenon DEF Elements

LEMMA SeqOf ==
    ASSUME NEW S, NEW n \in Nat, NEW f, f = [k \in 1 .. n |-> f[k]],
           \A k \in 1 .. n : f[k] \in S
    PROVE  f \in Seq(S) /\ DOMAIN f = 1 .. n
OBVIOUS

LEMMA LongerByOne ==
    ASSUME NEW S, NEW s \in Seq(S), NEW x \in S
    PROVE  Append(s, x) \in Seq(S) /\ Len(Append(s, x)) = Len(s) + 1
OBVIOUS

LEMMA Joined ==
    ASSUME NEW S, NEW p \in Seq(S), NEW q \in Seq(S)
    PROVE  /\ p \o q \in Seq(S)
           /\ Len(p \o q) = Len(p) + Len(q)
           /\ DOMAIN (p \o q) = 1 .. Len(p) + Len(q)
           /\ \A k \in DOMAIN (p \o q) :
                 (p \o q)[k] = IF k <= Len(p) THEN p[k] ELSE q[k - Len(p)]
OBVIOUS

(* A row as long as the field list is appended.                            *)
LEMMA AppendFits ==
    ASSUME NEW t, IsTable(t), NEW row \in Seq(Cells), Len(row) = Len(t.names)
    PROVE  LET u == [t EXCEPT !.rows = Append(@, row)]
           IN /\ IsTable(u) /\ u.names = t.names /\ u.sortby = t.sortby
              /\ TooLong(t) \/ ~TooLong(u)
              /\ Fits(t) => Fits(u)
<1> DEFINE u == [t EXCEPT !.rows = Append(@, row)]
<1>1. u = [names |-> t.names, rows |-> Append(t.rows, row),
           maxWidth |-> t.maxWidth, sortby |-> t.sortby]
  BY WithRows
<1>2. IsTable(u)
  BY <1>1 DEF IsTable
<1>3. \A k \in DOMAIN u.rows : u.rows[k] = row \/ (k \in DOMAIN t.rows /\ u.rows[k] = t.rows[k])
  BY <1>1 DEF IsTable
<1>4. Len(row) \in Nat
  OBVIOUS
<1>5. TooLong(t) \/ ~TooLong(u)
  BY <1>1, <1>3, <1>4 DEF TooLong
<1>6. Fits(t) => Fits(u)
  BY <1>1, <1>3 DEF Fits
<1>7. QED
  BY <1>1, <1>2, <1>5, <1>6

LEMMA AddRowSound ==
    ASSUME NEW t, IsTable(t), NEW l, IsLook(l),
           NEW row \in Seq(Cells), Len(row) <= MaxCols
    PROVE  Sound(t, l, add_row(t, l, row))
<1> DEFINE names == [k \in 1 .. Len(row) |-> FieldN[k]]
           r == _set_field_names(t, l, names)
           appended(u) == [u EXCEPT !.rows = Append(@, row)]
<1>1. names \in Seq(STRING) /\ Len(names) = Len(row)
  BY FieldNAssumption, BoundAssumption
<1>2. Sound(t, l, r)
  BY <1>1, SetFieldNamesSound
<1>3. CASE t.names # <<>> /\ Len(row) # Len(t.names)
  BY <1>3, SameSound DEF add_row, Raise
<1>4. CASE t.names # <<>> /\ Len(row) = Len(t.names)
  <2>1. IsTable(appended(t)) /\ appended(t).names = t.names /\ appended(t).sortby = t.sortby
    BY <1>4, AppendFits
  <2>2. StaysFit(t, Return(appended(t), l))
    BY <1>4, AppendFits DEF StaysFit, Return, Result
  <2>3. (HalfNamed(t, l) \/ ~HalfNamed(appended(t), l)) /\ Grows(l, l)
    BY <2>1 DEF HalfNamed, Grows
  <2>4. Sound(t, l, Return(appended(t), l))
    BY <2>1, <2>2, <2>3, ReturnedLook, ReturnSound
  <2>5. QED
    BY <1>4, <2>4 DEF add_row
<1>5. CASE t.names = <<>> /\ r.exc # NoExc
  BY <1>2, <1>5 DEF add_row
<1>6. CASE t.names = <<>> /\ r.exc = NoExc
  <2> DEFINE u == appended(r.t)
  <2>1. IsTable(r.t) /\ IsLook(r.l) /\ Grows(l, r.l) /\ KeepsSort(t, r) /\ StaysFit(t, r)
    BY <1>2 DEF Sound, WellTyped
  <2>2. HalfNamed(t, l) \/ ~HalfNamed(r.t, r.l)
    BY <1>2, <1>6 DEF Sound, StaysNamed, NoExc
  <2>3. r.t = [t EXCEPT !.names = names]
    BY <1>6 DEF _set_field_names, Raise, Result, NoExc
  <2>4. r.t.names = names /\ r.t.rows = t.rows
    BY <2>3 DEF IsTable
  <2>5. /\ IsTable(u) /\ u.names = r.t.names /\ u.sortby = r.t.sortby
        /\ TooLong(r.t) \/ ~TooLong(u)
        /\ Fits(r.t) => Fits(u)
    BY <1>1, <2>1, <2>4, AppendFits
  <2>6. StaysFit(t, Return(u, r.l))
    BY <1>6, <2>1, <2>5 DEF StaysFit, Return, Result
  <2>7. HalfNamed(t, l) \/ ~HalfNamed(u, r.l)
    BY <2>2, <2>5 DEF HalfNamed
  <2>8. u.sortby \in {t.sortby, NoField} \cup Names
    BY <2>1, <2>5 DEF KeepsSort
  <2>9. KeepsLook(t, l, Return(u, r.l))
    <3>1. NamesKeyed(u, r.l)
      BY <1>2, <1>6, <2>5 DEF Sound, KeepsLook, NamesKeyed
    <3>2. u.names # <<>> => Len(u.names) # Len(t.names)
      <4>1. u.names \in Seq(STRING) /\ Len(t.names) = 0
        BY <1>6, <2>5 DEF IsTable
      <4> HIDE DEF u
      <4>2. QED
        BY <4>1
    <3>3. Return(u, r.l).t = u /\ Return(u, r.l).l = r.l
      BY DEF Return, Result
    <3> HIDE DEF u
    <3>4. QED
      BY <2>1, <3>1, <3>2, <3>3, SameNamesLook, OtherNamesLook
  <2>10. Sound(t, l, Return(u, r.l))
    BY <2>1, <2>5, <2>6, <2>7, <2>8, <2>9, ReturnSound
  <2>11. QED
    BY <1>6, <2>10 DEF add_row
<1>7. QED
  BY <1>3, <1>4, <1>5, <1>6

LEMMA DelRowSound ==
    ASSUME NEW t, IsTable(t), NEW l, IsLook(l), NEW index \in Int
    PROVE  Sound(t, l, del_row(t, l, index))
<1> DEFINE n == Len(t.rows)
           at == IF index < 0 THEN n + index ELSE index
           rows == SubSeq(t.rows, 1, at) \o SubSeq(t.rows, at + 2, n)
           u == [t EXCEPT !.rows = SubSeq(@, 1, at) \o SubSeq(@, at + 2, n)]
<1>1. CASE index > n - 1 \/ at < 0
  BY <1>1, SameSound DEF del_row, Raise
<1>2. CASE ~(index > n - 1) /\ ~(at < 0)
  <2>1. t.rows \in Seq(Seq(Cells)) /\ at \in 0 .. n - 1 /\ n \in Nat
    BY <1>2 DEF IsTable
  <2>2. /\ rows \in Seq(Seq(Cells))
        /\ \A k \in DOMAIN rows : \E j \in DOMAIN t.rows : rows[k] = t.rows[j]
    <3> DEFINE p == SubSeq(t.rows, 1, at)
               q == SubSeq(t.rows, at + 2, n)
    <3> HIDE DEF at
    <3>1. p \in Seq(Seq(Cells)) /\ Len(p) = at /\ \A k \in 1 .. at : p[k] = t.rows[k]
      BY <2>1
    <3>2. /\ q \in Seq(Seq(Cells)) /\ Len(q) = n - at - 1
          /\ \A k \in 1 .. n - at - 1 : q[k] = t.rows[at + 1 + k]
      BY <2>1
    <3> HIDE DEF p, q
    <3>3. /\ p \o q \in Seq(Seq(Cells)) /\ DOMAIN (p \o q) = 1 .. Len(p) + Len(q)
          /\ \A k \in DOMAIN (p \o q) :
                (p \o q)[k] = IF k <= Len(p) THEN p[k] ELSE q[k - Len(p)]
      BY <3>1, <3>2, Joined
    <3>4. rows = p \o q
      BY DEF p, q
    <3> HIDE DEF rows
    <3>5. ASSUME NEW k \in DOMAIN rows PROVE \E j \in DOMAIN t.rows : rows[k] = t.rows[j]
      <4>1. k \in 1 .. n - 1 /\ DOMAIN t.rows = 1 .. n
        BY <2>1, <3>1, <3>2, <3>3, <3>4
      <4>2. CASE k <= at
        <5>1. k \in 1 .. at /\ k \in 1 .. n
          BY <2>1, <4>1, <4>2
        <5>2. rows[k] = p[k]
          BY <3>1, <3>3, <3>4, <4>2
        <5>3. QED
          BY <3>1, <4>1, <5>1, <5>2
      <4>3. CASE ~(k <= at)
        <5>1. k - at \in 1 .. n - at - 1 /\ at + 1 + (k - at) = k + 1 /\ k + 1 \in 1 .. n
          <6>1. at \in Int /\ n \in Int /\ k \in Int /\ 1 <= k /\ k <= n - 1 /\ at <= n - 1
            BY <2>1, <4>1
          <6>2. k > at /\ k + 1 <= n
            BY <4>3, <6>1
          <6>3. QED
            BY <6>1, <6>2
        <5>2. rows[k] = q[k - at]
          BY <2>1, <3>1, <3>3, <3>4, <4>3
        <5>3. q[k - at] = t.rows[k + 1]
          BY <3>2, <5>1
        <5>4. QED
          BY <4>1, <5>1, <5>2, <5>3
      <4>4. QED
        BY <4>2, <4>3
    <3>6. QED
      BY <3>3, <3>4, <3>5
  <2> HIDE DEF rows
  <2>3. u = [names |-> t.names, rows |-> rows, maxWidth |-> t.maxWidth, sortby |-> t.sortby]
    BY WithRows DEF rows
  <2> HIDE DEF u
  <2>4. IsTable(u) /\ Grows(l, l)
    BY <2>2, <2>3 DEF IsTable, Grows
  <2>5. StaysFit(t, Return(u, l))
    BY <2>2, <2>3 DEF StaysFit, Fits, TooLong, Return, Result
  <2>6. (HalfNamed(t, l) \/ ~HalfNamed(u, l)) /\ u.sortby = t.sortby
    BY <2>3 DEF HalfNamed
  <2>7. Sound(t, l, Return(u, l))
    BY <2>3, <2>4, <2>5, <2>6, ReturnedLook, ReturnSound
  <2>8. QED
    BY <1>2, <2>7 DEF del_row, u
<1>3. QED
  BY <1>1, <1>2

LEMMA AddColumnSound ==
    ASSUME NEW t, IsTable(t), NEW l, IsLook(l),
           NEW name \in STRING, NEW column \in Seq(Cells), NEW align, NEW valign
    PROVE  Sound(t, l, add_column(t, l, name, column, align, valign))
<1> DEFINE names == Append(t.names, name)
           rows == IF t.rows = <<>>
                   THEN [k \in DOMAIN column |-> <<column[k]>>]
                   ELSE [k \in DOMAIN column |-> Append(t.rows[k], column[k])]
           u == [t EXCEPT !.names = Append(@, name), !.rows = rows]
           m == [align  |-> [x \in DOMAIN l.align \cup {name} |->
                                IF x = name THEN align ELSE l.align[x]],
                 valign |-> [x \in DOMAIN l.valign \cup {name} |->
                                IF x = name THEN valign ELSE l.valign[x]]]
           refused == \/ Len(t.rows) \notin {0, Len(column)}
                      \/ align \notin {"l", "c", "r"} \/ valign \notin {"t", "m", "b", "None"}
<1>1. CASE refused
  BY <1>1, SameSound DEF add_column, Raise
<1>2. CASE ~refused
  <2>1. /\ t.names \in Seq(STRING) /\ t.rows \in Seq(Seq(Cells))
        /\ t.rows # <<>> => Len(t.rows) = Len(column)
    BY <1>2 DEF IsTable
  <2>2. names \in Seq(STRING) /\ Len(names) = Len(t.names) + 1 /\ Len(t.names) \in Nat
    BY <2>1
  <2>3. Elements(names) = Elements(t.names) \cup {name}
    BY <2>1, AppendedElements
  <2>4. /\ rows \in Seq(Seq(Cells)) /\ DOMAIN rows = DOMAIN column
        /\ t.rows = <<>> => \A k \in DOMAIN rows : Len(rows[k]) = 1
        /\ t.rows # <<>> => \A k \in DOMAIN rows :
              k \in DOMAIN t.rows /\ Len(rows[k]) = Len(t.rows[k]) + 1
    <3>1. CASE t.rows = <<>>
      <4>1. rows = [k \in 1 .. Len(column) |-> <<column[k]>>]
        BY <3>1
      <4>2. \A k \in 1 .. Len(column) : <<column[k]>> \in Seq(Cells) /\ Len(<<column[k]>>) = 1
        OBVIOUS
      <4>3. rows \in Seq(Seq(Cells)) /\ DOMAIN rows = 1 .. Len(column)
        <5>1. rows = [k \in 1 .. Len(column) |-> rows[k]]
          BY <4>1
        <5>2. \A k \in 1 .. Len(column) : rows[k] \in Seq(Cells)
          BY <4>1, <4>2
        <5> HIDE DEF rows
        <5>3. QED
          BY <5>1, <5>2, SeqOf
      <4>4. \A k \in DOMAIN rows : Len(rows[k]) = 1
        BY <4>1, <4>2
      <4>5. QED
        BY <3>1, <4>3, <4>4
    <3>2. CASE t.rows # <<>>
      <4>1. DOMAIN rows = DOMAIN t.rows /\ DOMAIN rows = DOMAIN column
        BY <2>1, <3>2
      <4>2. \A k \in DOMAIN column : rows[k] = Append(t.rows[k], column[k])
        BY <3>2
      <4>3. ASSUME NEW k \in DOMAIN column
            PROVE  rows[k] \in Seq(Cells) /\ Len(rows[k]) = Len(t.rows[k]) + 1
        <5>1. t.rows[k] \in Seq(Cells) /\ column[k] \in Cells
          BY <2>1, <4>1
        <5>2. QED
          BY <4>2, <5>1, LongerByOne
      <4>4. rows \in Seq(Seq(Cells))
        <5>1. rows = [k \in 1 .. Len(column) |-> rows[k]]
          BY <3>2
        <5>2. \A k \in 1 .. Len(column) : rows[k] \in Seq(Cells)
          BY <4>3
        <5> HIDE DEF rows
        <5>3. QED
          BY <5>1, <5>2, SeqOf
      <4>5. QED
        BY <3>2, <4>1, <4>3, <4>4
    <3>3. QED
      BY <3>1, <3>2
  <2> HIDE DEF rows
  <2>5. u = [names |-> names, rows |-> rows, maxWidth |-> t.maxWidth, sortby |-> t.sortby]
    BY WithNamesRows, Zenon
  <2> HIDE DEF names, u
  <2>6. IsTable(u)
    BY <2>2, <2>4, <2>5 DEF IsTable
  <2>7. IsLook(m) /\ Grows(l, m)
    BY DEF IsLook, Grows
  <2>8. HalfNamed(t, l) \/ ~HalfNamed(u, m)
    BY <2>3, <2>5 DEF HalfNamed
  <2>9. StaysFit(t, Return(u, m))
    <3>1. TooLong(t) \/ ~TooLong(u)
      <4>1. CASE t.rows = <<>>
        BY <2>2, <2>4, <2>5, <4>1 DEF TooLong
      <4>2. CASE t.rows # <<>>
        <5>1. \A k \in DOMAIN t.rows : Len(t.rows[k]) \in Nat
          BY <2>1
        <5>2. QED
          BY <2>2, <2>4, <2>5, <4>2, <5>1 DEF TooLong
      <4>3. QED
        BY <4>1, <4>2
    <3>2. Fits(t) => Fits(u) \/ (t.rows = <<>> /\ t.names # <<>>)
      <4>1. CASE t.rows = <<>> /\ t.names = <<>>
        <5>1. Len(names) = 1 /\ \A k \in DOMAIN rows : Len(rows[k]) = 1
          BY <2>2, <2>4, <4>1
        <5>2. QED
          BY <2>5, <5>1 DEF Fits
      <4>2. CASE t.rows # <<>>
        BY <2>2, <2>4, <2>5, <4>2 DEF Fits
      <4>3. QED
        BY <4>1, <4>2
    <3>3. QED
      BY <3>1, <3>2 DEF StaysFit, Return, Result
  <2>10. u.sortby = t.sortby
    BY <2>5
  <2>11. KeepsLook(t, l, Return(u, m))
    <3>1. DOMAIN m.align # {} /\ Len(u.names) # Len(t.names)
      BY <2>2, <2>5
    <3>2. Return(u, m).t = u /\ Return(u, m).l = m
      BY DEF Return, Result
    <3> HIDE DEF m
    <3>3. QED
      BY <3>1, <3>2, OtherNamesLook DEF NamesKeyed
  <2>12. Sound(t, l, Return(u, m))
    BY <2>6, <2>7, <2>8, <2>9, <2>10, <2>11, ReturnSound
  <2>13. QED
    BY <1>2, <2>12 DEF add_column, u, rows, names
<1>3. QED
  BY <1>1, <1>2

LEMMA ClearSound ==
    ASSUME NEW t, IsTable(t), NEW l, IsLook(l)
    PROVE  Sound(t, l, clear_rows(t, l)) /\ Sound(t, l, clear(t, l))
<1> DEFINE u == [t EXCEPT !.rows = <<>>]
           v == [t EXCEPT !.rows = <<>>, !.names = <<>>]
<1>1. u = [names |-> t.names, rows |-> <<>>, maxWidth |-> t.maxWidth, sortby |-> t.sortby]
  BY WithRows, Zenon
<1>2. v = [names |-> <<>>, rows |-> <<>>, maxWidth |-> t.maxWidth, sortby |-> t.sortby]
  BY WithNamesRows, Zenon
<1> HIDE DEF u, v
<1>3. IsTable(u) /\ IsTable(v) /\ Grows(l, l)
  BY <1>1, <1>2 DEF IsTable, Grows
<1>4. (HalfNamed(t, l) \/ ~HalfNamed(u, l)) /\ ~HalfNamed(v, l)
  BY <1>1, <1>2 DEF HalfNamed, Elements
<1>5. Fits(u) /\ ~TooLong(u) /\ Fits(v) /\ ~TooLong(v)
  <2>1. DOMAIN u.rows = {} /\ DOMAIN v.rows = {}
    BY <1>1, <1>2
  <2>2. QED
    BY <2>1 DEF Fits, TooLong
<1>6. StaysFit(t, Return(u, l)) /\ StaysFit(t, Return(v, l))
  BY <1>5 DEF StaysFit, Return, Result
<1>7. u.sortby = t.sortby /\ v.sortby = t.sortby
  BY <1>1, <1>2
<1>8. Sound(t, l, Return(u, l))
  BY <1>1, <1>3, <1>4, <1>6, <1>7, ReturnedLook, ReturnSound
<1>9. Sound(t, l, Return(v, l))
  BY <1>2, <1>3, <1>4, <1>6, <1>7, ReturnedLook, ReturnSound
<1>10. QED
  BY <1>8, <1>9 DEF clear_rows, clear, u, v

(* A slice has the names of its table and some of its rows.                *)
LEMMA SliceSound ==
    ASSUME NEW t, IsTable(t), NEW l, IsLook(l),
           NEW from \in 0 .. Len(t.rows), NEW to \in 0 .. Len(t.rows)
    PROVE  LET r == __getitem__(t, l, from, to)
           IN r.exc = NoExc =>
                 /\ IsTable(r.t) /\ r.l = l
                 /\ r.t.names = t.names /\ r.t.sortby = t.sortby
                 /\ TooLong(t) \/ ~TooLong(r.t)
<1> DEFINE rows == SubSeq(t.rows, from + 1, to)
           u == [t EXCEPT !.rows = rows, !.maxWidth = EmptyDict]
           r == __getitem__(t, l, from, to)
<1>1. u = [names |-> t.names, rows |-> rows, maxWidth |-> EmptyDict, sortby |-> t.sortby]
  BY WithRowsWidth
<1>2. t.rows \in Seq(Seq(Cells)) /\ from \in Nat /\ to \in Nat /\ to <= Len(t.rows)
  BY DEF IsTable
<1>3. /\ rows \in Seq(Seq(Cells))
      /\ \A k \in DOMAIN rows : k + from \in DOMAIN t.rows /\ rows[k] = t.rows[k + from]
  BY <1>2
<1>4. r.exc = NoExc => r.t = u /\ r.l = l
  BY DEF __getitem__, Raise, Return, Result, NoExc
<1> HIDE DEF rows, u, r
<1>5. IsTable(u)
  BY <1>1, <1>3 DEF IsTable
<1>6. TooLong(t) \/ ~TooLong(u)
  BY <1>1, <1>3 DEF TooLong
<1>7. QED
  BY <1>1, <1>4, <1>5, <1>6 DEF r
-----------------------------------------------------------------------------
(* Behaviours.                                                             *)

(* The inductive invariant: objects are tables with no row longer than the *)
(* names, and each works on the dictionaries of an object that exists,     *)
(* which have alignments if it has fields.                                 *)
Owned ==
    /\ table = [x \in Objects |-> table[x]]
    /\ look = [x \in Objects |-> look[x]]
    /\ uses \in [Objects -> Objects]
    /\ \A x \in Objects : Exists(x) => Exists(uses[x])

Tables ==
    \A x \in Objects :
        /\ IsTable(table[x]) /\ IsLook(look[x]) /\ ~TooLong(table[x])
        /\ Exists(x) => table[x].sortby \in {NoField} \cup Names

Keyed == \A x \in Objects : NamesKeyed(table[x], LookOf(x))

IInv == Owned /\ Tables /\ Keyed

(* The four properties, of a step.                                         *)
NothingOnRefusal == raised' = "Exception" => UNCHANGED <<table, look>>

FitStep ==
    \A x \in Objects :
        /\ Exists(x) /\ Fits(table[x]) /\ ~Fits(table'[x]) =>
              table[x].rows = <<>> /\ table[x].names # <<>>
        /\ ~TooLong(table'[x])

PrintStep ==
    \A x \in Objects : Prints(x) /\ ~Prints(x)' =>
        \/ StaleSort(table'[x]) \/ UnreachedSort(table'[x])
        \/ table[x].names = <<>> /\ raised' = "UnboundLocalError"
        \/ ~Exists(x) /\ \E y \in Objects :
              ~Prints(y) /\ table[y].names = table'[x].names

AlignStep ==
    \A x \in Objects :
        RenamedInPlace(table[x].names, table'[x].names) /\ raised' = NoExc =>
            \A k \in DOMAIN table[x].names :
                LookOf(x)'.align[table'[x].names[k]] = LookOf(x).align[table[x].names[k]]

Kept == IInv' /\ NothingOnRefusal /\ FitStep /\ PrintStep /\ AlignStep

(* A table whose fields all have an alignment prints, but for sorting.     *)
LEMMA NamedPrints ==
    ASSUME NEW t, NEW l, ~HalfNamed(t, l), ~StaleSort(t), ~UnreachedSort(t)
    PROVE  Failure(t, l) = NoExc
<1>1. \A c \in DOMAIN t.names : t.names[c] \in Elements(t.names)
  BY DEF Elements
<1>2. ~Unaligned(t, l)
  BY <1>1 DEF Unaligned, HalfNamed
<1>3. QED
  BY <1>2 DEF Failure

(* Dictionaries that grow take nothing from a table that prints.           *)
LEMMA GrownPrints ==
    ASSUME NEW t, NEW l, NEW m, Grows(l, m), Failure(t, l) = NoExc, ~HalfNamed(t, l)
    PROVE  Failure(t, m) = NoExc /\ ~HalfNamed(t, m)
<1>1. ~StaleSort(t) /\ ~UnreachedSort(t)
  BY DEF Failure, NoExc
<1>2. ~HalfNamed(t, m)
  BY DEF HalfNamed, Grows
<1>3. QED
  BY <1>1, <1>2, NamedPrints

LEMMA CallKeeps ==
    ASSUME IInv, NEW z \in Objects, NEW r,
           Exists(z) => Sound(table[z], LookOf(z), r), Call(z, r)
    PROVE  Kept
<1>1. /\ table' = [table EXCEPT ![z] = r.t] /\ look' = [look EXCEPT ![uses[z]] = r.l]
      /\ uses' = uses /\ raised' = r.exc /\ Exists(z)
  BY DEF Call
<1>2. Sound(table[z], LookOf(z), r)
  BY <1>1
<1>3. /\ table = [x \in Objects |-> table[x]] /\ look = [x \in Objects |-> look[x]]
      /\ uses \in [Objects -> Objects] /\ \A x \in Objects : Exists(x) => Exists(uses[x])
  BY DEF IInv, Owned
<1>4. /\ table'[z] = r.t /\ look'[uses[z]] = r.l
      /\ \A x \in Objects : x # z => table'[x] = table[x]
      /\ \A x \in Objects : x # uses[z] => look'[x] = look[x]
      /\ table' = [x \in Objects |-> table'[x]] /\ look' = [x \in Objects |-> look'[x]]
  BY <1>1, <1>3
<1>5. \A x \in Objects :
        /\ IsTable(table[x]) /\ IsLook(look[x]) /\ ~TooLong(table[x])
        /\ Exists(x) => table[x].sortby \in {NoField} \cup Names
  BY DEF IInv, Tables
<1>6. IsTable(r.t) /\ IsLook(r.l) /\ ~TooLong(r.t) /\ Grows(LookOf(z), r.l)
  BY <1>2, <1>5 DEF Sound, WellTyped, StaysFit
<1>7. r.t # NoTable /\ r.t.sortby \in {NoField} \cup Names
  <2>1. r.t.sortby \in {NoField} \cup Names
    BY <1>1, <1>2, <1>5 DEF Sound, KeepsSort
  <2>2. NoTable.sortby \notin {NoField} \cup Names
    BY NamesAssumption DEF NoTable, NoField
  <2>3. QED
    BY <2>1, <2>2
<1>8. \A x \in Objects : Exists(x)' <=> Exists(x)
  BY <1>1, <1>4, <1>7 DEF Exists
<1>9. Owned' /\ Tables'
  BY <1>1, <1>3, <1>4, <1>5, <1>6, <1>7, <1>8 DEF Owned, Tables
<1>10. Keyed'
  <2>1. SUFFICES ASSUME NEW x \in Objects PROVE NamesKeyed(table[x], LookOf(x))'
    BY DEF Keyed
  <2>2. NamesKeyed(table[x], LookOf(x)) /\ NamesKeyed(table[z], LookOf(z))
    BY DEF IInv, Keyed
  <2>3. CASE x = z
    <3>1. LookOf(x)' = r.l /\ table'[x] = r.t
      BY <1>1, <1>4, <2>3 DEF LookOf
    <3>2. NamesKeyed(r.t, r.l)
      BY <1>2, <2>2 DEF Sound, KeepsLook
    <3>3. QED
      BY <3>1, <3>2 DEF NamesKeyed
  <2>4. CASE x # z
    <3>1. table'[x] = table[x] /\ Grows(LookOf(x), LookOf(x)')
      BY <1>1, <1>4, <1>6, <2>4 DEF LookOf, Grows
    <3>2. QED
      BY <2>2, <3>1 DEF NamesKeyed, Grows
  <2>5. QED
    BY <2>3, <2>4
<1>11. AlignStep
  <2>1. SUFFICES ASSUME NEW x \in Objects, RenamedInPlace(table[x].names, table'[x].names),
                        raised' = NoExc, NEW k \in DOMAIN table[x].names
                 PROVE  LookOf(x)'.align[table'[x].names[k]] = LookOf(x).align[table[x].names[k]]
    BY DEF AlignStep
  <2>2. x = z
    BY <1>4, <2>1 DEF RenamedInPlace
  <2>3. LookOf(x)' = r.l /\ table'[x] = r.t /\ r.exc = NoExc
    BY <1>1, <1>4, <2>1, <2>2 DEF LookOf
  <2>4. NamesKeyed(table[x], LookOf(x)) /\ KeepsLook(table[x], LookOf(x), r)
    BY <1>2, <2>2 DEF IInv, Keyed, Sound
  <2>5. QED
    BY <2>1, <2>3, <2>4 DEF KeepsLook
<1>12. NothingOnRefusal
  <2>1. SUFFICES ASSUME r.exc = "Exception" PROVE UNCHANGED <<table, look>>
    BY <1>1 DEF NothingOnRefusal
  <2>2. r.t = table[z] /\ r.l = look[uses[z]]
    BY <1>2, <2>1 DEF Sound, Atomic, LookOf
  <2>3. QED
    BY <1>1, <1>3, <2>2
<1>13. FitStep
  BY <1>2, <1>4, <1>5, <1>6 DEF FitStep, Sound, StaysFit
<1>14. PrintStep
  <2>1. SUFFICES ASSUME NEW x \in Objects, Prints(x), ~Prints(x)'
                 PROVE  \/ StaleSort(table'[x]) \/ UnreachedSort(table'[x])
                        \/ table[x].names = <<>> /\ raised' = "UnboundLocalError"
    BY DEF PrintStep
  <2>2. /\ Exists(x) /\ Exists(x)' /\ Failure(table[x], LookOf(x)) = NoExc
        /\ ~HalfNamed(table[x], LookOf(x))
        /\ ~(Failure(table[x], LookOf(x))' = NoExc /\ ~HalfNamed(table[x], LookOf(x))')
    BY <1>8, <2>1 DEF Prints
  <2>3. CASE x = z
    <3>1. LookOf(x)' = r.l /\ table'[x] = r.t
      BY <1>1, <1>4, <2>3 DEF LookOf
    <3>2. CASE ~HalfNamed(r.t, r.l) /\ ~StaleSort(r.t) /\ ~UnreachedSort(r.t)
      BY <1>6, <2>2, <3>1, <3>2, NamedPrints
    <3>3. CASE HalfNamed(r.t, r.l)
      BY <1>1, <1>2, <2>2, <2>3, <3>3 DEF Sound, StaysNamed
    <3>4. QED
      BY <3>1, <3>2, <3>3
  <2>4. CASE x # z
    <3>1. table'[x] = table[x] /\ LookOf(x)' = look'[uses[x]] /\ uses[x] \in Objects
      BY <1>1, <1>3, <1>4, <2>4 DEF LookOf
    <3>2. Grows(LookOf(x), LookOf(x)')
      <4>1. CASE uses[x] = uses[z]
        BY <1>4, <1>6, <3>1, <4>1 DEF LookOf
      <4>2. CASE uses[x] # uses[z]
        BY <1>4, <3>1, <4>2 DEF LookOf, Grows
      <4>3. QED
        BY <4>1, <4>2
    <3>3. Failure(table[x], LookOf(x)') = NoExc /\ ~HalfNamed(table[x], LookOf(x)')
      BY <1>5, <2>2, <3>2, GrownPrints
    <3>4. QED
      BY <2>2, <3>1, <3>3
  <2>5. QED
    BY <2>3, <2>4
<1>15. QED
  BY <1>9, <1>10, <1>11, <1>12, <1>13, <1>14 DEF Kept, IInv

LEMMA NoTableNames == NoTable.names = <<>>
BY Zenon DEF NoTable

LEMMA MakeKeeps ==
    ASSUME IInv, NEW new \in Objects, NEW owner \in Objects, NEW r, Make(new, r, owner),
           r.exc = NoExc =>
              /\ IsTable(r.t) /\ IsLook(r.l) /\ ~TooLong(r.t)
              /\ r.t.sortby \in {NoField} \cup Names /\ NamesKeyed(r.t, r.l)
              /\ owner = new \/ (Exists(owner) /\ r.l = look[owner])
              /\ \/ ~HalfNamed(r.t, r.l)
                 \/ \E y \in Objects : ~Prints(y) /\ table[y].names = r.t.names
    PROVE  Kept
<1>1. /\ table = [x \in Objects |-> table[x]] /\ look = [x \in Objects |-> look[x]]
      /\ uses \in [Objects -> Objects] /\ \A x \in Objects : Exists(x) => Exists(uses[x])
  BY DEF IInv, Owned
<1>2. \A x \in Objects :
        /\ IsTable(table[x]) /\ IsLook(look[x]) /\ ~TooLong(table[x])
        /\ Exists(x) => table[x].sortby \in {NoField} \cup Names
  BY DEF IInv, Tables
<1>3. raised' = r.exc /\ ~Exists(new)
  BY DEF Make
<1>4. CASE r.exc # NoExc
  <2>1. table' = table /\ look' = look /\ uses' = uses
    BY <1>4 DEF Make
  <2>2. IInv'
    BY <1>1, <1>2, <2>1 DEF IInv, Owned, Tables, Keyed, Exists, LookOf
  <2>3. NothingOnRefusal /\ FitStep /\ AlignStep
    BY <1>2, <2>1 DEF NothingOnRefusal, FitStep, AlignStep, RenamedInPlace
  <2>4. \A x \in Objects : Prints(x)' <=> Prints(x)
    BY <2>1 DEF Prints, Exists, LookOf
  <2>5. QED
    BY <2>2, <2>3, <2>4 DEF Kept, PrintStep
<1>5. CASE r.exc = NoExc
  <2>1. /\ table' = [table EXCEPT ![new] = r.t] /\ look' = [look EXCEPT ![owner] = r.l]
        /\ uses' = [uses EXCEPT ![new] = owner]
    BY <1>5 DEF Make
  <2>2. /\ IsTable(r.t) /\ IsLook(r.l) /\ ~TooLong(r.t)
        /\ r.t.sortby \in {NoField} \cup Names /\ NamesKeyed(r.t, r.l)
        /\ owner = new \/ (Exists(owner) /\ r.l = look[owner])
        /\ \/ ~HalfNamed(r.t, r.l)
           \/ \E y \in Objects : ~Prints(y) /\ table[y].names = r.t.names
    BY <1>5
  <2>3. /\ table'[new] = r.t /\ look'[owner] = r.l /\ uses'[new] = owner
        /\ \A x \in Objects : x # new => table'[x] = table[x] /\ uses'[x] = uses[x]
        /\ \A x \in Objects : x # owner => look'[x] = look[x]
        /\ table' = [x \in Objects |-> table'[x]] /\ look' = [x \in Objects |-> look'[x]]
        /\ uses' \in [Objects -> Objects]
    BY <1>1, <2>1
  <2>4. r.t # NoTable
    <3>1. NoTable.sortby \notin {NoField} \cup Names
      BY NamesAssumption DEF NoTable, NoField
    <3>2. QED
      BY <2>2, <3>1
  <2>5. /\ Exists(new)' /\ Exists(owner)'
        /\ \A x \in Objects : x # new => (Exists(x)' <=> Exists(x))
    BY <2>2, <2>3, <2>4 DEF Exists
  <2>6. \A x \in Objects : x # new /\ Exists(x) => LookOf(x)' = LookOf(x)
    <3>1. SUFFICES ASSUME NEW x \in Objects, x # new, Exists(x)
                   PROVE  LookOf(x)' = LookOf(x)
      OBVIOUS
    <3>2. Exists(uses[x]) /\ uses[x] \in Objects /\ uses[x] # new /\ uses'[x] = uses[x]
      BY <1>1, <1>3, <2>3, <3>1
    <3>3. look'[uses[x]] = look[uses[x]]
      BY <2>2, <2>3, <3>2
    <3>4. QED
      BY <3>2, <3>3 DEF LookOf
  <2>7. Owned'
    BY <1>1, <2>3, <2>5 DEF Owned
  <2>8. Tables'
    BY <1>2, <2>2, <2>3, <2>5 DEF Tables
  <2>9. NothingOnRefusal
    BY <1>3, <1>5 DEF NothingOnRefusal, NoExc
  <2>10. FitStep
    BY <1>2, <1>3, <2>2, <2>3 DEF FitStep
  <2>11. PrintStep
    <3>1. SUFFICES ASSUME NEW x \in Objects, Prints(x), ~Prints(x)'
                   PROVE  \/ StaleSort(table'[x]) \/ UnreachedSort(table'[x])
                          \/ ~Exists(x) /\ \E y \in Objects :
                                ~Prints(y) /\ table[y].names = table'[x].names
      BY DEF PrintStep
    <3>2. CASE x = new
      <4>1. LookOf(x)' = r.l /\ table'[x] = r.t
        BY <2>3, <3>2 DEF LookOf
      <4>2. CASE HalfNamed(r.t, r.l)
        BY <1>3, <2>2, <3>2, <4>1, <4>2
      <4>3. CASE ~HalfNamed(r.t, r.l) /\ ~StaleSort(r.t) /\ ~UnreachedSort(r.t)
        <5>1. Failure(r.t, r.l) = NoExc
          BY <2>2, <4>3, NamedPrints
        <5>2. Prints(x)'
          BY <4>1, <4>3, <5>1 DEF Prints
        <5>3. QED
          BY <3>1, <5>2
      <4>4. QED
        BY <4>1, <4>2, <4>3
    <3>3. CASE x # new
      <4>1. table'[x] = table[x] /\ (Exists(x)' <=> Exists(x))
        BY <2>3, <2>5, <3>3
      <4>2. Exists(x)
        BY <3>1, <4>1 DEF Prints
      <4>3. LookOf(x)' = LookOf(x)
        BY <2>6, <3>3, <4>2
      <4>4. QED
        BY <3>1, <4>1, <4>2, <4>3 DEF Prints
    <3>4. QED
      BY <3>2, <3>3
  <2>12. \A x \in Objects : ~Exists(x) => table[x].names = <<>>
    BY NoTableNames DEF Exists
  <2>13. Keyed'
    <3>1. SUFFICES ASSUME NEW x \in Objects PROVE NamesKeyed(table[x], LookOf(x))'
      BY DEF Keyed
    <3>2. NamesKeyed(table[x], LookOf(x))
      BY DEF IInv, Keyed
    <3>3. CASE x = new
      <4>1. LookOf(x)' = r.l /\ table'[x] = r.t
        BY <2>3, <3>3 DEF LookOf
      <4>2. QED
        BY <2>2, <4>1 DEF NamesKeyed
    <3>4. CASE x # new
      BY <2>3, <2>6, <2>12, <3>2, <3>4 DEF NamesKeyed
    <3>5. QED
      BY <3>3, <3>4
  <2>14. AlignStep
    <3>1. SUFFICES ASSUME NEW x \in Objects PROVE ~RenamedInPlace(table[x].names, table'[x].names)
      BY DEF AlignStep
    <3>2. CASE x = new
      <4>1. table[x].names = <<>> /\ table'[x] = r.t /\ r.t.names \in Seq(STRING)
        BY <1>3, <2>2, <2>3, <2>12, <3>2 DEF IsTable
      <4>2. QED
        BY <4>1 DEF RenamedInPlace
    <3>3. CASE x # new
      BY <2>3, <3>3 DEF RenamedInPlace
    <3>4. QED
      BY <3>2, <3>3
  <2>15. QED
    BY <2>7, <2>8, <2>9, <2>10, <2>11, <2>13, <2>14 DEF Kept, IInv
<1>6. QED
  BY <1>4, <1>5

LEMMA StutterKeeps ==
    ASSUME IInv, UNCHANGED vars
    PROVE  Kept
<1>1. table' = table /\ look' = look /\ uses' = uses
  BY DEF vars
<1>2. IInv'
  BY <1>1 DEF IInv, Owned, Tables, Keyed, Exists, LookOf
<1>3. NothingOnRefusal /\ FitStep /\ AlignStep
  BY <1>1 DEF NothingOnRefusal, FitStep, AlignStep, RenamedInPlace, IInv, Tables
<1>4. \A x \in Objects : Prints(x)' <=> Prints(x)
  BY <1>1 DEF Prints, Exists, LookOf
<1>5. QED
  BY <1>2, <1>3, <1>4 DEF Kept, PrintStep

(* The arguments of the calls are lists of strings.                        *)
LEMMA NameListsAreLists ==
    ASSUME NEW names \in NameLists
    PROVE  names \in Seq(STRING)
<1>1. PICK n \in 0 .. MaxCols : names \in [1 .. n -> Names]
  BY DEF NameLists
<1>2. n \in Nat /\ \A k \in 1 .. n : names[k] \in STRING
  <2>1. \A k \in 1 .. n : names[k] \in Names
    BY <1>1
  <2>2. Names \subseteq STRING
    BY NamesAssumption
  <2>3. MaxCols \in Nat /\ n \in 0 .. MaxCols
    BY BoundAssumption
  <2>4. n \in Nat
    BY <2>3
  <2>5. \A k \in 1 .. n : names[k] \in STRING
    BY <2>1, <2>2, Zenon
  <2>6. QED
    BY <2>4, <2>5
<1>3. names = [k \in 1 .. n |-> names[k]]
  BY <1>1
<1>4. QED
  BY <1>2, <1>3, SeqOf

LEMMA RowsAreLists ==
    ASSUME NEW n \in Nat
    PROVE  Row(n) \in Seq(Cells) /\ Len(Row(n)) = n
<1>1. Row(n) = [k \in 1 .. n |-> Row(n)[k]]
  BY DEF Row
<1>2. \A k \in 1 .. n : Row(n)[k] \in Cells
  BY DEF Row, Cells
<1>3. Row(n) \in Seq(Cells) /\ DOMAIN Row(n) = 1 .. n
  BY <1>1, <1>2, SeqOf
<1>4. QED
  BY <1>3

(* PrettyTable(names) with new dictionaries.                               *)
LEMMA ConstructKeeps ==
    ASSUME IInv, NEW x \in Objects, Construct(x)
    PROVE  Kept
<1>1. PICK names \in NameLists : Make(x, _set_field_names(Blank, NoLook, names), x)
  BY DEF Construct
<1> DEFINE r == _set_field_names(Blank, NoLook, names)
<1>2. names \in Seq(STRING)
  BY NameListsAreLists
<1>3. IsTable(Blank) /\ IsLook(NoLook)
  BY DEF IsTable, IsLook, Blank, NoLook
<1>4. ~HalfNamed(Blank, NoLook) /\ ~TooLong(Blank)
  <2>1. DOMAIN Blank.names = {} /\ DOMAIN Blank.rows = {}
    BY DEF Blank
  <2>2. QED
    BY <2>1 DEF HalfNamed, TooLong, Elements
<1>5. Sound(Blank, NoLook, r)
  BY <1>2, <1>3, SetFieldNamesSound
<1>6. /\ IsTable(r.t) /\ IsLook(r.l) /\ ~TooLong(r.t)
      /\ r.t.sortby \in {NoField} \cup Names
  BY <1>4, <1>5 DEF Sound, WellTyped, StaysFit, KeepsSort, Blank
<1>7. r.exc = NoExc => ~HalfNamed(r.t, r.l)
  BY <1>4, <1>5 DEF Sound, StaysNamed, NoExc
<1>8. NamesKeyed(r.t, r.l)
  BY <1>5 DEF Sound, KeepsLook, NamesKeyed, Blank
<1>9. QED
  BY <1>1, <1>6, <1>7, <1>8, MakeKeeps

(* Calls that change a table.                                              *)
LEMMA ActionKeeps ==
    ASSUME IInv, NEW x \in Objects,
           \/ Construct(x) \/ SetFieldNames(x) \/ SetAlign(x) \/ SetValign(x)
           \/ SetSortby(x) \/ AddRow(x) \/ DelRow(x) \/ AddColumn(x)
           \/ ClearRows(x) \/ Clear(x)
    PROVE  Kept
<1> DEFINE t == table[x]
           l == LookOf(x)
<1>1. IsTable(t) /\ IsLook(l)
  BY DEF IInv, Owned, Tables, LookOf
<1> HIDE DEF t, l
<1>2. CASE Construct(x)
  BY <1>2, ConstructKeeps
<1>3. CASE SetFieldNames(x)
  <2>1. PICK names \in NameLists : Call(x, _set_field_names(t, l, names))
    BY <1>3 DEF SetFieldNames, t, l
  <2>2. Sound(t, l, _set_field_names(t, l, names))
    BY <1>1, NameListsAreLists, SetFieldNamesSound
  <2>3. QED
    BY <2>1, <2>2, CallKeeps DEF t, l
<1>4. CASE SetAlign(x)
  BY <1>1, <1>4, SetAlignSound, CallKeeps DEF SetAlign, t, l
<1>5. CASE SetValign(x)
  BY <1>1, <1>5, SetValignSound, CallKeeps DEF SetValign, t, l
<1>6. CASE SetSortby(x)
  <2>1. PICK name \in Names \cup {NoField} : Call(x, _set_sortby(t, l, name))
    BY <1>6 DEF SetSortby, t, l
  <2>2. Sound(t, l, _set_sortby(t, l, name))
    BY <1>1, SetSortbySound
  <2>3. QED
    BY <2>1, <2>2, CallKeeps DEF t, l
<1>7. CASE AddRow(x)
  <2>1. PICK n \in 0 .. MaxCols : Call(x, add_row(t, l, Row(n)))
    BY <1>7 DEF AddRow, t, l
  <2>2. Row(n) \in Seq(Cells) /\ Len(Row(n)) <= MaxCols
    BY RowsAreLists, BoundAssumption
  <2>3. Sound(t, l, add_row(t, l, Row(n)))
    BY <1>1, <2>2, AddRowSound
  <2>4. QED
    BY <2>1, <2>3, CallKeeps DEF t, l
<1>8. CASE DelRow(x)
  <2>1. PICK index \in -2 .. 1 : Call(x, del_row(t, l, index))
    BY <1>8 DEF DelRow, t, l
  <2>2. Sound(t, l, del_row(t, l, index))
    BY <1>1, DelRowSound
  <2>3. QED
    BY <2>1, <2>2, CallKeeps DEF t, l
<1>9. CASE AddColumn(x)
  <2>1. PICK name \in Names, n \in 0 .. MaxRows, valign \in {"t", "top"} :
           Call(x, add_column(t, l, name, Row(n), "c", valign))
    BY <1>9 DEF AddColumn, t, l
  <2>2. name \in STRING /\ Row(n) \in Seq(Cells)
    BY NamesAssumption, BoundAssumption, RowsAreLists
  <2>3. Sound(t, l, add_column(t, l, name, Row(n), "c", valign))
    BY <1>1, <2>2, AddColumnSound
  <2>4. QED
    BY <2>1, <2>3, CallKeeps DEF t, l
<1>10. CASE ClearRows(x)
  BY <1>1, <1>10, ClearSound, CallKeeps DEF ClearRows, t, l
<1>11. CASE Clear(x)
  BY <1>1, <1>11, ClearSound, CallKeeps DEF Clear, t, l
<1>12. QED
  BY <1>2, <1>3, <1>4, <1>5, <1>6, <1>7, <1>8, <1>9, <1>10, <1>11

(* Calls that make a table out of another.                                 *)
LEMMA DerivedKeeps ==
    ASSUME IInv, NEW x \in Objects, NEW new \in Objects, Copy(x, new) \/ Slice(x, new)
    PROVE  Kept
<1> DEFINE t == table[x]
           l == LookOf(x)
<1>1. IsTable(t) /\ IsLook(l) /\ ~TooLong(t)
  BY DEF IInv, Owned, Tables, LookOf
<1>2. Exists(x) /\ t.sortby \in {NoField} \cup Names
  BY DEF IInv, Tables, Copy, Slice
<1>3. ~HalfNamed(t, l) \/ ~Prints(x)
  BY <1>2 DEF Prints
<1>4. /\ uses[x] \in Objects /\ Exists(uses[x]) /\ l = look[uses[x]]
      /\ NamesKeyed(t, l)
  BY <1>2 DEF IInv, Owned, Keyed, LookOf
<1> HIDE DEF t, l
<1>5. CASE Copy(x, new)
  <2>1. Make(new, Return(t, l), new)
    BY <1>5 DEF Copy, t, l
  <2>2. Return(t, l).t = t /\ Return(t, l).l = l
    BY DEF Return, Result
  <2>3. \/ ~HalfNamed(t, l) \/ \E y \in Objects : ~Prints(y) /\ table[y].names = t.names
    BY <1>3 DEF t
  <2>4. QED
    BY <1>1, <1>2, <1>4, <2>1, <2>2, <2>3, MakeKeeps
<1>6. CASE Slice(x, new)
  <2>1. PICK from \in 0 .. Len(t.rows), to \in 0 .. Len(t.rows) :
           Make(new, __getitem__(t, l, from, to), uses[x])
    BY <1>6 DEF Slice, t, l
  <2> DEFINE r == __getitem__(t, l, from, to)
  <2>2. r.exc = NoExc => /\ IsTable(r.t) /\ r.l = l
                         /\ r.t.names = t.names /\ r.t.sortby = t.sortby
                         /\ ~TooLong(r.t)
    BY <1>1, SliceSound
  <2> HIDE DEF r
  <2>3. Make(new, r, uses[x])
    BY <2>1 DEF r
  <2>4. r.exc = NoExc => (HalfNamed(r.t, r.l) <=> HalfNamed(t, l))
    BY <2>2 DEF HalfNamed
  <2>5. r.exc = NoExc =>
          /\ IsTable(r.t) /\ IsLook(r.l) /\ ~TooLong(r.t)
          /\ r.t.sortby \in {NoField} \cup Names /\ NamesKeyed(r.t, r.l)
          /\ Exists(uses[x]) /\ r.l = look[uses[x]]
          /\ \/ ~HalfNamed(r.t, r.l)
             \/ \E y \in Objects : ~Prints(y) /\ table[y].names = r.t.names
    BY <1>1, <1>2, <1>3, <1>4, <2>2, <2>4 DEF t, NamesKeyed
  <2>6. QED
    BY <1>4, <2>3, <2>5, MakeKeeps
<1>7. QED
  BY <1>5, <1>6

LEMMA StepKeeps ==
    ASSUME IInv, [Next]_vars
    PROVE  Kept
<1>1. CASE Next
  <2>1. CASE Terminating
    BY <2>1, StutterKeeps DEF Terminating
  <2>2. CASE ~Terminating
    BY <1>1, <2>2, ActionKeeps, DerivedKeeps DEF Next
  <2>3. QED
    BY <2>1, <2>2
<1>2. QED
  BY <1>1, StutterKeeps

LEMMA InitHolds == Init => IInv
<1>1. SUFFICES ASSUME Init PROVE IInv
  OBVIOUS
<1>2. \A x \in Objects : table[x] = NoTable /\ look[x] = NoLook /\ ~Exists(x)
  BY <1>1 DEF Init, Exists
<1>3. IsTable(NoTable) /\ IsLook(NoLook)
  BY DEF IsTable, IsLook, NoTable, NoLook
<1>4. ~TooLong(NoTable)
  <2>1. DOMAIN NoTable.rows = {}
    BY DEF NoTable
  <2>2. QED
    BY <2>1 DEF TooLong
<1>5. Owned
  BY <1>1, <1>2 DEF Init, Owned
<1>6. Keyed
  BY <1>2, NoTableNames DEF Keyed, NamesKeyed
<1>7. QED
  BY <1>2, <1>3, <1>4, <1>5, <1>6 DEF IInv, Tables
-----------------------------------------------------------------------------
(* Every object is a well-formed table without overlong rows and works on  *)
(* the dictionaries of an object that exists.                              *)
THEOREM Invariant == Spec => []IInv
<1>1. IInv /\ [Next]_vars => IInv'
  BY StepKeeps DEF Kept
<1>2. QED
  BY <1>1, InitHolds, PTL DEF Spec

(* A call refused with the module's own exception changes nothing          *)
(* (prettytable.py:286, :818, :847), for any tables, names and rows.       *)
THEOREM Refusals == Spec => RefusedCallsChangeNothing
<1>1. IInv /\ [Next]_vars => [NothingOnRefusal]_vars
  BY StepKeeps DEF Kept
<1>2. QED
  BY <1>1, Invariant, PTL DEF Spec, RefusedCallsChangeNothing, NothingOnRefusal

(* Rows keep the length of the field list, and never exceed it: what       *)
(* _compute_widths (prettytable.py:892) relies on when it indexes.         *)
THEOREM RowLengths == Spec => RowsFit
<1>1. IInv /\ [Next]_vars => [FitStep]_vars
  BY StepKeeps DEF Kept
<1>2. QED
  BY <1>1, Invariant, PTL DEF Spec, RowsFit, FitStep

(* A table that prints goes on printing but for the named causes           *)
(* (prettytable.py:416, :929), whoever shares its dictionaries.            *)
THEOREM Printing == Spec => PrintingEndsForCause
<1>1. IInv /\ [Next]_vars => [PrintStep]_vars
  BY StepKeeps DEF Kept
<1>2. QED
  BY <1>1, Invariant, PTL DEF Spec, PrintingEndsForCause, PrintStep

(* A renamed field keeps its alignment (prettytable.py:418), whoever       *)
(* shares the dictionaries.                                                *)
THEOREM Renaming == Spec => RenamingKeepsAlignment
<1>1. IInv /\ [Next]_vars => [AlignStep]_vars
  BY StepKeeps DEF Kept
<1>2. QED
  BY <1>1, Invariant, PTL DEF Spec, RenamingKeepsAlignment, AlignStep
=============================================================================
