---------------------------- MODULE TypeMeaning ----------------------------
(***************************************************************************)
(* Monotypes as terms of bounded depth, what types.rs computes on them,    *)
(* and what they mean.  The recursive methods of Monotype are folds over   *)
(* terms (TermFold), so that they can be reasoned about by induction;      *)
(* MCUnification compares them with the recursive operators of Types.      *)
(***************************************************************************)
EXTENDS Monotype, Integers, Sequences

CONSTANTS
  TypeVars,      \* the variables that stand for types
  RowVars,       \* the variables that stand for rows
  Constructors,  \* the type functions other than those of records
  Names,         \* the names an Enum has, and "" for the others
  Labels,        \* the labels of fields
  MaxDepth       \* bound: how deep a type is

(* A variable stands for types or for rows; the constructors of rows are   *)
(* apart.                                                                  *)
ASSUME SortsAssumption ==
  /\ TypeVars \cap RowVars = {}
  /\ Constructors \cap {"Var", "Rec", "RowExt", "EmptyRow"} = {}
ASSUME DepthAssumption == MaxDepth \in Nat

-----------------------------------------------------------------------------
(* The terms.  A record wraps a row, and never a bare row variable: the    *)
(* grammar asks for a field in every record (CommaOne), and a field access *)
(* puts its label in front of the variable.  A row is a variable, the      *)
(* empty row, or a field and the rest of the row.                          *)
RecordArgs(rows) == {a \in Seq(rows) : Len(a) = 1 /\ ~IsVar(a[1])}

TypesOver(types, rows) ==
  {Var(v) : v \in TypeVars}
    \cup [f : Constructors, l : Names, a : Seq(types)]
    \cup [f : {"Rec"}, l : {""}, a : RecordArgs(rows)]
RowsOver(types, rows) ==
  {Var(v) : v \in RowVars} \cup {EmptyRow}
    \cup [f : {"RowExt"}, l : Labels, a : types \X rows]

(* Level(n): the types and rows up to depth n. *)
Deeper(s, i) == [types |-> TypesOver(s.types, s.rows), rows |-> RowsOver(s.types, s.rows)]
Levels == INSTANCE SequenceFold WITH Op <- Deeper
Level(n) == Levels!Fold([types |-> {}, rows |-> {}], [i \in 1 .. n |-> i])

Types == Level(MaxDepth).types
Rows == Level(MaxDepth).rows
Terms == Types \cup Rows

-----------------------------------------------------------------------------
(* Monotype::free_variables and contains (of a variable)                   *)
FreeAlg(p, t, r) == IF IsVar(t) THEN {t.l} ELSE UNION {r[i] : i \in DOMAIN r}
Free == INSTANCE TermFold WITH Alg <- FreeAlg
FreeVariables(t) == Free!Fold({}, t)

(* Monotype::apply, for a single binding b: b.t in the place of b.v.  What *)
(* is beyond the bound MaxDepth is no term, and left alone.                *)
ReplaceAlg(b, t, r) ==
  IF IsVar(t) THEN IF t.l = b.v THEN b.t ELSE t
  ELSE [t EXCEPT !.a = r]
Replacing == INSTANCE TermFold WITH Alg <- ReplaceAlg
Replace(t, b) == IF t \in Terms THEN Replacing!Fold(b, t) ELSE t

(* Monotype::apply, for bindings in the order in which they were made:     *)
(* what it replaces variables by, until none is left that is bound         *)
Bindings == INSTANCE SequenceFold WITH Op <- Replace
Apply(t, s) == Bindings!Fold(t, s)

(* Monotype::instantiate, and apply in generalise, both with variables:    *)
(* t with the variables of m renamed as m says                             *)
RenameAlg(m, t, r) ==
  IF IsVar(t) THEN IF t.l \in DOMAIN m THEN Var(m[t.l]) ELSE t
  ELSE [t EXCEPT !.a = r]
Renaming == INSTANCE TermFold WITH Alg <- RenameAlg
Rename(t, m) == Renaming!Fold(m, t)

-----------------------------------------------------------------------------
(* What types mean, independently of how they are unified: records are     *)
(* equal if they have the same types under each label, in whatever order   *)
(* labels are listed.  A row is a stack of types for every label.  The     *)
(* size of a meaning is there for the occurs check: a type is larger than  *)
(* its variables.                                                          *)
NoFields == [fields |-> [l \in Labels |-> <<>>], size |-> 0]
(* The row with one field more in front *)
WithField(l, x, row) ==
  [fields |-> [row.fields EXCEPT ![l] = <<x, @>>], size |-> row.size + x.size + 1]
(* ... without its first field labelled l, if it has one *)
Without(l, row) ==
  IF row.fields[l] = <<>> THEN row
  ELSE [fields |-> [row.fields EXCEPT ![l] = @[2]],
        size |-> row.size - row.fields[l][1].size - 1]

(* A finite row has room for each of its fields, and what is left without  *)
(* one of them is such a row again (W is closed under taking off fields).  *)
RowOf(row) ==
  /\ row = [fields |-> row.fields, size |-> row.size]
  /\ row.fields = [l \in Labels |-> row.fields[l]]
IsRow(row) ==
  /\ RowOf(row) /\ row.size \in Nat
  /\ \A l \in Labels : row.fields[l] # <<>> =>
       /\ row.fields[l] = <<row.fields[l][1], row.fields[l][2]>>
       /\ row.fields[l][1].size \in Nat
FiniteRows(W) == \A row \in W : IsRow(row) /\ \A l \in Labels : Without(l, row) \in W

(* The meaning of a term, g giving those of its variables.                 *)
Largest(S) == CHOOSE n \in S \cup {0} : \A m \in S : m <= n

MeaningAlg(g, t, r) ==
  IF IsVar(t) THEN g[t.l]
  ELSE CASE t.f = "EmptyRow" -> NoFields
         [] t.f = "RowExt" -> WithField(t.l, r[1], r[2])
         [] OTHER -> [f |-> t.f, l |-> t.l, a |-> r,
                      size |-> Largest({r[i].size : i \in DOMAIN r}) + 1]
Meanings == INSTANCE TermFold WITH Alg <- MeaningAlg
Meaning(g, t) == Meanings!Fold(g, t)
=============================================================================
