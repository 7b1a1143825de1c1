------------------------------- MODULE Upsert -------------------------------
(***************************************************************************)
(* pkg/database/sql/upsert: options are applied one after the other to the  *)
(* settings; Build validates what they come to and writes the statement.    *)
(* A column map is a function on a set of columns, and one that may be nil  *)
(* is a sequence of at most one such function.  A statement is its lists of *)
(* columns and its arguments: the Dollar format of squirrel numbers the     *)
(* placeholders in the order of the text, the inserted columns first.       *)
(***************************************************************************)
EXTENDS Integers, Sequences, FiniteSets

CONSTANTS
  Columns,     \* column names, as integers so that they can be sorted
  Values,      \* values of columns
  Tables,      \* names WithTable may be given, perhaps the empty one
  MaxOptions   \* bound: options given to one call of Build

ASSUME UpsertAssumption == Columns \subseteq Int /\ MaxOptions \in Nat

VARIABLES
  settings,  \* what the options have come to
  options,   \* how many were applied
  outcome    \* of Build

vars == <<settings, options, outcome>>

ColumnMaps == UNION {[C -> Values] : C \in {D \in SUBSET Columns : IsFiniteSet(D)}}
Nil == <<>>
Given(m) == <<m>>
Pairs(m) == IF m = Nil THEN {} ELSE {<<c, m[1][c]>> : c \in DOMAIN m[1]}

NoTable == ""

Init ==
  /\ settings = [table                  |-> NoTable,
                 constraints            |-> <<>>,
                 insertValues           |-> Nil,
                 onConflictUpdateValues |-> Nil,
                 onConflictDoNothing    |-> FALSE]
  /\ options = 0
  /\ outcome = "none"

Apply(s) ==
  /\ outcome = "none" /\ options < MaxOptions
  /\ settings' = s
  /\ options' = options + 1
  /\ UNCHANGED outcome

WithTable(name) == Apply([settings EXCEPT !.table = name])
WithConstraints(c) == Apply([settings EXCEPT !.constraints = Append(@, c)])
WithInsertValues(m) == Apply([settings EXCEPT !.insertValues = m])
WithOnConflictUpdate(m) == Apply([settings EXCEPT !.onConflictUpdateValues = m])
WithOnConflictDoNothing == Apply([settings EXCEPT !.onConflictDoNothing = TRUE])

(* mutant: the constraints are only asked for when there are values *)
ConstraintsForUpdateOnly(s) ==
  IF s.constraints = <<>> /\ Pairs(s.onConflictUpdateValues) # {}
  THEN "ErrInvalidConstraint"
  ELSE IF Pairs(s.insertValues) = {} THEN "ErrInsertValuesIsEmpty"
  ELSE IF s.onConflictUpdateValues # Nil /\ Pairs(s.onConflictUpdateValues) = {}
  THEN "ErrUpdateValuesIsEmpty"
  ELSE IF s.onConflictDoNothing /\ Pairs(s.onConflictUpdateValues) # {}
  THEN "ErrIncompatibleOptions"
  ELSE "nil"

(* The first of these that applies.                                         *)
validate(s) ==
  LET updates == Pairs(s.onConflictUpdateValues)
  IN  IF s.constraints = <<>> /\ (updates # {} \/ s.onConflictDoNothing)
      THEN "ErrInvalidConstraint"
      ELSE IF Pairs(s.insertValues) = {} THEN "ErrInsertValuesIsEmpty"
      ELSE IF s.onConflictUpdateValues # Nil /\ updates = {}
      THEN "ErrUpdateValuesIsEmpty"
      ELSE IF s.onConflictDoNothing /\ updates # {}
      THEN "ErrIncompatibleOptions"
      ELSE "nil"

(* SetMap of squirrel sorts the columns. *)
Sorted(C) ==
  CHOOSE s \in [1..Cardinality(C) -> C] : \A i, j \in DOMAIN s : i < j => s[i] < s[j]

SetMap(m) == IF m = Nil THEN <<>> ELSE Sorted(DOMAIN m[1])

Arguments(m) == [i \in 1..Len(SetMap(m)) |-> m[1][SetMap(m)[i]]]

(* mutant: the arguments of the update are put before those of the insert *)
UpdateArgumentsFirst(s) ==
  [table       |-> s.table,
   columns     |-> SetMap(s.insertValues),
   target      |-> s.constraints,
   doNothing   |-> s.onConflictDoNothing,
   assignments |-> SetMap(s.onConflictUpdateValues),
   args        |-> Arguments(s.onConflictUpdateValues) \o Arguments(s.insertValues)]

Statement(s) ==
  [table       |-> s.table,
   columns     |-> SetMap(s.insertValues),
   target      |-> s.constraints,
   doNothing   |-> s.onConflictDoNothing,
   assignments |-> SetMap(s.onConflictUpdateValues),
   args        |-> Arguments(s.insertValues) \o Arguments(s.onConflictUpdateValues)]

(* ToSql of squirrel, on settings that are valid. *)
ToSql(s) == IF s.table = NoTable THEN "insert statements must specify a table"
                                 ELSE "nil"

(* A statement is made only if the settings are valid and name a table; it  *)
(* is Statement of the settings, which no longer change.                    *)
Build ==
  /\ outcome = "none"
  /\ outcome' = IF validate(settings) = "nil" THEN ToSql(settings)
                                              ELSE validate(settings)
  /\ UNCHANGED <<settings, options>>

Next ==
  \/ \E name \in Tables : WithTable(name)
  \/ \E c \in Columns : WithConstraints(c)
  \/ \E m \in {Nil} \union {Given(f) : f \in ColumnMaps} :
       WithInsertValues(m) \/ WithOnConflictUpdate(m)
  \/ WithOnConflictDoNothing
  \/ Build

Spec == Init /\ [][Next]_vars

-----------------------------------------------------------------------------
(* What the statement does, read off its text and its arguments: the values *)
(* the placeholders $1, $2, ... give to the columns.                        *)
Inserted(stmt) == {<<stmt.columns[i], stmt.args[i]>> : i \in DOMAIN stmt.columns}
Updated(stmt) ==
  {<<stmt.assignments[i], stmt.args[Len(stmt.columns) + i]>> :
     i \in DOMAIN stmt.assignments}

(* The statement gives every column the value its option gave it, and there *)
(* are as many arguments as placeholders (query_builder.go:103-129).        *)
MeansTheOptions ==
  outcome = "nil" =>
    LET stmt == Statement(settings)
    IN  /\ Len(stmt.args) = Len(stmt.columns) + Len(stmt.assignments)
        /\ Inserted(stmt) = Pairs(settings.insertValues)
        /\ Updated(stmt) = Pairs(settings.onConflictUpdateValues)

(* A statement that is built is one that PostgreSQL can take: a table and   *)
(* something to insert, one conflict action at most, and a conflict target  *)
(* for it (doc.go:18-21); and every such statement is built.  An option that*)
(* is refused is never dropped in silence.                                  *)
BuildsWhatIsValid ==
  outcome = "nil" <=>
    /\ outcome # "none"
    /\ Pairs(settings.insertValues) # {}
    /\ LET stmt == Statement(settings)
           asked == settings.onConflictUpdateValues # Nil
       IN  /\ stmt.table # NoTable
           /\ asked => stmt.assignments # <<>>
           /\ ~(asked /\ stmt.doNothing)
           /\ asked \/ stmt.doNothing => stmt.target # <<>>
=============================================================================
