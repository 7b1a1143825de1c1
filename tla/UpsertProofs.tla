---------------------------- MODULE UpsertProofs ----------------------------
(***************************************************************************)
(* Proofs about Upsert, for any columns, values and number of options: the  *)
(* statement that is built means what the options say, and is built exactly *)
(* when it is one that PostgreSQL can take.                                 *)
(***************************************************************************)
EXTENDS Upsert, FunctionTheorems, FiniteSetTheorems, TLAPS

ColumnSets == {D \in SUBSET Columns : IsFiniteSet(D)}
MayBeNil == {Nil} \union {Given(f) : f \in ColumnMaps}

Settings ==
  [table : Tables \cup {NoTable}, constraints : Seq(Columns),
   insertValues : MayBeNil, onConflictUpdateValues : MayBeNil,
   onConflictDoNothing : BOOLEAN]

(* What Build makes of settings. *)
Verdict(s) == IF validate(s) = "nil" THEN ToSql(s) ELSE validate(s)

Inv ==
  /\ settings \in Settings
  /\ outcome # "none" => outcome = Verdict(settings)

Increasing(s) == \A i, j \in DOMAIN s : i < j => s[i] < s[j]

-----------------------------------------------------------------------------
(* How many of C are not above x. *)
Rank(C, x) == Cardinality({y \in C : y <= x})

(* The rank of an element of a finite set of integers is one of 1 to its     *)
(* cardinality, and a larger element has a larger rank.                     *)
LEMMA Ranks ==
  ASSUME NEW C \in SUBSET Int, IsFiniteSet(C)
  PROVE  /\ \A x \in C : Rank(C, x) \in 1..Cardinality(C)
         /\ \A x, y \in C : x < y => Rank(C, x) < Rank(C, y)
<1> DEFINE Below(x) == {y \in C : y <= x}
<1>0. \A x \in C : x \in Int
  OBVIOUS
<1>1. Cardinality(C) \in Nat
  BY FS_CardinalityType
<1>2. ASSUME NEW x \in C
      PROVE  /\ IsFiniteSet(Below(x)) /\ Cardinality(Below(x)) \in 1..Cardinality(C)
  <2>1. Below(x) \in SUBSET C
    OBVIOUS
  <2>2. IsFiniteSet(Below(x)) /\ Cardinality(Below(x)) <= Cardinality(C)
    BY <2>1, FS_Subset
  <2>3. Cardinality(Below(x)) \in Nat
    BY <2>2, FS_CardinalityType
  <2>4. x \in Below(x)
    OBVIOUS
  <2>5. Cardinality(Below(x)) # 0
    BY <2>2, <2>4, FS_EmptySet
  <2> QED
    BY <1>1, <2>2, <2>3, <2>5
<1>3. ASSUME NEW x \in C, NEW y \in C, x < y
      PROVE  Cardinality(Below(x)) < Cardinality(Below(y))
  <2>1. Below(x) \in SUBSET Below(y)
    <3>1. \A z \in C : z <= x => z <= y
      BY <1>0, <1>3
    <3> QED
      BY <3>1
  <2>2. y \in Below(y) /\ y \notin Below(x)
    BY <1>3
  <2>3. /\ Cardinality(Below(x)) <= Cardinality(Below(y))
        /\ Cardinality(Below(y)) = Cardinality(Below(x)) => Below(y) = Below(x)
    BY <1>2, <2>1, FS_Subset
  <2>4. Cardinality(Below(x)) \in Int /\ Cardinality(Below(y)) \in Int
    BY <1>1, <1>2
  <2>5. Below(x) # Below(y)
    BY <2>2
  <2> HIDE DEF Below
  <2> QED
    BY <2>3, <2>4, <2>5
<1> QED
  BY <1>2, <1>3 DEF Rank

(* The columns of a map have one order, and it leaves out none of them.     *)
LEMMA SortedIsOnto ==
  ASSUME NEW C \in SUBSET Int, IsFiniteSet(C)
  PROVE  /\ Cardinality(C) \in Nat
         /\ Sorted(C) \in [1..Cardinality(C) -> C]
         /\ Increasing(Sorted(C))
         /\ \A x \in C : \E i \in 1..Cardinality(C) : Sorted(C)[i] = x
<1> DEFINE n == Cardinality(C)
           rank == [x \in C |-> Rank(C, x)]
           at == [i \in 1..n |-> CHOOSE x \in C : rank[x] = i]
<1>1. n \in Nat
  BY FS_CardinalityType
<1>2. IsFiniteSet(1..n) /\ Cardinality(1..n) = n
  BY <1>1, FS_Interval
<1>3. rank \in [C -> 1..n]
  BY Ranks
<1>4. \A x, y \in C : x < y => rank[x] < rank[y]
  BY Ranks
<1> HIDE DEF n, rank
<1>5. \A x, y \in C : rank[x] = rank[y] => x = y
  <2> SUFFICES ASSUME NEW x \in C, NEW y \in C, x # y
               PROVE  rank[x] # rank[y]
    OBVIOUS
  <2>1. rank[x] \in Int /\ rank[y] \in Int
    BY <1>1, <1>3
  <2>2. x < y \/ y < x
    OBVIOUS
  <2> QED
    BY <1>4, <2>1, <2>2
<1>6. \A i \in 1..n : \E x \in C : rank[x] = i
  <2>1. Cardinality(C) = Cardinality(1..n) /\ IsFiniteSet(1..n)
    BY <1>2 DEF n
  <2> DEFINE T == 1..n
  <2>2. /\ rank \in [C -> T]
        /\ \A a, b \in C : rank[a] = rank[b] => a = b
        /\ Cardinality(C) = Cardinality(T) /\ IsFiniteSet(T)
    BY <1>3, <1>5, <2>1
  <2>3. \A t \in T : \E x \in C : rank[x] = t
    <3> HIDE DEF T, at
    <3>1. rank \in Injection(C, T)
      BY <2>2, Fun_IsInj
    <3>2. rank \in Surjection(C, T)
      BY <2>2, <3>1, FS_Injection
    <3> QED
      BY <3>2 DEF Surjection
  <2> QED
    BY <2>3
<1>7. \A i \in 1..n : at[i] \in C /\ rank[at[i]] = i
  BY <1>6
<1>8. at \in [1..n -> C]
  BY <1>7
<1>9. Increasing(at)
  <2> SUFFICES ASSUME NEW i \in 1..n, NEW j \in 1..n, i < j
               PROVE  at[i] < at[j]
    BY DEF Increasing
  <2> HIDE DEF at
  <2>1. /\ at[i] \in C /\ at[j] \in C /\ rank[at[i]] = i /\ rank[at[j]] = j
    BY <1>7
  <2>2. at[i] # at[j]
    BY <2>1
  <2>3. ~(at[j] < at[i])
    <3>1. at[j] < at[i] => j < i
      BY <1>4, <2>1
    <3> QED
      BY <1>1, <3>1
  <2>4. at[i] \in Int /\ at[j] \in Int
    BY <2>1
  <2> QED
    BY <2>2, <2>3, <2>4
<1>10. Sorted(C) \in [1..n -> C] /\ Increasing(Sorted(C))
  <2>1. \E s \in [1..n -> C] : \A i, j \in DOMAIN s : i < j => s[i] < s[j]
    BY <1>8, <1>9 DEF Increasing
  <2> QED
    BY <2>1 DEF Sorted, Increasing, n
<1>11. \A i, j \in 1..n : Sorted(C)[i] = Sorted(C)[j] => i = j
  <2> SUFFICES ASSUME NEW i \in 1..n, NEW j \in 1..n, i # j
               PROVE  Sorted(C)[i] # Sorted(C)[j]
    OBVIOUS
  <2>1. Sorted(C)[i] \in Int /\ Sorted(C)[j] \in Int
    BY <1>10
  <2>2. i < j \/ j < i
    BY <1>1
  <2>3. DOMAIN Sorted(C) = 1..n
    BY <1>10
  <2> QED
    BY <1>10, <2>1, <2>2, <2>3 DEF Increasing
<1>12. \A x \in C : \E i \in 1..n : Sorted(C)[i] = x
  <2>1. Cardinality(1..n) = Cardinality(C)
    BY <1>2 DEF n
  <2>2. Sorted(C) \in [1..n -> C]
    BY <1>10
  <2> DEFINE T == 1..n
             s == Sorted(C)
  <2>3. /\ s \in [T -> C]
        /\ \A a, b \in T : s[a] = s[b] => a = b
        /\ Cardinality(T) = Cardinality(C)
    BY <1>11, <2>1, <2>2
  <2>4. \A x \in C : \E i \in T : s[i] = x
    <3> HIDE DEF T, s
    <3>1. s \in Injection(T, C)
      BY <2>3, Fun_IsInj
    <3>2. s \in Surjection(T, C)
      BY <2>3, <3>1, FS_Injection
    <3> QED
      BY <3>2 DEF Surjection
  <2> QED
    BY <2>4
<1> QED
  BY <1>1, <1>10, <1>12 DEF n

-----------------------------------------------------------------------------
(* A column map that is there has a finite set of integers as its domain.   *)
LEMMA Maps ==
  ASSUME NEW m \in MayBeNil, m # Nil
  PROVE  /\ DOMAIN m[1] \in SUBSET Int
         /\ IsFiniteSet(DOMAIN m[1])
<1>1. PICK f \in ColumnMaps : m = Given(f)
  BY DEF MayBeNil
<1>2. m[1] = f
  BY <1>1 DEF Given
<1>3. PICK D \in SUBSET Columns : IsFiniteSet(D) /\ f \in [D -> Values]
  BY DEF ColumnMaps
<1> QED
  BY <1>2, <1>3, UpsertAssumption

(* The list of the columns of a map and that of its values.                 *)
LEMMA Lists ==
  ASSUME NEW m \in MayBeNil
  PROVE  /\ SetMap(m) \in Seq(Int)
         /\ Arguments(m) \in Seq({m[1][c] : c \in DOMAIN m[1]})
         /\ Len(Arguments(m)) = Len(SetMap(m))
         /\ \A i \in 1..Len(SetMap(m)) : Arguments(m)[i] = m[1][SetMap(m)[i]]
         /\ Pairs(m) = {<<SetMap(m)[i], Arguments(m)[i]>> : i \in 1..Len(SetMap(m))}
<1>1. CASE m = Nil
  <2>1. SetMap(m) = <<>> /\ Pairs(m) = {} /\ Len(SetMap(m)) = 0
    BY <1>1 DEF SetMap, Pairs
  <2>2. Arguments(m) = <<>>
    BY <2>1 DEF Arguments
  <2> QED
    BY <2>1, <2>2
<1>2. CASE m # Nil
  <2> DEFINE C == DOMAIN m[1]
             n == Cardinality(C)
             s == SetMap(m)
  <2>1. C \in SUBSET Int /\ IsFiniteSet(C)
    BY <1>2, Maps
  <2>2. s = Sorted(C)
    BY <1>2 DEF SetMap
  <2>3. /\ n \in Nat
        /\ s \in [1..n -> C]
        /\ \A x \in C : \E i \in 1..n : s[i] = x
    BY <2>1, <2>2, SortedIsOnto
  <2> HIDE DEF s, n
  <2>4. s \in Seq(Int) /\ Len(s) = n
    BY <2>1, <2>3
  <2>5. Arguments(m) = [i \in 1..n |-> m[1][s[i]]]
    BY <2>4 DEF Arguments, s
  <2>6. \A i \in 1..n : m[1][s[i]] \in {m[1][c] : c \in C}
    BY <2>3
  <2>7. /\ Arguments(m) \in Seq({m[1][c] : c \in C}) /\ Len(Arguments(m)) = n
    BY <2>3, <2>5, <2>6
  <2>8. \A i \in 1..n : Arguments(m)[i] = m[1][s[i]]
    BY <2>5
  <2>9. Pairs(m) = {<<c, m[1][c]>> : c \in C}
    BY <1>2 DEF Pairs
  <2>10. {<<c, m[1][c]>> : c \in C} = {<<s[i], Arguments(m)[i]>> : i \in 1..n}
    BY <2>3, <2>8
  <2> QED
    BY <2>4, <2>7, <2>8, <2>9, <2>10 DEF s
<1> QED
  BY <1>1, <1>2

(* A map has columns exactly when its list of columns is not empty.         *)
LEMMA ListedWhenThere ==
  ASSUME NEW m \in MayBeNil
  PROVE  SetMap(m) # <<>> <=> Pairs(m) # {}
<1>1. SetMap(m) \in Seq(Int)
  BY Lists
<1>2. Pairs(m) = {<<SetMap(m)[i], Arguments(m)[i]>> : i \in 1..Len(SetMap(m))}
  BY Lists
<1>3. CASE SetMap(m) = <<>>
  BY <1>2, <1>3
<1>4. CASE SetMap(m) # <<>>
  <2>1. 1 \in 1..Len(SetMap(m))
    BY <1>1, <1>4
  <2> QED
    BY <1>2, <1>4, <2>1
<1> QED
  BY <1>3, <1>4

-----------------------------------------------------------------------------
LEMMA Initially == Init => Inv
  BY DEF Init, Inv, Settings, MayBeNil

LEMMA Inductive == Inv /\ [Next]_vars => Inv'
<1> SUFFICES ASSUME Inv, [Next]_vars PROVE Inv'
  OBVIOUS
<1> USE DEF Inv, Settings
<1>1. ASSUME NEW c \in Columns, WithConstraints(c) PROVE Inv'
  <2>1. settings' = [settings EXCEPT !.constraints = Append(@, c)] /\ outcome' = "none"
    BY <1>1 DEF WithConstraints, Apply
  <2>2. Append(settings.constraints, c) \in Seq(Columns)
    OBVIOUS
  <2> QED
    BY <2>1, <2>2
<1>2. ASSUME NEW m \in MayBeNil, WithInsertValues(m) \/ WithOnConflictUpdate(m)
      PROVE  Inv'
  BY <1>2 DEF WithInsertValues, WithOnConflictUpdate, Apply
<1>3. CASE WithOnConflictDoNothing
  BY <1>3 DEF WithOnConflictDoNothing, Apply
<1>4. CASE Build
  BY <1>4 DEF Build, Verdict
<1>6. ASSUME NEW name \in Tables, WithTable(name) PROVE Inv'
  BY <1>6 DEF WithTable, Apply
<1>5. CASE UNCHANGED vars
  BY <1>5 DEF vars
<1> QED
  BY <1>1, <1>2, <1>3, <1>4, <1>5, <1>6 DEF Next, MayBeNil

(* The settings stay well formed, and what Build has returned is the verdict*)
(* on the settings the statement is made from (query_builder.go:90-99).     *)
THEOREM SettingsFinal == Spec => []Inv
  BY Initially, Inductive, PTL DEF Spec

(* The statement gives every column the value its option gave it, whatever  *)
(* the columns, and the placeholders number the arguments.                  *)
THEOREM StatementMeansTheOptions == Spec => []MeansTheOptions
<1>1. ASSUME Inv PROVE MeansTheOptions
  <2> DEFINE ins == settings.insertValues
             upd == settings.onConflictUpdateValues
             a == Arguments(ins)
             b == Arguments(upd)
             stmt == Statement(settings)
  <2>1. ins \in MayBeNil /\ upd \in MayBeNil
    BY <1>1 DEF Inv, Settings
  <2>2. /\ stmt.columns = SetMap(ins)
        /\ stmt.assignments = SetMap(upd)
        /\ stmt.args = a \o b
    BY DEF Statement
  <2>3. PICK A, B : a \in Seq(A) /\ b \in Seq(B)
    BY <2>1, Lists
  <2>4. /\ Len(a) = Len(SetMap(ins)) /\ Len(b) = Len(SetMap(upd))
        /\ SetMap(ins) \in Seq(Int) /\ SetMap(upd) \in Seq(Int)
    BY <2>1, Lists
  <2>5. /\ Pairs(ins) = {<<SetMap(ins)[i], a[i]>> : i \in 1..Len(SetMap(ins))}
        /\ Pairs(upd) = {<<SetMap(upd)[i], b[i]>> : i \in 1..Len(SetMap(upd))}
    BY <2>1, Lists
  <2> HIDE DEF ins, upd, a, b, stmt
  <2>6. a \in Seq(A \union B) /\ b \in Seq(A \union B)
    BY <2>3
  <2>7. /\ Len(a \o b) = Len(a) + Len(b)
        /\ \A i \in 1..Len(a) : (a \o b)[i] = a[i]
        /\ \A i \in 1..Len(b) : (a \o b)[Len(a) + i] = b[i]
    BY <2>6
  <2>8. /\ DOMAIN stmt.columns = 1..Len(SetMap(ins))
        /\ DOMAIN stmt.assignments = 1..Len(SetMap(upd))
    BY <2>2, <2>4
  <2>9. Inserted(stmt) = Pairs(ins)
    BY <2>2, <2>4, <2>5, <2>7, <2>8 DEF Inserted
  <2>10. Updated(stmt) = Pairs(upd)
    <3>1. \A i \in DOMAIN stmt.assignments :
            /\ stmt.assignments[i] = SetMap(upd)[i]
            /\ stmt.args[Len(stmt.columns) + i] = b[i]
      BY <2>2, <2>4, <2>7, <2>8
    <3> QED
      BY <2>5, <2>8, <3>1 DEF Updated
  <2>11. Len(stmt.args) = Len(stmt.columns) + Len(stmt.assignments)
    BY <2>2, <2>4, <2>7
  <2> QED
    BY <2>9, <2>10, <2>11 DEF MeansTheOptions, ins, upd, stmt
<1> QED
  BY <1>1, SettingsFinal, PTL

(* A statement is built exactly when it names a table, inserts something,   *)
(* has one conflict action at most, and a conflict target for the one it    *)
(* has (query_builder.go:97-132).                                           *)
THEOREM BuiltWhenValid == Spec => []BuildsWhatIsValid
<1>1. ASSUME Inv PROVE BuildsWhatIsValid
  <2> DEFINE upd == settings.onConflictUpdateValues
             stmt == Statement(settings)
  <2>1. upd \in MayBeNil /\ settings.onConflictDoNothing \in BOOLEAN
    BY <1>1 DEF Inv, Settings
  <2>2. /\ stmt.assignments = SetMap(upd)
        /\ stmt.doNothing = settings.onConflictDoNothing
        /\ stmt.target = settings.constraints
        /\ stmt.table = settings.table
    BY DEF Statement
  <2>3. stmt.assignments # <<>> <=> Pairs(upd) # {}
    BY <2>1, <2>2, ListedWhenThere
  <2>4. upd = Nil => Pairs(upd) = {}
    BY DEF Pairs
  <2>5. outcome # "none" => outcome = Verdict(settings)
    BY <1>1 DEF Inv
  <2>6. validate(settings) = "nil" <=>
          /\ Pairs(settings.insertValues) # {}
          /\ upd # Nil => Pairs(upd) # {}
          /\ ~(upd # Nil /\ settings.onConflictDoNothing)
          /\ (upd # Nil \/ settings.onConflictDoNothing) => settings.constraints # <<>>
    BY <2>1, <2>4 DEF validate
  <2>7. Verdict(settings) = "nil" <=>
          validate(settings) = "nil" /\ settings.table # NoTable
    BY DEF Verdict, ToSql
  <2> HIDE DEF upd, stmt
  <2> QED
    BY <2>2, <2>3, <2>5, <2>6, <2>7 DEF BuildsWhatIsValid, upd, stmt
<1> QED
  BY <1>1, SettingsFinal, PTL
=============================================================================
