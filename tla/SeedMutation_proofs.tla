------------------------- MODULE SeedMutation_proofs -------------------------
(***************************************************************************)
(* What holds of seeds, mutations and prepared test cases for any          *)
(* parameters, relations, sizes and any number of loops: the names are     *)
(* drawn in turn, the lists are sound, a mutator raises only after values  *)
(* have crossed types, what is recorded is what is run, and the accepted   *)
(* seeds do not change though their objects are shared.                    *)
(***************************************************************************)
EXTENDS SeedMutation, FiniteSetTheorems, WellFoundedInduction, SequenceTheorems, TLAPS

Count == Len(Mutable)

LEMMA MutableList ==
    /\ Count \in Nat /\ Count >= 1 /\ DOMAIN Mutable = 1..Count
    /\ \A i \in 1..Count : Mutable[i] \in Names
    /\ \A n \in Names : \E i \in 1..Count : n = Mutable[i]
    /\ \A i, j \in 1..Count : Mutable[i] = Mutable[j] => i = j
<1>1. Mutable \in Seq(STRING) /\ Mutable # <<>>
  BY NamesAssumption
<1>2. Count \in Nat /\ DOMAIN Mutable = 1..Count
  BY <1>1 DEF Count
<1>3. Count >= 1
  BY <1>1, <1>2 DEF Count
<1>4. \A i, j \in 1..Count : Mutable[i] = Mutable[j] => i = j
  BY <1>2, NamesAssumption
<1>5. Names = {Mutable[i] : i \in 1..Count}
  BY <1>2 DEF Names, NamesIn
<1> QED
  BY <1>2, <1>3, <1>4, <1>5

\* Where a window ends.
WindowEnd(size) == Least(Count, WindowStart(Count) + size)

\* A window of all names holds those between its two ends.
LEMMA WindowHolds ==
    ASSUME nextName \in Nat, NEW size \in Nat, NEW i \in 1..Count
    PROVE  Mutable[i] \in NamesIn(Window(Mutable, size)) <=>
             WindowStart(Count) < i /\ i <= WindowEnd(size)
<1> DEFINE from == WindowStart(Count)
           to   == WindowEnd(size)
<1>1. from \in Nat /\ to \in Nat /\ from < Count /\ from <= to /\ to <= Count
  BY MutableList DEF WindowStart, WindowEnd, Least
<1>2. Window(Mutable, size) = SubSeq(Mutable, from + 1, to)
  BY DEF Window, WindowEnd, Count
<1> HIDE DEF from, to
<1>3. SubSeq(Mutable, from + 1, to) = [k \in 1..(to - from) |-> Mutable[from + k]]
  BY <1>1
<1>4. NamesIn(Window(Mutable, size)) = {Mutable[from + k] : k \in 1..(to - from)}
  BY <1>1, <1>2, <1>3 DEF NamesIn
<1>5. ASSUME from < i, i <= to PROVE Mutable[i] \in NamesIn(Window(Mutable, size))
  <2>1. PICK k \in 1..(to - from) : from + k = i
    <3>1. i - from \in 1..(to - from) /\ from + (i - from) = i
      BY <1>1, <1>5
    <3> QED
      BY <3>1
  <2>2. Mutable[i] = Mutable[from + k]
    BY <2>1
  <2> QED
    BY <1>4, <2>2
<1>6. ASSUME Mutable[i] \in NamesIn(Window(Mutable, size)) PROVE from < i /\ i <= to
  <2>1. PICK k \in 1..(to - from) : Mutable[i] = Mutable[from + k]
    BY <1>4, <1>6
  <2>2. from + k \in 1..Count /\ from < from + k /\ from + k <= to
    BY <1>1, MutableList
  <2>3. i = from + k
    BY <2>1, <2>2, MutableList
  <2> QED
    BY <2>2, <2>3
<1> QED
  BY <1>5, <1>6 DEF from, to

\* In every round of the windows over all names each name is drawn once: the names before
\* the index are one draw ahead of the others.
InRound(k) ==
    \A i \in 1..Count : drawn[Mutable[i]] = IF i <= nextName THEN k + 1 ELSE k

Turns ==
    /\ nextName \in Nat
    /\ ~setting.guided => nextName < Count /\ \E k \in Nat : InRound(k)

LEMMA DrawKeepsTurns ==
    ASSUME Turns, DrawInOrder
    PROVE  Turns'
<1>1. PICK candidates \in CandidateLists : \E size \in Sizes(candidates) :
        /\ nextName' = NextIndex(WindowStart(Len(candidates)), size, Len(candidates))
        /\ drawn' = [n \in Names |->
                       drawn[n] + IF n \in NamesIn(Window(candidates, size)) THEN 1 ELSE 0]
        /\ setting' = setting
  BY DEF DrawInOrder, NewSeed
<1>2. PICK size \in Sizes(candidates) :
        /\ nextName' = NextIndex(WindowStart(Len(candidates)), size, Len(candidates))
        /\ drawn' = [n \in Names |->
                       drawn[n] + IF n \in NamesIn(Window(candidates, size)) THEN 1 ELSE 0]
        /\ setting' = setting
  BY <1>1
<1>3. Len(candidates) \in Nat /\ size \in Nat
  <2>1. Len(candidates) \in Nat
    <3>1. CASE ~setting.guided
      BY <3>1, MutableList DEF CandidateLists, Count
    <3>2. CASE setting.guided
      <4>1. PICK n \in 1..Len(Mutable) : candidates \in [1..n -> Names]
        BY <3>2 DEF CandidateLists
      <4>2. n \in Nat
        BY MutableList DEF Count
      <4> QED
        BY <4>1, <4>2
    <3> QED
      BY <3>1, <3>2
  <2>2. PICK k \in Nat : size = Least(k, Len(candidates))
    BY SizesAssumption DEF Sizes
  <2> QED
    BY <2>1, <2>2 DEF Least
<1>4. nextName' \in Nat
  BY <1>2, <1>3 DEF NextIndex, WindowStart, Least, Turns
<1>5. ASSUME ~setting.guided
      PROVE  nextName' < Count /\ \E k \in Nat : InRound(k)'
  <2> DEFINE from == WindowStart(Count)
             to   == WindowEnd(size)
  <2>1. candidates = Mutable /\ Len(candidates) = Count
    BY <1>5 DEF CandidateLists, Count
  <2>2. nextName < Count /\ nextName \in Nat
    BY <1>5 DEF Turns
  <2>3. PICK k \in Nat : InRound(k)
    BY <1>5 DEF Turns
  <2>4. from = nextName /\ to \in Nat /\ from <= to /\ to <= Count
    BY <1>3, <2>2, MutableList DEF WindowStart, WindowEnd, Least
  <2>5. nextName' = IF to >= Count THEN 0 ELSE to
    BY <1>2, <2>1 DEF NextIndex, WindowEnd
  <2>6. \A i \in 1..Count : drawn'[Mutable[i]] =
           drawn[Mutable[i]] + IF nextName < i /\ i <= to THEN 1 ELSE 0
    <3> SUFFICES ASSUME NEW i \in 1..Count
                 PROVE  drawn'[Mutable[i]] =
                          drawn[Mutable[i]] + IF nextName < i /\ i <= to THEN 1 ELSE 0
      OBVIOUS
    <3>1. Mutable[i] \in NamesIn(Window(Mutable, size)) <=> nextName < i /\ i <= to
      BY <1>3, <2>2, <2>4, WindowHolds
    <3>2. Mutable[i] \in Names
      BY MutableList
    <3>3. drawn'[Mutable[i]] =
             drawn[Mutable[i]] + IF Mutable[i] \in NamesIn(Window(Mutable, size)) THEN 1 ELSE 0
      BY <1>2, <2>1, <3>2
    <3> HIDE DEF to
    <3>4. CASE nextName < i /\ i <= to
      BY <3>1, <3>3, <3>4
    <3>5. CASE ~ (nextName < i /\ i <= to)
      BY <3>1, <3>3, <3>5
    <3> QED
      BY <3>4, <3>5
  <2> HIDE DEF from, to
  <2>7. \A i \in 1..Count : drawn'[Mutable[i]] = IF i <= to THEN k + 1 ELSE k
    BY <2>2, <2>3, <2>4, <2>6, MutableList DEF InRound
  <2>8. CASE to >= Count
    <3>1. \A i \in 1..Count : drawn'[Mutable[i]] = k + 1 /\ ~ (i <= 0)
      BY <2>4, <2>7, <2>8, MutableList
    <3>2. nextName' = 0 /\ k + 1 \in Nat
      BY <2>5, <2>8
    <3>3. InRound(k + 1)'
      BY <3>1, <3>2 DEF InRound, Count
    <3> QED
      BY <3>2, <3>3, MutableList
  <2>9. CASE ~ (to >= Count)
    BY <2>4, <2>5, <2>7, <2>9, MutableList DEF InRound
  <2> QED
    BY <2>8, <2>9
<1> QED
  BY <1>2, <1>4, <1>5 DEF Turns

LEMMA TurnsInductive == Spec => []Turns
<1>1. Init => Turns
  <2> SUFFICES ASSUME Init PROVE Turns
    OBVIOUS
  <2>1. \A i \in 1..Count : drawn[Mutable[i]] = 0 /\ ~ (i <= 0)
    BY MutableList DEF Init
  <2>2. InRound(0)
    BY <2>1 DEF InRound, Init
  <2> QED
    BY <2>2, MutableList DEF Init, Turns
<1>2. Turns /\ [Next]_vars => Turns'
  <2> SUFFICES ASSUME Turns, [Next]_vars PROVE Turns'
    OBVIOUS
  <2>1. CASE DrawInOrder
    BY <2>1, DrawKeepsTurns
  <2>2. CASE UNCHANGED <<setting, nextName, drawn>>
    BY <2>2 DEF Turns, InRound
  <2>3. DrawInOrder \/ UNCHANGED <<setting, nextName, drawn>>
    BY DEF Next, Generate, Mutate, FromPool, DrawAtRandom, NewSeed, AddRelated, EndDraw,
           StartMutation, Pick, RelateAlone, RelateBoth, EndPick, Raise, BuildTestcase, Build,
           CeitMutate, CeitRaise, Prepare, EndPrepare, Judge, campaign, vars
  <2> QED
    BY <2>1, <2>2, <2>3
<1> QED
  BY <1>1, <1>2, PTL DEF Spec

\* Without guidance generateSeed draws the parameters in turn: sequentialGeneratorIndex is
\* kept over windows of several sizes, and no parameter is drawn twice in order before
\* every other one was drawn.
THEOREM NamesDrawnInTurn == Spec => []DrawnInTurn
<1>1. Turns => DrawnInTurn
  <2> SUFFICES ASSUME Turns, ~setting.guided, NEW m \in Names, NEW n \in Names
               PROVE  drawn[m] <= drawn[n] + 1
    BY DEF DrawnInTurn
  <2>1. PICK k \in Nat : InRound(k)
    BY DEF Turns
  <2>2. PICK i \in 1..Count : m = Mutable[i]
    BY MutableList
  <2>3. PICK j \in 1..Count : n = Mutable[j]
    BY MutableList
  <2>4. drawn[m] \in {k, k + 1} /\ drawn[n] \in {k, k + 1}
    BY <2>1, <2>2, <2>3 DEF InRound
  <2> QED
    BY <2>4
<1> QED
  BY <1>1, TurnsInductive, PTL

-----------------------------------------------------------------------------
(* First and last index, relations, values.                                *)

LEMMA FirstIn ==
    ASSUME NEW S, S \subseteq Nat, S # {}
    PROVE  First(S) \in S /\ \A y \in S : First(S) <= y
<1>1. PICK x \in S : \A y \in S : ~ (<<y, x>> \in OpToRel(<, Nat))
  BY NatLessThanWellFounded, WFMin
<1>2. \A y \in S : ~ (y < x)
  BY <1>1 DEF OpToRel
<1>3. \A y \in S : x <= y
  BY <1>2
<1> QED
  BY <1>3 DEF First, Min

LEMMA LastIn ==
    ASSUME NEW n \in Nat, NEW S, S \subseteq 1..n, S # {}
    PROVE  Max(S) \in S /\ \A y \in S : y <= Max(S)
<1> DEFINE T == {n - i : i \in S}
<1>1. T \subseteq Nat /\ T # {}
  <2>1. \A i \in S : n - i \in Nat
    OBVIOUS
  <2> QED
    BY <2>1
<1>2. PICK x \in T : \A y \in T : x <= y
  <2> HIDE DEF T
  <2> QED
    BY <1>1, FirstIn
<1>3. PICK i \in S : x = n - i
  OBVIOUS
<1>4. \A j \in S : n - i <= n - j
  BY <1>2, <1>3
<1>5. \A j \in S : i >= j
  <2> SUFFICES ASSUME NEW j \in S PROVE i >= j
    OBVIOUS
  <2>1. i \in 1..n /\ j \in 1..n /\ n - i <= n - j
    BY <1>4
  <2> QED
    BY <2>1
<1>6. Max(S) \in S /\ \A y \in S : Max(S) >= y
  BY <1>5, Zenon DEF Max
<1> QED
  BY <1>6

LEMMA NoItemIsNone == NoItem \notin Item
  BY DEF NoItem, Item, Types

LEMMA EntryList ==
    ASSUME setting \in SettingSet
    PROVE  Len(Entries) \in Nat /\ DOMAIN Entries = 1..Len(Entries)
<1>1. setting.rows \in Seq([kind : Kinds, a : STRING, b : STRING])
  BY DEF SettingSet
<1>2. Len(setting.rows) \in Nat
  BY <1>1
<1>3. 2 * Len(setting.rows) \in Nat
  BY <1>2
<1> HIDE DEF NoItem
<1>4. DOMAIN Entries = 1..(2 * Len(setting.rows))
  BY DEF Entries
<1>5. Len(Entries) = 2 * Len(setting.rows)
  BY <1>3, <1>4, LenProperties DEF Entries
<1> QED
  BY <1>3, <1>4, <1>5

\* genValue keeps the name and the type.
LEMMA MutatedItems ==
    ASSUME NEW item \in Item, NEW m \in Mutated(item)
    PROVE  /\ m \in Item /\ m.name = item.name /\ m.type = item.type
           /\ m.value \in GenValue(item.type, item.value)
<1>1. PICK v \in GenValue(item.type, item.value) : m = [item EXCEPT !.value = v]
  BY DEF Mutated
<1>2. item.type \in Types /\ item.value \in Values
  BY DEF Item
<1>3. v \in Values
  <2>1. CASE item.type = "BOOL"
    BY <1>1, <2>1 DEF GenValue, Values
  <2>2. CASE item.type = "INT"
    BY <1>1, <2>2 DEF GenValue, Values
  <2>3. CASE item.type = "FLOAT"
    BY <1>1, <2>3 DEF GenValue, Values
  <2>4. CASE item.type = "CHOICE"
    BY <1>1, <1>2, <2>4 DEF GenValue, Values
  <2>5. CASE item.type = "KEEP"
    BY <1>1, <1>2, <2>5 DEF GenValue
  <2> QED
    BY <1>2, <2>1, <2>2, <2>3, <2>4, <2>5 DEF Types
<1> QED
  BY <1>1, <1>3 DEF Item

Copying(kind) == kind = "Default Value Dependency"

\* constraint_method gives the first item a new value; the second gets a new one, that of
\* the first, "True" where it is a switch, or stays.
LEMMA MethodItems ==
    ASSUME NEW kind, NEW a \in Item, NEW b \in Item, NEW pair \in ConstraintMethod(kind, a, b)
    PROVE  /\ pair[1] \in Mutated(a)
           /\ pair[2] \in Item /\ pair[2].name = b.name /\ pair[2].type = b.type
           /\ \/ pair[2] \in Mutated(b) \/ pair[2] = b \/ b.type = "BOOL"
              \/ Copying(kind) /\ pair[2].value = pair[1].value
<1>1. CASE kind \in {"Value Relationship Dependency", "Behavior Dependency"}
  BY <1>1, MutatedItems DEF ConstraintMethod
<1>2. CASE kind = "Default Value Dependency"
  <2>1. PICK a2 \in Mutated(a) : pair = <<a2, [b EXCEPT !.value = a2.value]>>
    BY <1>2 DEF ConstraintMethod
  <2>2. a2.value \in Values
    BY MutatedItems DEF Item
  <2> QED
    BY <1>2, <2>1, <2>2 DEF Item, Copying
<1>3. CASE kind = "Control Dependency" /\ a.type # "BOOL" /\ b.type = "BOOL"
  <2>1. pair \in Mutated(a) \X {[b EXCEPT !.value = "True"]}
    BY <1>3 DEF ConstraintMethod
  <2> QED
    BY <1>3, <2>1 DEF Item, Values
<1>4. CASE /\ kind \notin {"Value Relationship Dependency", "Behavior Dependency"}
           /\ kind # "Default Value Dependency"
           /\ ~ (kind = "Control Dependency" /\ a.type # "BOOL" /\ b.type = "BOOL")
  <2>1. pair \in Mutated(a) \X {b}
    BY <1>4 DEF ConstraintMethod
  <2> QED
    BY <2>1
<1> QED
  BY <1>1, <1>2, <1>3, <1>4

LEMMA SeqGrows ==
    ASSUME NEW A, NEW B, A \subseteq B
    PROVE  Seq(A) \subseteq Seq(B) /\ Seq(Seq(A)) \subseteq Seq(Seq(B))
<1>1. Seq(A) \subseteq Seq(B)
  OBVIOUS
<1> QED
  BY <1>1

RefsOf(objects) == {r \in DOMAIN objects : objects[r] # NoItem}

LEMMA HeapGrows ==
    ASSUME NEW h \in Seq(Item \cup {NoItem}), NEW items \in Seq(Item)
    PROVE  /\ h \o items \in Seq(Item \cup {NoItem}) /\ Len(h) \in Nat
           /\ DOMAIN (h \o items) = 1..(Len(h) + Len(items))
           /\ DOMAIN h = 1..Len(h)
           /\ \A r \in DOMAIN h : (h \o items)[r] = h[r]
           /\ \A i \in DOMAIN items : (h \o items)[Len(h) + i] = items[i]
           /\ RefsOf(h) \subseteq RefsOf(h \o items)
           /\ \A i \in DOMAIN items : Len(h) + i \in RefsOf(h \o items)
<1> HIDE DEF NoItem
<1>1. /\ h \o items \in Seq(Item \cup {NoItem}) /\ Len(h) \in Nat /\ Len(items) \in Nat
      /\ DOMAIN (h \o items) = 1..(Len(h) + Len(items))
      /\ DOMAIN h = 1..Len(h) /\ DOMAIN items = 1..Len(items)
  BY SeqGrows
<1>2. \A r \in DOMAIN h : (h \o items)[r] = h[r]
  BY <1>1
<1>3. \A i \in DOMAIN items : (h \o items)[Len(h) + i] = items[i]
  BY <1>1
<1>4. RefsOf(h) \subseteq RefsOf(h \o items)
  BY <1>1, <1>2 DEF RefsOf
<1>5. \A i \in DOMAIN items : Len(h) + i \in RefsOf(h \o items)
  <2> SUFFICES ASSUME NEW i \in DOMAIN items PROVE Len(h) + i \in RefsOf(h \o items)
    OBVIOUS
  <2>1. items[i] \in Item /\ Len(h) + i \in DOMAIN (h \o items)
    BY <1>1
  <2> QED
    BY <1>3, <2>1, NoItemIsNone DEF RefsOf
<1> QED
  BY <1>1, <1>2, <1>3, <1>4, <1>5

-----------------------------------------------------------------------------
(* What generateSeed draws: some parameters, at least one.                 *)

LEMMA CandidateNames ==
    ASSUME NEW candidates \in CandidateLists
    PROVE  /\ candidates \in Seq(Names) /\ Len(candidates) \in Nat \ {0}
           /\ NamesIn(candidates) \subseteq Names
<1>1. Mutable \in Seq(Names)
  <2>1. Mutable \in Seq(STRING)
    BY NamesAssumption
  <2>2. Mutable = [i \in 1..Len(Mutable) |-> Mutable[i]]
    BY <2>1
  <2> QED
    BY <2>1, <2>2, MutableList DEF Count
<1>2. candidates \in Seq(Names) /\ Len(candidates) \in Nat \ {0}
  <2>1. CASE ~setting.guided
    BY <1>1, <2>1, MutableList DEF CandidateLists, Count
  <2>2. CASE setting.guided
    <3>1. PICK n \in 1..Len(Mutable) : candidates \in [1..n -> Names]
      BY <2>2 DEF CandidateLists
    <3>2. n \in Nat \ {0}
      BY MutableList DEF Count
    <3> QED
      BY <3>1, <3>2
  <2> QED
    BY <2>1, <2>2
<1> QED
  BY <1>2 DEF NamesIn

LEMMA DrawnSize ==
    ASSUME NEW candidates \in CandidateLists, NEW size \in Sizes(candidates)
    PROVE  size \in Nat \ {0} /\ size <= Len(candidates)
<1>1. PICK k \in Nat \ {0} : size = Least(k, Len(candidates))
  BY SizesAssumption DEF Sizes
<1> QED
  BY <1>1, CandidateNames DEF Least

LEMMA ShuffledNames ==
    ASSUME NEW candidates \in CandidateLists, NEW size \in Sizes(candidates),
           NEW names \in Shuffled(candidates, size)
    PROVE  names \in Seq(Names) /\ names # <<>>
<1>1. names \in [1..size -> NamesIn(candidates)]
  BY DEF Shuffled
<1>2. names \in [1..size -> Names] /\ size \in Nat \ {0}
  BY <1>1, CandidateNames, DrawnSize
<1>3. names \in Seq(Names) /\ Len(names) = size
  BY <1>2
<1> QED
  BY <1>2, <1>3

LEMMA WindowNames ==
    ASSUME nextName \in Nat, NEW candidates \in CandidateLists, NEW size \in Sizes(candidates)
    PROVE  Window(candidates, size) \in Seq(Names) /\ Window(candidates, size) # <<>>
<1> DEFINE from == WindowStart(Len(candidates)) + 1
           to   == Least(Len(candidates), WindowStart(Len(candidates)) + size)
<1>1. from \in 1..Len(candidates) /\ to \in from..Len(candidates)
  BY CandidateNames, DrawnSize DEF WindowStart, Least
<1>2. Window(candidates, size) = SubSeq(candidates, from, to)
  BY DEF Window
<1> HIDE DEF from, to
<1>3. \A i \in from..to : candidates[i] \in Names
  BY <1>1, CandidateNames
<1>4. Len(candidates) \in Nat
  BY CandidateNames
<1>5. /\ SubSeq(candidates, from, to) \in Seq(Names)
      /\ Len(SubSeq(candidates, from, to)) = to - from + 1
  BY <1>1, <1>3, <1>4, SubSeqProperties
<1>6. to - from + 1 # 0
  BY <1>1, <1>4
<1>7. Len(<<>>) = 0
  OBVIOUS
<1>8. SubSeq(candidates, from, to) # <<>>
  BY <1>5, <1>6, <1>7, Zenon
<1> QED
  BY <1>2, <1>5, <1>8

LEMMA FreshItems ==
    ASSUME NEW name \in Names
    PROVE  FreshItem(name) \in Item /\ FreshItem(name).name = name
BY NamesAssumption DEF FreshItem, Item, Values

LEMMA PreparedItems ==
    ASSUME NEW k \in DOMAIN Prepared
    PROVE  Prepared[k] \in Item /\ Prepared[k].type = "CHOICE" /\ k \in Nat
<1>1. Prepared[k] \in [name : Names, type : {"CHOICE"}, value : STRING] /\ k \in Nat
  <2> DEFINE Records == [name : Names, type : {"CHOICE"}, value : STRING]
  <2>1. Prepared \in Seq(Records)
    BY NamesAssumption
  <2> HIDE DEF Records
  <2>2. Prepared[k] \in Records /\ k \in Nat
    BY <2>1
  <2> QED
    BY <2>2 DEF Records
<1>2. Prepared[k].value \in Values
  BY DEF Values
<1> QED
  BY <1>1, <1>2 DEF Item, Types

-----------------------------------------------------------------------------
(* The inductive invariant behind TypeOK, in three parts: what is stored,  *)
(* where the fuzzer is, and what the mutation at work knows.               *)

Stored ==
    /\ heap \in Seq(Item \cup {NoItem})
    /\ pool \in Seq(Seq(References) \ {<<>>})
    /\ seed \in Seq(References) /\ test \in Seq(References)

Control ==
    /\ setting \in SettingSet /\ pc \in PCs /\ loops \in Nat /\ tests \in Nat
    /\ nextName \in Nat /\ drawn \in [Names -> Nat]
    /\ pc \notin {"generate", "raised"} => seed # <<>>
    /\ pc \in {"prepare", "judge"} => test # <<>>

WorkTyped ==
    /\ picks \in Nat /\ chosen \in Nat /\ left \subseteq Nat
    /\ itemA \in Item \cup {NoItem} /\ changed \in Seq(Item \cup {NoItem})
    /\ recorded \in [Names -> Values \cup {NoValue}]

\* A changed item keeps its name: what replaces an item of the seed is a version of it.
Renewed ==
    /\ Len(changed) = Len(seed)
    /\ \A i \in DOMAIN seed : changed[i] # NoItem => changed[i].name = At(i).name

Related ==
    /\ picks > 0 /\ chosen \in DOMAIN seed
    /\ itemA \in Item /\ itemA.name = At(chosen).name /\ itemA.type = At(chosen).type
    /\ left \subseteq DOMAIN Entries /\ \A j \in left : Entries[j].from = itemA.name

Work ==
    /\ pc = "related" => \A k \in left : Entries[(k % Len(Entries)) + 1].to \in Names
    /\ pc \in {"pick", "relate"} => Renewed
    /\ pc = "relate" => Related
    /\ pc = "prepare" => left \subseteq DOMAIN Prepared
    /\ pc = "judge" => left = {}

Shape == Stored /\ Control /\ WorkTyped /\ Work

LEMMA ShapeTyped == Shape => TypeOK
<1> SUFFICES ASSUME Shape PROVE TypeOK
  OBVIOUS
<1>1. pool \in Seq(Seq(References))
  BY SeqGrows DEF Shape, Stored
<1> QED
  BY <1>1 DEF Shape, Stored, Control, WorkTyped, TypeOK

LEMMA Reference ==
    ASSUME heap \in Seq(Item \cup {NoItem}), NEW list \in Seq(References), NEW i \in DOMAIN list
    PROVE  /\ list[i] \in DOMAIN heap /\ heap[list[i]] \in Item /\ heap[list[i]] # NoItem
           /\ list[i] \in References
<1>1. list[i] \in References
  OBVIOUS
<1> QED
  BY <1>1, NoItemIsNone DEF References

LEMMA StoredGrows ==
    ASSUME Stored, NEW items \in Seq(Item),
           heap' = heap \o items, pool' = pool,
           NEW new, new = {Len(heap) + i : i \in DOMAIN items},
           seed' \in Seq(References \cup new), test' \in Seq(References \cup new)
    PROVE  Stored'
<1>0. heap \in Seq(Item \cup {NoItem}) /\ pool \in Seq(Seq(References) \ {<<>>})
  BY DEF Stored
<1>1. References = RefsOf(heap) /\ References' = RefsOf(heap')
  BY DEF References, RefsOf
<1>2. References \cup new \subseteq References'
  BY <1>0, <1>1, HeapGrows
<1>3. heap' \in Seq(Item \cup {NoItem})
  BY <1>0, HeapGrows
<1>4. pool' \in Seq(Seq(References') \ {<<>>})
  BY <1>0, <1>2, SeqGrows
<1>5. seed' \in Seq(References') /\ test' \in Seq(References')
  BY <1>2, SeqGrows
<1> QED
  BY <1>3, <1>4, <1>5 DEF Stored

LEMMA NewSeedShape ==
    ASSUME Shape, NEW names \in Seq(Names), names # <<>>, NewSeed(names),
           nextName' \in Nat, drawn' \in [Names -> Nat]
    PROVE  Shape'
<1> DEFINE items == [i \in DOMAIN names |-> FreshItem(names[i])]
           new   == {Len(heap) + i : i \in DOMAIN items}
<1>1. Len(names) \in Nat \ {0} /\ DOMAIN names = 1..Len(names)
  BY EmptySeq
<1>2. items \in Seq(Item) /\ DOMAIN items = DOMAIN names
  <2>1. \A i \in DOMAIN names : FreshItem(names[i]) \in Item
    BY FreshItems
  <2> QED
    BY <1>1, <2>1
<1>3. heap' = heap \o items /\ pool' = pool /\ test' = test
  BY DEF NewSeed
<1>4. seed' = [i \in 1..Len(names) |-> Len(heap) + i]
  BY <1>1 DEF NewSeed
<1>5. seed' \in Seq(References \cup new) /\ seed' # <<>>
  <2>1. \A i \in 1..Len(names) : Len(heap) + i \in References \cup new
    <3> HIDE DEF items
    <3> QED
      BY <1>1, <1>2
  <2> HIDE DEF items, new
  <2>2. seed' \in Seq(References \cup new) /\ Len(seed') = Len(names)
    BY <1>1, <1>4, <2>1
  <2> QED
    BY <1>1, <2>2
<1>6. test' \in Seq(References \cup new)
  BY <1>3, SeqGrows DEF Shape, Stored
<1>7. Stored'
  <2> HIDE DEF items
  <2> QED
    BY <1>2, <1>3, <1>5, <1>6, StoredGrows DEF Shape
<1>8. Control'
  BY <1>5 DEF NewSeed, Shape, Control, PCs
<1>9. left' \subseteq Nat /\ \A k \in left' : Entries[(k % Len(Entries)) + 1].to \in Names
  <2>1. Len(Entries) \in Nat
    BY EntryList DEF Shape, Control
  <2>2. Len(names) * Len(Entries) - 1 \in Int
    BY <1>1, <2>1
  <2>3. RelatedEntries(names) \subseteq Nat
    BY <2>2 DEF RelatedEntries
  <2>4. \A k \in RelatedEntries(names) : Entries[(k % Len(Entries)) + 1].to \in Names
    BY Zenon DEF RelatedEntries
  <2> QED
    BY <2>3, <2>4 DEF NewSeed
<1>10. Entries' = Entries
  BY DEF NewSeed, Entries
<1>11. WorkTyped'
  BY <1>9 DEF NewSeed, Shape, WorkTyped
<1>12. pc' = "related"
  BY DEF NewSeed
<1>13. Work'
  BY <1>9, <1>10, <1>12 DEF Work
<1> QED
  BY <1>7, <1>8, <1>11, <1>13 DEF Shape

LEMMA DrawShape ==
    ASSUME Shape, DrawAtRandom \/ DrawInOrder
    PROVE  Shape'
<1>1. CASE DrawAtRandom
  <2>1. PICK candidates \in CandidateLists : \E size \in Sizes(candidates) :
           \E names \in Shuffled(candidates, size) : NewSeed(names)
    BY <1>1 DEF DrawAtRandom
  <2>2. PICK size \in Sizes(candidates) :
           \E names \in Shuffled(candidates, size) : NewSeed(names)
    BY <2>1
  <2>3. PICK names \in Shuffled(candidates, size) : NewSeed(names)
    BY <2>2
  <2>4. nextName' \in Nat /\ drawn' \in [Names -> Nat]
    BY <1>1 DEF DrawAtRandom, Shape, Control
  <2> QED
    BY <2>3, <2>4, ShuffledNames, NewSeedShape
<1>2. CASE DrawInOrder
  <2>1. PICK candidates \in CandidateLists : \E size \in Sizes(candidates) :
          /\ NewSeed(Window(candidates, size))
          /\ nextName' = NextIndex(WindowStart(Len(candidates)), size, Len(candidates))
          /\ drawn' = [n \in Names |->
                         drawn[n] + IF n \in NamesIn(Window(candidates, size)) THEN 1 ELSE 0]
    BY <1>2 DEF DrawInOrder
  <2>2. PICK size \in Sizes(candidates) :
          /\ NewSeed(Window(candidates, size))
          /\ nextName' = NextIndex(WindowStart(Len(candidates)), size, Len(candidates))
          /\ drawn' = [n \in Names |->
                         drawn[n] + IF n \in NamesIn(Window(candidates, size)) THEN 1 ELSE 0]
    BY <2>1
  <2>3. nextName \in Nat /\ drawn \in [Names -> Nat]
    BY DEF Shape, Control
  <2>4. nextName' \in Nat
    BY <2>2, <2>3, CandidateNames, DrawnSize DEF NextIndex, WindowStart, Least
  <2>5. drawn' \in [Names -> Nat]
    BY <2>2, <2>3
  <2> QED
    BY <2>2, <2>3, <2>4, <2>5, WindowNames, NewSeedShape
<1> QED
  BY <1>1, <1>2

\* Appending one item to the heap, and its reference to the seed or to the test case.
LEMMA AppendedItem ==
    ASSUME heap \in Seq(Item \cup {NoItem}), NEW item \in Item
    PROVE  /\ <<item>> \in Seq(Item) /\ Append(heap, item) = heap \o <<item>>
           /\ \A list \in Seq(References) :
                Append(list, Len(heap) + 1)
                  \in Seq(References \cup {Len(heap) + i : i \in DOMAIN <<item>>}) \ {<<>>}
<1>1. <<item>> \in Seq(Item) /\ DOMAIN <<item>> = {1}
  OBVIOUS
<1>2. Append(heap, item) = heap \o <<item>>
  <2> HIDE DEF NoItem
  <2> QED
    OBVIOUS
<1>3. {Len(heap) + i : i \in DOMAIN <<item>>} = {Len(heap) + 1}
  BY <1>1
<1>4. ASSUME NEW list \in Seq(References)
      PROVE  Append(list, Len(heap) + 1) \in Seq(References \cup {Len(heap) + 1}) \ {<<>>}
  BY SeqGrows
<1> QED
  BY <1>1, <1>2, <1>3, <1>4

LEMMA AddRelatedShape ==
    ASSUME Shape, AddRelated
    PROVE  Shape'
<1> DEFINE item == FreshItem(Entries[(First(left) % Len(Entries)) + 1].to)
<1>1. First(left) \in left
  BY FirstIn DEF AddRelated, Shape, WorkTyped
<1>2. item \in Item
  BY <1>1, FreshItems DEF AddRelated, Shape, Work
<1> HIDE DEF item
<1>3. heap' = Append(heap, item) /\ seed' = Append(seed, Len(heap) + 1)
  BY DEF AddRelated, item
<1>4. heap' = heap \o <<item>> /\ <<item>> \in Seq(Item)
  BY <1>2, <1>3, AppendedItem DEF Shape, Stored
<1>5. seed' \in Seq(References \cup {Len(heap) + i : i \in DOMAIN <<item>>}) /\ seed' # <<>>
  BY <1>2, <1>3, AppendedItem DEF Shape, Stored
<1>6. test' = test /\ pool' = pool
  BY DEF AddRelated, campaign
<1>7. test' \in Seq(References \cup {Len(heap) + i : i \in DOMAIN <<item>>})
  BY <1>6, SeqGrows DEF Shape, Stored
<1>8. Stored'
  BY <1>4, <1>5, <1>6, <1>7, StoredGrows DEF Shape
<1>9. Control'
  BY <1>5 DEF AddRelated, campaign, Shape, Control
<1>10. WorkTyped'
  BY DEF AddRelated, Shape, WorkTyped
<1>11. Entries' = Entries
  BY DEF AddRelated, campaign, Entries
<1>12. Work'
  BY <1>11 DEF AddRelated, Shape, Work
<1> QED
  BY <1>8, <1>9, <1>10, <1>12 DEF Shape

\* The steps that leave heap, pool and lists alone.
Quiet == UNCHANGED <<setting, heap, pool, seed, test, loops, tests, nextName, drawn>>

LEMMA QuietFacts ==
    ASSUME Shape, Quiet
    PROVE  /\ Stored' /\ Entries' = Entries /\ DOMAIN seed' = DOMAIN seed
           /\ \A i \in DOMAIN seed : At(i)' = At(i) /\ At(i) \in Item
           /\ DOMAIN seed = 1..Len(seed) /\ Len(seed) \in Nat
<1>1. References' = References
  BY DEF Quiet, References
<1>2. Stored'
  BY <1>1 DEF Quiet, Shape, Stored
<1>3. Entries' = Entries
  BY DEF Quiet, Entries
<1>4. \A i \in DOMAIN seed : At(i)' = At(i)
  BY DEF Quiet, At
<1>5. \A i \in DOMAIN seed : At(i) \in Item
  BY Reference DEF Shape, Stored, At
<1>6. DOMAIN seed = 1..Len(seed) /\ Len(seed) \in Nat
  BY DEF Shape, Stored
<1> QED
  BY <1>2, <1>3, <1>4, <1>5, <1>6 DEF Quiet

LEMMA StartShape ==
    ASSUME Shape, StartMutation
    PROVE  Shape'
<1>1. Quiet
  BY DEF StartMutation, Quiet, campaign
<1>2. Len(seed) \in Nat /\ DOMAIN seed = 1..Len(seed)
  BY <1>1, QuietFacts
<1>3. picks' \in Nat
  <2>1. setting.mutator \in {"Single", "Stacked", "Smart", "Ceit"}
    BY DEF Shape, Control, SettingSet
  <2>2. picks' \in Numbers
    BY DEF StartMutation
  <2> QED
    BY <1>2, <2>1, <2>2, SizesAssumption DEF Numbers
<1>4. /\ changed' \in Seq(Item \cup {NoItem}) /\ Len(changed') = Len(seed)
      /\ \A i \in DOMAIN seed : changed'[i] = NoItem
  <2>1. changed' = [i \in 1..Len(seed) |-> NoItem]
    BY <1>2 DEF StartMutation
  <2> HIDE DEF NoItem
  <2> QED
    BY <1>2, <2>1
<1>5. Renewed'
  BY <1>1, <1>4 DEF Renewed, Quiet
<1>6. Control'
  BY <1>1 DEF StartMutation, Quiet, Shape, Control, PCs
<1>7. WorkTyped'
  BY <1>3, <1>4 DEF StartMutation, Shape, WorkTyped
<1>8. Work'
  BY <1>5 DEF StartMutation, Work
<1> QED
  BY <1>1, <1>6, <1>7, <1>8, QuietFacts DEF Shape

LEMMA PickShape ==
    ASSUME Shape, Pick
    PROVE  Shape'
<1>1. Quiet /\ changed' = changed /\ picks' = picks /\ recorded' = recorded /\ pc' = "relate"
      /\ pc = "pick" /\ picks > 0
  BY DEF Pick, Quiet, campaign
<1>2. PICK i \in DOMAIN seed :
        /\ chosen' = i /\ left' = DependencyOf(At(i).name)
        /\ IF left' = {} THEN itemA' \in Mutated(At(i)) ELSE itemA' = At(i)
  BY DEF Pick
<1>3. /\ At(i) \in Item /\ At(i)' = At(i) /\ Entries' = Entries /\ i \in Nat
      /\ \A j \in DOMAIN seed : At(j)' = At(j)
  BY <1>1, QuietFacts
<1>4. itemA' \in Item /\ itemA'.name = At(i).name /\ itemA'.type = At(i).type
  BY <1>2, <1>3, MutatedItems
<1>5. left' \subseteq DOMAIN Entries /\ left' \subseteq Nat
      /\ \A j \in left' : Entries[j].from = At(i).name
  <2>1. DOMAIN Entries \subseteq Nat
    BY EntryList DEF Shape, Control
  <2>2. \A j \in left' : j \in DOMAIN Entries /\ Entries[j].from = At(i).name
    BY <1>2, Zenon DEF DependencyOf
  <2> QED
    BY <2>1, <2>2
<1>6. Related'
  <2>1. At(chosen)' = At(i)
    BY <1>1, <1>2 DEF At, Quiet
  <2> QED
    BY <1>1, <1>2, <1>3, <1>4, <1>5, <2>1 DEF Related, Quiet
<1>7. Renewed'
  BY <1>1, <1>3 DEF Shape, Work, Renewed, Quiet
<1>8. Control'
  BY <1>1 DEF Quiet, Shape, Control, PCs
<1>9. WorkTyped'
  BY <1>1, <1>2, <1>3, <1>4, <1>5 DEF Shape, WorkTyped
<1>10. Work'
  BY <1>1, <1>6, <1>7 DEF Work
<1> QED
  BY <1>1, <1>8, <1>9, <1>10, QuietFacts DEF Shape

LEMMA RelateAloneShape ==
    ASSUME Shape, RelateAlone
    PROVE  Shape'
<1>1. Quiet /\ changed' = changed /\ picks' = picks /\ recorded' = recorded /\ chosen' = chosen
      /\ pc' = pc /\ pc = "relate" /\ left' \subseteq left
  BY DEF RelateAlone, Quiet, campaign
<1>2. Related /\ Renewed
  BY <1>1 DEF Shape, Work
<1>3. PICK item \in Mutated(At(chosen)) : itemA' = [itemA EXCEPT !.value = item.value]
  BY DEF RelateAlone
<1>4. At(chosen) \in Item /\ Entries' = Entries /\ \A j \in DOMAIN seed : At(j)' = At(j)
  BY <1>1, <1>2, QuietFacts DEF Related
<1>5. itemA' \in Item /\ itemA'.name = itemA.name /\ itemA'.type = itemA.type
  <2>1. item.value \in Values /\ itemA \in Item
    BY <1>2, <1>4, MutatedItems DEF Item, Related
  <2> QED
    BY <1>3, <2>1 DEF Item
<1>6. Related'
  <2>1. At(chosen)' = At(chosen)
    BY <1>1 DEF At, Quiet
  <2> QED
    BY <1>1, <1>2, <1>4, <1>5, <2>1 DEF Related, Quiet
<1>7. Renewed'
  BY <1>1, <1>2, <1>4 DEF Renewed, Quiet
<1>8. Control'
  BY <1>1 DEF Quiet, Shape, Control
<1>9. WorkTyped'
  BY <1>1, <1>5 DEF Shape, WorkTyped
<1>10. Work'
  BY <1>1, <1>6, <1>7 DEF Work
<1> QED
  BY <1>1, <1>8, <1>9, <1>10, QuietFacts DEF Shape

LEMMA PartnerIn ==
    ASSUME Shape, Partner # {}
    PROVE  /\ First(Partner) \in DOMAIN seed
           /\ At(First(Partner)).name = Entries[First(left)].to
           /\ \A j \in Partner : First(Partner) <= j
<1>1. \A j \in Partner : j \in DOMAIN seed /\ At(j).name = Entries[First(left)].to
  BY Zenon DEF Partner, Holding
<1>2. DOMAIN seed \subseteq Nat
  BY DEF Shape, Stored
<1>3. First(Partner) \in Partner /\ \A j \in Partner : First(Partner) <= j
  BY <1>1, <1>2, FirstIn
<1> QED
  BY <1>1, <1>3

LEMMA RelateBothShape ==
    ASSUME Shape, RelateBoth
    PROVE  Shape'
<1> DEFINE p == First(Partner)
<1>1. Quiet /\ picks' = picks /\ recorded' = recorded /\ chosen' = chosen
      /\ pc' = pc /\ pc = "relate" /\ left' \subseteq left
  BY DEF RelateBoth, Quiet, campaign
<1>2. Related /\ Renewed
  BY <1>1 DEF Shape, Work
<1>3. p \in DOMAIN seed
  BY PartnerIn DEF RelateBoth
<1>4. PICK pair \in ConstraintMethod(Entries[First(left)].kind, itemA, At(p)) :
        itemA' = pair[1] /\ changed' = [changed EXCEPT ![p] = pair[2]]
  BY DEF RelateBoth
<1> HIDE DEF p
<1>5. /\ At(p) \in Item /\ At(chosen) \in Item /\ Entries' = Entries
      /\ DOMAIN seed = 1..Len(seed) /\ Len(seed) \in Nat
      /\ \A j \in DOMAIN seed : At(j)' = At(j)
  BY <1>1, <1>2, <1>3, QuietFacts DEF Related
<1>6. itemA \in Item
  BY <1>2 DEF Related
<1>7. itemA' \in Item /\ itemA'.name = itemA.name /\ itemA'.type = itemA.type
      /\ pair[2] \in Item /\ pair[2].name = At(p).name
  <2>1. /\ pair \in ConstraintMethod(Entries[First(left)].kind, itemA, At(p))
        /\ itemA \in Item /\ At(p) \in Item
    BY <1>4, <1>5, <1>6
  <2>2. pair[1] \in Mutated(itemA) /\ pair[2] \in Item /\ pair[2].name = At(p).name
    <3> DEFINE kind == Entries[First(left)].kind
               b    == At(p)
    <3>1. pair \in ConstraintMethod(kind, itemA, b) /\ itemA \in Item /\ b \in Item
      BY <2>1
    <3> HIDE DEF kind, b
    <3>2. pair[1] \in Mutated(itemA) /\ pair[2] \in Item /\ pair[2].name = b.name
      BY <3>1, MethodItems
    <3> QED
      BY <3>2 DEF b
  <2> QED
    BY <1>4, <1>6, <2>2, MutatedItems
<1>8. Related'
  <2>1. At(chosen)' = At(chosen)
    BY <1>1 DEF At, Quiet
  <2> QED
    BY <1>1, <1>2, <1>5, <1>7, <2>1 DEF Related, Quiet
<1>9. changed' \in Seq(Item \cup {NoItem}) /\ Renewed'
  <2>1. changed \in Seq(Item \cup {NoItem}) /\ Len(changed) = Len(seed)
    BY <1>2 DEF Shape, WorkTyped, Renewed
  <2> HIDE DEF NoItem
  <2>2. /\ changed' \in Seq(Item \cup {NoItem}) /\ Len(changed') = Len(seed)
        /\ \A j \in DOMAIN seed : changed'[j] = IF j = p THEN pair[2] ELSE changed[j]
    BY <1>3, <1>4, <1>5, <1>7, <2>1, ExceptSeq
  <2> QED
    BY <1>1, <1>2, <1>5, <1>7, <2>2 DEF Renewed, Quiet
<1>10. Control'
  BY <1>1 DEF Quiet, Shape, Control
<1>11. WorkTyped'
  BY <1>1, <1>7, <1>9 DEF Shape, WorkTyped
<1>12. Work'
  BY <1>1, <1>8, <1>9 DEF Work
<1> QED
  BY <1>1, <1>10, <1>11, <1>12, QuietFacts DEF Shape

LEMMA EndPickShape ==
    ASSUME Shape, EndPick
    PROVE  Shape'
<1>1. /\ Quiet /\ recorded' = recorded /\ chosen' = chosen /\ itemA' = itemA /\ left' = left
      /\ pc' = "pick" /\ pc = "relate" /\ picks' = picks - 1
      /\ changed' = [changed EXCEPT ![chosen] = itemA]
  BY DEF EndPick, Quiet, campaign
<1>2. Related /\ Renewed
  BY <1>1 DEF Shape, Work
<1>3. picks' \in Nat
  BY <1>1, <1>2 DEF Related, Shape, WorkTyped
<1>4. /\ DOMAIN seed = 1..Len(seed) /\ Len(seed) \in Nat
      /\ \A j \in DOMAIN seed : At(j)' = At(j)
  BY <1>1, QuietFacts
<1>5. chosen \in DOMAIN seed /\ itemA \in Item /\ itemA.name = At(chosen).name
  BY <1>2 DEF Related
<1>6. changed' \in Seq(Item \cup {NoItem}) /\ Renewed'
  <2>1. changed \in Seq(Item \cup {NoItem}) /\ Len(changed) = Len(seed)
    BY <1>2 DEF Shape, WorkTyped, Renewed
  <2> HIDE DEF NoItem
  <2>2. /\ changed' \in Seq(Item \cup {NoItem}) /\ Len(changed') = Len(seed)
        /\ \A j \in DOMAIN seed : changed'[j] = IF j = chosen THEN itemA ELSE changed[j]
    BY <1>1, <1>4, <1>5, <2>1, ExceptSeq
  <2> QED
    BY <1>1, <1>2, <1>4, <1>5, <2>2 DEF Renewed, Quiet
<1>7. Control'
  BY <1>1 DEF Quiet, Shape, Control, PCs
<1>8. WorkTyped'
  BY <1>1, <1>3, <1>6 DEF Shape, WorkTyped
<1>9. Work'
  BY <1>1, <1>6 DEF Work
<1> QED
  BY <1>1, <1>7, <1>8, <1>9, QuietFacts DEF Shape

LEMMA CapturedTyped ==
    ASSUME NEW objects \in Seq(Item \cup {NoItem}), NEW list \in Seq(RefsOf(objects))
    PROVE  Captured(objects, list) \in [Names -> Values \cup {NoValue}]
<1> SUFFICES ASSUME NEW name \in Names
             PROVE  Captured(objects, list)[name] \in Values \cup {NoValue}
  BY DEF Captured
<1> DEFINE at == {i \in DOMAIN list :
                    /\ objects[list[i]].name = name
                    /\ objects[list[i]].value # Effective(objects, seed, name)}
<1>1. Captured(objects, list)[name] = IF at = {} THEN NoValue ELSE objects[list[Max(at)]].value
  BY DEF Captured
<1>2. Len(list) \in Nat /\ at \subseteq 1..Len(list)
  OBVIOUS
<1> HIDE DEF at
<1>3. ASSUME at # {} PROVE objects[list[Max(at)]].value \in Values
  <2>1. Max(at) \in 1..Len(list)
    BY <1>2, <1>3, LastIn
  <2>2. list[Max(at)] \in RefsOf(objects)
    BY <2>1
  <2>3. objects[list[Max(at)]] \in Item
    BY <2>2 DEF RefsOf
  <2> QED
    BY <2>3 DEF Item
<1> QED
  BY <1>1, <1>3

\* What every mutator builds its test case of: a version of each item of the seed.
Versions(items) ==
    /\ items \in Seq(Item) /\ Len(items) = Len(seed)
    /\ \A i \in DOMAIN seed : items[i].name = At(i).name

LEMMA BuildShape ==
    ASSUME Shape, pc \in {"pick", "mutate"}, NEW items, Versions(items), Build(items)
    PROVE  Shape'
<1> DEFINE new == {Len(heap) + i : i \in DOMAIN items}
<1>1. /\ items \in Seq(Item) /\ DOMAIN items = DOMAIN seed
      /\ DOMAIN seed = 1..Len(seed) /\ Len(seed) \in Nat \ {0}
  <2>1. seed \in Seq(References) /\ seed # <<>>
    BY DEF Shape, Stored, Control
  <2> QED
    BY <2>1, EmptySeq DEF Versions
<1>2. heap' = heap \o items /\ pool' = pool /\ seed' = seed
  BY DEF Build, Untouched, campaign
<1>3. seed' \in Seq(References \cup new)
  BY <1>2, SeqGrows DEF Shape, Stored
<1>4. test' \in Seq(References \cup new) /\ test' # <<>>
  <2>1. \A i \in DOMAIN seed : seed[i] \in References /\ Len(heap) + i \in new
    BY <1>1 DEF Shape, Stored
  <2> HIDE DEF new
  <2>2. test' = [i \in 1..Len(seed) |-> IF Shared(i) THEN seed[i] ELSE Len(heap) + i]
    BY <1>1 DEF Build
  <2>3. test' \in Seq(References \cup new) /\ Len(test') = Len(seed)
    BY <1>1, <2>1, <2>2
  <2> QED
    BY <1>1, <2>3
<1>5. Stored'
  BY <1>1, <1>2, <1>3, <1>4, StoredGrows DEF Shape
<1>6. recorded' \in [Names -> Values \cup {NoValue}]
  <2>1. recorded' = Captured(heap', test')
    BY DEF Build
  <2>2. heap' \in Seq(Item \cup {NoItem}) /\ test' \in Seq(RefsOf(heap'))
    BY <1>5 DEF Stored, References, RefsOf
  <2> QED
    BY <2>1, <2>2, CapturedTyped
<1>7. left' \subseteq DOMAIN Prepared /\ DOMAIN Prepared \subseteq Nat
  BY PreparedItems DEF Build
<1>8. Control'
  BY <1>1, <1>2, <1>4 DEF Build, campaign, Shape, Control, PCs
<1>9. WorkTyped'
  BY <1>6, <1>7 DEF Build, WorkTyped
<1>10. Work'
  BY <1>7 DEF Build, Work
<1> QED
  BY <1>5, <1>8, <1>9, <1>10 DEF Shape

LEMMA SeedItems ==
    ASSUME Shape
    PROVE  /\ DOMAIN seed = 1..Len(seed) /\ Len(seed) \in Nat
           /\ \A i \in DOMAIN seed : At(i) \in Item
BY Reference DEF Shape, Stored, At

LEMMA BuiltVersions ==
    ASSUME Shape, BuildTestcase
    PROVE  Versions([i \in DOMAIN seed |-> IF changed[i] = NoItem THEN At(i) ELSE changed[i]])
<1> DEFINE items == [i \in 1..Len(seed) |-> IF changed[i] = NoItem THEN At(i) ELSE changed[i]]
<1>1. changed \in Seq(Item \cup {NoItem}) /\ Renewed
  BY DEF Shape, WorkTyped, Work, BuildTestcase
<1> HIDE DEF NoItem
<1>2. \A i \in 1..Len(seed) :
         IF changed[i] = NoItem THEN At(i) \in Item
         ELSE changed[i] \in Item /\ changed[i].name = At(i).name
  BY SeedItems, <1>1 DEF Renewed
<1>3. items \in Seq(Item) /\ Len(items) = Len(seed) /\ \A i \in 1..Len(seed) : items[i].name = At(i).name
  BY SeedItems, <1>2
<1> QED
  BY SeedItems, <1>3 DEF Versions

LEMMA CeitVersions ==
    ASSUME Shape, NEW i \in DOMAIN seed, NEW v \in Values
    PROVE  Versions([j \in DOMAIN seed |-> IF j = i THEN [At(i) EXCEPT !.value = v] ELSE At(j)])
<1> DEFINE items == [j \in 1..Len(seed) |-> IF j = i THEN [At(i) EXCEPT !.value = v] ELSE At(j)]
<1>1. [At(i) EXCEPT !.value = v] \in Item /\ [At(i) EXCEPT !.value = v].name = At(i).name
  BY SeedItems DEF Item
<1>2. items \in Seq(Item) /\ Len(items) = Len(seed) /\ \A j \in 1..Len(seed) : items[j].name = At(j).name
  BY SeedItems, <1>1
<1> QED
  BY SeedItems, <1>2 DEF Versions

LEMMA Prepare1Item ==
    ASSUME Shape, pc = "prepare", left # {}
    PROVE  /\ First(left) \in left /\ First(left) \in DOMAIN Prepared
           /\ Prepare1 \in Item /\ Prepare1.type = "CHOICE"
<1>1. First(left) \in left
  BY FirstIn DEF Shape, WorkTyped
<1>2. First(left) \in DOMAIN Prepared
  BY <1>1 DEF Shape, Work
<1> QED
  BY <1>1, <1>2, PreparedItems DEF Prepare1

LEMMA AddItemStored ==
    ASSUME Shape, NEW item \in Item, AddItem(item), pool' = pool, seed' = seed
    PROVE  Stored' /\ test' # <<>> /\ heap' = heap \o <<item>> /\ <<item>> \in Seq(Item)
<1>1. heap' = Append(heap, item) /\ test' = Append(test, Len(heap) + 1)
  BY DEF AddItem
<1>2. heap' = heap \o <<item>> /\ <<item>> \in Seq(Item)
  BY <1>1, AppendedItem DEF Shape, Stored
<1>3. test' \in Seq(References \cup {Len(heap) + i : i \in DOMAIN <<item>>}) /\ test' # <<>>
  BY <1>1, AppendedItem DEF Shape, Stored
<1>4. seed' \in Seq(References \cup {Len(heap) + i : i \in DOMAIN <<item>>})
  BY SeqGrows DEF Shape, Stored
<1> QED
  BY <1>2, <1>3, <1>4, StoredGrows DEF Shape

\* The position that setOrAddConfItem writes to.
Named(list, name) == {i \in DOMAIN list : heap[list[i]].name = name}

LEMMA NamedFirst ==
    ASSUME NEW list \in Seq(References), NEW name, Named(list, name) # {}
    PROVE  /\ First(Named(list, name)) \in DOMAIN list
           /\ heap[list[First(Named(list, name))]].name = name
           /\ \A j \in 1..(First(Named(list, name)) - 1) : heap[list[j]].name # name
<1>1. Named(list, name) \subseteq Nat /\ DOMAIN list = 1..Len(list) /\ Len(list) \in Nat
  BY DEF Named
<1>2. /\ First(Named(list, name)) \in Named(list, name)
      /\ \A y \in Named(list, name) : First(Named(list, name)) <= y
  BY <1>1, FirstIn
<1> DEFINE f == First(Named(list, name))
<1>3. f \in DOMAIN list /\ heap[list[f]].name = name
  BY <1>2 DEF Named
<1>4. ASSUME NEW j \in 1..(f - 1) PROVE heap[list[j]].name # name
  <2>1. j \in DOMAIN list /\ j \in Nat /\ f \in Nat /\ ~ (f <= j)
    BY <1>1, <1>3
  <2> QED
    BY <1>2, <2>1 DEF Named
<1> QED
  BY <1>3, <1>4

LEMMA SetStored ==
    ASSUME Shape, NEW item \in Item, NEW r \in References,
           heap' = [heap EXCEPT ![r] = item], pool' = pool, seed' = seed, test' = test
    PROVE  Stored' /\ References' = References /\ DOMAIN heap' = DOMAIN heap
<1>1. heap \in Seq(Item \cup {NoItem}) /\ r \in DOMAIN heap
  BY DEF Shape, Stored, References
<1> HIDE DEF NoItem
<1>2. /\ heap' \in Seq(Item \cup {NoItem}) /\ DOMAIN heap' = DOMAIN heap
      /\ \A q \in DOMAIN heap : heap'[q] = IF q = r THEN item ELSE heap[q]
  BY <1>1, SeqGrows
<1>3. References' = References
  BY <1>2, NoItemIsNone DEF References
<1> QED
  BY <1>2, <1>3 DEF Shape, Stored

LEMMA PrepareShape ==
    ASSUME Shape, Prepare
    PROVE  Shape'
<1>1. /\ pc = "prepare" /\ left # {} /\ pc' = pc /\ pool' = pool /\ seed' = seed
      /\ left' = left \ {First(left)} /\ setting' = setting
  BY DEF Prepare, campaign
<1>2. Prepare1 \in Item
  BY <1>1, Prepare1Item
<1>3. test # <<>>
  BY <1>1 DEF Shape, Control
<1>4. Stored' /\ test' # <<>>
  <2>1. CASE AddItem(Prepare1)
    BY <1>1, <1>2, <2>1, AddItemStored
  <2>2. CASE UNCHANGED <<heap, test>>
    <3>1. References' = References
      BY <2>2 DEF References
    <3> QED
      BY <1>1, <1>3, <2>2, <3>1 DEF Shape, Stored
  <2>3. CASE /\ Named(test, Prepare1.name) # {}
             /\ heap' = [heap EXCEPT ![test[First(Named(test, Prepare1.name))]] = Prepare1]
             /\ test' = test
    <3>1. test \in Seq(References)
      BY DEF Shape, Stored
    <3>2. First(Named(test, Prepare1.name)) \in DOMAIN test
      BY <2>3, <3>1, NamedFirst
    <3>3. test[First(Named(test, Prepare1.name))] \in References
      BY <3>1, <3>2
    <3> QED
      BY <1>1, <1>2, <1>3, <2>3, <3>3, SetStored
  <2>4. AddUnlessEqual(Prepare1) \/ SetOrAdd(Prepare1)
    BY DEF Prepare
  <2> QED
    BY <2>1, <2>2, <2>3, <2>4 DEF AddUnlessEqual, SetOrAdd, Named
<1>5. Control'
  BY <1>1, <1>4 DEF Prepare, campaign, Shape, Control
<1>6. WorkTyped'
  BY <1>1 DEF Prepare, Shape, WorkTyped
<1>7. Work'
  BY <1>1 DEF Prepare, Shape, Work
<1> QED
  BY <1>4, <1>5, <1>6, <1>7 DEF Shape

\* What a list of the pool or the seed holds stays when a test case has been judged.
LEMMA JudgeKeeps ==
    ASSUME Shape, Judge
    PROVE  /\ DOMAIN heap' = DOMAIN heap /\ heap' \in Seq(Item \cup {NoItem})
           /\ pool' \in Seq(Seq(References) \ {<<>>}) /\ seed' \in {seed, <<>>}
           /\ \A list \in NamesIn(pool') \cup {seed'} : \A i \in DOMAIN list :
                 heap'[list[i]] = heap[list[i]] /\ list[i] \in References'
           /\ pool' = pool \/ pool' = Append(pool, test)
<1>1. /\ heap \in Seq(Item \cup {NoItem}) /\ pool \in Seq(Seq(References) \ {<<>>})
      /\ seed \in Seq(References) /\ test \in Seq(References) \ {<<>>}
  BY DEF Shape, Stored, Control, Judge
<1>2. pool' = pool \/ pool' = Append(pool, test)
  BY DEF Judge
<1>3. pool' \in Seq(Seq(References) \ {<<>>})
  <2> DEFINE lists == Seq(References) \ {<<>>}
  <2>1. pool \in Seq(lists) /\ test \in lists
    BY <1>1
  <2> HIDE DEF lists
  <2>2. pool' \in Seq(lists)
    BY <1>2, <2>1
  <2> QED
    BY <2>2 DEF lists
<1>4. seed' \in {seed, <<>>}
  BY DEF Judge
<1> DEFINE kept == Held(NamesIn(pool') \cup {seed'})
<1>5. heap' = [r \in DOMAIN heap |-> IF r \in kept THEN heap[r] ELSE NoItem]
  BY DEF Judge
<1> HIDE DEF kept, NoItem
<1>6. DOMAIN heap' = DOMAIN heap /\ heap' \in Seq(Item \cup {NoItem})
  <2>1. DOMAIN heap = 1..Len(heap) /\ Len(heap) \in Nat
    BY <1>1
  <2>2. heap' = [r \in 1..Len(heap) |-> IF r \in kept THEN heap[r] ELSE NoItem]
    BY <1>5, <2>1
  <2>3. \A r \in 1..Len(heap) :
           (IF r \in kept THEN heap[r] ELSE NoItem) \in Item \cup {NoItem}
    BY <1>1, <2>1
  <2> QED
    BY <2>1, <2>2, <2>3
<1>7. ASSUME NEW list \in NamesIn(pool') \cup {seed'}, NEW i \in DOMAIN list
      PROVE  heap'[list[i]] = heap[list[i]] /\ list[i] \in References'
  <2>1. list \in Seq(References)
    <3>1. CASE list = seed'
      BY <1>1, <1>4, <3>1, EmptySeq
    <3>2. CASE list \in NamesIn(pool')
      BY <1>3, <3>2 DEF NamesIn
    <3> QED
      BY <3>1, <3>2
  <2>2. list[i] \in kept
    BY DEF kept, Held, NamesIn
  <2>3. list[i] \in DOMAIN heap /\ heap[list[i]] # NoItem
    BY <1>1, <2>1, Reference
  <2> QED
    BY <1>5, <2>2, <2>3 DEF References
<1> QED
  BY <1>2, <1>3, <1>4, <1>6, <1>7

LEMMA JudgeShape ==
    ASSUME Shape, Judge
    PROVE  Shape'
<1>1. Stored'
  <2>1. \A list \in NamesIn(pool') \cup {seed'} : \A i \in DOMAIN list : list[i] \in References'
    BY JudgeKeeps
  <2>2. pool' \in Seq(Seq(References) \ {<<>>}) /\ seed' \in Seq(References)
    BY JudgeKeeps, EmptySeq DEF Shape, Stored
  <2>3. seed' \in Seq(References')
    BY <2>1, <2>2
  <2>4. ASSUME NEW p \in DOMAIN pool' PROVE pool'[p] \in Seq(References') \ {<<>>}
    <3>1. pool'[p] \in Seq(References) \ {<<>>} /\ pool'[p] \in NamesIn(pool')
      BY <2>2 DEF NamesIn
    <3> QED
      BY <2>1, <3>1
  <2>5. pool' \in Seq(Seq(References') \ {<<>>})
    BY <2>2, <2>4
  <2>6. test' \in Seq(References')
    BY EmptySeq DEF Judge
  <2> QED
    BY <2>3, <2>5, <2>6, JudgeKeeps DEF Stored
<1>2. Control'
  BY SizesAssumption DEF Judge, Shape, Control, PCs
<1>3. WorkTyped'
  BY DEF Judge, mutation, Shape, WorkTyped, NothingRecorded
<1>4. Work'
  BY DEF Judge, Work
<1> QED
  BY <1>1, <1>2, <1>3, <1>4 DEF Shape

LEMMA FromPoolShape ==
    ASSUME Shape, FromPool
    PROVE  Shape'
<1>1. /\ UNCHANGED <<setting, heap, pool, test>> /\ pc' = "mutate"
      /\ UNCHANGED <<loops, tests, nextName, drawn, picks, chosen, itemA, left, changed, recorded>>
  BY DEF FromPool, campaign, mutation
<1>2. PICK i \in DOMAIN pool : seed' = pool[i]
  BY DEF FromPool
<1>3. seed' \in Seq(References) /\ seed' # <<>>
  BY <1>2 DEF Shape, Stored
<1>4. References' = References
  BY <1>1 DEF References
<1>5. Stored'
  BY <1>1, <1>3, <1>4 DEF Shape, Stored
<1>6. Control'
  BY <1>1, <1>3 DEF Shape, Control, PCs
<1>7. WorkTyped'
  BY <1>1 DEF Shape, WorkTyped
<1>8. Work'
  BY <1>1 DEF Work
<1> QED
  BY <1>5, <1>6, <1>7, <1>8 DEF Shape

\* Steps from one place to another.
LEMMA PassShape ==
    ASSUME Shape, EndDraw \/ Raise \/ CeitRaise \/ EndPrepare
    PROVE  Shape'
<1>1. Quiet /\ UNCHANGED <<picks, chosen, itemA, left, changed, recorded>>
  BY DEF EndDraw, Raise, CeitRaise, EndPrepare, Quiet, campaign, mutation
<1>2. Stored'
  BY <1>1, QuietFacts
<1>3. \/ pc = "related" /\ pc' = "mutate"
      \/ pc' = "raised"
      \/ pc = "prepare" /\ left = {} /\ pc' = "judge"
  BY DEF EndDraw, Raise, CeitRaise, EndPrepare
<1>4. Control'
  BY <1>1, <1>3 DEF Quiet, Shape, Control, PCs
<1>5. WorkTyped'
  BY <1>1 DEF Shape, WorkTyped
<1>6. Work'
  BY <1>1, <1>3 DEF Work
<1> QED
  BY <1>2, <1>4, <1>5, <1>6 DEF Shape

LEMMA BuildTestcaseShape ==
    ASSUME Shape, BuildTestcase \/ CeitMutate
    PROVE  Shape'
<1>1. CASE BuildTestcase
  BY <1>1, BuiltVersions, BuildShape DEF BuildTestcase
<1>2. CASE CeitMutate
  <2>1. PICK i \in DOMAIN seed, v \in Values :
          Build([j \in DOMAIN seed |-> IF j = i THEN [At(i) EXCEPT !.value = v] ELSE At(j)])
    BY <1>2 DEF CeitMutate
  <2> QED
    BY <1>2, <2>1, CeitVersions, BuildShape DEF CeitMutate
<1> QED
  BY <1>1, <1>2

LEMMA InitShape == Init => Shape
<1> SUFFICES ASSUME Init PROVE Shape
  OBVIOUS
<1>1. Stored
  BY EmptySeq DEF Init, Stored
<1>2. Control
  BY SettingsAssumption DEF Init, Control, PCs
<1>3. WorkTyped
  BY EmptySeq DEF Init, WorkTyped, NothingRecorded
<1>4. Work
  BY DEF Init, Work
<1> QED
  BY <1>1, <1>2, <1>3, <1>4 DEF Shape

LEMMA StutterShape ==
    ASSUME Shape, UNCHANGED vars
    PROVE  Shape'
<1>1. Quiet /\ UNCHANGED <<pc, picks, chosen, itemA, left, changed, recorded>>
  BY DEF vars, Quiet
<1>2. Stored' /\ Entries' = Entries /\ \A i \in DOMAIN seed : At(i)' = At(i)
  BY <1>1, QuietFacts
<1>3. Control' /\ WorkTyped'
  BY <1>1 DEF Quiet, Shape, Control, WorkTyped
<1>4. Renewed => Renewed'
  BY <1>1, <1>2 DEF Renewed, Quiet
<1>5. Related => Related'
  <2> SUFFICES ASSUME Related PROVE Related'
    OBVIOUS
  <2>1. At(chosen)' = At(chosen)
    BY <1>1 DEF At, Quiet
  <2> QED
    BY <1>1, <1>2, <2>1 DEF Related, Quiet
<1>6. Work'
  BY <1>1, <1>2, <1>4, <1>5 DEF Shape, Work
<1> QED
  BY <1>2, <1>3, <1>6 DEF Shape

LEMMA ShapeInductive == Spec => []Shape
<1>1. Shape /\ [Next]_vars => Shape'
  <2> SUFFICES ASSUME Shape, [Next]_vars PROVE Shape'
    OBVIOUS
  <2>1. CASE Generate
    BY <2>1, FromPoolShape, DrawShape, AddRelatedShape, PassShape DEF Generate
  <2>2. CASE Mutate
    BY <2>2, StartShape, PickShape, RelateAloneShape, RelateBothShape, EndPickShape, PassShape,
       BuildTestcaseShape DEF Mutate
  <2>3. CASE Prepare \/ EndPrepare \/ Judge
    BY <2>3, PrepareShape, PassShape, JudgeShape
  <2>4. CASE UNCHANGED vars
    BY <2>4, StutterShape
  <2> QED
    BY <2>1, <2>2, <2>3, <2>4 DEF Next
<1> QED
  BY <1>1, InitShape, PTL DEF Spec

\* The objects of the pool, the seed and the test case are there, and items, relations and
\* records have their types, whatever is mutated, prepared and given up in between.
THEOREM MutationTyping == Spec => []TypeOK
BY ShapeInductive, ShapeTyped, PTL

-----------------------------------------------------------------------------
(* What int() and float() are given.                                       *)

\* An item has the type of its parameter, unless it was prepared, and a number as its value
\* where its generator reads one.
Readable(item) ==
    /\ \/ item.type = TypeOf[item.name]
       \/ item.type = "CHOICE" /\ TypeOf[item.name] \in {"CHOICE", "KEEP"}
    /\ item.type = "INT" => item.value \in Ints
    /\ item.type = "FLOAT" => item.value \in Ints \cup Floats

Uncrossed == Crossed = {} /\ setting.mutator # "Ceit"

AllReadable ==
    Uncrossed =>
        /\ pc # "raised"
        /\ \A r \in References : Readable(heap[r])
        /\ pc = "relate" => Readable(itemA)
        /\ \A i \in DOMAIN changed : changed[i] # NoItem => Readable(changed[i])

LEMMA FreshReadable ==
    ASSUME NEW name \in Names
    PROVE  Readable(FreshItem(name))
BY ValuesAssumption DEF Readable, FreshItem

LEMMA PreparedReadable ==
    ASSUME NEW k \in DOMAIN Prepared
    PROVE  Readable(Prepared[k])
<1>1. TypeOf[Prepared[k].name] \in {"CHOICE", "KEEP"}
  BY NamesAssumption
<1> QED
  BY <1>1, PreparedItems DEF Readable

LEMMA MutatedReadable ==
    ASSUME NEW item \in Item, Readable(item)
    PROVE  Mutated(item) # {} /\ \A m \in Mutated(item) : Readable(m)
<1>1. item.type \in Types
  BY DEF Item
<1>2. GenValue(item.type, item.value) # {}
  <2>1. CASE item.type = "BOOL"
    BY <2>1 DEF GenValue
  <2>2. CASE item.type = "INT"
    BY <2>2, ValuesAssumption DEF GenValue, Readable
  <2>3. CASE item.type = "FLOAT"
    BY <2>3, ValuesAssumption DEF GenValue, Readable
  <2>4. CASE item.type = "CHOICE"
    BY <2>4 DEF GenValue
  <2>5. CASE item.type = "KEEP"
    BY <2>5 DEF GenValue
  <2> QED
    BY <1>1, <2>1, <2>2, <2>3, <2>4, <2>5 DEF Types
<1>3. Mutated(item) # {}
  BY <1>2 DEF Mutated
<1>4. ASSUME NEW m \in Mutated(item) PROVE Readable(m)
  <2>1. m.name = item.name /\ m.type = item.type /\ m.value \in GenValue(item.type, item.value)
    BY MutatedItems
  <2>2. m.type = "INT" => m.value \in Ints
    BY <2>1 DEF GenValue, Readable
  <2>3. m.type = "FLOAT" => m.value \in Floats
    BY <2>1 DEF GenValue, Readable
  <2> QED
    BY <2>1, <2>2, <2>3 DEF Readable
<1> QED
  BY <1>3, <1>4

\* A value is copied only between parameters of one type.
LEMMA MethodReadable ==
    ASSUME NEW kind, NEW a \in Item, NEW b \in Item, Readable(a), Readable(b),
           Copying(kind) => TypeOf[a.name] = TypeOf[b.name]
    PROVE  /\ ConstraintMethod(kind, a, b) # {}
           /\ \A pair \in ConstraintMethod(kind, a, b) : Readable(pair[1]) /\ Readable(pair[2])
<1>1. PICK m \in Mutated(a) : TRUE
  BY MutatedReadable
<1>2. PICK n \in Mutated(b) : TRUE
  BY MutatedReadable
<1>3. ConstraintMethod(kind, a, b) # {}
  <2>1. CASE kind \in {"Value Relationship Dependency", "Behavior Dependency"}
    <3>1. <<m, n>> \in ConstraintMethod(kind, a, b)
      BY <1>1, <1>2, <2>1 DEF ConstraintMethod
    <3> QED
      BY <3>1
  <2>2. CASE kind = "Default Value Dependency"
    <3>1. <<m, [b EXCEPT !.value = m.value]>> \in ConstraintMethod(kind, a, b)
      BY <1>1, <2>2 DEF ConstraintMethod
    <3> QED
      BY <3>1
  <2>3. CASE kind = "Control Dependency" /\ a.type # "BOOL" /\ b.type = "BOOL"
    <3>1. <<m, [b EXCEPT !.value = "True"]>> \in ConstraintMethod(kind, a, b)
      BY <1>1, <2>3 DEF ConstraintMethod
    <3> QED
      BY <3>1
  <2>4. CASE /\ kind \notin {"Value Relationship Dependency", "Behavior Dependency"}
             /\ kind # "Default Value Dependency"
             /\ ~ (kind = "Control Dependency" /\ a.type # "BOOL" /\ b.type = "BOOL")
    <3>1. <<m, b>> \in ConstraintMethod(kind, a, b)
      BY <1>1, <2>4 DEF ConstraintMethod
    <3> QED
      BY <3>1
  <2> QED
    BY <2>1, <2>2, <2>3, <2>4
<1>4. ASSUME NEW pair \in ConstraintMethod(kind, a, b)
      PROVE  Readable(pair[1]) /\ Readable(pair[2])
  <2>1. /\ pair[1] \in Mutated(a) /\ pair[2].name = b.name /\ pair[2].type = b.type
        /\ \/ pair[2] \in Mutated(b) \/ pair[2] = b \/ b.type = "BOOL"
           \/ Copying(kind) /\ pair[2].value = pair[1].value
    BY MethodItems
  <2>2. Readable(pair[1]) /\ pair[1].name = a.name /\ pair[1].type = a.type
    BY <2>1, MutatedReadable, MutatedItems
  <2>3. CASE pair[2] \in Mutated(b) \/ pair[2] = b
    BY <2>2, <2>3, MutatedReadable
  <2>4. CASE b.type = "BOOL"
    BY <2>1, <2>2, <2>4 DEF Readable
  <2>5. CASE Copying(kind) /\ pair[2].value = pair[1].value
    <3>1. TypeOf[a.name] = TypeOf[b.name]
      BY <2>5
    <3>2. b.type = "INT" => pair[2].value \in Ints
      BY <2>2, <2>5, <3>1 DEF Readable
    <3>3. b.type = "FLOAT" => pair[2].value \in Ints \cup Floats
      BY <2>2, <2>5, <3>1 DEF Readable
    <3> QED
      BY <2>1, <2>2, <3>2, <3>3 DEF Readable
  <2> QED
    BY <2>1, <2>3, <2>4, <2>5
<1> QED
  BY <1>3, <1>4

LEMMA HeapReadable ==
    ASSUME heap \in Seq(Item \cup {NoItem}), NEW items \in Seq(Item), heap' = heap \o items,
           \A r \in References : Readable(heap[r]),
           \A i \in DOMAIN items : Readable(items[i])
    PROVE  \A r \in References' : Readable(heap'[r])
<1> SUFFICES ASSUME NEW r \in References' PROVE Readable(heap'[r])
  OBVIOUS
<1>1. r \in 1..(Len(heap) + Len(items)) /\ heap'[r] # NoItem
  BY HeapGrows DEF References
<1>2. CASE r \in 1..Len(heap)
  <2>1. heap'[r] = heap[r] /\ r \in DOMAIN heap
    BY <1>2, HeapGrows
  <2>2. r \in References
    BY <1>1, <2>1 DEF References
  <2> QED
    BY <2>1, <2>2
<1>3. CASE r \notin 1..Len(heap)
  <2>1. Len(heap) \in Nat /\ Len(items) \in Nat /\ DOMAIN items = 1..Len(items)
    OBVIOUS
  <2>2. r - Len(heap) \in DOMAIN items /\ Len(heap) + (r - Len(heap)) = r
    BY <1>1, <1>3, <2>1
  <2>3. heap'[r] = items[r - Len(heap)]
    BY <2>2, HeapGrows
  <2> QED
    BY <2>2, <2>3
<1> QED
  BY <1>2, <1>3

LEMMA SameCrossed == setting' = setting => Uncrossed' = Uncrossed
BY DEF Uncrossed, Crossed, Entries

\* While nothing is raised, the steps that leave the heap and the changed items alone.
LEMMA QuietReadable ==
    ASSUME AllReadable, Uncrossed, UNCHANGED <<heap, changed>>,
           pc' # "raised", pc' = "relate" => Readable(itemA')
    PROVE  AllReadable'
<1>1. References' = References
  BY DEF References
<1> QED
  BY <1>1 DEF AllReadable

LEMMA DrawReadable ==
    ASSUME Shape, AllReadable, Uncrossed, DrawAtRandom \/ DrawInOrder \/ AddRelated
    PROVE  AllReadable'
<1>1. PICK items \in Seq(Item) : heap' = heap \o items /\ \A i \in DOMAIN items : Readable(items[i])
  <2>1. CASE DrawAtRandom \/ DrawInOrder
    <3>1. PICK names \in Seq(Names) : NewSeed(names)
      <4>1. CASE DrawAtRandom
        BY <4>1, ShuffledNames DEF DrawAtRandom
      <4>2. CASE DrawInOrder
        <5>1. PICK candidates \in CandidateLists : \E size \in Sizes(candidates) :
                NewSeed(Window(candidates, size))
          BY <4>2 DEF DrawInOrder
        <5>2. PICK size \in Sizes(candidates) : NewSeed(Window(candidates, size))
          BY <5>1
        <5>3. nextName \in Nat
          BY DEF Shape, Control
        <5> QED
          BY <5>2, <5>3, WindowNames
      <4> QED
        BY <2>1, <4>1, <4>2
    <3> DEFINE items == [i \in 1..Len(names) |-> FreshItem(names[i])]
    <3>2. Len(names) \in Nat /\ DOMAIN names = 1..Len(names) /\ \A i \in 1..Len(names) : names[i] \in Names
      OBVIOUS
    <3>3. \A i \in 1..Len(names) : FreshItem(names[i]) \in Item /\ Readable(FreshItem(names[i]))
      BY <3>2, FreshItems, FreshReadable
    <3>4. items \in Seq(Item) /\ \A i \in DOMAIN items : Readable(items[i])
      BY <3>2, <3>3
    <3>5. heap' = heap \o items
      BY <3>1, <3>2 DEF NewSeed
    <3> QED
      BY <3>4, <3>5
  <2>2. CASE AddRelated
    <3> DEFINE item == FreshItem(Entries[(First(left) % Len(Entries)) + 1].to)
    <3>1. First(left) \in left
      BY <2>2, FirstIn DEF AddRelated, Shape, WorkTyped
    <3>2. item \in Item /\ Readable(item)
      BY <2>2, <3>1, FreshItems, FreshReadable DEF AddRelated, Shape, Work
    <3> HIDE DEF item
    <3>3. heap' = Append(heap, item)
      BY <2>2 DEF AddRelated, item
    <3>4. heap' = heap \o <<item>> /\ <<item>> \in Seq(Item)
      BY <3>2, <3>3, AppendedItem DEF Shape, Stored
    <3>5. DOMAIN <<item>> = {1} /\ <<item>>[1] = item
      OBVIOUS
    <3>6. \A i \in DOMAIN <<item>> : Readable(<<item>>[i])
      BY <3>2, <3>5
    <3> QED
      BY <3>4, <3>6, Zenon
  <2> QED
    BY <2>1, <2>2
<1>2. \A r \in References' : Readable(heap'[r])
  BY <1>1, HeapReadable DEF Shape, Stored, AllReadable
<1>3. changed' = changed /\ pc' = "related"
  BY DEF DrawAtRandom, DrawInOrder, NewSeed, AddRelated
<1> QED
  BY <1>2, <1>3 DEF AllReadable

LEMMA SeedReadable ==
    ASSUME Shape, AllReadable, Uncrossed, NEW i \in DOMAIN seed
    PROVE  At(i) \in Item /\ Readable(At(i))
<1>1. seed[i] \in References
  BY Reference DEF Shape, Stored
<1> QED
  BY <1>1, SeedItems DEF At, AllReadable

LEMMA RelatedReadable ==
    ASSUME Shape, AllReadable, Uncrossed, pc = "relate", left # {}, Partner # {}
    PROVE  LET kind == Entries[First(left)].kind
               b    == At(First(Partner))
           IN  /\ ConstraintMethod(kind, itemA, b) # {}
               /\ \A pair \in ConstraintMethod(kind, itemA, b) :
                     Readable(pair[1]) /\ Readable(pair[2])
<1> DEFINE kind == Entries[First(left)].kind
           b    == At(First(Partner))
<1>1. First(left) \in left
  BY FirstIn DEF Shape, WorkTyped
<1>2. /\ First(left) \in DOMAIN Entries /\ Entries[First(left)].from = itemA.name
      /\ itemA \in Item /\ Readable(itemA)
  BY <1>1 DEF Shape, Work, Related, AllReadable
<1>3. /\ First(Partner) \in DOMAIN seed /\ b.name = Entries[First(left)].to
      /\ b \in Item /\ Readable(b)
  BY PartnerIn, SeedReadable
<1>4. Copying(kind) => TypeOf[itemA.name] = TypeOf[b.name]
  <2>1. itemA.name \in Names /\ b.name \in Names
    BY <1>2, <1>3 DEF Item
  <2>2. b.name \notin Crossed
    BY DEF Uncrossed
  <2> QED
    BY <1>2, <1>3, <2>1, <2>2 DEF Crossed, Copying
<1> HIDE DEF kind, b
<1>5. /\ ConstraintMethod(kind, itemA, b) # {}
      /\ \A pair \in ConstraintMethod(kind, itemA, b) : Readable(pair[1]) /\ Readable(pair[2])
  BY <1>2, <1>3, <1>4, MethodReadable
<1> QED
  BY <1>5 DEF kind, b

LEMMA MutateReadable ==
    ASSUME Shape, AllReadable, Uncrossed,
           StartMutation \/ Pick \/ RelateAlone \/ RelateBoth \/ EndPick
    PROVE  AllReadable'
<1>0. References' = References /\ heap' = heap
  BY DEF StartMutation, Pick, RelateAlone, RelateBoth, EndPick, References
<1>1. CASE StartMutation
  <2>1. \A i \in DOMAIN changed' : changed'[i] = NoItem
    BY <1>1 DEF StartMutation
  <2> QED
    BY <1>0, <1>1, <2>1 DEF StartMutation, AllReadable
<1>2. CASE Pick
  <2>1. PICK i \in DOMAIN seed :
          IF left' = {} THEN itemA' \in Mutated(At(i)) ELSE itemA' = At(i)
    BY <1>2 DEF Pick
  <2>2. Readable(itemA')
    BY <2>1, SeedReadable, MutatedReadable
  <2> QED
    BY <1>2, <2>2, QuietReadable DEF Pick
<1>3. CASE RelateAlone
  <2>1. PICK item \in Mutated(At(chosen)) : itemA' = [itemA EXCEPT !.value = item.value]
    BY <1>3 DEF RelateAlone
  <2>2. Related
    BY <1>3 DEF RelateAlone, Shape, Work
  <2>3. /\ At(chosen) \in Item /\ Readable(At(chosen)) /\ itemA \in Item
        /\ itemA.name = At(chosen).name /\ itemA.type = At(chosen).type
    BY <2>2, SeedReadable DEF Related
  <2>4. Readable(item) /\ item.type = itemA.type /\ item.name = itemA.name
    BY <2>3, MutatedReadable, MutatedItems
  <2>5. itemA'.type = itemA.type /\ itemA'.name = itemA.name /\ itemA'.value = item.value
    BY <2>1, <2>3 DEF Item
  <2>6. Readable(itemA')
    BY <2>4, <2>5 DEF Readable
  <2> QED
    BY <1>3, <2>6, QuietReadable DEF RelateAlone
<1>4. CASE RelateBoth
  <2> DEFINE p == First(Partner)
             method == ConstraintMethod(Entries[First(left)].kind, itemA, At(p))
  <2>1. pc = "relate" /\ pc' = pc /\ Renewed
    BY <1>4 DEF RelateBoth, Shape, Work
  <2>2. PICK pair \in method : itemA' = pair[1] /\ changed' = [changed EXCEPT ![p] = pair[2]]
    BY <1>4 DEF RelateBoth
  <2>3. \A q \in method : Readable(q[1]) /\ Readable(q[2])
    BY <1>4, RelatedReadable DEF RelateBoth
  <2> HIDE DEF p, method
  <2>4. Readable(itemA') /\ Readable(pair[2])
    BY <2>2, <2>3
  <2>5. \A i \in DOMAIN changed' : changed'[i] # NoItem => Readable(changed'[i])
    BY <2>2, <2>4 DEF AllReadable
  <2> QED
    BY <1>0, <2>1, <2>4, <2>5 DEF AllReadable
<1>5. CASE EndPick
  <2>1. Readable(itemA) /\ changed' = [changed EXCEPT ![chosen] = itemA] /\ pc' = "pick"
    BY <1>5 DEF EndPick, AllReadable
  <2>2. \A i \in DOMAIN changed' : changed'[i] # NoItem => Readable(changed'[i])
    BY <2>1 DEF AllReadable
  <2> QED
    BY <1>0, <2>1, <2>2 DEF AllReadable
<1> QED
  BY <1>1, <1>2, <1>3, <1>4, <1>5

\* No generator raises on what it is given here.
LEMMA NothingRaises ==
    ASSUME Shape, AllReadable, Uncrossed
    PROVE  ~ Raise /\ ~ CeitRaise /\ ~ CeitMutate
<1>1. ~ CeitRaise /\ ~ CeitMutate
  BY DEF CeitRaise, CeitMutate, Uncrossed
<1>2. \A i \in DOMAIN seed : Mutated(At(i)) # {}
  BY SeedReadable, MutatedReadable
<1>3. ~ (pc = "relate" /\ left # {} /\ Partner = {} /\ Mutated(At(chosen)) = {})
  BY <1>2 DEF Shape, Work, Related
<1>4. ~ (/\ pc = "relate" /\ left # {} /\ Partner # {}
         /\ ConstraintMethod(Entries[First(left)].kind, itemA, At(First(Partner))) = {})
  BY RelatedReadable
<1> QED
  BY <1>1, <1>2, <1>3, <1>4 DEF Raise

LEMMA BuildReadable ==
    ASSUME Shape, AllReadable, Uncrossed, BuildTestcase
    PROVE  AllReadable'
<1> DEFINE items == [i \in DOMAIN seed |-> IF changed[i] = NoItem THEN At(i) ELSE changed[i]]
<1>1. Versions(items)
  BY BuiltVersions
<1>2. items \in Seq(Item)
  BY <1>1 DEF Versions
<1>3. DOMAIN changed = DOMAIN seed
  <2>1. Len(changed) = Len(seed)
    BY DEF BuildTestcase, Shape, Work, Renewed
  <2>2. DOMAIN changed = 1..Len(changed) /\ DOMAIN seed = 1..Len(seed)
    BY DEF Shape, WorkTyped, Stored
  <2> QED
    BY <2>1, <2>2
<1>4. \A i \in DOMAIN items : Readable(items[i])
  <2> SUFFICES ASSUME NEW i \in DOMAIN seed
               PROVE  Readable(IF changed[i] = NoItem THEN At(i) ELSE changed[i])
    OBVIOUS
  <2> QED
    BY <1>3, SeedReadable DEF AllReadable
<1>5. heap' = heap \o items /\ changed' = <<>> /\ pc' = "prepare"
  BY DEF BuildTestcase, Build, Untouched
<1> HIDE DEF items
<1>6. \A r \in References' : Readable(heap'[r])
  BY <1>2, <1>4, <1>5, HeapReadable DEF Shape, Stored, AllReadable
<1>7. DOMAIN changed' = {}
  BY <1>5
<1> QED
  BY <1>5, <1>6, <1>7 DEF AllReadable

LEMMA PrepareReadable ==
    ASSUME Shape, AllReadable, Uncrossed, Prepare
    PROVE  AllReadable'
<1>1. pc = "prepare" /\ left # {} /\ pc' = pc /\ changed' = changed /\ pool' = pool /\ seed' = seed
  BY DEF Prepare, campaign
<1>2. Prepare1 \in Item /\ Readable(Prepare1)
  BY <1>1, Prepare1Item, PreparedReadable DEF Prepare1
<1>3. CASE AddItem(Prepare1)
  <2>1. heap' = heap \o <<Prepare1>> /\ <<Prepare1>> \in Seq(Item)
    BY <1>1, <1>2, <1>3, AddItemStored
  <2>2. \A i \in DOMAIN <<Prepare1>> : Readable(<<Prepare1>>[i])
    BY <1>2
  <2>3. \A r \in References' : Readable(heap'[r])
    BY <2>1, <2>2, HeapReadable DEF Shape, Stored, AllReadable
  <2> QED
    BY <1>1, <2>3 DEF AllReadable
<1>4. CASE UNCHANGED <<heap, test>>
  BY <1>1, <1>4, QuietReadable
<1>5. CASE /\ Named(test, Prepare1.name) # {}
           /\ heap' = [heap EXCEPT ![test[First(Named(test, Prepare1.name))]] = Prepare1]
           /\ test' = test
  <2> DEFINE r == test[First(Named(test, Prepare1.name))]
  <2>1. test \in Seq(References)
    BY DEF Shape, Stored
  <2>2. First(Named(test, Prepare1.name)) \in DOMAIN test
    BY <1>5, <2>1, NamedFirst
  <2>3. r \in References
    BY <2>1, <2>2
  <2>4. heap' = [heap EXCEPT ![r] = Prepare1]
    BY <1>5
  <2> HIDE DEF r
  <2>5. References' = References
    BY <1>1, <1>2, <1>5, <2>3, <2>4, SetStored
  <2>6. \A q \in References : heap'[q] = IF q = r THEN Prepare1 ELSE heap[q]
    BY <2>4 DEF References
  <2>7. \A q \in References' : Readable(heap'[q])
    BY <1>2, <2>5, <2>6 DEF AllReadable
  <2> QED
    BY <1>1, <2>7 DEF AllReadable
<1>6. AddUnlessEqual(Prepare1) \/ SetOrAdd(Prepare1)
  BY DEF Prepare
<1> QED
  BY <1>3, <1>4, <1>5, <1>6 DEF AddUnlessEqual, SetOrAdd, Named

LEMMA JudgeReadable ==
    ASSUME Shape, AllReadable, Uncrossed, Judge
    PROVE  AllReadable'
<1>1. \A r \in References' : r \in References /\ heap'[r] = heap[r]
  BY DEF Judge, References
<1>2. changed' = changed /\ pc' \in {"mutate", "generate"}
  BY DEF Judge, mutation
<1> QED
  BY <1>1, <1>2 DEF AllReadable

LEMMA ReadableInductive == Spec => []AllReadable
<1>1. Init => AllReadable
  BY DEF Init, AllReadable, References
<1>2. Shape /\ AllReadable /\ [Next]_vars => AllReadable'
  <2> SUFFICES ASSUME Shape, AllReadable, [Next]_vars PROVE AllReadable'
    OBVIOUS
  <2>1. setting' = setting
    BY DEF Next, Generate, Mutate, FromPool, DrawAtRandom, DrawInOrder, NewSeed, AddRelated,
           EndDraw, StartMutation, Pick, RelateAlone, RelateBoth, EndPick, Raise, BuildTestcase,
           Build, CeitMutate, CeitRaise, Prepare, EndPrepare, Judge, campaign, vars
  <2>2. Uncrossed' = Uncrossed
    BY <2>1, SameCrossed
  <2>3. CASE ~Uncrossed
    BY <2>2, <2>3 DEF AllReadable
  <2>4. CASE Uncrossed
    <3>1. CASE FromPool \/ EndDraw \/ EndPrepare
      BY <2>4, <3>1, QuietReadable DEF FromPool, EndDraw, EndPrepare, mutation
    <3>2. CASE DrawAtRandom \/ DrawInOrder \/ AddRelated
      BY <2>4, <3>2, DrawReadable
    <3>3. CASE StartMutation \/ Pick \/ RelateAlone \/ RelateBoth \/ EndPick
      BY <2>4, <3>3, MutateReadable
    <3>4. CASE BuildTestcase \/ Prepare \/ Judge
      BY <2>4, <3>4, BuildReadable, PrepareReadable, JudgeReadable
    <3>5. CASE UNCHANGED vars
      BY <2>4, <3>5, QuietReadable DEF vars, AllReadable
    <3>6. ~ (Raise \/ CeitRaise \/ CeitMutate)
      BY <2>4, NothingRaises
    <3> QED
      BY <3>1, <3>2, <3>3, <3>4, <3>5, <3>6 DEF Next, Generate, Mutate
  <2> QED
    BY <2>3, <2>4
<1> QED
  BY <1>1, <1>2, ShapeInductive, PTL DEF Spec

\* genValue raises, and so ends the campaign, only where some default value dependency joins
\* parameters of different types: int() and float() get what a generator of their own type,
\* the default file, or a parameter of the same type gave, through any number of seeds.
THEOREM RaisesAfterCrossing == Spec => []RaisesOnlyCrossed
<1>1. AllReadable => RaisesOnlyCrossed
  BY DEF AllReadable, Uncrossed, RaisesOnlyCrossed
<1> QED
  BY <1>1, ReadableInductive, PTL

-----------------------------------------------------------------------------
(* What is recorded of a mutation.                                         *)

RecordRight(n) ==
    LET before == Effective(heap, seed, n)
        after  == Effective(heap, test, n)
    IN  IF after # before THEN recorded[n] = after
        ELSE recorded[n] = NoValue \/ Twice(n)

Recorded == pc \in {"prepare", "judge"} => \A n \in Names \ PreparedNames : RecordRight(n)

\* The last item that differs from a value, and the last item.
LEMMA LastDiffering ==
    ASSUME NEW m \in Nat, NEW at, at \subseteq 1..m, NEW value, NEW before
    PROVE  LET df    == {i \in at : value[i] # before}
               after == value[Max(at)]
               rec   == IF df = {} THEN NoValue ELSE value[Max(df)]
           IN  /\ at = {} => rec = NoValue
               /\ at # {} /\ after # before => rec = after
               /\ at # {} /\ after = before => rec = NoValue \/ \E i, j \in at : i # j
<1> DEFINE df == {i \in at : value[i] # before}
<1>1. df \subseteq at /\ df \subseteq 1..m
  OBVIOUS
<1>2. ASSUME at # {}
      PROVE  Max(at) \in at /\ \A y \in at : y <= Max(at)
  BY <1>2, LastIn
<1>3. ASSUME df # {}
      PROVE  Max(df) \in df /\ \A y \in df : y <= Max(df)
  <2> HIDE DEF df
  <2> QED
    BY <1>1, <1>3, LastIn
<1>4. ASSUME at # {}, value[Max(at)] # before
      PROVE  df # {} /\ Max(df) = Max(at)
  <2>1. Max(at) \in df
    BY <1>2, <1>4
  <2>2. Max(df) \in at /\ Max(at) <= Max(df) /\ Max(df) <= Max(at)
    BY <1>1, <1>2, <1>3, <1>4, <2>1
  <2>3. Max(df) \in 1..m /\ Max(at) \in 1..m
    BY <1>2, <1>4, <2>2
  <2> QED
    BY <2>1, <2>2, <2>3
<1>5. ASSUME at # {}, value[Max(at)] = before, df # {}
      PROVE  \E i, j \in at : i # j
  <2>1. Max(df) \in at /\ Max(at) \in at /\ value[Max(df)] # before
    BY <1>2, <1>3, <1>5
  <2> QED
    BY <1>5, <2>1
<1> QED
  BY <1>1, <1>4, <1>5

LEMMA EffectiveStays ==
    ASSUME NEW n, NEW h1, NEW l1, NEW h2, NEW l2, NEW m \in Nat,
           {i \in DOMAIN l1 : h1[l1[i]].name = n} = {i \in DOMAIN l2 : h2[l2[i]].name = n},
           DOMAIN l1 \subseteq 1..m,
           \A i \in DOMAIN l1 : h1[l1[i]].name = n => h1[l1[i]].value = h2[l2[i]].value
    PROVE  Effective(h1, l1, n) = Effective(h2, l2, n)
<1> DEFINE at == {i \in DOMAIN l1 : h1[l1[i]].name = n}
<1>1. Effective(h1, l1, n) = IF at = {} THEN NoValue ELSE h1[l1[Max(at)]].value
  BY DEF Effective
<1>2. Effective(h2, l2, n) = IF at = {} THEN NoValue ELSE h2[l2[Max(at)]].value
  BY DEF Effective
<1>3. at \subseteq 1..m /\ \A i \in at : h1[l1[i]].value = h2[l2[i]].value
  OBVIOUS
<1> HIDE DEF at
<1>4. CASE at = {}
  BY <1>1, <1>2, <1>4
<1>5. CASE at # {}
  <2>1. Max(at) \in at
    BY <1>3, <1>5, LastIn
  <2>2. h1[l1[Max(at)]].value = h2[l2[Max(at)]].value
    BY <1>3, <2>1
  <2> QED
    BY <1>1, <1>2, <1>5, <2>2
<1> QED
  BY <1>4, <1>5

LEMMA TwoOfThem ==
    ASSUME NEW m \in Nat, NEW at, at \subseteq 1..m, NEW i \in at, NEW j \in at, i # j
    PROVE  Cardinality(at) > 1
<1>1. IsFiniteSet(1..m)
  BY FS_Interval
<1>2. IsFiniteSet(at)
  BY <1>1, FS_Subset
<1>3. Cardinality({i}) = 1 /\ IsFiniteSet({i})
  BY FS_Singleton
<1>4. IsFiniteSet({i} \cup {j}) /\ Cardinality({i} \cup {j}) = 2
  <2>1. /\ IsFiniteSet({i} \cup {j})
        /\ Cardinality({i} \cup {j}) = IF j \in {i} THEN Cardinality({i}) ELSE Cardinality({i}) + 1
    BY <1>3, FS_AddElement, Zenon
  <2>2. j \notin {i}
    OBVIOUS
  <2> QED
    BY <1>3, <2>1, <2>2
<1>5. Cardinality({i} \cup {j}) <= Cardinality(at)
  BY <1>2, FS_Subset
<1>6. Cardinality(at) \in Nat
  BY <1>2, FS_CardinalityType
<1> QED
  BY <1>4, <1>5, <1>6

\* captureMutationFromSeed: the test case has a version of every item in its place.
LEMMA BuildRecords ==
    ASSUME Shape, pc \in {"pick", "mutate"}, NEW items, Versions(items), Build(items),
           NEW n \in Names
    PROVE  RecordRight(n)'
<1> DEFINE before == Effective(heap', seed, n)
           at     == {i \in DOMAIN test' : heap'[test'[i]].name = n}
           value  == [i \in DOMAIN test' |-> heap'[test'[i]].value]
           df     == {i \in at : value[i] # before}
           rec    == IF df = {} THEN NoValue ELSE value[Max(df)]
<1>1. /\ heap' = heap \o items /\ seed' = seed /\ DOMAIN test' = DOMAIN seed
      /\ DOMAIN seed = 1..Len(seed) /\ Len(seed) \in Nat
      /\ heap \in Seq(Item \cup {NoItem}) /\ items \in Seq(Item)
      /\ DOMAIN items = 1..Len(seed)
  BY SeedItems DEF Build, Untouched, campaign, Versions, Shape, Stored
<1>2. \A i \in DOMAIN seed : heap'[test'[i]].name = heap'[seed[i]].name
  <2> SUFFICES ASSUME NEW i \in DOMAIN seed PROVE heap'[test'[i]].name = heap'[seed[i]].name
    OBVIOUS
  <2>1. test'[i] = IF Shared(i) THEN seed[i] ELSE Len(heap) + i
    BY DEF Build
  <2>2. seed[i] \in DOMAIN heap
    BY Reference DEF Shape, Stored
  <2>3. heap'[seed[i]] = heap[seed[i]]
    BY <1>1, <2>2, HeapGrows
  <2>4. heap'[Len(heap) + i] = items[i] /\ items[i].name = heap[seed[i]].name
    BY <1>1, HeapGrows DEF Versions, At
  <2> QED
    BY <2>1, <2>3, <2>4
<1>3. recorded'[n] = rec
  <2>1. recorded' = Captured(heap', test')
    BY DEF Build
  <2> DEFINE differing == {i \in DOMAIN test' :
                             /\ heap'[test'[i]].name = n
                             /\ heap'[test'[i]].value # Effective(heap', seed, n)}
  <2>2. recorded'[n] = IF differing = {} THEN NoValue ELSE heap'[test'[Max(differing)]].value
    BY <2>1 DEF Captured
  <2>3. df = differing
    OBVIOUS
  <2>4. df \subseteq 1..Len(seed) /\ DOMAIN test' = 1..Len(seed)
    BY <1>1
  <2> HIDE DEF differing, df
  <2>5. df # {} => Max(df) \in DOMAIN test'
    BY <1>1, <2>4, LastIn
  <2> QED
    BY <2>2, <2>3, <2>5
<1>4. Effective(heap, seed, n)' = before /\ Twice(n)' = (Cardinality(at) > 1)
  <2>1. Effective(heap, seed, n)' = before
    BY <1>1 DEF Effective
  <2>2. Holding(n)' = at
    BY <1>1, <1>2 DEF Holding, At
  <2> QED
    BY <2>1, <2>2 DEF Twice
<1>5. Effective(heap, test, n)' = IF at = {} THEN NoValue ELSE value[Max(at)]
  <2>1. Effective(heap, test, n)' = IF at = {} THEN NoValue ELSE heap'[test'[Max(at)]].value
    BY DEF Effective
  <2>2. at \subseteq 1..Len(seed) /\ DOMAIN test' = 1..Len(seed)
    BY <1>1
  <2> HIDE DEF at
  <2>3. at # {} => Max(at) \in DOMAIN test'
    BY <1>1, <2>2, LastIn
  <2> QED
    BY <2>1, <2>3
<1>6. before = NoValue \/ at # {}
  <2>1. {i \in DOMAIN seed : heap'[seed[i]].name = n} = at
    BY <1>1, <1>2
  <2> QED
    BY <2>1 DEF Effective
<1>7. at \subseteq 1..Len(seed)
  BY <1>1
<1>8. /\ at = {} => rec = NoValue
      /\ at # {} /\ value[Max(at)] # before => rec = value[Max(at)]
      /\ at # {} /\ value[Max(at)] = before => rec = NoValue \/ \E i, j \in at : i # j
  <2> HIDE DEF at, value, before
  <2> QED
    BY <1>1, <1>7, LastDiffering
<1>9. (\E i, j \in at : i # j) => Cardinality(at) > 1
  <2> HIDE DEF at
  <2> QED
    BY <1>1, <1>7, TwoOfThem
<1> HIDE DEF at, value, before, rec
<1> QED
  BY <1>3, <1>4, <1>5, <1>6, <1>8, <1>9 DEF RecordRight

\* prepareTestcaseForExecution: no object changes its name, only prepared parameters change
\* at all, and what is new comes last.
LEMMA PrepareChanges ==
    ASSUME Shape, Prepare
    PROVE  /\ seed' = seed /\ recorded' = recorded /\ pool' = pool
           /\ \A r \in References : /\ r \in References' /\ heap'[r].name = heap[r].name
                                    /\ heap[r].name \notin PreparedNames => heap'[r] = heap[r]
           /\ \/ test' = test
              \/ /\ test' = Append(test, Len(heap) + 1) /\ Len(heap) \in Nat
                 /\ heap'[Len(heap) + 1] = Prepare1 /\ Len(heap) + 1 \notin DOMAIN heap
<1>1. pc = "prepare" /\ left # {} /\ pool' = pool /\ seed' = seed /\ recorded' = recorded
  BY DEF Prepare, campaign
<1>2. Prepare1 \in Item /\ Prepare1.name \in PreparedNames
  BY <1>1, Prepare1Item DEF Prepare1, PreparedNames
<1>3. CASE AddItem(Prepare1)
  <2>1. heap' = heap \o <<Prepare1>> /\ <<Prepare1>> \in Seq(Item)
    BY <1>1, <1>2, <1>3, AddItemStored
  <2>2. heap \in Seq(Item \cup {NoItem})
    BY DEF Shape, Stored
  <2>3. \A r \in References : r \in References' /\ heap'[r] = heap[r]
    <3>1. References = RefsOf(heap) /\ References' = RefsOf(heap')
      BY DEF References, RefsOf
    <3>2. RefsOf(heap) \subseteq RefsOf(heap') /\ \A r \in DOMAIN heap : heap'[r] = heap[r]
      BY <2>1, <2>2, HeapGrows
    <3> QED
      BY <3>1, <3>2 DEF References
  <2>4. Len(heap) \in Nat /\ DOMAIN heap = 1..Len(heap)
    BY <2>2, HeapGrows, <2>1
  <2>5. heap'[Len(heap) + 1] = Prepare1
    <3>1. 1 \in DOMAIN <<Prepare1>> /\ <<Prepare1>>[1] = Prepare1
      OBVIOUS
    <3> QED
      BY <2>1, <2>2, <3>1, HeapGrows
  <2>6. Len(heap) + 1 \notin DOMAIN heap
    BY <2>4
  <2>7. test' = Append(test, Len(heap) + 1)
    BY <1>3 DEF AddItem
  <2>8. \A r \in References :
           /\ r \in References' /\ heap'[r].name = heap[r].name
           /\ heap[r].name \notin PreparedNames => heap'[r] = heap[r]
    BY <2>3
  <2> QED
    BY <1>1, <2>4, <2>5, <2>6, <2>7, <2>8
<1>4. CASE UNCHANGED <<heap, test>>
  BY <1>1, <1>4 DEF References
<1>5. CASE /\ Named(test, Prepare1.name) # {}
           /\ heap' = [heap EXCEPT ![test[First(Named(test, Prepare1.name))]] = Prepare1]
           /\ test' = test
  <2> DEFINE q == test[First(Named(test, Prepare1.name))]
  <2>1. test \in Seq(References)
    BY DEF Shape, Stored
  <2>2. First(Named(test, Prepare1.name)) \in DOMAIN test /\ heap[q].name = Prepare1.name
    BY <1>5, <2>1, NamedFirst
  <2>3. q \in References
    BY <2>1, <2>2
  <2>4. heap' = [heap EXCEPT ![q] = Prepare1]
    BY <1>5
  <2> HIDE DEF q
  <2>5. References' = References
    BY <1>1, <1>2, <1>5, <2>3, <2>4, SetStored
  <2>6. \A r \in References : heap'[r] = IF r = q THEN Prepare1 ELSE heap[r]
    BY <2>4 DEF References
  <2> QED
    BY <1>1, <1>2, <1>5, <2>2, <2>5, <2>6
<1>6. AddUnlessEqual(Prepare1) \/ SetOrAdd(Prepare1)
  BY DEF Prepare
<1> QED
  BY <1>3, <1>4, <1>5, <1>6 DEF AddUnlessEqual, SetOrAdd, Named

LEMMA PrepareRecords ==
    ASSUME Shape, Prepare, NEW n \in Names \ PreparedNames, RecordRight(n)
    PROVE  RecordRight(n)'
<1>1. /\ seed' = seed /\ recorded' = recorded
      /\ \A r \in References : heap'[r].name = n <=> heap[r].name = n
      /\ \A r \in References : heap[r].name = n => heap'[r] = heap[r]
  BY PrepareChanges
<1>2. /\ seed \in Seq(References) /\ DOMAIN seed \subseteq 1..Len(seed) /\ Len(seed) \in Nat
      /\ test \in Seq(References) /\ DOMAIN test = 1..Len(test) /\ Len(test) \in Nat
  BY DEF Shape, Stored
<1>3. {i \in DOMAIN seed : heap[seed[i]].name = n} = {i \in DOMAIN seed : heap'[seed[i]].name = n}
  BY <1>1, <1>2
<1>4. Effective(heap, seed, n) = Effective(heap', seed', n)
  <2>1. \A i \in DOMAIN seed : heap[seed[i]].name = n => heap[seed[i]].value = heap'[seed[i]].value
    BY <1>1, <1>2
  <2> QED
    BY <1>1, <1>2, <1>3, <2>1, EffectiveStays
<1>5. Twice(n)' <=> Twice(n)
  BY <1>1, <1>3 DEF Twice, Holding, At
<1>6. \A i \in DOMAIN test :
         /\ i \in DOMAIN test' /\ test'[i] = test[i] /\ test[i] \in References
         /\ heap'[test'[i]].name = n <=> heap[test[i]].name = n
  <2>1. test' = test \/ test' = Append(test, Len(heap) + 1)
    BY PrepareChanges
  <2>2. \A i \in DOMAIN test : i \in DOMAIN test' /\ test'[i] = test[i] /\ test[i] \in References
    BY <1>2, <2>1
  <2> QED
    BY <1>1, <2>2
<1>7. \A i \in DOMAIN test' : i \notin DOMAIN test => heap'[test'[i]].name # n
  <2>1. CASE test' = test
    BY <2>1
  <2>2. CASE test' = Append(test, Len(heap) + 1) /\ heap'[Len(heap) + 1] = Prepare1
    <3>1. Prepare1.name # n
      <4>1. pc = "prepare" /\ left # {}
        BY DEF Prepare
      <4>2. Prepare1.name \in PreparedNames
        BY <4>1, Prepare1Item DEF Prepare1, PreparedNames
      <4> QED
        BY <4>2
    <3>2. \A i \in DOMAIN test' : i \notin DOMAIN test => test'[i] = Len(heap) + 1
      BY <1>2, <2>2
    <3> QED
      BY <2>2, <3>1, <3>2
  <2> QED
    BY <2>1, <2>2, PrepareChanges
<1>8. {i \in DOMAIN test : heap[test[i]].name = n} = {i \in DOMAIN test' : heap'[test'[i]].name = n}
  BY <1>6, <1>7
<1>9. \A i \in DOMAIN test : heap[test[i]].name = n => heap[test[i]].value = heap'[test'[i]].value
  BY <1>1, <1>6
<1>10. Effective(heap, test, n) = Effective(heap', test', n)
  <2>1. DOMAIN test \subseteq 1..Len(test) /\ Len(test) \in Nat
    BY <1>2
  <2> QED
    BY <1>8, <1>9, <2>1, EffectiveStays
<1>11. /\ Effective(heap, seed, n)' = Effective(heap', seed', n)
       /\ Effective(heap, test, n)' = Effective(heap', test', n)
  BY DEF Effective
<1> QED
  BY <1>1, <1>4, <1>5, <1>10, <1>11 DEF RecordRight

LEMMA RecordedInductive == Spec => []Recorded
<1>1. Init => Recorded
  BY DEF Init, Recorded
<1>2. Shape /\ Recorded /\ [Next]_vars => Recorded'
  <2> SUFFICES ASSUME Shape, Recorded, [Next]_vars PROVE Recorded'
    OBVIOUS
  <2>1. CASE BuildTestcase
    <3> DEFINE items == [i \in DOMAIN seed |-> IF changed[i] = NoItem THEN At(i) ELSE changed[i]]
    <3>1. Versions(items) /\ Build(items) /\ pc = "pick"
      BY <2>1, BuiltVersions DEF BuildTestcase
    <3> HIDE DEF items
    <3>2. \A n \in Names : RecordRight(n)'
      BY <3>1, BuildRecords
    <3> QED
      BY <3>2 DEF Recorded
  <2>2. CASE CeitMutate
    <3>1. PICK i \in DOMAIN seed, v \in Values :
            Build([j \in DOMAIN seed |-> IF j = i THEN [At(i) EXCEPT !.value = v] ELSE At(j)])
      BY <2>2 DEF CeitMutate
    <3> DEFINE items == [j \in DOMAIN seed |-> IF j = i THEN [At(i) EXCEPT !.value = v] ELSE At(j)]
    <3>2. Versions(items) /\ Build(items) /\ pc = "mutate"
      BY <2>2, <3>1, CeitVersions DEF CeitMutate
    <3> HIDE DEF items
    <3>3. \A n \in Names : RecordRight(n)'
      BY <3>2, BuildRecords
    <3> QED
      BY <3>3 DEF Recorded
  <2>3. CASE Prepare
    <3>1. \A n \in Names \ PreparedNames : RecordRight(n)
      BY <2>3 DEF Prepare, Recorded
    <3>2. \A n \in Names \ PreparedNames : RecordRight(n)'
      BY <2>3, <3>1, PrepareRecords
    <3> QED
      BY <3>2 DEF Recorded
  <2>4. CASE EndPrepare \/ UNCHANGED vars
    <3>1. UNCHANGED <<heap, seed, test, recorded>>
      BY <2>4 DEF EndPrepare, campaign, vars
    <3>2. pc' \in {"prepare", "judge"} => pc \in {"prepare", "judge"}
      BY <2>4 DEF EndPrepare, vars
    <3>3. \A n : RecordRight(n)' <=> RecordRight(n)
      BY <3>1 DEF RecordRight, Effective, Twice, Holding, At
    <3> QED
      BY <3>2, <3>3 DEF Recorded
  <2>5. CASE pc' \notin {"prepare", "judge"}
    BY <2>5 DEF Recorded
  <2>6. \/ BuildTestcase \/ CeitMutate \/ Prepare \/ EndPrepare \/ UNCHANGED vars
        \/ pc' \notin {"prepare", "judge"}
    BY DEF Next, Generate, Mutate, FromPool, DrawAtRandom, DrawInOrder, NewSeed, AddRelated,
           EndDraw, StartMutation, Pick, RelateAlone, RelateBoth, EndPick, Raise, CeitRaise, Judge
  <2> QED
    BY <2>1, <2>2, <2>3, <2>4, <2>5, <2>6
<1> QED
  BY <1>1, <1>2, ShapeInductive, PTL DEF Spec

\* captureMutationFromSeed goes by name and the list by position: what it records is the value
\* that the reader of the file takes, with the objects shared and written to afterwards.
THEOREM MutationsRecorded == Spec => []MutationRecorded
<1>1. Recorded => MutationRecorded
  BY DEF Recorded, RecordRight, MutationRecorded
<1> QED
  BY <1>1, RecordedInductive, PTL

-----------------------------------------------------------------------------
(* Shared objects.                                                         *)

Lists == NamesIn(pool) \cup {seed, test}

\* An object that two lists hold is at one position in both, and the names before it agree.
Aligned(objects, a, b) ==
    \A i \in DOMAIN a, j \in DOMAIN b :
        a[i] = b[j] => i = j /\ \A k \in 1..i : objects[a[k]].name = objects[b[k]].name

Apart == \A a, b \in Lists : Aligned(heap, a, b)

\* The first item of that name is the prepared one.
PreparedIn(objects, list, k) ==
    \E i \in DOMAIN list :
        /\ objects[list[i]] = Prepared[k]
        /\ \A j \in 1..(i - 1) : objects[list[j]].name # Prepared[k].name

Ready ==
    /\ pc = "prepare" /\ left # {} => setting.project \in {"hadoop-common", "hbase"}
    /\ setting.project = "hadoop-common" =>
          /\ \A p \in DOMAIN pool : \A k \in DOMAIN Prepared : PreparedIn(heap, pool[p], k)
          /\ pc \in {"prepare", "judge"} =>
                \A k \in DOMAIN Prepared \ left : PreparedIn(heap, test, k)

LEMMA ListTyped ==
    ASSUME Shape, NEW l \in Lists
    PROVE  /\ l \in Seq(References) /\ DOMAIN l = 1..Len(l) /\ Len(l) \in Nat
           /\ \A i \in DOMAIN l : l[i] \in References /\ l[i] \in DOMAIN heap
<1>1. l \in Seq(References)
  <2>1. CASE l \in {seed, test}
    BY <2>1 DEF Shape, Stored
  <2>2. CASE l \in NamesIn(pool)
    <3>1. PICK p \in DOMAIN pool : l = pool[p]
      BY <2>2 DEF NamesIn
    <3>2. pool[p] \in Seq(References) \ {<<>>}
      BY DEF Shape, Stored
    <3> QED
      BY <3>1, <3>2
  <2> QED
    BY <2>1, <2>2 DEF Lists
<1>2. \A i \in DOMAIN l : l[i] \in References
  BY <1>1
<1> QED
  BY <1>1, <1>2 DEF References

LEMMA AlignedStays ==
    ASSUME NEW g, NEW h, NEW a, NEW b, NEW m \in Nat, NEW n \in Nat,
           DOMAIN a = 1..m, DOMAIN b = 1..n, Aligned(g, a, b),
           \A i \in DOMAIN a : h[a[i]].name = g[a[i]].name,
           \A i \in DOMAIN b : h[b[i]].name = g[b[i]].name
    PROVE  Aligned(h, a, b)
<1> SUFFICES ASSUME NEW i \in DOMAIN a, NEW j \in DOMAIN b, a[i] = b[j]
             PROVE  i = j /\ \A k \in 1..i : h[a[k]].name = h[b[k]].name
  BY DEF Aligned
<1>1. i = j /\ \A k \in 1..i : g[a[k]].name = g[b[k]].name
  BY DEF Aligned
<1>2. \A k \in 1..i : k \in DOMAIN a /\ k \in DOMAIN b
  BY <1>1
<1> QED
  BY <1>1, <1>2

LEMMA AlignedSymmetric ==
    ASSUME NEW h, NEW a, NEW b, Aligned(h, a, b)
    PROVE  Aligned(h, b, a)
<1> SUFFICES ASSUME NEW i \in DOMAIN b, NEW j \in DOMAIN a, b[i] = a[j]
             PROVE  i = j /\ \A k \in 1..i : h[b[k]].name = h[a[k]].name
  BY DEF Aligned
<1>1. j = i /\ \A k \in 1..j : h[a[k]].name = h[b[k]].name
  BY DEF Aligned
<1> QED
  BY <1>1

\* The lists of the next state are some of the lists, with the names of their objects.
LEMMA ApartStays ==
    ASSUME Shape, Apart, Lists' \subseteq Lists \cup {<<>>},
           \A l \in Lists' : \A i \in DOMAIN l : heap'[l[i]].name = heap[l[i]].name
    PROVE  Apart'
<1> SUFFICES ASSUME NEW a \in Lists', NEW b \in Lists' PROVE Aligned(heap', a, b)
  BY DEF Apart
<1>1. CASE a = <<>> \/ b = <<>>
  BY <1>1 DEF Aligned
<1>2. CASE a \in Lists /\ b \in Lists
  <2>1. Aligned(heap, a, b)
    BY <1>2 DEF Apart
  <2>2. DOMAIN a = 1..Len(a) /\ Len(a) \in Nat /\ DOMAIN b = 1..Len(b) /\ Len(b) \in Nat
    BY <1>2, ListTyped
  <2> QED
    BY <2>1, <2>2, AlignedStays
<1> QED
  BY <1>1, <1>2

\* A list that is made of another one: each of its objects is new, or the one at its place.
LEMMA DerivedAligned ==
    ASSUME Shape, Apart, NEW l \in Lists, NEW L, NEW n \in Nat, DOMAIN L = 1..n,
           \A r \in References : heap'[r].name = heap[r].name,
           \A i \in DOMAIN L : \/ L[i] \notin DOMAIN heap
                               \/ /\ i \in DOMAIN l /\ L[i] = l[i]
                                  /\ \A k \in 1..i : heap'[L[k]].name = heap[l[k]].name,
           \A i, j \in DOMAIN L : L[i] = L[j] /\ L[i] \notin DOMAIN heap => i = j
    PROVE  Aligned(heap', L, L) /\ \A b \in Lists : Aligned(heap', L, b)
<1>1. ASSUME NEW b \in Lists PROVE Aligned(heap', L, b)
  <2> SUFFICES ASSUME NEW i \in DOMAIN L, NEW j \in DOMAIN b, L[i] = b[j]
               PROVE  i = j /\ \A k \in 1..i : heap'[L[k]].name = heap'[b[k]].name
    BY DEF Aligned
  <2>1. b[j] \in DOMAIN heap /\ DOMAIN b = 1..Len(b) /\ Len(b) \in Nat
    BY ListTyped
  <2>2. /\ i \in DOMAIN l /\ L[i] = l[i]
        /\ \A k \in 1..i : heap'[L[k]].name = heap[l[k]].name
    BY <2>1
  <2>3. i = j /\ \A k \in 1..i : heap[l[k]].name = heap[b[k]].name
    <3>1. Aligned(heap, l, b)
      BY DEF Apart
    <3>2. i \in DOMAIN l /\ l[i] = b[j]
      BY <2>2
    <3> QED
      BY <3>1, <3>2, Zenon DEF Aligned
  <2>4. \A k \in 1..i : heap'[b[k]].name = heap[b[k]].name
    <3>1. \A k \in 1..i : k \in DOMAIN b
      BY <2>1, <2>3
    <3> QED
      BY <3>1, ListTyped
  <2> QED
    BY <2>2, <2>3, <2>4
<1>2. Aligned(heap', L, L)
  <2> SUFFICES ASSUME NEW i \in DOMAIN L, NEW j \in DOMAIN L, L[i] = L[j]
               PROVE  i = j
    BY DEF Aligned
  <2>1. CASE L[i] \notin DOMAIN heap
    BY <2>1
  <2>2. CASE L[i] \in DOMAIN heap
    <3>1. i \in DOMAIN l /\ j \in DOMAIN l /\ l[i] = l[j]
      BY <2>2
    <3> QED
      BY <3>1 DEF Apart, Aligned
  <2> QED
    BY <2>1, <2>2
<1> QED
  BY <1>1, <1>2

LEMMA ApartDerived ==
    ASSUME Shape, Apart, NEW l \in Lists, NEW L, NEW n \in Nat, DOMAIN L = 1..n,
           Lists' \subseteq Lists \cup {L},
           \A r \in References : heap'[r].name = heap[r].name,
           \A i \in DOMAIN L : \/ L[i] \notin DOMAIN heap
                               \/ /\ i \in DOMAIN l /\ L[i] = l[i]
                                  /\ \A k \in 1..i : heap'[L[k]].name = heap[l[k]].name,
           \A i, j \in DOMAIN L : L[i] = L[j] /\ L[i] \notin DOMAIN heap => i = j
    PROVE  Apart'
<1>1. Aligned(heap', L, L) /\ \A b \in Lists : Aligned(heap', L, b)
  BY DerivedAligned
<1>2. \A b \in Lists : Aligned(heap', b, L)
  BY <1>1, AlignedSymmetric
<1>3. ASSUME NEW a \in Lists, NEW b \in Lists PROVE Aligned(heap', a, b)
  <2>1. Aligned(heap, a, b)
    BY DEF Apart
  <2>2. /\ DOMAIN a = 1..Len(a) /\ Len(a) \in Nat /\ DOMAIN b = 1..Len(b) /\ Len(b) \in Nat
        /\ \A i \in DOMAIN a : heap'[a[i]].name = heap[a[i]].name
        /\ \A i \in DOMAIN b : heap'[b[i]].name = heap[b[i]].name
    BY ListTyped
  <2> QED
    BY <2>1, <2>2, AlignedStays
<1> QED
  BY <1>1, <1>2, <1>3 DEF Apart

\* A step that only adds objects keeps those that the lists hold.
LEMMA OldObjects ==
    ASSUME Shape, NEW items \in Seq(Item), heap' = heap \o items
    PROVE  /\ \A r \in References : heap'[r] = heap[r]
           /\ \A i \in DOMAIN items : Len(heap) + i \notin DOMAIN heap
           /\ Len(heap) \in Nat
<1>1. heap \in Seq(Item \cup {NoItem})
  BY DEF Shape, Stored
<1>2. /\ \A r \in DOMAIN heap : heap'[r] = heap[r]
      /\ Len(heap) \in Nat /\ DOMAIN heap = 1..Len(heap)
  BY <1>1, HeapGrows
<1>3. ASSUME NEW i \in DOMAIN items PROVE Len(heap) + i \notin DOMAIN heap
  BY <1>2
<1> QED
  BY <1>2, <1>3 DEF References

LEMMA DrawApart ==
    ASSUME Shape, Apart, NEW names \in Seq(Names), NewSeed(names)
    PROVE  Apart' /\ pool' = pool /\ setting' = setting
           /\ \A r \in References : heap'[r] = heap[r]
<1> DEFINE items == [i \in DOMAIN names |-> FreshItem(names[i])]
<1>1. heap' = heap \o items /\ pool' = pool /\ test' = test /\ setting' = setting
  BY DEF NewSeed
<1>2. Len(names) \in Nat /\ DOMAIN names = 1..Len(names)
  OBVIOUS
<1>3. items \in Seq(Item) /\ DOMAIN items = 1..Len(names)
  <2>1. \A i \in DOMAIN names : FreshItem(names[i]) \in Item
    BY FreshItems
  <2> QED
    BY <1>2, <2>1
<1> HIDE DEF items
<1>4. /\ \A r \in References : heap'[r] = heap[r]
      /\ \A i \in 1..Len(names) : Len(heap) + i \notin DOMAIN heap
      /\ Len(heap) \in Nat
  BY <1>1, <1>3, OldObjects
<1>5. DOMAIN seed' = 1..Len(names) /\ \A i \in 1..Len(names) : seed'[i] = Len(heap) + i
  BY <1>2 DEF NewSeed
<1>6. seed \in Lists /\ Lists' \subseteq Lists \cup {seed'}
  BY <1>1 DEF Lists
<1>7. Apart'
  BY <1>2, <1>4, <1>5, <1>6, ApartDerived
<1> QED
  BY <1>1, <1>4, <1>7

\* One more object at the end of a list, which had been the seed or the test case.
LEMMA AppendApart ==
    ASSUME Shape, Apart, NEW item \in Item, heap' = Append(heap, item), NEW l \in Lists,
           Lists' \subseteq Lists \cup {Append(l, Len(heap) + 1)}
    PROVE  Apart' /\ \A r \in References : heap'[r] = heap[r]
<1> DEFINE L == Append(l, Len(heap) + 1)
<1>1. heap' = heap \o <<item>> /\ <<item>> \in Seq(Item) /\ DOMAIN <<item>> = {1}
  BY AppendedItem DEF Shape, Stored
<1>2. /\ \A r \in References : heap'[r] = heap[r]
      /\ Len(heap) + 1 \notin DOMAIN heap /\ Len(heap) \in Nat
  <2>1. \A i \in DOMAIN <<item>> : Len(heap) + i \notin DOMAIN heap
    BY <1>1, OldObjects
  <2> QED
    BY <1>1, <2>1, OldObjects
<1>3. /\ l \in Seq(References) /\ DOMAIN l = 1..Len(l) /\ Len(l) \in Nat
      /\ \A i \in DOMAIN l : l[i] \in References /\ l[i] \in DOMAIN heap
  BY ListTyped
<1>4. /\ DOMAIN L = 1..(Len(l) + 1) /\ Len(l) + 1 \in Nat
      /\ \A i \in 1..Len(l) : L[i] = l[i]
      /\ L[Len(l) + 1] = Len(heap) + 1
  BY <1>3
<1> HIDE DEF L
<1>5. \A i \in DOMAIN L : \/ L[i] \notin DOMAIN heap
                          \/ /\ i \in DOMAIN l /\ L[i] = l[i]
                             /\ \A k \in 1..i : heap'[L[k]].name = heap[l[k]].name
  <2> SUFFICES ASSUME NEW i \in DOMAIN L, i # Len(l) + 1
               PROVE  /\ i \in DOMAIN l /\ L[i] = l[i]
                      /\ \A k \in 1..i : heap'[L[k]].name = heap[l[k]].name
    BY <1>2, <1>4
  <2>1. i \in 1..Len(l) /\ \A k \in 1..i : k \in 1..Len(l)
    BY <1>3, <1>4
  <2> QED
    BY <1>2, <1>3, <1>4, <2>1
<1>6. \A i, j \in DOMAIN L : L[i] = L[j] /\ L[i] \notin DOMAIN heap => i = j
  BY <1>3, <1>4
<1>7. Lists' \subseteq Lists \cup {L}
  BY DEF L
<1>8. Apart'
  BY <1>2, <1>4, <1>5, <1>6, <1>7, ApartDerived
<1> QED
  BY <1>2, <1>8

LEMMA AddRelatedApart ==
    ASSUME Shape, Apart, AddRelated
    PROVE  Apart' /\ pool' = pool /\ setting' = setting
           /\ \A r \in References : heap'[r] = heap[r]
<1> DEFINE item == FreshItem(Entries[(First(left) % Len(Entries)) + 1].to)
<1>1. First(left) \in left
  BY FirstIn DEF AddRelated, Shape, WorkTyped
<1>2. item \in Item
  BY <1>1, FreshItems DEF AddRelated, Shape, Work
<1> HIDE DEF item
<1>3. /\ heap' = Append(heap, item) /\ seed' = Append(seed, Len(heap) + 1)
      /\ pool' = pool /\ setting' = setting /\ test' = test
  BY DEF AddRelated, item, campaign
<1>4. seed \in Lists /\ Lists' \subseteq Lists \cup {Append(seed, Len(heap) + 1)}
  BY <1>3 DEF Lists
<1> QED
  BY <1>2, <1>3, <1>4, AppendApart

LEMMA BuildApart ==
    ASSUME Shape, Apart, NEW items, Versions(items), Build(items)
    PROVE  Apart' /\ pool' = pool /\ setting' = setting
           /\ \A r \in References : heap'[r] = heap[r]
<1>1. /\ heap' = heap \o items /\ seed' = seed /\ pool' = pool /\ setting' = setting
      /\ DOMAIN seed = 1..Len(seed) /\ Len(seed) \in Nat
      /\ heap \in Seq(Item \cup {NoItem}) /\ items \in Seq(Item) /\ DOMAIN items = 1..Len(seed)
  BY SeedItems DEF Build, Untouched, campaign, Versions, Shape, Stored
<1>2. /\ \A r \in References : heap'[r] = heap[r]
      /\ \A i \in 1..Len(seed) : Len(heap) + i \notin DOMAIN heap
      /\ Len(heap) \in Nat
  BY <1>1, OldObjects
<1>3. /\ DOMAIN test' = 1..Len(seed)
      /\ \A i \in 1..Len(seed) : test'[i] = IF Shared(i) THEN seed[i] ELSE Len(heap) + i
  BY <1>1 DEF Build
<1>4. seed \in Lists /\ Lists' \subseteq Lists \cup {test'}
  BY <1>1 DEF Lists
<1>5. \A i \in 1..Len(seed) : seed[i] \in References /\ seed[i] \in DOMAIN heap
  BY <1>1, <1>4, ListTyped
<1>6. \A i \in 1..Len(seed) : heap'[test'[i]].name = heap[seed[i]].name
  <2>1. \A i \in 1..Len(seed) : heap'[Len(heap) + i].name = heap[seed[i]].name
    BY <1>1, HeapGrows DEF Versions, At
  <2> QED
    BY <1>2, <1>3, <1>5, <2>1
<1>7. \A i \in DOMAIN test' :
         \/ test'[i] \notin DOMAIN heap
         \/ /\ i \in DOMAIN seed /\ test'[i] = seed[i]
            /\ \A k \in 1..i : heap'[test'[k]].name = heap[seed[k]].name
  <2> SUFFICES ASSUME NEW i \in 1..Len(seed), Shared(i)
               PROVE  /\ i \in DOMAIN seed /\ test'[i] = seed[i]
                      /\ \A k \in 1..i : heap'[test'[k]].name = heap[seed[k]].name
    BY <1>2, <1>3
  <2>1. \A k \in 1..i : k \in 1..Len(seed)
    BY <1>1
  <2> QED
    BY <1>1, <1>3, <1>6, <2>1
<1>8. \A i, j \in DOMAIN test' : test'[i] = test'[j] /\ test'[i] \notin DOMAIN heap => i = j
  BY <1>1, <1>2, <1>3, <1>5
<1>9. Apart'
  BY <1>1, <1>2, <1>3, <1>4, <1>7, <1>8, ApartDerived
<1> QED
  BY <1>1, <1>2, <1>9

LEMMA PrepareApart ==
    ASSUME Shape, Apart, Prepare
    PROVE  Apart'
<1>1. /\ pool' = pool /\ seed' = seed /\ pc = "prepare" /\ left # {}
      /\ \A r \in References : heap'[r].name = heap[r].name
  BY PrepareChanges DEF Prepare
<1>2. test \in Lists
  BY DEF Lists
<1>3. CASE AddItem(Prepare1)
  <2>1. Lists' \subseteq Lists \cup {Append(test, Len(heap) + 1)}
    BY <1>1, <1>3 DEF Lists, AddItem
  <2> QED
    BY <1>1, <1>2, <1>3, <2>1, Prepare1Item, AppendApart DEF AddItem
<1>4. CASE test' = test
  <2>1. Lists' = Lists
    BY <1>1, <1>4 DEF Lists
  <2>2. \A l \in Lists' : \A i \in DOMAIN l : heap'[l[i]].name = heap[l[i]].name
    BY <1>1, <2>1, ListTyped
  <2> QED
    BY <2>1, <2>2, ApartStays
<1>5. AddItem(Prepare1) \/ test' = test
  BY DEF Prepare, AddUnlessEqual, SetOrAdd
<1> QED
  BY <1>3, <1>4, <1>5

LEMMA JudgeApart ==
    ASSUME Shape, Apart, Judge
    PROVE  Apart'
<1>1. test' = <<>> /\ seed' \in {seed, <<>>}
  BY DEF Judge
<1>2. NamesIn(pool') \subseteq NamesIn(pool) \cup {test}
  <2>1. pool \in Seq(Seq(References) \ {<<>>})
    BY DEF Shape, Stored
  <2>2. pool' = pool \/ pool' = Append(pool, test)
    BY JudgeKeeps
  <2> HIDE DEF References
  <2> QED
    BY <2>1, <2>2 DEF NamesIn
<1>3. Lists' \subseteq Lists \cup {<<>>}
  BY <1>1, <1>2 DEF Lists
<1>4. \A l \in Lists' : \A i \in DOMAIN l : heap'[l[i]].name = heap[l[i]].name
  <2>1. \A l \in NamesIn(pool') \cup {seed'} : \A i \in DOMAIN l : heap'[l[i]].name = heap[l[i]].name
    BY JudgeKeeps
  <2>2. \A i \in DOMAIN test' : FALSE
    BY <1>1
  <2> QED
    BY <2>1, <2>2 DEF Lists
<1> QED
  BY <1>3, <1>4, ApartStays

\* Only prepareTestcaseForExecution writes, and a judgement lets objects go.
LEMMA OthersKeep ==
    ASSUME Shape, Apart, [Next]_vars, ~Prepare, ~Judge
    PROVE  /\ Apart' /\ pool' = pool /\ setting' = setting
           /\ \A r \in References : heap'[r] = heap[r]
<1>1. CASE DrawAtRandom \/ DrawInOrder
  <2>1. PICK names \in Seq(Names) : NewSeed(names)
    <3>1. CASE DrawAtRandom
      BY <3>1, ShuffledNames DEF DrawAtRandom
    <3>2. CASE DrawInOrder
      <4>1. PICK candidates \in CandidateLists : \E size \in Sizes(candidates) :
              NewSeed(Window(candidates, size))
        BY <3>2 DEF DrawInOrder
      <4>2. PICK size \in Sizes(candidates) : NewSeed(Window(candidates, size))
        BY <4>1
      <4>3. nextName \in Nat
        BY DEF Shape, Control
      <4> QED
        BY <4>2, <4>3, WindowNames
    <3> QED
      BY <1>1, <3>1, <3>2
  <2> QED
    BY <2>1, DrawApart
<1>2. CASE AddRelated
  BY <1>2, AddRelatedApart
<1>3. CASE BuildTestcase
  <2> DEFINE items == [i \in DOMAIN seed |-> IF changed[i] = NoItem THEN At(i) ELSE changed[i]]
  <2>1. Versions(items) /\ Build(items)
    BY <1>3, BuiltVersions DEF BuildTestcase
  <2> HIDE DEF items
  <2> QED
    BY <2>1, BuildApart
<1>4. CASE CeitMutate
  <2>1. PICK i \in DOMAIN seed, v \in Values :
          Build([j \in DOMAIN seed |-> IF j = i THEN [At(i) EXCEPT !.value = v] ELSE At(j)])
    BY <1>4 DEF CeitMutate
  <2> DEFINE items == [j \in DOMAIN seed |-> IF j = i THEN [At(i) EXCEPT !.value = v] ELSE At(j)]
  <2>2. Versions(items) /\ Build(items)
    BY <2>1, CeitVersions
  <2> HIDE DEF items
  <2> QED
    BY <2>2, BuildApart
<1>5. CASE UNCHANGED <<heap, pool, test, setting>> /\ seed' \in Lists
  <2>1. Lists' \subseteq Lists
    BY <1>5 DEF Lists
  <2> QED
    BY <1>5, <2>1, ApartStays
<1>6. \/ DrawAtRandom \/ DrawInOrder \/ AddRelated \/ BuildTestcase \/ CeitMutate
      \/ UNCHANGED <<heap, pool, test, setting>> /\ seed' \in Lists
  <2>1. CASE FromPool
    BY <2>1 DEF FromPool, campaign, Lists, NamesIn
  <2>2. CASE EndDraw \/ StartMutation \/ Pick \/ RelateAlone \/ RelateBoth \/ EndPick \/ Raise
             \/ CeitRaise \/ EndPrepare \/ UNCHANGED vars
    BY <2>2 DEF EndDraw, StartMutation, Pick, RelateAlone, RelateBoth, EndPick, Raise,
                CeitRaise, EndPrepare, campaign, vars, Lists
  <2> QED
    BY <2>1, <2>2 DEF Next, Generate, Mutate
<1> QED
  BY <1>1, <1>2, <1>3, <1>4, <1>5, <1>6

LEMMA PreparedStays ==
    ASSUME NEW g, NEW h, NEW l, NEW m \in Nat, DOMAIN l = 1..m, NEW k, PreparedIn(g, l, k),
           \A i \in DOMAIN l : h[l[i]] = g[l[i]]
    PROVE  PreparedIn(h, l, k)
<1>1. PICK i \in DOMAIN l : /\ g[l[i]] = Prepared[k]
                            /\ \A j \in 1..(i - 1) : g[l[j]].name # Prepared[k].name
  BY DEF PreparedIn
<1>2. \A j \in 1..(i - 1) : j \in DOMAIN l
  OBVIOUS
<1>3. h[l[i]] = Prepared[k] /\ \A j \in 1..(i - 1) : h[l[j]].name # Prepared[k].name
  BY <1>1, <1>2
<1> QED
  BY <1>3 DEF PreparedIn

LEMMA PoolLists ==
    ASSUME Shape, NEW p \in DOMAIN pool
    PROVE  pool[p] \in Lists
BY DEF Lists, NamesIn

LEMMA OthersReady ==
    ASSUME Shape, Apart, Ready, [Next]_vars, ~Prepare, ~Judge
    PROVE  Ready'
<1>1. pool' = pool /\ setting' = setting /\ \A r \in References : heap'[r] = heap[r]
  BY OthersKeep
<1>2. \/ pc' = "prepare" /\ left' \in {DOMAIN Prepared, {}}
         /\ (setting.project = "hadoop-common" => left' = DOMAIN Prepared)
         /\ (left' # {} => setting.project \in {"hadoop-common", "hbase"})
      \/ pc \in {"prepare", "judge"} /\ test' = test /\ left' = left /\ pc' \in {pc, "judge"}
      \/ pc' \notin {"prepare", "judge"}
  BY DEF Next, Generate, Mutate, FromPool, DrawAtRandom, DrawInOrder, NewSeed, AddRelated,
         EndDraw, StartMutation, Pick, RelateAlone, RelateBoth, EndPick, Raise, BuildTestcase,
         Build, CeitMutate, CeitRaise, EndPrepare, mutation, vars
<1>3. ASSUME NEW l \in Lists, NEW k, PreparedIn(heap, l, k)
      PROVE  PreparedIn(heap', l, k)
  <2>1. DOMAIN l = 1..Len(l) /\ Len(l) \in Nat /\ \A i \in DOMAIN l : heap'[l[i]] = heap[l[i]]
    BY <1>1, ListTyped
  <2> QED
    BY <1>3, <2>1, PreparedStays
<1>4. pc' = "prepare" /\ left' # {} => setting'.project \in {"hadoop-common", "hbase"}
  BY <1>1, <1>2 DEF Ready
<1>5. ASSUME setting.project = "hadoop-common", NEW p \in DOMAIN pool, NEW k \in DOMAIN Prepared
      PROVE  PreparedIn(heap', pool'[p], k)
  <2>1. PreparedIn(heap, pool[p], k) /\ pool[p] \in Lists
    BY <1>5, PoolLists DEF Ready
  <2> QED
    BY <1>1, <1>3, <2>1
<1>6. ASSUME setting.project = "hadoop-common", pc' \in {"prepare", "judge"},
             NEW k \in DOMAIN Prepared \ left'
      PROVE  PreparedIn(heap', test', k)
  <2>1. pc \in {"prepare", "judge"} /\ test' = test /\ left' = left
    BY <1>2, <1>6
  <2>2. PreparedIn(heap, test, k) /\ test \in Lists
    BY <1>6, <2>1 DEF Ready, Lists
  <2> QED
    BY <1>3, <2>1, <2>2
<1> QED
  BY <1>1, <1>4, <1>5, <1>6 DEF Ready

\* What setOrAddConfItem does: an object for a name that the test case has not, or a value
\* for the first object of that name.
SetFirst ==
    /\ Named(test, Prepare1.name) # {}
    /\ heap' = [heap EXCEPT ![test[First(Named(test, Prepare1.name))]] = Prepare1]
    /\ test' = test

LEMMA PreparationKinds ==
    ASSUME Shape, Apart, Ready, Prepare
    PROVE  \/ /\ \A r \in References : heap'[r] = heap[r]
              /\ \/ setting.project = "hbase"
                 \/ AddItem(Prepare1) /\ Named(test, Prepare1.name) = {}
           \/ setting.project = "hadoop-common" /\ SetFirst
<1>1. pc = "prepare" /\ left # {} /\ setting.project \in {"hadoop-common", "hbase"}
  BY DEF Prepare, Ready
<1>2. ASSUME AddItem(Prepare1)
      PROVE  \A r \in References : heap'[r] = heap[r]
  <2>1. Lists' \subseteq Lists \cup {Append(test, Len(heap) + 1)}
    BY <1>2, PrepareChanges DEF Lists, AddItem
  <2>2. test \in Lists
    BY DEF Lists
  <2>3. heap' = Append(heap, Prepare1) /\ Prepare1 \in Item
    BY <1>1, <1>2, Prepare1Item DEF AddItem
  <2> QED
    BY <2>1, <2>2, <2>3, AppendApart
<1>3. CASE setting.project = "hbase"
  <2>1. AddItem(Prepare1) \/ UNCHANGED heap
    BY <1>3 DEF Prepare, AddUnlessEqual
  <2> QED
    BY <1>2, <1>3, <2>1
<1>4. CASE setting.project = "hadoop-common"
  <2>1. SetOrAdd(Prepare1)
    BY <1>4 DEF Prepare
  <2>2. (AddItem(Prepare1) /\ Named(test, Prepare1.name) = {}) \/ SetFirst
    BY <2>1 DEF SetOrAdd, SetFirst, Named
  <2> QED
    BY <1>2, <1>4, <2>2
<1> QED
  BY <1>1, <1>3, <1>4

\* An object of the test case that is written to and that the pool holds, too, was prepared
\* before its seed was accepted: it gets the values that it has.
LEMMA PrepareFreezes ==
    ASSUME Shape, Apart, Ready, Prepare, NEW p \in DOMAIN pool, NEW i \in DOMAIN pool[p]
    PROVE  heap'[pool[p][i]] = heap[pool[p][i]]
<1>1. pool[p] \in Lists /\ test \in Lists
  BY PoolLists DEF Lists
<1>2. /\ DOMAIN pool[p] = 1..Len(pool[p]) /\ Len(pool[p]) \in Nat /\ pool[p][i] \in References
      /\ test \in Seq(References) /\ DOMAIN test = 1..Len(test) /\ Len(test) \in Nat
  BY <1>1, ListTyped
<1>3. CASE setting.project = "hadoop-common" /\ SetFirst
  <2> DEFINE f == First(Named(test, Prepare1.name))
             k == First(left)
  <2>1. /\ f \in DOMAIN test /\ heap[test[f]].name = Prepare1.name
        /\ \A j \in 1..(f - 1) : heap[test[j]].name # Prepare1.name
    BY <1>2, <1>3, NamedFirst DEF SetFirst
  <2>2. heap' = [heap EXCEPT ![test[f]] = Prepare1]
    BY <1>3 DEF SetFirst
  <2>3. k \in DOMAIN Prepared /\ Prepare1 = Prepared[k]
    BY Prepare1Item DEF Prepare, Prepare1
  <2> HIDE DEF f, k
  <2>4. PreparedIn(heap, pool[p], k)
    BY <1>3, <2>3 DEF Ready
  <2>5. CASE pool[p][i] # test[f]
    BY <1>2, <2>2, <2>5 DEF References
  <2>6. CASE pool[p][i] = test[f]
    <3>1. Aligned(heap, pool[p], test)
      BY <1>1 DEF Apart
    <3>2. i = f /\ \A j \in 1..i : heap[pool[p][j]].name = heap[test[j]].name
      BY <2>1, <2>6, <3>1, Zenon DEF Aligned
    <3>3. PICK q \in DOMAIN pool[p] :
            /\ heap[pool[p][q]] = Prepared[k]
            /\ \A j \in 1..(q - 1) : heap[pool[p][j]].name # Prepared[k].name
      BY <2>4 DEF PreparedIn
    <3>4. ~ (q < i)
      BY <1>2, <2>1, <2>3, <3>2, <3>3
    <3>5. ~ (i < q)
      <4>1. heap[pool[p][i]].name = Prepared[k].name
        BY <2>1, <2>3, <2>6
      <4> QED
        BY <1>2, <3>3, <4>1
    <3>6. heap[pool[p][i]] = Prepared[k]
      <4>1. q = i
        BY <1>2, <3>4, <3>5
      <4> QED
        BY <3>3, <4>1
    <3> QED
      BY <1>2, <2>2, <2>3, <2>6, <3>6 DEF References
  <2> QED
    BY <2>5, <2>6
<1>4. CASE \A r \in References : heap'[r] = heap[r]
  BY <1>2, <1>4
<1> QED
  BY <1>3, <1>4, PreparationKinds

LEMMA PrepareReady ==
    ASSUME Shape, Apart, Ready, Prepare
    PROVE  Ready'
<1> DEFINE k1 == First(left)
<1>1. /\ pc = "prepare" /\ left # {} /\ pc' = pc /\ setting' = setting /\ pool' = pool
      /\ left' = left \ {k1}
  BY DEF Prepare, campaign
<1>2. k1 \in DOMAIN Prepared /\ Prepare1 = Prepared[k1]
  BY <1>1, Prepare1Item DEF Prepare1
<1> HIDE DEF k1
<1>3. /\ test \in Seq(References) /\ DOMAIN test = 1..Len(test) /\ Len(test) \in Nat
      /\ \A i \in DOMAIN test : test[i] \in References
  BY ListTyped DEF Lists
<1>4. ASSUME setting.project = "hadoop-common", NEW p \in DOMAIN pool, NEW k \in DOMAIN Prepared
      PROVE  PreparedIn(heap', pool'[p], k)
  <2>1. PreparedIn(heap, pool[p], k)
    BY <1>4 DEF Ready
  <2>2. DOMAIN pool[p] = 1..Len(pool[p]) /\ Len(pool[p]) \in Nat
    BY PoolLists, ListTyped
  <2>3. \A i \in DOMAIN pool[p] : heap'[pool[p][i]] = heap[pool[p][i]]
    BY PrepareFreezes
  <2> QED
    BY <1>1, <2>1, <2>2, <2>3, PreparedStays
<1>5. ASSUME setting.project = "hadoop-common", NEW k \in DOMAIN Prepared \ left'
      PROVE  PreparedIn(heap', test', k)
  <2>1. k # k1 => PreparedIn(heap, test, k)
    BY <1>1, <1>5 DEF Ready
  <2>2. CASE /\ \A r \in References : heap'[r] = heap[r]
             /\ AddItem(Prepare1) /\ Named(test, Prepare1.name) = {}
    <3>1. /\ DOMAIN test' = 1..(Len(test) + 1) /\ test'[Len(test) + 1] = Len(heap) + 1
          /\ \A i \in 1..Len(test) : test'[i] = test[i]
      BY <1>3, <2>2 DEF AddItem
    <3>2. \A i \in 1..Len(test) : heap'[test'[i]] = heap[test[i]]
      BY <1>3, <2>2, <3>1
    <3>3. CASE k = k1
      <4>1. heap'[test'[Len(test) + 1]] = Prepared[k]
        <5>1. heap' = Append(heap, Prepare1)
          BY <2>2 DEF AddItem
        <5>2. heap \in Seq(Item \cup {NoItem})
          BY DEF Shape, Stored
        <5> HIDE DEF NoItem
        <5>3. heap'[Len(heap) + 1] = Prepare1
          BY <5>1, <5>2
        <5> QED
          BY <1>2, <3>1, <3>3, <5>3
      <4>2. \A j \in 1..Len(test) : heap'[test'[j]].name # Prepared[k].name
        BY <1>2, <1>3, <2>2, <3>2, <3>3 DEF Named
      <4>3. (Len(test) + 1) - 1 = Len(test) /\ Len(test) + 1 \in DOMAIN test'
        BY <1>3, <3>1
      <4> QED
        BY <4>1, <4>2, <4>3 DEF PreparedIn
    <3>4. CASE k # k1
      <4>1. PICK i \in DOMAIN test : /\ heap[test[i]] = Prepared[k]
                                     /\ \A j \in 1..(i - 1) : heap[test[j]].name # Prepared[k].name
        BY <2>1, <3>4 DEF PreparedIn
      <4>2. i \in DOMAIN test' /\ \A j \in 1..(i - 1) : j \in 1..Len(test)
        BY <1>3, <3>1
      <4>3. /\ heap'[test'[i]] = Prepared[k]
            /\ \A j \in 1..(i - 1) : heap'[test'[j]].name # Prepared[k].name
        BY <1>3, <3>2, <4>1, <4>2
      <4> QED
        BY <4>2, <4>3 DEF PreparedIn
    <3> QED
      BY <3>3, <3>4
  <2>3. CASE SetFirst
    <3> DEFINE f == First(Named(test, Prepare1.name))
    <3>1. /\ f \in DOMAIN test /\ heap[test[f]].name = Prepare1.name
          /\ \A j \in 1..(f - 1) : heap[test[j]].name # Prepare1.name
      BY <1>3, <2>3, NamedFirst DEF SetFirst
    <3>2. heap' = [heap EXCEPT ![test[f]] = Prepare1] /\ test' = test
      BY <2>3 DEF SetFirst
    <3> HIDE DEF f
    <3>3. \A i \in DOMAIN test : heap'[test[i]].name = heap[test[i]].name
      BY <1>3, PrepareChanges
    <3>4. \A j \in 1..(f - 1) : j \in DOMAIN test
      BY <1>3, <3>1
    <3>5. CASE k = k1
      <4>1. heap'[test[f]] = Prepared[k]
        BY <1>2, <1>3, <3>1, <3>2, <3>5 DEF References
      <4>2. \A j \in 1..(f - 1) : heap'[test[j]].name # Prepared[k].name
        BY <1>2, <3>1, <3>3, <3>4, <3>5
      <4> QED
        BY <3>1, <3>2, <4>1, <4>2 DEF PreparedIn
    <3>6. CASE k # k1
      <4>1. PICK i \in DOMAIN test : /\ heap[test[i]] = Prepared[k]
                                     /\ \A j \in 1..(i - 1) : heap[test[j]].name # Prepared[k].name
        BY <2>1, <3>6 DEF PreparedIn
      <4>2. Prepared[k].name # Prepared[k1].name
        BY <1>2, <1>5, <3>6, NamesAssumption
      <4>3. test[i] # test[f]
        BY <1>2, <3>1, <4>1, <4>2
      <4>4. heap'[test[i]] = Prepared[k]
        BY <1>3, <3>2, <4>1, <4>3 DEF References
      <4>5. \A j \in 1..(i - 1) : j \in DOMAIN test
        BY <1>3
      <4>6. \A j \in 1..(i - 1) : heap'[test[j]].name # Prepared[k].name
        BY <3>3, <4>1, <4>5
      <4> QED
        BY <3>2, <4>4, <4>6 DEF PreparedIn
    <3> QED
      BY <3>5, <3>6
  <2>4. setting.project # "hbase"
    BY <1>5
  <2> QED
    BY <2>2, <2>3, <2>4, PreparationKinds
<1> QED
  BY <1>1, <1>4, <1>5 DEF Ready

LEMMA JudgeReady ==
    ASSUME Shape, Apart, Ready, Judge
    PROVE  Ready'
<1>1. pc = "judge" /\ pc' \notin {"prepare", "judge"} /\ setting' = setting /\ left = {}
  BY DEF Judge, Shape, Work
<1>2. ASSUME setting.project = "hadoop-common", NEW p \in DOMAIN pool', NEW k \in DOMAIN Prepared
      PROVE  PreparedIn(heap', pool'[p], k)
  <2>1. pool'[p] \in Lists /\ PreparedIn(heap, pool'[p], k)
    <3>1. pool \in Seq(Seq(References) \ {<<>>})
      BY DEF Shape, Stored
    <3>2. (p \in DOMAIN pool /\ pool'[p] = pool[p]) \/ pool'[p] = test
      <4>1. pool' = pool \/ pool' = Append(pool, test)
        BY JudgeKeeps
      <4> HIDE DEF References
      <4> QED
        BY <3>1, <4>1
    <3>3. CASE p \in DOMAIN pool /\ pool'[p] = pool[p]
      BY <1>2, <3>3, PoolLists DEF Ready
    <3>4. CASE pool'[p] = test
      BY <1>1, <1>2, <3>4 DEF Ready, Lists
    <3> QED
      BY <3>2, <3>3, <3>4
  <2>2. \A i \in DOMAIN pool'[p] : heap'[pool'[p][i]] = heap[pool'[p][i]]
    BY JudgeKeeps DEF NamesIn
  <2> QED
    BY <2>1, <2>2, ListTyped, PreparedStays
<1> QED
  BY <1>1, <1>2 DEF Ready

LEMMA ReadyInductive == Spec => [](Apart /\ Ready)
<1>1. Init => Apart /\ Ready
  <2> SUFFICES ASSUME Init PROVE Apart /\ Ready
    OBVIOUS
  <2>1. \A l \in Lists : l = <<>>
    BY DEF Init, Lists, NamesIn
  <2>2. Apart
    BY <2>1 DEF Apart, Aligned
  <2>3. Ready
    BY DEF Init, Ready
  <2> QED
    BY <2>2, <2>3
<1>2. Shape /\ (Apart /\ Ready) /\ [Next]_vars => (Apart /\ Ready)'
  BY OthersKeep, OthersReady, PrepareApart, PrepareReady, JudgeApart, JudgeReady
<1> QED
  BY <1>1, <1>2, ShapeInductive, PTL DEF Spec

\* No step of the fuzzer, the mutators or the preparation changes an object of a seed that
\* was accepted, whoever else holds it: what is written into shared objects is there already.
THEOREM SeedsFrozen == Spec => PoolSeedsFrozen
<1> DEFINE Frozen ==
      \A p \in DOMAIN pool :
          /\ p \in DOMAIN pool' /\ pool'[p] = pool[p]
          /\ \A i \in DOMAIN pool[p] : heap'[pool[p][i]] = heap[pool[p][i]]
<1>1. Shape /\ Apart /\ Ready /\ [Next]_vars => Frozen
  <2> SUFFICES ASSUME Shape, Apart, Ready, [Next]_vars, NEW p \in DOMAIN pool
               PROVE  /\ p \in DOMAIN pool' /\ pool'[p] = pool[p]
                      /\ \A i \in DOMAIN pool[p] : heap'[pool[p][i]] = heap[pool[p][i]]
    OBVIOUS
  <2>1. CASE Prepare
    BY <2>1, PrepareFreezes, PrepareChanges
  <2>2. CASE Judge
    <3>1. p \in DOMAIN pool' /\ pool'[p] = pool[p]
      <4>1. pool' = pool \/ pool' = Append(pool, test)
        BY <2>2, JudgeKeeps
      <4> DEFINE lists == Seq(References) \ {<<>>}
      <4>2. pool \in Seq(lists)
        BY DEF Shape, Stored
      <4> HIDE DEF lists
      <4> QED
        BY <4>1, <4>2
    <3>2. pool[p] \in NamesIn(pool')
      BY <3>1 DEF NamesIn
    <3> QED
      BY <2>2, <3>1, <3>2, JudgeKeeps
  <2>3. CASE ~Prepare /\ ~Judge
    <3>1. pool' = pool /\ \A r \in References : heap'[r] = heap[r]
      BY <2>3, OthersKeep
    <3>2. \A i \in DOMAIN pool[p] : pool[p][i] \in References
      BY PoolLists, ListTyped
    <3> QED
      BY <3>1, <3>2
  <2> QED
    BY <2>1, <2>2, <2>3
<1>2. Frozen => [\A p \in DOMAIN pool :
          /\ p \in DOMAIN pool' /\ pool'[p] = pool[p]
          /\ \A i \in DOMAIN pool[p] : heap'[pool[p][i]] = heap[pool[p][i]]]_vars
  OBVIOUS
<1> QED
  BY <1>1, <1>2, ShapeInductive, ReadyInductive, PTL DEF Spec, PoolSeedsFrozen
=============================================================================
