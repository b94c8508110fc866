---------------------------- MODULE SeedMutation ----------------------------
(***************************************************************************)
(* Seeds and test cases as lists of references to ConfItem objects: how    *)
(* SeedGenerator draws a seed, how a mutator makes a test case of it, what *)
(* TestValidator writes into that test case, and which test cases become   *)
(* seeds in their turn.  Objects are shared: a test case of StackedMutator *)
(* or SmartMutator holds the objects of its seed that it did not mutate.   *)
(*                                                                         *)
(* A value is a string of a small set, a type one of the classes of        *)
(* generators in NewValue.  Which names exercise guidance prefers is       *)
(* ExerciseTracking's: here it may prefer any.                             *)
(***************************************************************************)
EXTENDS Naturals, Sequences, FiniteSetsExt

CONSTANTS
    Mutable,         \* ConfAnalyzer.confItemsMutable, a sequence of names
    TypeOf,          \* confItemTypeMap
    Default,         \* confItemValueMap
    Ints, Floats,    \* the values that int() takes, and those that only float() does
    Texts,           \* the values that the other generators choose or put together
    Prepared,        \* the items of prepareTestcaseForExecution, a sequence
    Settings,        \* the settings and relations a campaign may have
    SeedSizes,       \* 3..6: the names drawn for a seed
    StackSizes,      \* 3..5: the mutations of StackedMutator
    TestcasePerSeed, \* testcase_per_seed
    MaxPool,         \* seeds in the pool (bound)
    MaxLoops         \* loops of the fuzzer (bound)

NamesIn(list) == {list[i] : i \in DOMAIN list}
Names == NamesIn(Mutable)
Types == {"BOOL", "INT", "FLOAT", "CHOICE", "KEEP"}
\* constraint_method raises on any other kind (NewValue.py:76), which the tables of the
\* repository do not have; that raise is left out.
Kinds == {"Control Dependency", "Value Relationship Dependency", "Overwrite",
          "Default Value Dependency", "Behavior Dependency"}
Values == Ints \cup Floats \cup Texts \cup {"True", "False"}
             \cup {Default[n] : n \in Names} \cup {Prepared[i].value : i \in DOMAIN Prepared}
Item == [name : Names, type : Types, value : Values]

SettingSet ==
    [mutator : {"Single", "Stacked", "Smart", "Ceit"}, guided : BOOLEAN, plain : BOOLEAN,
     project : {"hadoop-common", "hbase", "other"}, optioned : SUBSET Names,
     rows : Seq([kind : Kinds, a : STRING, b : STRING])]

ASSUME NamesAssumption ==
    /\ Mutable \in Seq(STRING) /\ Mutable # <<>>
    /\ \A i, j \in DOMAIN Mutable : Mutable[i] = Mutable[j] => i = j
    /\ TypeOf \in [Names -> Types] /\ Default \in [Names -> STRING]
    /\ Prepared \in Seq([name : Names, type : {"CHOICE"}, value : STRING])
    /\ \A i, j \in DOMAIN Prepared : Prepared[i].name = Prepared[j].name => i = j
    \* their values in the default file are paths and an address
    /\ \A i \in DOMAIN Prepared : TypeOf[Prepared[i].name] \in {"CHOICE", "KEEP"}
ASSUME ValuesAssumption ==
    /\ Ints \subseteq STRING /\ Floats \subseteq STRING /\ Texts \subseteq STRING
    /\ Ints # {} /\ Floats # {}
    /\ \A n \in Names : /\ TypeOf[n] = "INT" => Default[n] \in Ints
                        /\ TypeOf[n] = "FLOAT" => Default[n] \in Ints \cup Floats
ASSUME SettingsAssumption == Settings \subseteq SettingSet
ASSUME SizesAssumption ==
    /\ SeedSizes \subseteq Nat \ {0} /\ StackSizes \subseteq Nat \ {0}
    /\ TestcasePerSeed \in Nat \ {0} /\ MaxPool \in Nat /\ MaxLoops \in Nat

VARIABLES
    setting,  \* the settings of this campaign
    pc,       \* where the fuzzer is
    loops,    \* finished loops of the fuzzer
    tests,    \* finished test cases of this loop
    heap,     \* the ConfItem objects, by reference
    pool,     \* SeedGenerator.seedPool, lists of references
    nextName, \* sequentialGeneratorIndex
    seed,     \* the confItemList of the seed
    picks,    \* the mutations still to make
    chosen,   \* choose_conf_index
    itemA,    \* the copy of the chosen item
    left,     \* the relations, or the prepared items, not applied yet
    changed,  \* item_dict: the new item of an index, or NoItem
    test,     \* the confItemList of the test case
    recorded, \* mutationAfterValues, or NoValue
    drawn     \* history: how often a name was drawn in order

vars == <<setting, pc, loops, tests, heap, pool, nextName, seed, picks, chosen, itemA,
          left, changed, test, recorded, drawn>>
campaign == <<setting, loops, tests, pool, nextName, drawn>>
mutation == <<picks, chosen, itemA, left, changed>>

NoValue == "no value"
NoItem == [name |-> "none", type |-> "none", value |-> "none"]
NothingRecorded == [n \in Names |-> NoValue]

Init ==
    /\ setting \in Settings
    /\ pc = "generate" /\ loops = 0 /\ tests = 0
    /\ heap = <<>> /\ pool = <<>> /\ nextName = 0 /\ seed = <<>>
    /\ picks = 0 /\ chosen = 0 /\ itemA = NoItem /\ left = {} /\ changed = <<>>
    /\ test = <<>> /\ recorded = NothingRecorded
    /\ drawn = [n \in Names |-> 0]

-----------------------------------------------------------------------------
(* Constraint.getConstraintMap: every row of the csv file is entered for   *)
(* both of its parameters.  Entry 2i - 1 is row i as it stands, entry 2i   *)
(* the same the other way round.                                           *)

Entries ==
    [j \in 1..(2 * Len(setting.rows)) |->
        LET row == setting.rows[(j + 1) \div 2]
        IN  IF j % 2 = 1 THEN [from |-> row.a, to |-> row.b, kind |-> row.kind]
            ELSE [from |-> row.b, to |-> row.a, kind |-> row.kind]]

DependencyOf(name) == {j \in DOMAIN Entries : Entries[j].from = name}
First(indices) == Min(indices)

-----------------------------------------------------------------------------
(* SeedGenerator.generateSeed.                                             *)

Position(name) == CHOOSE i \in DOMAIN Mutable : Mutable[i] = name
InOrder(list) == \A i, j \in DOMAIN list : i < j => Position(list[i]) < Position(list[j])

\* Exercise guidance leaves some of the names, in their order, and at least one.
CandidateLists ==
    IF ~setting.guided THEN {Mutable}
    ELSE {list \in UNION {[1..n -> Names] : n \in 1..Len(Mutable)} : InOrder(list)}

Least(a, b) == IF a < b THEN a ELSE b
Sizes(candidates) ==
    {Least(k, Len(candidates)) : k \in IF setting.mutator = "Single" THEN {1} ELSE SeedSizes}

\* A shuffled list, cut to size.
Shuffled(candidates, size) ==
    {list \in [1..size -> NamesIn(candidates)] :
        \A i, j \in 1..size : list[i] = list[j] => i = j}

\* Mutant: the index passes over a name after every window.
SkippingIndex(from, size, count) ==
    LET to == from + size + 1 IN IF to >= count THEN 0 ELSE to

\* Where the window begins: an index beyond this list of candidates starts anew.
WindowStart(count) == IF nextName >= count THEN 0 ELSE nextName
Window(candidates, size) ==
    SubSeq(candidates, WindowStart(Len(candidates)) + 1,
           Least(Len(candidates), WindowStart(Len(candidates)) + size))
NextIndex(from, size, count) ==
    LET to == Least(count, from + size) IN IF to >= count THEN 0 ELSE to

FreshItem(name) == [name |-> name, type |-> TypeOf[name], value |-> Default[name]]

\* Of the drawn name i its entry j, where the other name is a parameter of the project.
RelatedEntries(names) ==
    {k \in 0..(Len(names) * Len(Entries) - 1) :
        LET entry == Entries[(k % Len(Entries)) + 1]
        IN  entry.from = names[(k \div Len(Entries)) + 1] /\ entry.to \in Names}

NewSeed(names) ==
    /\ heap' = heap \o [i \in DOMAIN names |-> FreshItem(names[i])]
    /\ seed' = [i \in DOMAIN names |-> Len(heap) + i]
    /\ left' = IF setting.plain THEN {} ELSE RelatedEntries(names)
    /\ pc' = "related"
    /\ UNCHANGED <<setting, loops, tests, pool, picks, chosen, itemA, changed, test, recorded>>

\* seed_pool_selection_ratio = 1 with seed_gen_seq_ratio = 0 is the plain setting.
FromPool ==
    /\ pc = "generate" /\ loops < MaxLoops /\ ~setting.plain
    /\ \E i \in DOMAIN pool : seed' = pool[i]
    /\ pc' = "mutate"
    /\ UNCHANGED <<campaign, heap, mutation, test, recorded>>

DrawAtRandom ==
    /\ pc = "generate" /\ loops < MaxLoops
    /\ \E candidates \in CandidateLists : \E size \in Sizes(candidates) :
        \E names \in Shuffled(candidates, size) : NewSeed(names)
    /\ UNCHANGED <<nextName, drawn>>

DrawInOrder ==
    /\ pc = "generate" /\ loops < MaxLoops /\ ~setting.plain
    /\ \E candidates \in CandidateLists : \E size \in Sizes(candidates) :
        LET names == Window(candidates, size)
            count == Len(candidates)
        IN  /\ NewSeed(names)
            /\ nextName' = NextIndex(WindowStart(count), size, count)
            /\ drawn' = [n \in Names |-> drawn[n] + IF n \in NamesIn(names) THEN 1 ELSE 0]

\* A name is added once for every entry, also where the seed has it already.
AddRelated ==
    /\ pc = "related" /\ left # {}
    /\ heap' = Append(heap, FreshItem(Entries[(First(left) % Len(Entries)) + 1].to))
    /\ seed' = Append(seed, Len(heap) + 1)
    /\ left' = left \ {First(left)}
    /\ UNCHANGED <<campaign, pc, picks, chosen, itemA, changed, test, recorded>>

EndDraw ==
    /\ pc = "related" /\ left = {}
    /\ pc' = "mutate"
    /\ UNCHANGED <<campaign, heap, seed, mutation, test, recorded>>

-----------------------------------------------------------------------------
(* NewValue.                                                               *)

\* Mutant: the number is not turned into a text.
GenValueRaw(type, value) == {IF type = "INT" THEN "a number" ELSE value}

\* genValue: the values it may return, none where it raises.  A generator that chooses
\* from a list, or changes a text, may come to the old value.
GenValue(type, value) ==
    CASE type = "BOOL"   -> {IF value = "True" THEN "False" ELSE "True"}
      [] type = "INT"    -> IF value \in Ints THEN Ints ELSE {}
      [] type = "FLOAT"  -> IF value \in Ints \cup Floats THEN Floats ELSE {}
      [] type = "CHOICE" -> Texts \cup {value}
      [] type = "KEEP"   -> {value}

Mutated(item) == {[item EXCEPT !.value = v] : v \in GenValue(item.type, item.value)}

\* Mutant: the parameters of a behavior dependency get one value, too.
ConstraintMethodCopying(kind, a, b) ==
    {<<a2, [b EXCEPT !.value = a2.value]>> : a2 \in Mutated(a)}

\* constraint_method: the pairs it may turn the two items into, none where it raises.
ConstraintMethod(kind, a, b) ==
    CASE kind \in {"Value Relationship Dependency", "Behavior Dependency"} ->
            Mutated(a) \X Mutated(b)
      [] kind = "Default Value Dependency" ->
            {<<a2, [b EXCEPT !.value = a2.value]>> : a2 \in Mutated(a)}
      [] kind = "Control Dependency" /\ a.type # "BOOL" /\ b.type = "BOOL" ->
            Mutated(a) \X {[b EXCEPT !.value = "True"]}
      [] OTHER -> Mutated(a) \X {b}

-----------------------------------------------------------------------------
(* mutate.                                                                 *)

At(i) == heap[seed[i]]

\* SmartMutator alternates between one mutation and as many as there are items.
Numbers ==
    CASE setting.mutator = "Single"  -> {1}
      [] setting.mutator = "Stacked" -> StackSizes
      [] setting.mutator = "Smart"   -> {1, Len(seed)}
      [] setting.mutator = "Ceit"    -> {}

StartMutation ==
    /\ pc = "mutate" /\ picks' \in Numbers
    /\ changed' = [i \in DOMAIN seed |-> NoItem]
    /\ pc' = "pick"
    /\ UNCHANGED <<campaign, heap, seed, chosen, itemA, left, test, recorded>>

Pick ==
    /\ pc = "pick" /\ picks > 0
    /\ \E i \in DOMAIN seed :
        /\ chosen' = i /\ left' = DependencyOf(At(i).name)
        /\ IF left' = {} THEN itemA' \in Mutated(At(i)) ELSE itemA' = At(i)
    /\ pc' = "relate"
    /\ UNCHANGED <<campaign, heap, seed, picks, changed, test, recorded>>

\* findConfItem
Holding(name) == {i \in DOMAIN seed : At(i).name = name}
Partner == Holding(Entries[First(left)].to)

\* The partner is not in the seed: a new value, from the old one of the seed.
RelateAlone ==
    /\ pc = "relate" /\ left # {} /\ Partner = {}
    /\ \E item \in Mutated(At(chosen)) : itemA' = [itemA EXCEPT !.value = item.value]
    /\ left' = left \ {First(left)}
    /\ UNCHANGED <<campaign, pc, heap, seed, picks, chosen, changed, test, recorded>>

RelateBoth ==
    /\ pc = "relate" /\ left # {} /\ Partner # {}
    /\ \E pair \in ConstraintMethod(Entries[First(left)].kind, itemA, At(First(Partner))) :
        /\ itemA' = pair[1]
        /\ changed' = [changed EXCEPT ![First(Partner)] = pair[2]]
    /\ left' = left \ {First(left)}
    /\ UNCHANGED <<campaign, pc, heap, seed, picks, chosen, test, recorded>>

EndPick ==
    /\ pc = "relate" /\ left = {}
    /\ changed' = [changed EXCEPT ![chosen] = itemA]
    /\ picks' = picks - 1
    /\ pc' = "pick"
    /\ UNCHANGED <<campaign, heap, seed, chosen, itemA, left, test, recorded>>

\* int() and float() raise ValueError on what they cannot read: the campaign ends.
Raise ==
    /\ \/ pc = "pick" /\ picks > 0 /\ \E i \in DOMAIN seed :
              DependencyOf(At(i).name) = {} /\ Mutated(At(i)) = {}
       \/ pc = "relate" /\ left # {} /\ Partner = {} /\ Mutated(At(chosen)) = {}
       \/ /\ pc = "relate" /\ left # {} /\ Partner # {}
          /\ ConstraintMethod(Entries[First(left)].kind, itemA, At(First(Partner))) = {}
    /\ pc' = "raised"
    /\ UNCHANGED <<campaign, heap, seed, mutation, test, recorded>>

\* The value that counts: of a name that occurs twice the reader of the file takes the last.
Effective(objects, list, name) ==
    LET at == {i \in DOMAIN list : objects[list[i]].name = name}
    IN  IF at = {} THEN NoValue ELSE objects[list[Max(at)]].value

\* Mutant: only the item that was chosen last is looked at.
CapturedChosen(objects, list) ==
    IF chosen = 0 THEN NothingRecorded ELSE [NothingRecorded EXCEPT ![objects[list[chosen]].name] = objects[list[chosen]].value]

\* captureMutationFromSeed
Captured(objects, list) ==
    [name \in Names |->
        LET at == {i \in DOMAIN list :
                     /\ objects[list[i]].name = name
                     /\ objects[list[i]].value # Effective(objects, seed, name)}
        IN  IF at = {} THEN NoValue ELSE objects[list[Max(at)]].value]

\* Mutant: the items are changed where they are.
ChangedInPlace ==
    [r \in DOMAIN heap |->
        IF \E i \in DOMAIN changed : seed[i] = r /\ changed[i] # NoItem
        THEN changed[CHOOSE i \in DOMAIN changed : seed[i] = r /\ changed[i] # NoItem]
        ELSE heap[r]]

\* itemA and itemB are copies: no object there is changes.
Untouched == heap

\* StackedMutator and SmartMutator share what they did not change.
Shared(i) == setting.mutator \in {"Stacked", "Smart"} /\ changed[i] = NoItem

Build(items) ==
    /\ heap' = Untouched \o items
    /\ test' = [i \in DOMAIN seed |-> IF Shared(i) THEN seed[i] ELSE Len(heap) + i]
    /\ recorded' = Captured(heap', test')
    /\ picks' = 0 /\ chosen' = 0 /\ itemA' = NoItem /\ changed' = <<>>
    /\ left' = CASE setting.project = "hadoop-common" -> DOMAIN Prepared
                 [] setting.project = "hbase" -> DOMAIN Prepared
                 [] OTHER -> {}
    /\ pc' = "prepare"
    /\ UNCHANGED <<campaign, seed>>

BuildTestcase ==
    /\ pc = "pick" /\ picks = 0
    /\ Build([i \in DOMAIN seed |-> IF changed[i] = NoItem THEN At(i) ELSE changed[i]])

\* CeitMutator: some misconfiguration of one item, whatever its type; without an option
\* for the name it raises TypeError.
CeitMutate ==
    /\ pc = "mutate" /\ setting.mutator = "Ceit"
    /\ \E i \in DOMAIN seed, v \in Values :
        /\ At(i).name \in setting.optioned
        /\ Build([j \in DOMAIN seed |-> IF j = i THEN [At(i) EXCEPT !.value = v] ELSE At(j)])

CeitRaise ==
    /\ pc = "mutate" /\ setting.mutator = "Ceit"
    /\ \E i \in DOMAIN seed : At(i).name \notin setting.optioned
    /\ pc' = "raised"
    /\ UNCHANGED <<campaign, heap, seed, mutation, test, recorded>>

-----------------------------------------------------------------------------
(* TestValidator and Fuzzer.loop.                                          *)

Prepare1 == Prepared[First(left)]
AddItem(item) == heap' = Append(heap, item) /\ test' = Append(test, Len(heap) + 1)

\* setOrAddConfItem: into the object of the list, whoever else holds it.
SetOrAdd(item) ==
    LET at == {i \in DOMAIN test : heap[test[i]].name = item.name}
    IN  IF at = {} THEN AddItem(item)
        ELSE heap' = [heap EXCEPT ![test[First(at)]] = item] /\ UNCHANGED test

\* addConfItem looks for an equal item, not for the name.
AddUnlessEqual(item) ==
    IF \E i \in DOMAIN test : heap[test[i]] = item THEN UNCHANGED <<heap, test>>
    ELSE AddItem(item)

\* prepareTestcaseForExecution, item by item.
Prepare ==
    /\ pc = "prepare" /\ left # {}
    /\ IF setting.project = "hbase" THEN AddUnlessEqual(Prepare1) ELSE SetOrAdd(Prepare1)
    /\ left' = left \ {First(left)}
    /\ UNCHANGED <<campaign, pc, seed, picks, chosen, itemA, changed, recorded>>

EndPrepare ==
    /\ pc = "prepare" /\ left = {}
    /\ pc' = "judge"
    /\ UNCHANGED <<campaign, heap, seed, mutation, test, recorded>>

Held(lists) == UNION {NamesIn(list) : list \in lists}

\* The unit gate was forced and the system test succeeded: the test case is a seed now.
\* An object that no list holds any more is gone.
Judge ==
    /\ pc = "judge"
    /\ pool' = pool \/ (Len(pool) < MaxPool /\ pool' = Append(pool, test))
    /\ IF tests + 1 < TestcasePerSeed
       THEN tests' = tests + 1 /\ pc' = "mutate" /\ UNCHANGED <<loops, seed>>
       ELSE tests' = 0 /\ pc' = "generate" /\ loops' = loops + 1 /\ seed' = <<>>
    /\ heap' = [r \in DOMAIN heap |->
          IF r \in Held(NamesIn(pool') \cup {seed'}) THEN heap[r] ELSE NoItem]
    /\ test' = <<>> /\ recorded' = NothingRecorded
    /\ UNCHANGED <<setting, nextName, drawn, mutation>>

-----------------------------------------------------------------------------
Generate == FromPool \/ DrawAtRandom \/ DrawInOrder \/ AddRelated \/ EndDraw
Mutate == \/ StartMutation \/ Pick \/ RelateAlone \/ RelateBoth \/ EndPick \/ Raise
          \/ BuildTestcase \/ CeitMutate \/ CeitRaise
Next == Generate \/ Mutate \/ Prepare \/ EndPrepare \/ Judge

Spec == Init /\ [][Next]_vars

-----------------------------------------------------------------------------
(* Properties.                                                             *)

PCs == {"generate", "related", "mutate", "pick", "relate", "prepare", "judge", "raised"}

\* The variables have their types, no list holds a reference to nothing, and a seed that
\* is mutated has an item to choose.
References == {r \in DOMAIN heap : heap[r] # NoItem}
TypeOK ==
    /\ setting \in SettingSet /\ pc \in PCs /\ loops \in Nat /\ tests \in Nat
    /\ heap \in Seq(Item \cup {NoItem}) /\ pool \in Seq(Seq(References)) /\ seed \in Seq(References)
    /\ nextName \in Nat /\ picks \in Nat /\ chosen \in Nat /\ left \subseteq Nat
    /\ itemA \in Item \cup {NoItem} /\ changed \in Seq(Item \cup {NoItem})
    /\ test \in Seq(References) /\ recorded \in [Names -> Values \cup {NoValue}]
    /\ drawn \in [Names -> Nat]
    /\ pc \notin {"generate", "raised"} => seed # <<>>

\* A seed in the pool keeps the values it was accepted with, though its objects are also
\* those of test cases that are mutated and prepared, and prepareTestcaseForExecution
\* writes into the objects it finds.
PoolSeedsFrozen ==
    [][\A p \in DOMAIN pool :
          /\ p \in DOMAIN pool' /\ pool'[p] = pool[p]
          /\ \A i \in DOMAIN pool[p] : heap'[pool[p][i]] = heap[pool[p][i]]]_vars

PreparedNames == {Prepared[i].name : i \in DOMAIN Prepared}
Twice(name) == Cardinality(Holding(name)) > 1

\* What is recorded of a mutation is what the test case is run with: every value that
\* counts and differs from the seed's is recorded, and nothing else is.  Two exceptions:
\* a prepared value is written over after the recording, and of a name that the seed holds
\* twice an item that does not count may be recorded, too.
MutationRecorded ==
    pc = "judge" =>
        \A n \in Names \ PreparedNames :
            LET before == Effective(heap, seed, n)
                after  == Effective(heap, test, n)
            IN  IF after # before THEN recorded[n] = after
                ELSE recorded[n] = NoValue \/ Twice(n)

\* The names that a value of another type may get into.
Crossed ==
    {n \in Names : \E j \in DOMAIN Entries :
        /\ Entries[j].kind = "Default Value Dependency" /\ Entries[j].to = n
        /\ Entries[j].from \in Names /\ TypeOf[Entries[j].from] # TypeOf[n]}

\* The mutator raises, and so ends the campaign, only where the relations have a default
\* value dependency between parameters of different types: by copying such a value, which
\* may enter the pool, they let an unreadable one reach int() or float() in a later loop.
RaisesOnlyCrossed == pc = "raised" /\ setting.mutator # "Ceit" => Crossed # {}

\* Without guidance the names are drawn in turn: none is drawn in order twice before every
\* other one was, though the index is kept over windows of several sizes.
DrawnInTurn == ~setting.guided => \A m, n \in Names : drawn[m] <= drawn[n] + 1
=============================================================================
