----------------------------- MODULE DeclTable ------------------------------
(***************************************************************************)
(* The declaration table of the command context                            *)
(* (src/src/cmd_context/decl_table.rs): open addressing with linear        *)
(* probing, tombstones, growth before an insertion, an in-place purge and  *)
(* a reset that may shrink it.  A name is held once, with the number of    *)
(* its declarations.                                                       *)
(***************************************************************************)
EXTENDS Integers, Sequences, FiniteSetsExt

CONSTANTS
    Names,             \* the names that are declared
    Hash,              \* Hash[n]: symbol_hash(n)
    InitialCapacity,   \* 8
    SmallTable,        \* SMALL_TABLE_CAPACITY: no purge of fewer tombstones
    ShrinkAbove,       \* 16: reset halves no smaller table
    Free, Deleted,     \* the states of a slot that holds no name
    MaxCount           \* bound: the declarations of one name

ASSUME DeclTableAssumption ==
    /\ \A n \in Names : Hash[n] \in Nat
    /\ InitialCapacity \in {8, 16} /\ ShrinkAbove \in Nat /\ ShrinkAbove >= InitialCapacity
    /\ SmallTable \in Nat /\ MaxCount \in Nat
    /\ Free # Deleted /\ {Free, Deleted} \cap Names = {}

VARIABLES
    slots, declSize, deleted,
    declLast               \* history: the last call

declVars == <<slots, declSize, deleted, declLast>>

Used(name, count) == [name |-> name, count |-> count]
Empty(capacity) == [i \in 1 .. capacity |-> Used(Free, 0)]

DeclInit == slots = Empty(InitialCapacity) /\ declSize = 0 /\ deleted = 0 /\ declLast = <<"none">>

Holds(table, state) == {i \in DOMAIN table : table[i].name = state}
UsedSlots(table) == {i \in DOMAIN table : table[i].name \in Names}

\* The slot probed for a name after k others.
At(table, n, k) == ((Hash[n] + k) % Len(table)) + 1

\* The probes that end a search for n: its own slot or a free one.
Ends(table, n) ==
    {k \in 0 .. Len(table) - 1 : table[At(table, n, k)].name \in {n, Free}}
End(table, n) == Min(Ends(table, n))

\* A slot goes where the search for its name ends.
Placed(table, slot) == [table EXCEPT ![At(table, slot.name, End(table, slot.name))] = slot]

\* Every name placed again, in slot order, in a fresh table.
MoveTable(table, capacity) ==
    LET moved[i \in 0 .. Len(table)] ==
            IF i = 0 THEN Empty(capacity)
            ELSE IF table[i].name \in Names THEN Placed(moved[i - 1], table[i]) ELSE moved[i - 1]
    IN  moved[Len(table)]

Crowded == (declSize + deleted) * 4 > Len(slots) * 3

\* The tombstones passed on the way.
Tombs(table, n) ==
    {k \in 0 .. End(table, n) - 1 : table[At(table, n, k)].name = Deleted}

\* A new name goes to the last tombstone passed, else to the free slot.
Put(table, n, gone) ==
    LET at == IF Tombs(table, n) # {} THEN Max(Tombs(table, n)) ELSE End(table, n)
    IN  /\ slots' = [table EXCEPT ![At(table, n, at)] = Used(n, 1)]
        /\ deleted' = IF Tombs(table, n) # {} THEN gone - 1 ELSE gone
        /\ declSize' = declSize + 1

DeclInsert(n) ==
    LET table == IF Crowded THEN MoveTable(slots, 2 * Len(slots)) ELSE slots
        gone == IF Crowded THEN 0 ELSE deleted
        at == At(table, n, End(table, n))
    IN  IF Ends(table, n) = {}
        THEN slots' = table /\ deleted' = gone /\ UNCHANGED declSize
        ELSE IF table[at].name = n
        THEN /\ table[at].count < MaxCount
             /\ slots' = [table EXCEPT ![at].count = @ + 1]
             /\ deleted' = gone /\ UNCHANGED declSize
        ELSE Put(table, n, gone)

\* Slip: the slot is freed whatever follows it.
VacateSlip(i) ==
    /\ slots' = [slots EXCEPT ![i] = Used(Free, 0)]
    /\ UNCHANGED deleted
    /\ declSize' = declSize - 1

\* The last declaration of a name goes: its slot is free when the next one is,
\* else a tombstone; many tombstones are purged.
Vacate(i) ==
    LET free == slots[(i % Len(slots)) + 1].name = Free
        left == [slots EXCEPT ![i] = Used(IF free THEN Free ELSE Deleted, 0)]
        gone == IF free THEN deleted ELSE deleted + 1
        purge == ~free /\ gone > declSize - 1 /\ gone > SmallTable
    IN  /\ slots' = IF purge THEN MoveTable(left, Len(slots)) ELSE left
        /\ deleted' = IF purge THEN 0 ELSE gone
        /\ declSize' = declSize - 1

Erase(n) ==
    LET at == At(slots, n, End(slots, n))
    IN  IF Ends(slots, n) = {} \/ slots[at].name # n THEN UNCHANGED <<slots, declSize, deleted>>
        ELSE IF slots[at].count > 1
        THEN slots' = [slots EXCEPT ![at].count = @ - 1] /\ UNCHANGED <<declSize, deleted>>
        ELSE Vacate(at)

Shrunk ==
    /\ Len(slots) > ShrinkAbove
    /\ Cardinality(Holds(slots, Free)) * 4 > Len(slots) * 3

Reset ==
    /\ declSize # 0 \/ deleted # 0
    /\ slots' = Empty(IF Shrunk THEN Len(slots) \div 2 ELSE Len(slots))
    /\ declSize' = 0 /\ deleted' = 0

CallInsert(n) == DeclInsert(n) /\ declLast' = <<"insert", n>>
CallErase(n) == Erase(n) /\ declLast' = <<"erase", n>>
CallReset == Reset /\ declLast' = <<"reset">>

DeclNext == (\E n \in Names : CallInsert(n) \/ CallErase(n)) \/ CallReset

DeclSpec == DeclInit /\ [][DeclNext]_declVars

-----------------------------------------------------------------------------
(* Properties *)

\* A capacity is a power of two, never below the first: the mask of a hash and
\* the modulo of the model agree.
DeclTypeOK ==
    /\ \E e \in 0 .. 6 : Len(slots) = InitialCapacity * 2 ^ e
    /\ slots \in Seq({Used(Free, 0), Used(Deleted, 0)} \cup [name : Names, count : 1 .. MaxCount])
    /\ declSize \in Nat /\ deleted \in Nat

\* The counters that decide growth and purge are those of the table, through
\* growth, tombstones taken again, purges and resets.
Accounted ==
    /\ declSize = Cardinality(UsedSlots(slots))
    /\ deleted = Cardinality(Holds(slots, Deleted))

\* A slot stays free, so that a search ends and an insertion, which gives up
\* silently after one turn, never loses a name (decl_table.rs:87).
RoomLeft == Holds(slots, Free) # {}

\* Each name in the table is found from its hash, and only once: no erasure
\* cuts a probe chain and no tombstone is taken before the name was looked for.
Found ==
    \A i \in UsedSlots(slots) :
        LET n == slots[i].name IN Ends(slots, n) # {} /\ At(slots, n, End(slots, n)) = i

\* The probe sequences of the table are sound, in all its layouts.
ProbesSound == Accounted /\ RoomLeft /\ Found

\* The declarations of n, one slot holding its name.
CountOf(table, n) ==
    LET at == {i \in DOMAIN table : table[i].name = n}
    IN  IF at = {} THEN 0 ELSE table[CHOOSE i \in at : TRUE].count

\* The table is the bag of declared names, however it is laid out.
Bag == INSTANCE NameBag WITH
    declared <- [n \in Names |-> CountOf(slots, n)],
    last <- declLast
Counts == Bag!Spec
=============================================================================
